SPECIFICATION MCSpec
CONSTANTS
    Frames <- MCFrames
    Classes <- MCClasses
    first = "ip"
    Number <- MCNumber
    Decoders <- MCDecoders
    IgnoreUnsupported = FALSE
INVARIANT LazyAsEager
PROPERTY ParserAsPacket
