---------------------------- MODULE LayerParser ----------------------------
(***************************************************************************)
(* parser.go and layers_decoder.go: a DecodingLayerParser, which is used   *)
(* for one packet after the other, with DecodingLayers added in between,   *)
(* and the three containers it may look its DecodingLayers up in.  Frames  *)
(* are those of PacketDecoding; a DecodingLayer whose packet decoder fails *)
(* after AddLayer ("late") fails in DecodeFromBytes.                       *)
(***************************************************************************)
EXTENDS PacketDecoding

CONSTANTS
    first,       \* the type that every packet starts with
    Number,      \* Number[t]: the LayerType as a number, 1 or more
    Decoders,    \* Decoders[d]: CanDecode of DecodingLayer d, a set of types
    IgnoreUnsupported

Types == DOMAIN Number
NoDecoder == "no decoder"

\* A DecodingLayer has no way to pass a nil decoder on.
ParserFrames ==
    {fr \in Frames : fr[1].type = first /\ \A i \in DOMAIN fr : fr[i].end # "nil"}

ASSUME ParserAssumption ==
    /\ Number \in [Types -> Nat \ {0}]
    /\ \A t, u \in Types : Number[t] = Number[u] => t = u
    /\ \A d \in DOMAIN Decoders :
        d # NoDecoder /\ Decoders[d] \subseteq Types /\ IsFiniteSet(Decoders[d])
    /\ first \in Types /\ IgnoreUnsupported \in BOOLEAN
    /\ \A fr \in ParserFrames : \A i \in DOMAIN fr : fr[i].type \in Types

VARIABLES
    sparse, array, map,   \* the containers, filled alike
    data,                 \* the frame that was decoded last
    decoded,              \* the slice of the caller
    err,                  \* what DecodeLayers returned
    Truncated

parserVars == <<sparse, array, map, data, decoded, err, Truncated>>

\* DecodingLayerSparse: indexed by the type, from 0 on; Put makes it larger.
PutSparse(dl, d) ==
    [i \in 1..Max({Len(dl)} \union {Number[t] + 1 : t \in Decoders[d]}) |->
        IF \E t \in Decoders[d] : Number[t] = i - 1 THEN d
        ELSE IF i \in DOMAIN dl THEN dl[i] ELSE NoDecoder]

DecoderSparse(dl, t) == IF Number[t] < Len(dl) THEN dl[Number[t] + 1] ELSE NoDecoder

\* DecodingLayerArray: pairs, searched from the front; Put replaces or appends.
PutArray(dl, d) ==
    LET known == {dl[i].typ : i \in DOMAIN dl}
        kept == [i \in DOMAIN dl |-> IF dl[i].typ \in Decoders[d]
                                     THEN [typ |-> dl[i].typ, dec |-> d] ELSE dl[i]]
        more == SetToSeq(Decoders[d] \ known)
    IN  kept \o [i \in DOMAIN more |-> [typ |-> more[i], dec |-> d]]

DecoderArray(dl, t) ==
    LET at == {i \in DOMAIN dl : dl[i].typ = t}
    IN  IF at = {} THEN NoDecoder ELSE dl[Min(at)].dec

\* DecodingLayerMap.
PutMap(dl, d) == [t \in Types |-> IF t \in Decoders[d] THEN d ELSE dl[t]]
DecoderMap(dl, t) == dl[t]

\* The loop of LayersDecoder; unsupported holds if it stopped at a type that
\* is not LayerTypeZero and has no decoder.
decodeStep(fr, acc, d) ==
    LET i == Len(acc.decoded) + 1
        typ == IF i = 1 THEN first ELSE d.type
    IN  IF acc.end THEN acc
        ELSE IF DecoderMap(map, typ) = NoDecoder
             THEN [acc EXCEPT !.end = TRUE, !.err = "unsupported"]
        ELSE IF d.end \in {"error", "late", "panic"}
             THEN [acc EXCEPT !.end = TRUE, !.err = "error", !.trunc = @ \/ d.trunc]
        ELSE [decoded |-> Append(acc.decoded, typ), trunc |-> acc.trunc \/ d.trunc,
              end |-> i = Len(fr) \/ d.end # "next", err |-> "nil"]

ParserInit ==
    /\ sparse = <<>> /\ array = <<>>
    /\ map = [t \in Types |-> NoDecoder]
    /\ data = <<>> /\ decoded = <<>> /\ err = "nil" /\ Truncated = FALSE

\* AddDecodingLayer; LayersDecoder is called again for the new container.
AddDecodingLayer(d) ==
    /\ sparse' = PutSparse(sparse, d)
    /\ array' = PutArray(array, d)
    /\ map' = PutMap(map, d)
    /\ UNCHANGED <<data, decoded, err, Truncated>>

Reported(e) == IF e = "unsupported" /\ IgnoreUnsupported THEN "nil" ELSE e

\* What the loop returns for a frame; trunc is what Truncated is set to first.
decodeAll(fr, trunc) ==
    LET after[n \in 0..Len(fr)] ==
            IF n = 0 THEN [decoded |-> <<>>, trunc |-> trunc, end |-> FALSE, err |-> "nil"]
            ELSE decodeStep(fr, after[n - 1], fr[n])
    IN  after[Len(fr)]

\* Mutant: what the last packet set is not reset.
DecodeLayersSticky(fr) ==
    LET end == decodeAll(fr, Truncated)
    IN  /\ data' = fr /\ decoded' = end.decoded
        /\ Truncated' = end.trunc /\ err' = Reported(end.err)
        /\ UNCHANGED <<sparse, array, map>>

\* Without a decoder for the first type the caller's slice is left alone.
DecodeLayers(fr) ==
    LET end == decodeAll(fr, FALSE)
    IN  /\ data' = fr
        /\ decoded' = IF DecoderMap(map, first) = NoDecoder THEN decoded ELSE end.decoded
        /\ Truncated' = end.trunc
        /\ err' = Reported(end.err)
        /\ UNCHANGED <<sparse, array, map>>

ParserNext ==
    \/ \E d \in DOMAIN Decoders : AddDecodingLayer(d)
    \/ \E fr \in ParserFrames : DecodeLayers(fr)

\* The parser alone, without a packet.
ParserSpec == ParserInit /\ [][ParserNext /\ UNCHANGED decodeVars]_<<decodeVars, parserVars>>

-----------------------------------------------------------------------------
\* The three containers find the same DecodingLayer for every type, in
\* whatever order DecodingLayers that overlap were put into them (Put, Decoder).
ContainersAgree ==
    \A t \in Types : /\ DecoderSparse(sparse, t) = DecoderMap(map, t)
                     /\ DecoderArray(array, t) = DecoderMap(map, t)

\* If there is a decoder for the first type, then right after a call the slice
\* holds the layers of an eager packet of the same bytes, up to the first one
\* that has no decoder or whose decoder fails; Truncated is set only if the
\* eager packet has it; and without an error or a missing decoder the packet
\* has no failure (DecodeLayers, LayersDecoder).  And none of this depends on
\* the kind of the container.
ParserAsPacket ==
    [][/\ ContainersAgree'
       /\ data' # <<>> /\ UNCHANGED map /\ DecoderMap(map, first) # NoDecoder =>
        LET e == initialDecode(data')
            n == Len(decoded')
        IN  /\ IsPrefix(decoded', e.layers)
            /\ Truncated' => e.truncated
            /\ err' = "nil" /\ ~IgnoreUnsupported =>
                 e.failure = None /\ decoded' = e.layers /\ Truncated' = e.truncated
            /\ n < Len(e.layers) =>
                 \/ data'[n + 1].end \in {"error", "panic", "late"}
                 \/ DecoderMap(map, e.layers[n + 1]) = NoDecoder]_<<decodeVars, parserVars>>
=============================================================================
