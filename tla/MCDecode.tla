------------------------------ MODULE MCDecode ------------------------------
(* Packets and the parser for TLC, in behaviours of one or of the other.    *)
EXTENDS LayerParser

Kind(t, r, tr, e) == [type |-> t, role |-> r, trunc |-> tr, end |-> e]

MCKinds == {
    Kind("eth", "link", FALSE, "next"), Kind("ip", "network", FALSE, "next"),
    Kind("ip", "network", TRUE, "next"), Kind("tcp", "transport", FALSE, "nil"),
    Kind("app", "application", FALSE, "stop"), Kind("udp", "transport", FALSE, "late"),
    Kind("ip", "network", TRUE, "error"), Kind("app", "none", FALSE, "panic")}

MCFrames == UNION {[1..n -> MCKinds] : n \in 1..3}
MCClasses == {{"ip"}, {"tcp", "udp"}, {"failure"}}

MCNumber == [ip |-> 1, eth |-> 2, tcp |-> 4, udp |-> 5, app |-> 6]
MCDecoders == [ip |-> {"ip"}, ports |-> {"tcp", "udp"}, app |-> {"app", "ip"}]

AnyFrame == CHOOSE fr \in Frames : TRUE

MCInit == DecodeInit /\ ParserInit

MCNext ==
    \/ data = <<>> /\ sparse = <<>> /\ DecodeNext /\ UNCHANGED parserVars
    \/ frame = AnyFrame /\ lazy = NewPacket(1) /\ ParserNext /\ UNCHANGED decodeVars

MCSpec == MCInit /\ [][MCNext]_<<decodeVars, parserVars>>
=============================================================================
