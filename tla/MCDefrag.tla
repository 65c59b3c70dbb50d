------------------------------ MODULE MCDefrag ------------------------------
(* The two defragmenters for TLC, in behaviours of one or of the other.     *)
EXTENDS IPv4Defrag, LcmDefrag

\* A packet with len bytes of payload at offset off, without options.
Pkt(off, len, mf) == [FragOffset |-> off, Length |-> 2 + len, IHL4 |-> 2,
                      MF |-> mf, DF |-> FALSE]

\* three: odd length; large: the largest datagram; short: its last fragment is
\* below the minimum; many: more fragments than a list may have; one: DF.
MCFragments == [
    three |-> {Pkt(0, 2, TRUE), Pkt(1, 2, TRUE), Pkt(2, 3, FALSE)},
    large |-> {Pkt(0, 6, TRUE), Pkt(3, 7, FALSE)},
    short |-> {Pkt(0, 4, TRUE), Pkt(2, 1, FALSE)},
    many  |-> {Pkt(0, 2, TRUE), Pkt(1, 2, TRUE), Pkt(2, 2, TRUE), Pkt(3, 2, FALSE)},
    one   |-> {[Pkt(0, 4, FALSE) EXCEPT !.DF = TRUE]}]

MCFlows == DOMAIN MCFragments
NoFlows == [c1 |-> {}, c2 |-> {}]
MCFeedings == {
    NoFlows,
    [c1 |-> {"three"}, c2 |-> {"short"}],
    [c1 |-> {"large", "one"}, c2 |-> {"three"}],
    [c1 |-> {"many"}, c2 |-> {"one"}]}

MCTotal == [m1 |-> 3, m2 |-> 2]

MCInit ==
    /\ Init /\ LcmInit
    /\ fed = IF feeds = NoFlows THEN Messages ELSE {}

MCNext ==
    \/ feeds # NoFlows /\ Next /\ UNCHANGED lcmVars
    \/ feeds = NoFlows /\ LcmNext /\ UNCHANGED vars

MCSpec == MCInit /\ [][MCNext]_<<vars, lcmVars>>
=============================================================================
