------------------------------ MODULE LcmDefrag ------------------------------
(***************************************************************************)
(* defrag/lcmdefrag/lcmdefrag.go: the LCMDefragmenter.  One goroutine      *)
(* calls Defrag, with a fragment or with nil; between the calls time       *)
(* passes.  A fragment is its FragmentNumber, 0..(TotalFragments - 1).     *)
(***************************************************************************)
EXTENDS Integers, FiniteSets

CONSTANTS
    Messages,    \* the sequence numbers
    Total,       \* Total[s]: TotalFragments of message s
    Timeout      \* 3 s, in ticks

ASSUME LcmAssumption == Total \in [Messages -> Nat] /\ Timeout \in Nat

VARIABLES
    fed,         \* the messages that are sent in this behaviour
    packets,     \* packets[s]: the lcmPacket of s, or NoPacket
    out          \* out[s]: what the last call for s returned, <<>> for nil

lcmVars == <<fed, packets, out>>

NoPacket == [recFrags |-> 0]
newLCMPacket == [recFrags |-> 0, frags |-> {}, done |-> FALSE, age |-> 0]

Known(ps) == {s \in Messages : ps[s] # NoPacket}

\* Mutant: a message that was returned stays.
cleanUpOld(ps) ==
    [s \in Messages |-> IF s \in Known(ps) /\ ps[s].age > Timeout
                        THEN NoPacket ELSE ps[s]]

\* Messages that were returned, or that nothing arrived for, are dropped.
cleanUp(ps) ==
    [s \in Messages |-> IF s \in Known(ps) /\ (ps[s].done \/ ps[s].age > Timeout)
                        THEN NoPacket ELSE ps[s]]

\* A fragment that comes again replaces the first one, and counts again.
append(lp, n) ==
    [lp EXCEPT !.frags = @ \union {n}, !.recFrags = @ + 1, !.age = 0]

\* The numbers of the fragments in the order they are put together.
Numbers(s) == [i \in 1..Total[s] |-> i - 1]

Complete(s, lp) == lp.recFrags = Total[s]

\* assemble: an error while a fragment is missing, and the message is kept.
Assembles(s, lp) == Complete(s, lp) /\ lp.frags = 0..(Total[s] - 1)

LcmInit ==
    /\ fed \in SUBSET Messages
    /\ packets = [s \in Messages |-> NoPacket]
    /\ out = [s \in Messages |-> <<>>]

\* Defrag of fragment n of message s.
Defrag(s, n) ==
    LET clean == cleanUp(packets)
        lp == append(IF s \in Known(clean) THEN clean[s] ELSE newLCMPacket, n)
    IN  /\ s \in Known(clean) => clean[s].recFrags <= Total[s] + 1  \* bound
        /\ packets' = [clean EXCEPT ![s] = [lp EXCEPT !.done = Assembles(s, lp)]]
        /\ out' = [out EXCEPT ![s] = IF Assembles(s, lp) THEN Numbers(s) ELSE <<>>]
        /\ UNCHANGED fed

\* Defrag of nil, or of a message in one packet, which is returned as it is.
DefragNil ==
    /\ packets' = cleanUp(packets)
    /\ UNCHANGED <<fed, out>>

\* A tick of the clock; ages past the timeout are all alike.
Tick ==
    /\ packets' = [s \in Messages |->
                     IF s \in Known(packets) /\ packets[s].age <= Timeout
                     THEN [packets[s] EXCEPT !.age = @ + 1] ELSE packets[s]]
    /\ UNCHANGED <<fed, out>>

LcmNext ==
    \/ \E s \in fed : \E n \in 0..(Total[s] - 1) : Defrag(s, n)
    \/ DefragNil
    \/ Tick

LcmSpec == LcmInit /\ [][LcmNext]_lcmVars

-----------------------------------------------------------------------------
\* The messages implement Datagram.  A fragment that comes again is counted
\* again (append), so from then on recFrags is ahead of the fragments.
Message == INSTANCE Datagram WITH
    Flows <- Messages,
    Parts <- [s \in Messages |-> 0..(Total[s] - 1)],
    Whole <- [s \in Messages |-> Numbers(s)],
    Refused <- [s \in Messages |-> {}],
    Once <- Messages,
    got <- [s \in Messages |->
              IF s \notin Known(packets) \/ packets[s].done THEN {} ELSE packets[s].frags],
    twice <- {s \in Known(packets) : /\ ~packets[s].done
                                     /\ packets[s].recFrags > Cardinality(packets[s].frags)},
    old <- {s \in Known(packets) : packets[s].age > Timeout},
    returned <- out

\* A message is returned by the call that brings its last missing fragment, in
\* the order of the fragment numbers and never in part, if no fragment of it
\* came twice since it was begun, and otherwise by none; after a timeout it is
\* begun anew (Defrag, append, assemble, cleanUp).
LcmRefines == Message!Spec
=============================================================================
