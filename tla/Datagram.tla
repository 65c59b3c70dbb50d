------------------------------ MODULE Datagram ------------------------------
(***************************************************************************)
(* What a defragmenter promises.  The parts of a datagram arrive in any    *)
(* order, some of them several times and some of them never.  A datagram   *)
(* is returned, whole, by the call that brings its last missing part, and  *)
(* by no other.  Parts get lost in two ways only: some are refused, and    *)
(* the parts of a datagram for which nothing arrived for some time, or of  *)
(* which there are too many, may be forgotten, all of them at once.        *)
(***************************************************************************)
CONSTANTS
    Flows,    \* what tells the datagrams apart
    Parts,    \* Parts[f]: the parts of the datagram of flow f
    Whole,    \* Whole[f]: its contents
    Refused,  \* Refused[f]: the parts of f that are never taken
    Once      \* the flows that are not returned once a part came twice

VARIABLES
    got,      \* got[f]: the parts of f that are kept
    old,      \* the flows that may be forgotten
    twice,    \* the flows of Once of which a part that is kept came again
    returned  \* returned[f]: what the last call for f returned, <<>> if nothing

vars == <<got, old, twice, returned>>

Init ==
    /\ got = [f \in Flows |-> {}]
    /\ old \in SUBSET Flows
    /\ twice = {}
    /\ returned = [f \in Flows |-> <<>>]

\* The parts that are left when the flows S are forgotten.
Without(S) == [f \in Flows |-> IF f \in S THEN {} ELSE got[f]]

\* Part p of flow f arrives; the flows S are forgotten before.
Receive(f, p, S) ==
    LET kept == Without(S) IN
    LET now == kept[f] \union {p}
        again == (twice \ S) \union (IF p \in kept[f] THEN {f} \intersect Once ELSE {})
        complete == now = Parts[f] /\ f \notin again
    IN
    /\ p \notin Refused[f] /\ S \subseteq old
    /\ got' = [kept EXCEPT ![f] = IF complete THEN {} ELSE now]
    /\ returned' = [returned EXCEPT ![f] = IF complete THEN Whole[f] ELSE <<>>]
    /\ twice' = again
    /\ old' \in SUBSET Flows

Forget(S) ==
    /\ S \subseteq old
    /\ got' = Without(S)
    /\ twice' = twice \ S
    /\ old' \in SUBSET Flows
    /\ UNCHANGED returned

\* Part p arrives when f is being forgotten, and goes with the other parts.
Lose(f, p) ==
    /\ f \in old /\ got[f] \union {p} # Parts[f]
    /\ got' = Without({f})
    /\ twice' = twice \ {f}
    /\ returned' = [returned EXCEPT ![f] = <<>>]
    /\ old' \in SUBSET Flows

\* A part that is never taken.
Refuse(f, p) ==
    /\ p \in Refused[f]
    /\ returned' = [returned EXCEPT ![f] = <<>>]
    /\ old' \in SUBSET Flows
    /\ UNCHANGED <<got, twice>>

\* Time passes, or a flow is heard of.
Age ==
    /\ old' \in SUBSET Flows
    /\ UNCHANGED <<got, twice, returned>>

Next ==
    \/ \E f \in Flows : \E p \in Parts[f] :
        \/ \E S \in SUBSET Flows : Receive(f, p, S)
        \/ Lose(f, p)
        \/ Refuse(f, p)
    \/ \E S \in SUBSET Flows : Forget(S)
    \/ Age

Spec == Init /\ [][Next]_vars
=============================================================================
