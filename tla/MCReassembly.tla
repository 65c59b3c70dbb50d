---------------------------- MODULE MCReassembly ----------------------------
(* One direction with four bytes, the other only opens and closes; and the *)
(* state machine of tcpcheck.go.  A behaviour is one of the former or one  *)
(* of the latter.                                                          *)
EXTENDS Reassembly, TcpCheck
MCLength == [d \in Dirs |-> IF d = "c2s" THEN 4 ELSE 0]
MCISN == [d \in Dirs |-> 3]
\* The first byte has the largest sequence number.
MCISNWrap == [d \in Dirs |-> 14]
Unlimited == [conn |-> 0, total |-> 0]
MCOptions == {Unlimited, [conn |-> 2, total |-> 3]}
MCKeeps == {-1, 0}

MCInit == Init /\ CheckInit

MCNext ==
    \/ CheckInit /\ ~missing /\ Next /\ UNCHANGED checkVars
    \/ Init /\ limit = Unlimited /\ CheckNext /\ UNCHANGED vars

MCSpec == MCInit /\ [][MCNext]_<<vars, checkVars>>
=============================================================================
