---------------------------- MODULE TcpSequence ----------------------------
(***************************************************************************)
(* TCP sequence numbers as the two reassembly packages handle them: an     *)
(* int64 that holds a 32-bit sequence number or invalidSequence (-1), with *)
(* a signed distance and an addition that wrap.                            *)
(*                                                                         *)
(* Quarter is uint32Size/4 (2^30 in the code), so that the size of the     *)
(* sequence space is 4 * Quarter and everything below is linear in it.     *)
(***************************************************************************)
EXTENDS Integers

CONSTANT Quarter

ASSUME QuarterAssumption == Quarter \in Nat \ {0}

\* uint32Size
SeqSpace == 4 * Quarter

invalidSequence == -1

Sequence == 0 .. SeqSpace - 1

\* tcpassembly's Sequence.Difference: how far t is ahead of s.  Only a pair
\* with one side in the top quarter and the other in the bottom quarter is
\* taken to have wrapped.
Difference(s, t) ==
    IF s > SeqSpace - Quarter /\ t < Quarter
    THEN (t + SeqSpace) - s
    ELSE IF t > SeqSpace - Quarter /\ s < Quarter
         THEN t - (s + SeqSpace)
         ELSE t - s

\* Sequence.Add: (s + n) & (uint32Size - 1).
Add(s, n) == (s + n) % SeqSpace
=============================================================================
