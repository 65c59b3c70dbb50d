------------------------------ MODULE Wrapping ------------------------------
(***************************************************************************)
(* What a SerializeBuffer promises: the bytes collected so far, to which   *)
(* bytes are added in front or at the end, until they are cleared.         *)
(***************************************************************************)
EXTENDS Sequences, Naturals

CONSTANTS Tokens, MaxBytes

VARIABLES bytes

Repeat(tok, num) == [i \in 1..num |-> tok]

Init == bytes = <<>>

\* A layer wraps the bytes: head bytes in front of them, tail bytes behind.
Wrap(tok, head, tail) == bytes' = Repeat(tok, head) \o bytes \o Repeat(tok, tail)

Clear == bytes' = <<>>

Next ==
    \/ \E tok \in Tokens, head, tail \in 0..MaxBytes : Wrap(tok, head, tail)
    \/ Clear

Spec == Init /\ [][Next]_bytes
=============================================================================
