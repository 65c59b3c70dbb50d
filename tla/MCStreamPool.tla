---------------------------- MODULE MCStreamPool ----------------------------
(* StreamPool for TLC, with the ways to spread packets over Assemblers.     *)
EXTENDS StreamPool, TLC

CONSTANTS a1, a2, k1, k2

\* Every Assembler is passed packets of every flow.
Shared == Assemblers \X Keys

\* One Assembler is passed all packets; the other may flush beside it.
OneFed == {a1} \X Keys

\* Assemblers and flows are handled alike by every action, and so are the
\* connection objects.
Symmetry == Permutations(Assemblers) \cup Permutations(Keys) \cup Permutations(Conns)
=============================================================================
