--------------------------- MODULE MCTcpAssembly ---------------------------
(* TcpAssembly for TLC; the .cfg files give the constants.                 *)
EXTENDS TcpAssembly, TLC

\* The flows are interchangeable: no definition chooses one of them.
Symmetry == Permutations(Keys)
=============================================================================
