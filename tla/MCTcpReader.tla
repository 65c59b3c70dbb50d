---------------------------- MODULE MCTcpReader ----------------------------
(* TcpReader for TLC: it is checked as it is, with constants from the cfg.  *)
EXTENDS TcpReader
=============================================================================
