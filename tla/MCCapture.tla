----------------------------- MODULE MCCapture -----------------------------
(* Two handles of every pair of kinds, and a channel of one packet.        *)
EXTENDS PacketSource
MCModes == {"positive", "negative", "zero", "file"}
=============================================================================
