------------------------------ MODULE MCSender ------------------------------
(* Two threads and one connection of Sender, for TLC.                       *)
EXTENDS Sender, TLC
=============================================================================
