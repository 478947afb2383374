----------------------------- MODULE MCReceiver -----------------------------
(* Small instances of Receiver for TLC.                                     *)
EXTENDS Receiver
=============================================================================
