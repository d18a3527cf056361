----------------------------- MODULE MCBroadcast -----------------------------
(***************************************************************************)
(* Small rings for TLC.  Receivers write nothing the others read, so one   *)
(* receiver that may subscribe at any time stands for all of them.         *)
(***************************************************************************)
EXTENDS Broadcast
=============================================================================
