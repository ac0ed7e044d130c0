---------------------------- MODULE MCSupervisor ----------------------------
(***************************************************************************)
(* The program has exactly two children; two other signals are enough for   *)
(* the master to write a second command to an upload process that is still  *)
(* there and a third one to an upload process that is gone, three stops and *)
(* continuations for it to leave both children or to count past 2.          *)
(***************************************************************************)
EXTENDS Supervisor

=============================================================================
