---------------------------- MODULE MCTcpListener ----------------------------
(* Two slots for two callers, who may follow each other in the same slot or be    *)
(* in both; two broadcasts, of one sender in turn or of two at a time; a slot      *)
(* holds one and a half of the messages of two bytes.                              *)
EXTENDS TcpListener
=============================================================================
