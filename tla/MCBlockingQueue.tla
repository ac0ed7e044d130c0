-------------------------- MODULE MCBlockingQueue --------------------------
(***************************************************************************)
(* Two producers, one consumer and a bound that is raised from 1 to 2 are  *)
(* enough for a waiting producer to be overtaken by the other one, for a    *)
(* flush to race a resumed push, and for a timeout to find room.           *)
(***************************************************************************)
EXTENDS BlockingQueue

=============================================================================
