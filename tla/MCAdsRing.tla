----------------------------- MODULE MCAdsRing -----------------------------
(***************************************************************************)
(* Four slots instead of sixteen, and eleven blocks: the ring is full, has   *)
(* lost its oldest block several times and wraps around more than once.     *)
(***************************************************************************)
EXTENDS AdsRing

=============================================================================
