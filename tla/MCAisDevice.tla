---------------------------- MODULE MCAisDevice ----------------------------
(***************************************************************************)
(* Two blocks of three bytes: reads of one to five bytes leave a block begun, *)
(* end it exactly, end it and begin the next, and wrap around.                *)
(***************************************************************************)
EXTENDS AisDevice

=============================================================================
