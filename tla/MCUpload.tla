------------------------------ MODULE MCUpload ------------------------------
(* A worker that records two blocks and the upload process beside it. A file  *)
(* holds one mono block and a part of a second, or one stereo block.          *)
EXTENDS Upload

MCBlocks == {[channels |-> 1, samples |-> 3], [channels |-> 2, samples |-> 2]}
=============================================================================
