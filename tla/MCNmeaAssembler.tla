-------------------------- MODULE MCNmeaAssembler --------------------------
(***************************************************************************)
(* Two talkers, two channels and two sequence identifiers: the parts of     *)
(* four sources interleave, and a part may belong to the message before or  *)
(* the message after.  A message of three parts can lack its middle one.    *)
(***************************************************************************)
EXTENDS NmeaAssembler

MCCounts == {1, 2, 3}
MCNumbers == 0 .. 3

\* Nothing tells two channels, two talkers or two identifiers apart.
Symmetry == Permutations(Channels) \cup Permutations(Talkers) \cup Permutations(IDs)
=============================================================================
