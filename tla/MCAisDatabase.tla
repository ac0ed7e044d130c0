--------------------------- MODULE MCAisDatabase ---------------------------
(***************************************************************************)
(* Three ships for four vessels, so that a vessel is evicted and comes back, *)
(* and three points, so that a path is overwritten from its old end while the *)
(* points of an earlier visit are still in the ring.                        *)
(***************************************************************************)
EXTENDS AisDatabase, TLC

CONSTANTS v1, v2, v3, v4

Vessels == {v1, v2, v3, v4}

\* One position, far from no position at all.
Positions == {0}

\* A class A or B position, one that is not available, and a static message.
Reports == {<<0, TRUE>>, <<NoPosition, TRUE>>, <<Absent, FALSE>>}

Symmetric == Permutations(Vessels)
=============================================================================
