--------------------------- MODULE RecentVessels ---------------------------
(***************************************************************************)
(* What the ship database promises: it knows the Size vessels heard last,   *)
(* the most recent first.                                                   *)
(***************************************************************************)
EXTENDS Naturals, Sequences

CONSTANTS Mmsi,   \* the vessels
          Unused, \* none of them
          Size    \* how many of them are kept

VARIABLES vessel, \* the vessel heard last
          recent

Init == vessel = Unused /\ recent = <<>>

Heard(m) ==
  /\ vessel' = m
  /\ \/ \E i \in 1 .. Len(recent) :
          /\ recent[i] = m
          /\ recent' = <<m>> \o SubSeq(recent, 1, i - 1) \o SubSeq(recent, i + 1, Len(recent))
     \/ /\ \A i \in 1 .. Len(recent) : recent[i] # m
        /\ recent' = <<m>> \o (IF Len(recent) < Size THEN recent ELSE SubSeq(recent, 1, Size - 1))

Spec == Init /\ [][\E m \in Mmsi : Heard(m)]_<<vessel, recent>>
=============================================================================
