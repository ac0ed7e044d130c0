----------------------------- MODULE FifoQueue -----------------------------
(***************************************************************************)
(* What a queue between two threads of the receiver promises, whatever     *)
(* locks and condition variables implement it: items leave in the order in *)
(* which they were accepted, each of them once, and no more than the       *)
(* current bound are held.  Items may also be thrown away, but only all at *)
(* once (flush).  ThreadBlockingQueue is shown to implement this.          *)
(***************************************************************************)
EXTENDS Naturals, Sequences

CONSTANTS Item,      \* what can be queued
          Bound      \* the bounds set_max_num_items may be called with

VARIABLES accepted,  \* every item ever accepted, in order
          left,      \* how many of them have left the queue
          delivered, \* the items handed to consumers, in order
          cap        \* the current bound

vars == <<accepted, left, delivered, cap>>

Init == /\ accepted = <<>>
        /\ left = 0
        /\ delivered = <<>>
        /\ cap = 1

Accept == /\ Len(accepted) - left < cap
          /\ \E x \in Item : accepted' = Append(accepted, x)
          /\ UNCHANGED <<left, delivered, cap>>

Deliver == /\ left < Len(accepted)
           /\ left' = left + 1
           /\ delivered' = Append(delivered, accepted[left + 1])
           /\ UNCHANGED <<accepted, cap>>

Drop == /\ left' = Len(accepted)
        /\ UNCHANGED <<accepted, delivered, cap>>

Raise == /\ \E n \in Bound : n > cap /\ cap' = n
         /\ UNCHANGED <<accepted, left, delivered>>

Next == Accept \/ Deliver \/ Drop \/ Raise

Spec == Init /\ [][Next]_vars
=============================================================================
