------------------------ MODULE BlockingQueueProofs ------------------------
(***************************************************************************)
(* The inductive invariant of BlockingQueue, for every number of producers *)
(* and consumers and every bound, and the refinement of FifoQueue.         *)
(***************************************************************************)
EXTENDS BlockingQueue, TLAPS

TypeInv == TypeOK /\ CallsMatch

USE ThreadsAssumption, QueueBoundAssumption, MaxCallsAssumption

(***************************************************************************)
(* What push does once there is room keeps the types.                      *)
(***************************************************************************)
LEMMA EnqueueType ==
  ASSUME TypeOK, NEW p \in Producers, made[p] < MaxCalls, Enqueue(p)
  PROVE  /\ queue' \in Seq(Item)
         /\ accepted' \in Seq(Item)
         /\ made' \in [Producers -> 0 .. MaxCalls]
         /\ notEmpty' = {}
         /\ call' \in [Threads -> {"none", "infinite", "timed"}]
<1>1. made[p] \in 0 .. MaxCalls /\ made[p] + 1 \in 0 .. MaxCalls
  BY DEF TypeOK
<1>2. <<p, made[p]>> \in Item
  BY <1>1 DEF Item
<1>3. queue' \in Seq(Item) /\ accepted' \in Seq(Item)
  BY <1>2 DEF Enqueue, TypeOK
<1>4. made' \in [Producers -> 0 .. MaxCalls]
  BY <1>1 DEF Enqueue, TypeOK
<1>5. call' \in [Threads -> {"none", "infinite", "timed"}] /\ notEmpty' = {}
  BY DEF Enqueue, TypeOK
<1> QED
  BY <1>3, <1>4, <1>5

(***************************************************************************)
(* What pop does once there is an item keeps the types.                    *)
(***************************************************************************)
LEMMA DequeueType ==
  ASSUME TypeOK, NEW c \in Consumers, queue # <<>>, Dequeue(c)
  PROVE  /\ queue' \in Seq(Item)
         /\ delivered' \in Seq(Item)
         /\ notFull' = {}
         /\ call' \in [Threads -> {"none", "infinite", "timed"}]
<1>1. queue \in Seq(Item) /\ queue # <<>> /\ delivered \in Seq(Item)
  BY DEF TypeOK
<1>2. Head(queue) \in Item /\ Tail(queue) \in Seq(Item)
  BY <1>1
<1>3. queue' \in Seq(Item)
  BY <1>2 DEF Dequeue
<1>4. delivered' \in Seq(Item)
  BY <1>1, <1>2 DEF Dequeue
<1>5. call' \in [Threads -> {"none", "infinite", "timed"}] /\ notFull' = {}
  BY DEF Dequeue, TypeOK
<1> QED
  BY <1>3, <1>4, <1>5

(***************************************************************************)
(* The variables of the queue keep their types through every call, and a   *)
(* thread is parked only inside a push or a pop.                           *)
(***************************************************************************)
THEOREM TypeInvariant == Spec => []TypeInv
<1>1. Init => TypeInv
  <2>1. Init => TypeOK
    BY DEF Init, TypeOK
  <2>2. Init => CallsMatch
    BY DEF Init, CallsMatch, Threads
  <2> QED
    BY <2>1, <2>2 DEF TypeInv
<1>2. TypeInv /\ [Next]_vars => TypeInv'
  <2> SUFFICES ASSUME TypeInv, [Next]_vars PROVE TypeInv'
    OBVIOUS
  <2>0. /\ TypeOK
        /\ CallsMatch
        /\ Producers \subseteq Threads
        /\ Consumers \subseteq Threads
        /\ call \in [Threads -> {"none", "infinite", "timed"}]
        /\ made \in [Producers -> 0 .. MaxCalls]
    BY DEF TypeInv, TypeOK, Threads
  <2>1. ASSUME NEW p \in Producers, made[p] < MaxCalls, Enqueue(p),
               UNCHANGED <<max, delivered>>, notFull' \subseteq notFull,
               p \notin notFull'
        PROVE  TypeInv'
    <3>1. TypeOK'
      BY <2>0, <2>1, EnqueueType DEF TypeOK
    <3>2. CallsMatch'
      BY <2>0, <2>1 DEF CallsMatch, Enqueue, Threads, TypeOK
    <3> QED
      BY <3>1, <3>2 DEF TypeInv
  <2>2. ASSUME NEW c \in Consumers, queue # <<>>, Dequeue(c),
               UNCHANGED <<max, made, accepted>>, notEmpty' \subseteq notEmpty,
               c \notin notEmpty'
        PROVE  TypeInv'
    <3>1. TypeOK'
      BY <2>0, <2>2, DequeueType DEF TypeOK
    <3>2. CallsMatch'
      BY <2>0, <2>2 DEF CallsMatch, Dequeue, Threads, TypeOK
    <3> QED
      BY <3>1, <3>2 DEF TypeInv
  <2>3. ASSUME NEW p \in Producers, NEW timeout \in Timeout, Push(p, timeout)
        PROVE  TypeInv'
    <3>1. CASE HasRoom /\ Enqueue(p) /\ UNCHANGED <<max, notFull, delivered>>
      BY <2>0, <2>1, <2>3, <3>1 DEF Push, CallsMatch
    <3>2. CASE /\ timeout # "nonblocking"
               /\ call' = [call EXCEPT ![p] = timeout]
               /\ notFull' = notFull \cup {p}
               /\ UNCHANGED <<queue, max, notEmpty, made, accepted, delivered>>
      <4>1. timeout \in {"infinite", "timed"}
        BY <3>2 DEF Timeout
      <4>2. TypeOK'
        BY <2>0, <3>2, <4>1 DEF TypeOK
      <4>3. CallsMatch'
        BY <2>0, <2>3, <3>2, <4>1 DEF CallsMatch, Push, TypeOK, Threads
      <4> QED
        BY <4>2, <4>3 DEF TypeInv
    <3>3. CASE UNCHANGED vars
      BY <3>3 DEF TypeInv, TypeOK, CallsMatch, vars
    <3> QED
      BY <2>3, <3>1, <3>2, <3>3 DEF Push
  <2>4. ASSUME NEW p \in Producers, PushResume(p)
        PROVE  TypeInv'
    <3>1. made[p] < MaxCalls
      BY <2>0, <2>4 DEF PushResume, CallsMatch
    <3>2. CASE HasRoom /\ Enqueue(p) /\ UNCHANGED <<max, notFull, delivered>>
      BY <2>1, <2>4, <3>1, <3>2 DEF PushResume
    <3>3. CASE /\ notFull' = notFull \cup {p}
               /\ UNCHANGED <<queue, max, call, notEmpty, made, accepted, delivered>>
      BY <2>0, <2>4, <3>3 DEF PushResume, TypeInv, TypeOK, CallsMatch
    <3> QED
      BY <2>4, <3>2, <3>3 DEF PushResume
  <2>5. ASSUME NEW p \in Producers, PushTimeout(p)
        PROVE  TypeInv'
    <3>1. made[p] < MaxCalls
      BY <2>0, <2>5 DEF PushTimeout, CallsMatch
    <3>2. CASE /\ HasRoom
               /\ Enqueue(p)
               /\ notFull' = notFull \ {p}
               /\ UNCHANGED <<max, delivered>>
      BY <2>1, <3>1, <3>2
    <3>3. CASE /\ call' = [call EXCEPT ![p] = "none"]
               /\ notFull' = notFull \ {p}
               /\ UNCHANGED <<queue, max, notEmpty, made, accepted, delivered>>
      BY <2>0, <3>3 DEF TypeInv, TypeOK, CallsMatch, Threads
    <3> QED
      BY <2>5, <3>2, <3>3 DEF PushTimeout
  <2>6. ASSUME NEW p \in Producers, TryPush(p)
        PROVE  TypeInv'
    BY <2>0, <2>1, <2>6 DEF TryPush, CallsMatch
  <2>7. ASSUME NEW c \in Consumers, NEW timeout \in Timeout, Pop(c, timeout)
        PROVE  TypeInv'
    <3>1. CASE queue # <<>> /\ Dequeue(c) /\ UNCHANGED <<max, notEmpty, made, accepted>>
      BY <2>0, <2>2, <2>7, <3>1 DEF Pop, CallsMatch
    <3>2. CASE /\ timeout # "nonblocking"
               /\ call' = [call EXCEPT ![c] = timeout]
               /\ notEmpty' = notEmpty \cup {c}
               /\ UNCHANGED <<queue, max, notFull, made, accepted, delivered>>
      <4>1. timeout \in {"infinite", "timed"}
        BY <3>2 DEF Timeout
      <4>2. TypeOK'
        BY <2>0, <3>2, <4>1 DEF TypeOK
      <4>3. CallsMatch'
        BY <2>0, <2>7, <3>2, <4>1 DEF CallsMatch, Pop, TypeOK, Threads
      <4> QED
        BY <4>2, <4>3 DEF TypeInv
    <3>3. CASE UNCHANGED vars
      BY <3>3 DEF TypeInv, TypeOK, CallsMatch, vars
    <3> QED
      BY <2>7, <3>1, <3>2, <3>3 DEF Pop
  <2>8. ASSUME NEW c \in Consumers, PopResume(c)
        PROVE  TypeInv'
    <3>1. CASE queue # <<>> /\ Dequeue(c) /\ UNCHANGED <<max, notEmpty, made, accepted>>
      BY <2>2, <2>8, <3>1 DEF PopResume
    <3>2. CASE /\ notEmpty' = notEmpty \cup {c}
               /\ UNCHANGED <<queue, max, call, notFull, made, accepted, delivered>>
      BY <2>0, <2>8, <3>2 DEF PopResume, TypeInv, TypeOK, CallsMatch
    <3> QED
      BY <2>8, <3>1, <3>2 DEF PopResume
  <2>9. ASSUME NEW c \in Consumers, PopTimeout(c)
        PROVE  TypeInv'
    <3>1. CASE /\ queue # <<>>
               /\ Dequeue(c)
               /\ notEmpty' = notEmpty \ {c}
               /\ UNCHANGED <<max, made, accepted>>
      BY <2>2, <3>1
    <3>2. CASE /\ call' = [call EXCEPT ![c] = "none"]
               /\ notEmpty' = notEmpty \ {c}
               /\ UNCHANGED <<queue, max, notFull, made, accepted, delivered>>
      BY <2>0, <3>2 DEF TypeInv, TypeOK, CallsMatch, Threads
    <3> QED
      BY <2>9, <3>1, <3>2 DEF PopTimeout
  <2>10. ASSUME NEW c \in Consumers, TryPop(c)
         PROVE  TypeInv'
    BY <2>0, <2>2, <2>10 DEF TryPop, CallsMatch
  <2>11. ASSUME NEW t \in Threads, SpuriousWakeup(t)
         PROVE  TypeInv'
    BY <2>0, <2>11 DEF SpuriousWakeup, TypeInv, TypeOK, CallsMatch
  <2>12. ASSUME Flush
         PROVE  TypeInv'
    BY <2>0, <2>12 DEF Flush, TypeInv, TypeOK, CallsMatch
  <2>13. ASSUME NEW n \in Bound, SetMaxNumItems(n)
         PROVE  TypeInv'
    BY <2>0, <2>13 DEF SetMaxNumItems, TypeInv, TypeOK, CallsMatch
  <2>14. CASE UNCHANGED vars
    BY <2>14 DEF TypeInv, TypeOK, CallsMatch, vars
  <2> QED
    BY <2>3, <2>4, <2>5, <2>6, <2>7, <2>8, <2>9, <2>10, <2>11, <2>12, <2>13, <2>14
    DEF Next, ProducerStep, ConsumerStep
<1> QED
  BY <1>1, <1>2, PTL DEF Spec

(***************************************************************************)
(* The queue, its bound, the parked threads and the calls keep the types   *)
(* of blocking_queue.h through every push, pop, flush and resize.          *)
(***************************************************************************)
THEOREM TypeCorrect == Spec => []TypeOK
<1>1. TypeInv => TypeOK
  BY DEF TypeInv
<1> QED
  BY <1>1, TypeInvariant, PTL

-----------------------------------------------------------------------------

\* The step lets an item in, and may unpark the thread that pushed it.
Lets(p) == /\ HasRoom
           /\ Enqueue(p)
           /\ UNCHANGED <<max, delivered>>
           /\ notFull' \subseteq notFull

\* The step takes an item out, and may unpark the thread that popped it.
Takes(c) == /\ queue # <<>>
            /\ Dequeue(c)
            /\ UNCHANGED <<max, accepted>>
            /\ notEmpty' \subseteq notEmpty

\* The step parks or unparks threads and leaves the items alone.
Parks == /\ UNCHANGED <<queue, max, accepted, delivered>>
         /\ notFull' \subseteq notFull \/ ~HasRoom
         /\ notEmpty' \subseteq notEmpty \/ queue = <<>>

(***************************************************************************)
(* Every step of the class is of one of five kinds.                        *)
(***************************************************************************)
LEMMA StepKinds ==
  ASSUME [Next]_vars
  PROVE  \/ \E p \in Producers : Lets(p)
         \/ \E c \in Consumers : Takes(c)
         \/ Parks
         \/ Flush
         \/ \E n \in Bound : SetMaxNumItems(n)
<1> DEFINE Goal == \/ \E p \in Producers : Lets(p)
                   \/ \E c \in Consumers : Takes(c)
                   \/ Parks
                   \/ Flush
                   \/ \E n \in Bound : SetMaxNumItems(n)
<1>1. ASSUME NEW p \in Producers, NEW timeout \in Timeout, Push(p, timeout)
      PROVE  Goal
  BY <1>1 DEF Push, Lets, Parks, vars
<1>2. ASSUME NEW p \in Producers, PushResume(p) \/ PushTimeout(p) \/ TryPush(p)
      PROVE  Goal
  BY <1>2 DEF PushResume, PushTimeout, TryPush, Lets, Parks
<1>3. ASSUME NEW c \in Consumers, NEW timeout \in Timeout, Pop(c, timeout)
      PROVE  Goal
  BY <1>3 DEF Pop, Takes, Parks, vars
<1>4. ASSUME NEW c \in Consumers, PopResume(c) \/ PopTimeout(c) \/ TryPop(c)
      PROVE  Goal
  BY <1>4 DEF PopResume, PopTimeout, TryPop, Takes, Parks
<1>5. ASSUME NEW t \in Threads, SpuriousWakeup(t)
      PROVE  Goal
  BY <1>5 DEF SpuriousWakeup, Parks
<1>6. CASE UNCHANGED vars
  BY <1>6 DEF Parks, vars
<1> QED
  BY <1>1, <1>2, <1>3, <1>4, <1>5, <1>6 DEF Next, ProducerStep, ConsumerStep

WakeupInv == NoLostWakeup /\ WithinBound

(***************************************************************************)
(* No wake-up of the queue is ever lost, and the queue stays within its    *)
(* bound: push, pop, flush and set_max_num_items notify whenever they make *)
(* the predicate of a parked thread true.                                  *)
(***************************************************************************)
THEOREM WakeupsCorrect == Spec => [](NoLostWakeup /\ WithinBound)
<1>1. Init => WakeupInv
  BY DEF Init, WakeupInv, NoLostWakeup, WithinBound
<1>2. TypeOK /\ TypeOK' /\ WakeupInv /\ [Next]_vars => WakeupInv'
  <2> SUFFICES ASSUME TypeOK, TypeOK', WakeupInv, [Next]_vars PROVE WakeupInv'
    OBVIOUS
  <2> USE DEF WakeupInv, NoLostWakeup, WithinBound, HasRoom
  <2>0. /\ queue \in Seq(Item) /\ max \in Nat
        /\ queue' \in Seq(Item) /\ max' \in Nat
        /\ Len(queue) \in Nat
    BY DEF TypeOK
  <2>1. ASSUME NEW p \in Producers, Lets(p) PROVE WakeupInv'
    <3>1. Len(queue') = Len(queue) + 1
      BY <2>0, <2>1 DEF Lets, Enqueue
    <3> QED
      BY <2>0, <2>1, <3>1 DEF Lets, Enqueue
  <2>2. ASSUME NEW c \in Consumers, Takes(c) PROVE WakeupInv'
    <3>1. Len(queue') = Len(queue) - 1
      BY <2>0, <2>2 DEF Takes, Dequeue
    <3> QED
      BY <2>0, <2>2, <3>1 DEF Takes, Dequeue
  <2>3. CASE Parks
    BY <2>0, <2>3 DEF Parks
  <2>4. CASE Flush
    <3>1. Len(queue') = 0
      BY <2>4 DEF Flush
    <3> QED
      BY <2>0, <2>4, <3>1 DEF Flush
  <2>5. ASSUME NEW n \in Bound, SetMaxNumItems(n) PROVE WakeupInv'
    BY <2>0, <2>5 DEF SetMaxNumItems
  <2> QED
    BY <2>1, <2>2, <2>3, <2>4, <2>5, StepKinds
<1>3. WakeupInv <=> NoLostWakeup /\ WithinBound
  BY DEF WakeupInv
<1> QED
  BY <1>1, <1>2, <1>3, TypeInvariant, PTL DEF Spec, TypeInv

-----------------------------------------------------------------------------

(***************************************************************************)
(* The queue holds the items accepted last, in the order of acceptance:    *)
(* no call duplicates, loses or overtakes one of them.                     *)
(***************************************************************************)
THEOREM QueueIsTheRest == Spec => []HoldsTheRest
<1>1. Init => HoldsTheRest
  BY DEF Init, HoldsTheRest
<1>2. TypeOK /\ TypeOK' /\ HoldsTheRest /\ [Next]_vars => HoldsTheRest'
  <2> SUFFICES ASSUME TypeOK, TypeOK', HoldsTheRest, [Next]_vars
               PROVE  HoldsTheRest'
    OBVIOUS
  <2>0. /\ queue \in Seq(Item) /\ accepted \in Seq(Item)
        /\ Len(queue) \in Nat /\ Len(accepted) \in Nat
        /\ Len(queue) <= Len(accepted)
    BY DEF TypeOK, HoldsTheRest
  <2>1. ASSUME NEW p \in Producers, Lets(p) PROVE HoldsTheRest'
    <3> DEFINE item == <<p, made[p]>>
    <3>1. item \in Item
      BY DEF TypeOK, Item
    <3>2. queue' = Append(queue, item) /\ accepted' = Append(accepted, item)
      BY <2>1 DEF Lets, Enqueue
    <3> HIDE DEF item
    <3>3. Len(queue') = Len(queue) + 1 /\ Len(accepted') = Len(accepted) + 1
      BY <2>0, <3>1, <3>2
    <3>4. ASSUME NEW i \in 1 .. Len(queue')
          PROVE  queue'[i] = accepted'[(Len(accepted') - Len(queue')) + i]
      <4>1. CASE i = Len(queue')
        BY <2>0, <3>1, <3>2, <3>3, <4>1
      <4>2. CASE i \in 1 .. Len(queue)
        <5>1. queue[i] = accepted[(Len(accepted) - Len(queue)) + i]
          BY <4>2 DEF HoldsTheRest
        <5> QED
          BY <2>0, <3>1, <3>2, <3>3, <4>2, <5>1
      <4> QED
        BY <2>0, <3>3, <4>1, <4>2
    <3> QED
      BY <2>0, <3>3, <3>4 DEF HoldsTheRest
  <2>2. ASSUME NEW c \in Consumers, Takes(c) PROVE HoldsTheRest'
    <3>1. queue # <<>> /\ queue' = Tail(queue) /\ accepted' = accepted
      BY <2>2 DEF Takes, Dequeue
    <3>2. /\ Len(queue') = Len(queue) - 1
          /\ \A i \in 1 .. Len(queue') : queue'[i] = queue[i + 1]
      BY <2>0, <3>1
    <3> QED
      BY <2>0, <3>1, <3>2 DEF HoldsTheRest
  <2>3. CASE Parks
    BY <2>3 DEF Parks, HoldsTheRest
  <2>4. CASE Flush
    <3>1. Len(queue') = 0 /\ accepted' = accepted
      BY <2>4 DEF Flush
    <3> QED
      BY <2>0, <3>1 DEF HoldsTheRest
  <2>5. ASSUME NEW n \in Bound, SetMaxNumItems(n) PROVE HoldsTheRest'
    BY <2>5 DEF SetMaxNumItems, HoldsTheRest
  <2> QED
    BY <2>1, <2>2, <2>3, <2>4, <2>5, StepKinds
<1> QED
  BY <1>1, <1>2, TypeInvariant, PTL DEF Spec, TypeInv

(***************************************************************************)
(* Every step of the class is a step of the abstract queue or leaves it    *)
(* alone: the locks, the condition variables and the timeouts of           *)
(* ThreadBlockingQueue implement a bounded FIFO for any number of threads. *)
(***************************************************************************)
THEOREM FifoImplemented == Spec => ImplementsFifo
<1>1. Init => Fifo!Init
  BY DEF Init, Fifo!Init
<1>2. TypeOK /\ TypeOK' /\ HoldsTheRest /\ [Next]_vars => [Fifo!Next]_(Fifo!vars)
  <2> SUFFICES ASSUME TypeOK, TypeOK', HoldsTheRest, [Next]_vars
               PROVE  [Fifo!Next]_(Fifo!vars)
    OBVIOUS
  <2>0. /\ queue \in Seq(Item) /\ accepted \in Seq(Item) /\ max \in Nat
        /\ Len(queue) \in Nat /\ Len(accepted) \in Nat
        /\ Len(queue) <= Len(accepted)
    BY DEF TypeOK, HoldsTheRest
  <2>1. ASSUME NEW p \in Producers, Lets(p) PROVE Fifo!Accept
    <3> DEFINE item == <<p, made[p]>>
    <3>1. item \in Item
      BY DEF TypeOK, Item
    <3>2. /\ queue' = Append(queue, item) /\ accepted' = Append(accepted, item)
          /\ UNCHANGED <<max, delivered>> /\ Len(queue) < max
      BY <2>1 DEF Lets, Enqueue, HasRoom
    <3> HIDE DEF item
    <3>3. Len(queue') = Len(queue) + 1 /\ Len(accepted') = Len(accepted) + 1
      BY <2>0, <3>1, <3>2
    <3>4. Len(accepted') - Len(queue') = Len(accepted) - Len(queue)
      BY <2>0, <3>3
    <3>5. Len(accepted) - (Len(accepted) - Len(queue)) < max
      BY <2>0, <3>2
    <3> QED
      BY <3>1, <3>2, <3>4, <3>5 DEF Fifo!Accept
  <2>2. ASSUME NEW c \in Consumers, Takes(c) PROVE Fifo!Deliver
    <3>1. /\ queue # <<>> /\ queue' = Tail(queue)
          /\ UNCHANGED <<accepted, max>>
          /\ delivered' = Append(delivered, Head(queue))
      BY <2>2 DEF Takes, Dequeue
    <3>2. Len(queue') = Len(queue) - 1 /\ Len(queue) > 0
          /\ Head(queue) = queue[1]
      BY <2>0, <3>1
    <3>3. Head(queue) = accepted[(Len(accepted) - Len(queue)) + 1]
      BY <2>0, <3>2 DEF HoldsTheRest
    <3>4. /\ Len(accepted) - Len(queue) < Len(accepted)
          /\ Len(accepted') - Len(queue') = (Len(accepted) - Len(queue)) + 1
      BY <2>0, <3>1, <3>2
    <3> QED
      BY <3>1, <3>3, <3>4 DEF Fifo!Deliver
  <2>3. CASE Parks
    BY <2>3 DEF Parks, Fifo!vars
  <2>4. CASE Flush
    <3>1. Len(queue') = 0 /\ UNCHANGED <<accepted, delivered, max>>
      BY <2>4 DEF Flush
    <3>2. Len(accepted') - Len(queue') = Len(accepted)
      BY <2>0, <3>1
    <3> QED
      BY <3>1, <3>2 DEF Fifo!Next, Fifo!Drop
  <2>5. ASSUME NEW n \in Bound, SetMaxNumItems(n) PROVE Fifo!Raise
    BY <2>5 DEF SetMaxNumItems, Fifo!Raise
  <2> QED
    BY <2>1, <2>2, <2>3, <2>4, <2>5, StepKinds DEF Fifo!Next
<1> QED
  BY <1>1, <1>2, TypeCorrect, QueueIsTheRest, PTL
  DEF Spec, TypeInv, ImplementsFifo, Fifo!Spec
=============================================================================
