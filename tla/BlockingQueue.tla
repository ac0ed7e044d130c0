--------------------------- MODULE BlockingQueue ---------------------------
(***************************************************************************)
(* The bounded queue that connects every pair of threads of the receiver   *)
(* (src/mode/wxpt/_inc/ThreadBlockingQueue.h).  A step is what one thread  *)
(* does while it holds m_mutex.  A thread whose wait predicate is false    *)
(* parks on a condition variable and gives the mutex up; notify_all, a     *)
(* timeout or a spurious wakeup unparks it, and it then takes the mutex    *)
(* again and evaluates its predicate again.                                *)
(***************************************************************************)
EXTENDS Naturals, Sequences, FiniteSets

CONSTANTS Producers,  \* threads that call push and try_push
          Consumers,  \* threads that call pop and try_pop
          Bound,      \* arguments set_max_num_items is called with
          MaxCalls    \* bound of the model: pushes accepted from a producer

ASSUME ThreadsAssumption == Producers \cap Consumers = {}
ASSUME QueueBoundAssumption == Bound \subseteq Nat \ {0}
ASSUME MaxCallsAssumption == MaxCalls \in Nat

Threads == Producers \cup Consumers

\* The k-th item of a producer.
Item == Producers \X (0 .. MaxCalls)

\* The value of the timeout argument: 0, above NON_BLOCKING_TIMEOUT, or below.
Timeout == {"infinite", "timed", "nonblocking"}

VARIABLES queue,      \* m_queue
          max,        \* m_max_num_items
          call,       \* "none", or the timeout of the push or pop a thread is in
          notFull,    \* threads parked on m_cond_not_full
          notEmpty,   \* threads parked on m_cond_not_empty
          made,       \* number of items a producer has had accepted
          accepted,   \* history: items accepted, in order
          delivered   \* history: items returned by pop, in order

vars == <<queue, max, call, notFull, notEmpty, made, accepted, delivered>>

TypeOK == /\ queue \in Seq(Item)
          /\ max \in Bound \cup {1}
          /\ call \in [Threads -> {"none", "infinite", "timed"}]
          /\ notFull \subseteq Producers
          /\ notEmpty \subseteq Consumers
          /\ made \in [Producers -> 0 .. MaxCalls]
          /\ accepted \in Seq(Item)
          /\ delivered \in Seq(Item)

Init == /\ queue = <<>>
        /\ max = 1
        /\ call = [t \in Threads |-> "none"]
        /\ notFull = {}
        /\ notEmpty = {}
        /\ made = [p \in Producers |-> 0]
        /\ accepted = <<>>
        /\ delivered = <<>>

HasRoom == Len(queue) < max

\* push_back(item) and m_cond_not_empty.notify_all(), the call returning true.
Enqueue(p) == LET item == <<p, made[p]>> IN
  /\ queue' = Append(queue, item)
  /\ accepted' = Append(accepted, item)
  /\ made' = [made EXCEPT ![p] = @ + 1]
  /\ notEmpty' = {}
  /\ call' = [call EXCEPT ![p] = "none"]

\* Mutant of Dequeue: the item pushed last is handed out.
DequeueLast(c) ==
  /\ queue' = SubSeq(queue, 1, Len(queue) - 1)
  /\ delivered' = Append(delivered, queue[Len(queue)])
  /\ notFull' = {}
  /\ call' = [call EXCEPT ![c] = "none"]

\* Mutant of Dequeue: nobody is notified.
DequeueSilently(c) ==
  /\ queue' = Tail(queue)
  /\ delivered' = Append(delivered, Head(queue))
  /\ call' = [call EXCEPT ![c] = "none"]
  /\ UNCHANGED notFull

\* front(), pop_front() and m_cond_not_full.notify_all(), the call returning true.
Dequeue(c) ==
  /\ queue' = Tail(queue)
  /\ delivered' = Append(delivered, Head(queue))
  /\ notFull' = {}
  /\ call' = [call EXCEPT ![c] = "none"]

-----------------------------------------------------------------------------

\* push(item, timeout), up to its first return or its first wait.
Push(p, timeout) ==
  /\ call[p] = "none"
  /\ made[p] < MaxCalls
  /\ \/ /\ HasRoom
        /\ Enqueue(p)
        /\ UNCHANGED <<max, notFull, delivered>>
     \/ /\ ~HasRoom
        /\ timeout # "nonblocking"
        /\ call' = [call EXCEPT ![p] = timeout]
        /\ notFull' = notFull \cup {p}
        /\ UNCHANGED <<queue, max, notEmpty, made, accepted, delivered>>
     \/ /\ ~HasRoom
        /\ timeout = "nonblocking"
        /\ UNCHANGED vars

\* A waiting push that was notified holds the mutex again.
PushResume(p) ==
  /\ call[p] # "none"
  /\ p \notin notFull
  /\ \/ /\ HasRoom
        /\ Enqueue(p)
        /\ UNCHANGED <<max, notFull, delivered>>
     \/ /\ ~HasRoom
        /\ notFull' = notFull \cup {p}
        /\ UNCHANGED <<queue, max, call, notEmpty, made, accepted, delivered>>

\* wait_for reaches its deadline: it returns the predicate, evaluated once more.
PushTimeout(p) ==
  /\ call[p] = "timed"
  /\ \/ /\ HasRoom
        /\ Enqueue(p)
        /\ notFull' = notFull \ {p}
        /\ UNCHANGED <<max, delivered>>
     \/ /\ ~HasRoom
        /\ call' = [call EXCEPT ![p] = "none"]
        /\ notFull' = notFull \ {p}
        /\ UNCHANGED <<queue, max, notEmpty, made, accepted, delivered>>

TryPush(p) ==
  /\ call[p] = "none"
  /\ made[p] < MaxCalls
  /\ HasRoom
  /\ Enqueue(p)
  /\ UNCHANGED <<max, notFull, delivered>>

\* pop(item, timeout), up to its first return or its first wait.
Pop(c, timeout) ==
  /\ call[c] = "none"
  /\ \/ /\ queue # <<>>
        /\ Dequeue(c)
        /\ UNCHANGED <<max, notEmpty, made, accepted>>
     \/ /\ queue = <<>>
        /\ timeout # "nonblocking"
        /\ call' = [call EXCEPT ![c] = timeout]
        /\ notEmpty' = notEmpty \cup {c}
        /\ UNCHANGED <<queue, max, notFull, made, accepted, delivered>>
     \/ /\ queue = <<>>
        /\ timeout = "nonblocking"
        /\ UNCHANGED vars

\* Mutant of PopResume: the thread parks on the condition of the producers again.
PopResumeParkingAmiss(c) ==
  /\ call[c] # "none"
  /\ c \notin notEmpty
  /\ \/ /\ queue # <<>>
        /\ Dequeue(c)
        /\ UNCHANGED <<max, notEmpty, made, accepted>>
     \/ /\ queue = <<>>
        /\ notFull' = notFull \cup {c}
        /\ UNCHANGED <<queue, max, call, notEmpty, made, accepted, delivered>>

PopResume(c) ==
  /\ call[c] # "none"
  /\ c \notin notEmpty
  /\ \/ /\ queue # <<>>
        /\ Dequeue(c)
        /\ UNCHANGED <<max, notEmpty, made, accepted>>
     \/ /\ queue = <<>>
        /\ notEmpty' = notEmpty \cup {c}
        /\ UNCHANGED <<queue, max, call, notFull, made, accepted, delivered>>

PopTimeout(c) ==
  /\ call[c] = "timed"
  /\ \/ /\ queue # <<>>
        /\ Dequeue(c)
        /\ notEmpty' = notEmpty \ {c}
        /\ UNCHANGED <<max, made, accepted>>
     \/ /\ queue = <<>>
        /\ call' = [call EXCEPT ![c] = "none"]
        /\ notEmpty' = notEmpty \ {c}
        /\ UNCHANGED <<queue, max, notFull, made, accepted, delivered>>

TryPop(c) ==
  /\ call[c] = "none"
  /\ queue # <<>>
  /\ Dequeue(c)
  /\ UNCHANGED <<max, notEmpty, made, accepted>>

\* The standard lets a wait return without a notification.
SpuriousWakeup(t) ==
  /\ t \in notFull \cup notEmpty
  /\ notFull' = notFull \ {t}
  /\ notEmpty' = notEmpty \ {t}
  /\ UNCHANGED <<queue, max, call, made, accepted, delivered>>

\* Called by whoever terminates one of the two threads, never by a waiter.
Flush ==
  /\ queue' = <<>>
  /\ notFull' = {}
  /\ UNCHANGED <<max, call, notEmpty, made, accepted, delivered>>

\* Mutant of SetMaxNumItems: the producers are not told of the room.
SetMaxNumItemsSilently(n) ==
  /\ n > max
  /\ max' = n
  /\ UNCHANGED <<queue, call, notFull, notEmpty, made, accepted, delivered>>

\* Only raises the bound.
SetMaxNumItems(n) ==
  /\ n > max
  /\ max' = n
  /\ notFull' = {}
  /\ UNCHANGED <<queue, call, notEmpty, made, accepted, delivered>>

ProducerStep(p) == \/ \E timeout \in Timeout : Push(p, timeout)
                   \/ PushResume(p)
                   \/ PushTimeout(p)
                   \/ TryPush(p)

ConsumerStep(c) == \/ \E timeout \in Timeout : Pop(c, timeout)
                   \/ PopResume(c)
                   \/ PopTimeout(c)
                   \/ TryPop(c)

Next == \/ \E p \in Producers : ProducerStep(p)
        \/ \E c \in Consumers : ConsumerStep(c)
        \/ \E t \in Threads : SpuriousWakeup(t)
        \/ Flush
        \/ \E n \in Bound : SetMaxNumItems(n)

(***************************************************************************)
(* The consumers of the receiver call pop in a loop (with the heartbeat    *)
(* timeout), and the operating system runs a thread that was notified.     *)
(***************************************************************************)
Fairness == /\ \A p \in Producers : WF_vars(PushResume(p))
            /\ \A c \in Consumers : /\ WF_vars(PopResume(c))
                                    /\ WF_vars(PopTimeout(c))
                                    /\ WF_vars(Pop(c, "timed"))

Spec == Init /\ [][Next]_vars

FairSpec == Spec /\ Fairness

-----------------------------------------------------------------------------

(***************************************************************************)
(* No wake-up is lost: a thread parked on m_cond_not_full sees a full      *)
(* queue, and one parked on m_cond_not_empty an empty one, so that none of *)
(* push, pop, flush and set_max_num_items may forget a notify_all.         *)
(***************************************************************************)
NoLostWakeup == /\ notFull # {} => ~HasRoom
                /\ notEmpty # {} => queue = <<>>

(***************************************************************************)
(* The queue never holds more items than its bound, whichever threads      *)
(* push, resume and time out around a call that raises the bound.  The     *)
(* abstract queue has it as the guard of Accept.                           *)
(***************************************************************************)
WithinBound == Len(queue) <= max

\* A thread inside push still has an item to push, one that is parked is in a call.
CallsMatch ==
  /\ \A p \in Producers : call[p] # "none" => made[p] < MaxCalls
  /\ \A t \in notFull \cup notEmpty : call[t] # "none"

\* What is in the queue is the end of what was accepted.
HoldsTheRest ==
  /\ Len(queue) <= Len(accepted)
  /\ \A i \in 1 .. Len(queue) :
        queue[i] = accepted[(Len(accepted) - Len(queue)) + i]

Fifo == INSTANCE FifoQueue WITH cap <- max,
                                left <- Len(accepted) - Len(queue)

(***************************************************************************)
(* The class implements a first-in first-out queue: pop returns the items  *)
(* that push accepted, in that order and each once, even when flush empties *)
(* the queue in between and waiting threads overtake one another.          *)
(***************************************************************************)
ImplementsFifo == Fifo!Spec

(***************************************************************************)
(* While a push waits without a deadline (DemodulatorPreThread to its       *)
(* output and to its worker) and the consumer keeps popping, pushes go on    *)
(* being accepted: it, or another producer's in its place.  No wake-up,      *)
(* flush or spurious wake-up leaves the queue with room and every producer   *)
(* waiting.  That this push is ever the one, nothing promises: neither       *)
(* m_mutex nor notify_all is fair, and a producer which pushes for ever can  *)
(* take the room after every pop.  The model's MaxCalls forbids that, and    *)
(* the property does not ask for it.                                        *)
(***************************************************************************)
PushesGoOn ==
  \A n \in 0 .. MaxCalls * Cardinality(Producers) :
    (\E p \in Producers : call[p] = "infinite") /\ Len(accepted) = n
      ~> Len(accepted) > n
=============================================================================
