-------------------------- MODULE SupervisorProofs --------------------------
(***************************************************************************)
(* The safety of the three processes, for any number of other signals and    *)
(* any number of stops and continuations of a child: what the kernel, the    *)
(* pipe and the counter of the master know of each other.                    *)
(***************************************************************************)
EXTENDS Supervisor, TLAPS

USE SignalsAssumption

Count(b) == IF b THEN 1 ELSE 0

(***************************************************************************)
(* A delivery counted, or one that is pending, stands for a child that has   *)
(* ended, or for a stop or a continuation, and for no other delivery.        *)
(***************************************************************************)
DeliveriesAreChanges ==
  reap + Count(pending) <= Count(Exited("upload")) + Count(Exited("worker")) + changes

(***************************************************************************)
(* What the master has not forked does not exist, and until it has forked    *)
(* the worker it keeps the pipe from ending.                                 *)
(***************************************************************************)
ForksInOrder ==
  /\ master = "fork0" => \A c \in Child : child[c] = "none"
  /\ master = "fork1" => child["worker"] = "none" /\ "master" \in writers
  /\ master \in {"fork0", "fork1"} => ~bExit /\ pipe = 0

(***************************************************************************)
(* Who holds the ends of the pipe: the worker its write end, and nobody but  *)
(* the upload process, once there is one, the read end.                      *)
(***************************************************************************)
PipeEnds ==
  /\ Alive("worker") => "worker" \in writers
  /\ child["upload"] # "none" => readers \subseteq {"upload"}
  /\ Exited("upload") => readers = {}

(***************************************************************************)
(* A command in the pipe follows the end of the worker, unless a child was   *)
(* stopped, and every command was written after a signal of its own.         *)
(***************************************************************************)
Commands ==
  /\ pipe > 0 => Exited("worker") \/ changes > 0
  /\ pipe <= signals + 1
  /\ pipe + Count(master \in {"reaping", "handling", "nested", "sleeping"})
       <= signals + reap

SupervisorInv ==
  /\ TypeOK
  /\ DeliveriesAreChanges
  /\ ForksInOrder
  /\ PipeEnds
  /\ Commands
  /\ ZombiesAreCollected
  /\ master = "done" => reap = 2
  /\ UploadOutlivesWorker

(***************************************************************************)
(* Every step of a process, of the kernel or of whoever sends signals keeps  *)
(* these facts together: none of them is kept without the others.            *)
(***************************************************************************)
THEOREM SupervisorCorrect == Spec => []SupervisorInv
<1>1. Init => SupervisorInv
  <2> SUFFICES ASSUME Init PROVE SupervisorInv
    OBVIOUS
  <2>1. TypeOK
    <3>1. /\ reap \in 0 .. (MaxChanges + 2) /\ changes \in 0 .. MaxChanges
          /\ signals \in 0 .. MaxSignals /\ pipe \in 0 .. (MaxSignals + 1)
      BY DEF Init
    <3> QED
      BY <3>1, Zenon DEF Init, TypeOK
  <2>2. DeliveriesAreChanges
    BY DEF Init, DeliveriesAreChanges, Count
  <2>3. Commands
    BY DEF Init, Commands, Count
  <2>4. ForksInOrder /\ PipeEnds /\ ZombiesAreCollected /\ UploadOutlivesWorker
    BY DEF Init, ForksInOrder, PipeEnds, ZombiesAreCollected, UploadOutlivesWorker, Child,
       Alive
  <2> QED
    BY <2>1, <2>2, <2>3, <2>4 DEF Init, SupervisorInv
<1>2. SupervisorInv /\ [Next]_vars => SupervisorInv'
  <2> SUFFICES ASSUME SupervisorInv, [Next]_vars PROVE SupervisorInv'
    OBVIOUS
  <2> USE DEF SupervisorInv, Child, Exited, Alive
  <2>1. CASE ForkUpload
    <3>1. TypeOK'
      BY <2>1 DEF ForkUpload, TypeOK, Process
    <3>2. DeliveriesAreChanges'
      BY <2>1 DEF ForkUpload, TypeOK, DeliveriesAreChanges, ForksInOrder
    <3>3. ForksInOrder'
      BY <2>1 DEF ForkUpload, TypeOK, ForksInOrder
    <3>4. PipeEnds'
      BY <2>1 DEF ForkUpload, TypeOK, ForksInOrder, PipeEnds
    <3>5. Commands'
      BY <2>1 DEF ForkUpload, TypeOK, Commands
    <3>6. ZombiesAreCollected' /\ (master = "done" => reap = 2)' /\ UploadOutlivesWorker'
      BY <2>1 DEF ForkUpload, TypeOK, ZombiesAreCollected, UploadOutlivesWorker, MasterGone
    <3> QED
      BY <3>1, <3>2, <3>3, <3>4, <3>5, <3>6
  <2>2. CASE ForkWorker
    <3>1. TypeOK'
      BY <2>2 DEF ForkWorker, TypeOK, Process
    <3>2. DeliveriesAreChanges'
      BY <2>2 DEF ForkWorker, TypeOK, DeliveriesAreChanges, ForksInOrder
    <3>3. ForksInOrder'
      BY <2>2 DEF ForkWorker, ForksInOrder
    <3>4. PipeEnds'
      BY <2>2 DEF ForkWorker, TypeOK, PipeEnds
    <3>5. Commands'
      BY <2>2 DEF ForkWorker, Commands, ForksInOrder
    <3>6. ZombiesAreCollected' /\ (master = "done" => reap = 2)' /\ UploadOutlivesWorker'
      BY <2>2 DEF ForkWorker, TypeOK, ZombiesAreCollected, UploadOutlivesWorker,
         MasterGone, ForksInOrder
    <3> QED
      BY <3>1, <3>2, <3>3, <3>4, <3>5, <3>6
  <2>3. CASE DeliverSigchld
    <3>1. TypeOK'
      <4>1. /\ pending = TRUE /\ reap \in Nat /\ reap' = reap + 1
            /\ changes \in 0 .. MaxChanges
        BY <2>3 DEF DeliverSigchld, TypeOK
      <4>2. reap' \in 0 .. (MaxChanges + 2)
        BY <4>1 DEF DeliveriesAreChanges, Count
      <4> QED
        BY <2>3, <4>2, Zenon DEF DeliverSigchld, TypeOK
    <3>2. DeliveriesAreChanges'
      BY <2>3 DEF DeliverSigchld, DeliveriesAreChanges, Count
    <3>3. ForksInOrder'
      BY <2>3 DEF DeliverSigchld, ForksInOrder
    <3>4. PipeEnds'
      BY <2>3 DEF DeliverSigchld, PipeEnds
    <3>5. Commands'
      BY <2>3 DEF DeliverSigchld, TypeOK, Commands, Count
    <3>6. ZombiesAreCollected' /\ (master = "done" => reap = 2)' /\ UploadOutlivesWorker'
      BY <2>3 DEF DeliverSigchld, ZombiesAreCollected, UploadOutlivesWorker
    <3> QED
      BY <3>1, <3>2, <3>3, <3>4, <3>5, <3>6
  <2>4. CASE GetStatus
    <3>1. TypeOK'
      BY <2>4 DEF GetStatus, HandlerReturns, TypeOK
    <3>2. DeliveriesAreChanges'
      BY <2>4 DEF GetStatus, HandlerReturns, DeliveriesAreChanges
    <3>3. ForksInOrder'
      BY <2>4 DEF GetStatus, HandlerReturns, ForksInOrder
    <3>4. PipeEnds'
      BY <2>4 DEF GetStatus, HandlerReturns, PipeEnds
    <3>5. Commands'
      BY <2>4 DEF GetStatus, HandlerReturns, Commands
    <3>6. ZombiesAreCollected' /\ (master = "done" => reap = 2)' /\ UploadOutlivesWorker'
      BY <2>4 DEF GetStatus, HandlerReturns, ZombiesAreCollected, UploadOutlivesWorker
    <3> QED
      BY <3>1, <3>2, <3>3, <3>4, <3>5, <3>6
  <2>5. CASE AfterSleep
    <3>1. TypeOK'
      <4>1. reap = 1 => pipe + 1 <= signals + 1
        BY <2>5 DEF AfterSleep, Commands, Count
      <4>2. pipe' \in 0 .. (MaxSignals + 1)
        BY <2>5, <4>1 DEF AfterSleep, TypeOK
      <4> QED
        BY <2>5, <4>2 DEF AfterSleep, TypeOK, Leave
    <3>2. DeliveriesAreChanges'
      BY <2>5 DEF AfterSleep, DeliveriesAreChanges
    <3>3. ForksInOrder'
      BY <2>5 DEF AfterSleep, ForksInOrder
    <3>4. PipeEnds'
      BY <2>5 DEF AfterSleep, PipeEnds, Leave
    <3>5. Commands'
      BY <2>5 DEF AfterSleep, TypeOK, Commands, Count, PipeEnds, DeliveriesAreChanges
    <3>6. ZombiesAreCollected' /\ (master = "done" => reap = 2)' /\ UploadOutlivesWorker'
      BY <2>5 DEF AfterSleep, ZombiesAreCollected, UploadOutlivesWorker, MasterGone
    <3> QED
      BY <3>1, <3>2, <3>3, <3>4, <3>5, <3>6
  <2>6. CASE DeliverOther
    <3>1. TypeOK'
      BY <2>6 DEF DeliverOther, TypeOK
    <3>2. DeliveriesAreChanges'
      BY <2>6 DEF DeliverOther, DeliveriesAreChanges
    <3>3. ForksInOrder'
      BY <2>6 DEF DeliverOther, ForksInOrder
    <3>4. PipeEnds'
      BY <2>6 DEF DeliverOther, PipeEnds
    <3>5. Commands'
      BY <2>6 DEF DeliverOther, TypeOK, Commands, Count
    <3>6. ZombiesAreCollected' /\ (master = "done" => reap = 2)' /\ UploadOutlivesWorker'
      BY <2>6 DEF DeliverOther, ZombiesAreCollected, UploadOutlivesWorker, MasterGone
    <3> QED
      BY <3>1, <3>2, <3>3, <3>4, <3>5, <3>6
  <2>7. CASE MasterKilled
    <3>1. TypeOK'
      BY <2>7 DEF MasterKilled, TypeOK, Leave
    <3>2. DeliveriesAreChanges'
      BY <2>7 DEF MasterKilled, DeliveriesAreChanges
    <3>3. ForksInOrder'
      BY <2>7 DEF MasterKilled, ForksInOrder
    <3>4. PipeEnds'
      BY <2>7 DEF MasterKilled, PipeEnds, Leave
    <3>5. Commands'
      BY <2>7 DEF MasterKilled, TypeOK, Commands, Count
    <3>6. ZombiesAreCollected' /\ (master = "done" => reap = 2)' /\ UploadOutlivesWorker'
      BY <2>7 DEF MasterKilled, ZombiesAreCollected, UploadOutlivesWorker, MasterGone
    <3> QED
      BY <3>1, <3>2, <3>3, <3>4, <3>5, <3>6
  <2>8. CASE UploadStart
    <3>1. TypeOK'
      BY <2>8 DEF UploadStart, TypeOK
    <3>2. DeliveriesAreChanges'
      BY <2>8 DEF UploadStart, DeliveriesAreChanges
    <3>3. ForksInOrder'
      BY <2>8 DEF UploadStart, ForksInOrder
    <3>4. PipeEnds'
      BY <2>8 DEF UploadStart, PipeEnds
    <3>5. Commands'
      BY <2>8 DEF UploadStart, Commands
    <3>6. ZombiesAreCollected' /\ (master = "done" => reap = 2)' /\ UploadOutlivesWorker'
      BY <2>8 DEF UploadStart, ZombiesAreCollected, UploadOutlivesWorker, MasterGone
    <3> QED
      BY <3>1, <3>2, <3>3, <3>4, <3>5, <3>6
  <2>9. CASE UploadPipe
    <3>1. TypeOK'
      BY <2>9 DEF UploadPipe, TypeOK
    <3>2. DeliveriesAreChanges'
      BY <2>9 DEF UploadPipe, DeliveriesAreChanges
    <3>3. ForksInOrder'
      BY <2>9 DEF UploadPipe, ForksInOrder, Commands
    <3>4. PipeEnds'
      BY <2>9 DEF UploadPipe, PipeEnds
    <3>5. Commands'
      BY <2>9 DEF UploadPipe, TypeOK, Commands, Count
    <3>6. ZombiesAreCollected' /\ (master = "done" => reap = 2)' /\ UploadOutlivesWorker'
      BY <2>9 DEF UploadPipe, ZombiesAreCollected, UploadOutlivesWorker, MasterGone,
         Commands, PipeEnds
    <3> QED
      BY <3>1, <3>2, <3>3, <3>4, <3>5, <3>6
  <2>10. CASE UploadPipeInterrupted
    <3>1. TypeOK'
      BY <2>10 DEF UploadPipeInterrupted, TypeOK
    <3>2. DeliveriesAreChanges'
      BY <2>10 DEF UploadPipeInterrupted, DeliveriesAreChanges
    <3>3. ForksInOrder'
      BY <2>10 DEF UploadPipeInterrupted, ForksInOrder
    <3>4. PipeEnds'
      BY <2>10 DEF UploadPipeInterrupted, PipeEnds
    <3>5. Commands'
      BY <2>10 DEF UploadPipeInterrupted, Commands
    <3>6. ZombiesAreCollected' /\ (master = "done" => reap = 2)' /\ UploadOutlivesWorker'
      BY <2>10 DEF UploadPipeInterrupted, ZombiesAreCollected, UploadOutlivesWorker,
         MasterGone
    <3> QED
      BY <3>1, <3>2, <3>3, <3>4, <3>5, <3>6
  <2>11. CASE UploadExit
    <3>1. TypeOK'
      BY <2>11 DEF UploadExit, TypeOK, Exit, Leave
    <3>2. DeliveriesAreChanges'
      BY <2>11 DEF UploadExit, TypeOK, DeliveriesAreChanges, Count, Exit
    <3>3. ForksInOrder'
      BY <2>11 DEF UploadExit, ForksInOrder
    <3>4. PipeEnds'
      BY <2>11 DEF UploadExit, PipeEnds, Exit, Leave
    <3>5. Commands'
      BY <2>11 DEF UploadExit, Commands, Exit
    <3>6. ZombiesAreCollected' /\ (master = "done" => reap = 2)' /\ UploadOutlivesWorker'
      BY <2>11 DEF UploadExit, TypeOK, ZombiesAreCollected, UploadOutlivesWorker,
         MasterGone, Exit
    <3> QED
      BY <3>1, <3>2, <3>3, <3>4, <3>5, <3>6
  <2>12. CASE UploadCrash
    <3>1. TypeOK'
      BY <2>12 DEF UploadCrash, TypeOK, Exit, Leave
    <3>2. DeliveriesAreChanges'
      BY <2>12 DEF UploadCrash, TypeOK, DeliveriesAreChanges, Count, Exit
    <3>3. ForksInOrder'
      BY <2>12 DEF UploadCrash, ForksInOrder, Exit, Leave
    <3>4. PipeEnds'
      BY <2>12 DEF UploadCrash, PipeEnds, Exit, Leave
    <3>5. Commands'
      BY <2>12 DEF UploadCrash, Commands, Exit
    <3>6. ZombiesAreCollected' /\ (master = "done" => reap = 2)' /\ UploadOutlivesWorker'
      BY <2>12 DEF UploadCrash, ZombiesAreCollected, UploadOutlivesWorker, MasterGone, Exit
    <3> QED
      BY <3>1, <3>2, <3>3, <3>4, <3>5, <3>6
  <2>13. CASE WorkerExit
    <3>1. TypeOK'
      BY <2>13 DEF WorkerExit, TypeOK, Exit, Leave
    <3>2. DeliveriesAreChanges'
      BY <2>13 DEF WorkerExit, TypeOK, DeliveriesAreChanges, Count, Exit
    <3>3. ForksInOrder'
      BY <2>13 DEF WorkerExit, ForksInOrder
    <3>4. PipeEnds'
      BY <2>13 DEF WorkerExit, TypeOK, PipeEnds, Exit, Leave
    <3>5. Commands'
      BY <2>13 DEF WorkerExit, Commands
    <3>6. ZombiesAreCollected' /\ (master = "done" => reap = 2)' /\ UploadOutlivesWorker'
      BY <2>13 DEF WorkerExit, ZombiesAreCollected, UploadOutlivesWorker, MasterGone, Exit
    <3> QED
      BY <3>1, <3>2, <3>3, <3>4, <3>5, <3>6
  <2>14. CASE OtherReturns
    <3>1. TypeOK'
      BY <2>14 DEF OtherReturns, TypeOK
    <3>2. DeliveriesAreChanges'
      BY <2>14 DEF OtherReturns, DeliveriesAreChanges
    <3>3. ForksInOrder'
      BY <2>14 DEF OtherReturns, ForksInOrder
    <3>4. PipeEnds'
      BY <2>14 DEF OtherReturns, PipeEnds
    <3>5. Commands'
      BY <2>14 DEF OtherReturns, Commands
    <3>6. ZombiesAreCollected' /\ (master = "done" => reap = 2)' /\ UploadOutlivesWorker'
      BY <2>14 DEF OtherReturns, ZombiesAreCollected, UploadOutlivesWorker, MasterGone
    <3> QED
      BY <3>1, <3>2, <3>3, <3>4, <3>5, <3>6
  <2>15. CASE StopOrContinue
    <3>1. TypeOK'
      BY <2>15 DEF StopOrContinue, TypeOK
    <3>2. DeliveriesAreChanges'
      BY <2>15 DEF StopOrContinue, TypeOK, DeliveriesAreChanges, Count
    <3>3. ForksInOrder'
      BY <2>15 DEF StopOrContinue, ForksInOrder
    <3>4. PipeEnds'
      BY <2>15 DEF StopOrContinue, TypeOK, PipeEnds
    <3>5. Commands'
      BY <2>15 DEF StopOrContinue, TypeOK, Commands
    <3>6. ZombiesAreCollected' /\ (master = "done" => reap = 2)' /\ UploadOutlivesWorker'
      BY <2>15 DEF StopOrContinue, TypeOK, ZombiesAreCollected, UploadOutlivesWorker,
         MasterGone
    <3> QED
      BY <3>1, <3>2, <3>3, <3>4, <3>5, <3>6
  <2>16. CASE UNCHANGED vars
    BY <2>16 DEF vars, TypeOK, DeliveriesAreChanges, ForksInOrder, PipeEnds, Commands,
       ZombiesAreCollected, UploadOutlivesWorker, MasterGone
  <2> QED
    BY <2>1, <2>2, <2>3, <2>4, <2>5, <2>6, <2>7, <2>8, <2>9, <2>10, <2>11, <2>12, <2>13,
       <2>14, <2>15, <2>16 DEF Next, MasterStep, UploadStep
<1> QED
  BY <1>1, <1>2, PTL DEF Spec

(***************************************************************************)
(* The state of the processes and of the pipe keeps its types; reap passes 2 *)
(* only by as many as there were stops and continuations.                    *)
(***************************************************************************)
THEOREM TypeCorrect == Spec => []TypeOK
<1>1. SupervisorInv => TypeOK
  BY DEF SupervisorInv
<1> QED
  BY <1>1, SupervisorCorrect, PTL

(***************************************************************************)
(* A child that has ended is collected: by a delivery to come or by the      *)
(* handler that runs (sdr_process_get_status).                               *)
(***************************************************************************)
THEOREM ChildrenAreCollected == Spec => []ZombiesAreCollected
<1>1. SupervisorInv => ZombiesAreCollected
  BY DEF SupervisorInv
<1> QED
  BY <1>1, SupervisorCorrect, PTL

(***************************************************************************)
(* When the master returns from sdr_master_process_cycle both children have  *)
(* ended, if none was ever stopped or continued, and one of them has, if     *)
(* that happened once: it has counted two deliveries, each of a child that   *)
(* ended or of such a change.                                                *)
(***************************************************************************)
THEOREM MasterLeavesLast == Spec => []LeavesLast
<1>1. SupervisorInv => LeavesLast
  <2> SUFFICES ASSUME SupervisorInv, master = "done"
               PROVE  /\ changes = 0 => Exited("upload") /\ Exited("worker")
                      /\ changes <= 1 => Exited("upload") \/ Exited("worker")
    BY DEF LeavesLast, Child
  <2>1. reap = 2 /\ changes \in Nat
    BY DEF SupervisorInv, TypeOK
  <2> QED
    BY <2>1 DEF SupervisorInv, DeliveriesAreChanges, Count
<1> QED
  BY <1>1, SupervisorCorrect, PTL

(***************************************************************************)
(* The upload process is not told to stop while the worker is there, as long *)
(* as no child is stopped or continued.                                      *)
(***************************************************************************)
THEOREM UploadStopsLater == Spec => []UploadOutlivesWorker
<1>1. SupervisorInv => UploadOutlivesWorker
  BY DEF SupervisorInv
<1> QED
  BY <1>1, SupervisorCorrect, PTL
=============================================================================
