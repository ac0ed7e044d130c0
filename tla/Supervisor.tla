----------------------------- MODULE Supervisor -----------------------------
(***************************************************************************)
(* The three processes of the program (src/proc/sdr_process_cycle.cpp and   *)
(* src/signal/sdr_signal.cpp): the master forks an upload process and a     *)
(* worker, counts the deliveries of SIGCHLD, tells the upload process to    *)
(* stop over a pipe at the first one and leaves at the second.  Every       *)
(* handled signal is blocked in the master except inside sigsuspend, so     *)
(* that a signal that arrives elsewhere stays pending, and two pending      *)
(* SIGCHLD are one.  The handler is installed without SA_NOCLDSTOP: a child *)
(* that is stopped or continued raises SIGCHLD as one that ends.            *)
(***************************************************************************)
EXTENDS Naturals, FiniteSets

CONSTANTS MaxSignals,  \* bound of the model: other signals the master receives
          MaxChanges   \* bound of the model: stops and continuations of a child

ASSUME SignalsAssumption == {MaxSignals, MaxChanges} \subseteq Nat

Child == {"upload", "worker"}

Process == Child \cup {"master"}

VARIABLES master,   \* where the master is in sdr_master_process_cycle
          child,    \* the state of each child, as the kernel sees it
          reap,     \* sdr_reap
          pending,  \* SIGCHLD is pending for the master
          signals,  \* SIGINT, SIGHUP, ... that the master has received
          changes,  \* history: how often a child was stopped or continued
          pipe,     \* commands in the pipe sdr_fd[0]
          readers,  \* processes that hold sdr_fd[0][0]
          writers,  \* processes that hold sdr_fd[0][1]
          td,       \* the thread of the upload process that reads the pipe
          bExit     \* tells the loop of the upload process to end

vars == <<master, child, reap, pending, signals, changes, pipe, readers, writers, td, bExit>>

TypeOK == /\ master \in {"fork0", "fork1", "waiting", "reaping", "handling", "nested",
                         "sleeping", "done", "sigpipe", "killed"}
          /\ child \in [Child -> {"none", "running", "stopped", "zombie", "reaped"}]
          /\ reap \in 0 .. (MaxChanges + 2)
          /\ pending \in BOOLEAN
          /\ signals \in 0 .. MaxSignals
          /\ changes \in 0 .. MaxChanges
          /\ pipe \in 0 .. (MaxSignals + 1)
          /\ readers \subseteq Process
          /\ writers \subseteq Process
          /\ td \in {"none", "reading", "returned"}
          /\ bExit \in BOOLEAN

Init == /\ master = "fork0"
        /\ child = [c \in Child |-> "none"]
        /\ reap = 0
        /\ pending = FALSE
        /\ signals = 0
        /\ changes = 0
        /\ pipe = 0
        /\ readers = {}
        /\ writers = {}
        /\ td = "none"
        /\ bExit = FALSE

Alive(c) == child[c] \in {"running", "stopped"}

Exited(c) == child[c] \in {"zombie", "reaped"}

MasterGone == master \in {"done", "sigpipe", "killed"}

-----------------------------------------------------------------------------

\* i = 0 in sdr_start_worker_processes: pipe and fork, each of which may fail;
\* only the parent closes the end it does not use, and only when fork succeeds.
ForkUpload ==
  /\ master = "fork0"
  /\ \/ /\ master' = "waiting"
        /\ UNCHANGED <<child, readers, writers>>
     \/ /\ master' = "fork1"
        /\ readers' = {"master"}
        /\ writers' = {"master"}
        /\ UNCHANGED child
     \/ /\ master' = "fork1"
        /\ child' = [child EXCEPT !["upload"] = "running"]
        /\ readers' = {"upload"}
        /\ writers' = {"master", "upload"}
  /\ UNCHANGED <<reap, pending, signals, changes, pipe, td, bExit>>

\* i = 1: the worker inherits what the master holds of the first pipe.
ForkWorker ==
  /\ master = "fork1"
  /\ master' = "waiting"
  /\ \/ UNCHANGED <<child, readers, writers>>
     \/ /\ child' = [child EXCEPT !["worker"] = "running"]
        /\ readers' = IF "master" \in readers THEN readers \cup {"worker"} ELSE readers
        /\ writers' = writers \cup {"worker"}
  /\ UNCHANGED <<reap, pending, signals, changes, pipe, td, bExit>>

\* sigsuspend lets a pending SIGCHLD in, and so does the handler of another
\* signal, as sa_mask is empty: sdr_signal_handler counts the delivery, whatever
\* became of the child.
DeliverSigchld ==
  /\ pending
  /\ pending' = FALSE
  /\ reap' = reap + 1
  /\ \/ /\ master = "waiting"
        /\ master' = "reaping"
     \/ /\ master = "handling"
        /\ master' = "nested"
  /\ UNCHANGED <<child, signals, changes, pipe, readers, writers, td, bExit>>

\* The end of the handler of SIGCHLD.  The other one goes on with the signals
\* of its own sigsuspend, so that one more SIGCHLD may follow.
HandlerReturns == \/ /\ master = "reaping"
                     /\ master' = "sleeping"
                  \/ /\ master = "nested"
                     /\ master' = "handling"

\* Mutant of GetStatus: waitpid is called once per delivery.
GetStatusOnce ==
  /\ HandlerReturns
  /\ \/ \E c \in Child : /\ child[c] = "zombie"
                         /\ child' = [child EXCEPT ![c] = "reaped"]
     \/ /\ \A c \in Child : child[c] # "zombie"
        /\ UNCHANGED child
  /\ UNCHANGED <<reap, pending, signals, changes, pipe, readers, writers, td, bExit>>

\* Mutant of GetStatus: the loop counts the children it collects once more.
GetStatusCounting ==
  /\ HandlerReturns
  /\ child' = [c \in Child |-> IF child[c] = "zombie" THEN "reaped" ELSE child[c]]
  /\ reap' = reap + Cardinality({c \in Child : child[c] = "zombie"})
  /\ UNCHANGED <<pending, signals, changes, pipe, readers, writers, td, bExit>>

\* sdr_process_get_status: waitpid, which does not ask for stopped children,
\* until no child that has ended is left.
GetStatus ==
  /\ HandlerReturns
  /\ child' = [c \in Child |-> IF child[c] = "zombie" THEN "reaped" ELSE child[c]]
  /\ UNCHANGED <<reap, pending, signals, changes, pipe, readers, writers, td, bExit>>

\* Mutant of DeliverOther: the handler counts whatever signal it is called for.
DeliverOtherCounting ==
  /\ master = "waiting"
  /\ signals < MaxSignals
  /\ signals' = signals + 1
  /\ reap' = reap + 1
  /\ master' = "handling"
  /\ UNCHANGED <<child, pending, changes, pipe, readers, writers, td, bExit>>

\* Another signal of the table ends sigsuspend; the handler only logs it.
DeliverOther ==
  /\ master = "waiting"
  /\ signals < MaxSignals
  /\ signals' = signals + 1
  /\ master' = "handling"
  /\ UNCHANGED <<child, reap, pending, changes, pipe, readers, writers, td, bExit>>

\* It returns with the mask from before sigsuspend; until then SIGCHLD comes in.
OtherReturns ==
  /\ master = "handling"
  /\ ~pending
  /\ master' = "sleeping"
  /\ UNCHANGED <<child, reap, pending, signals, changes, pipe, readers, writers, td, bExit>>

Leave(p) == /\ readers' = readers \ {p}
            /\ writers' = writers \ {p}

\* Mutant of AfterSleep: the master leaves at the first SIGCHLD.
AfterSleepAtFirst ==
  /\ master = "sleeping"
  /\ IF reap >= 1 THEN master' = "done" /\ Leave("master")
                  ELSE master' = "waiting" /\ UNCHANGED <<readers, writers>>
  /\ UNCHANGED <<child, reap, pending, signals, changes, pipe, td, bExit>>

\* Mutant of AfterSleep: the master never tells the upload process to stop.
AfterSleepSilent ==
  /\ master = "sleeping"
  /\ IF reap = 2 THEN master' = "done" /\ Leave("master")
                 ELSE master' = "waiting" /\ UNCHANGED <<readers, writers>>
  /\ UNCHANGED <<child, reap, pending, signals, changes, pipe, td, bExit>>

\* The body of the loop after sleep(1).  A write to a pipe without readers
\* raises SIGPIPE, whose default action nothing in the program changes.
AfterSleep ==
  /\ master = "sleeping"
  /\ \/ /\ reap = 1
        /\ readers # {}
        /\ pipe' = pipe + 1
        /\ master' = "waiting"
        /\ UNCHANGED <<readers, writers>>
     \/ /\ reap = 1
        /\ readers = {}
        /\ master' = "sigpipe"
        /\ Leave("master")
        /\ UNCHANGED pipe
     \/ /\ reap = 2
        /\ master' = "done"
        /\ Leave("master")
        /\ UNCHANGED pipe
     \/ /\ reap \notin {1, 2}
        /\ master' = "waiting"
        /\ UNCHANGED <<pipe, readers, writers>>
  /\ UNCHANGED <<child, reap, pending, signals, changes, td, bExit>>

\* SIGKILL, or inside sigsuspend a signal that the table leaves to its default.
MasterKilled ==
  /\ ~MasterGone
  /\ master' = "killed"
  /\ Leave("master")
  /\ UNCHANGED <<child, reap, pending, signals, changes, pipe, td, bExit>>

-----------------------------------------------------------------------------

\* Mutant of UploadStart: the child keeps the write end of its own pipe.
UploadStartKeepingEnd ==
  /\ child["upload"] = "running"
  /\ td = "none"
  /\ td' = "reading"
  /\ UNCHANGED <<master, child, reap, pending, signals, changes, pipe, readers, writers, bExit>>

\* sdr_upload_process_cycle up to its loop: the child closes the write end it
\* inherited and starts the thread that reads the pipe.
UploadStart ==
  /\ child["upload"] = "running"
  /\ td = "none"
  /\ writers' = writers \ {"upload"}
  /\ td' = "reading"
  /\ UNCHANGED <<master, child, reap, pending, signals, changes, pipe, readers, bExit>>

\* sdr_upload_pipe: a command, or the end of file once nobody holds the write
\* end; whatever is not -1 asks the loop to end.
UploadPipe ==
  /\ child["upload"] = "running"
  /\ td = "reading"
  /\ \/ /\ pipe > 0
        /\ pipe' = pipe - 1
     \/ /\ pipe = 0
        /\ writers = {}
        /\ UNCHANGED pipe
  /\ td' = "returned"
  /\ bExit' = TRUE
  /\ UNCHANGED <<master, child, reap, pending, signals, changes, readers, writers>>

\* A signal handled by the reading thread: read returns -1 (EINTR, the handlers
\* are installed without SA_RESTART), and the thread ends without a word.
UploadPipeInterrupted ==
  /\ child["upload"] = "running"
  /\ td = "reading"
  /\ td' = "returned"
  /\ UNCHANGED <<master, child, reap, pending, signals, changes, pipe, readers, writers, bExit>>

\* What the kernel does when a child ends.
Exit(c) == /\ child' = [child EXCEPT ![c] = "zombie"]
           /\ pending' = (pending \/ ~MasterGone)
           /\ Leave(c)

\* The loop sees bExit, joins the thread and returns.
UploadExit ==
  /\ child["upload"] = "running"
  /\ bExit
  /\ td = "returned"
  /\ Exit("upload")
  /\ UNCHANGED <<master, reap, signals, changes, pipe, td, bExit>>

\* The upload process dies of a signal or of an exception.
UploadCrash ==
  /\ Alive("upload")
  /\ ~bExit
  /\ Exit("upload")
  /\ UNCHANGED <<master, reap, signals, changes, pipe, td, bExit>>

\* modesAds, modesAis or CbSDR returns, or the worker dies.
WorkerExit ==
  /\ Alive("worker")
  /\ Exit("worker")
  /\ UNCHANGED <<master, reap, signals, changes, pipe, td, bExit>>

\* Somebody stops a child, or continues it (SIGSTOP or a terminal, SIGCONT);
\* do_notify_parent_cldstop in the kernel sends SIGCHLD for either.
StopOrContinue ==
  /\ changes < MaxChanges
  /\ \E c \in Child :
       /\ Alive(c)
       /\ child' = [child EXCEPT ![c] = IF @ = "running" THEN "stopped" ELSE "running"]
  /\ changes' = changes + 1
  /\ pending' = (pending \/ ~MasterGone)
  /\ UNCHANGED <<master, reap, signals, pipe, readers, writers, td, bExit>>

MasterStep == ForkUpload \/ ForkWorker \/ DeliverSigchld \/ GetStatus \/ OtherReturns
              \/ AfterSleep

UploadStep == UploadStart \/ UploadPipe \/ UploadExit

Next == \/ MasterStep
        \/ DeliverOther
        \/ MasterKilled
        \/ UploadStep
        \/ UploadPipeInterrupted
        \/ UploadCrash
        \/ WorkerExit
        \/ StopOrContinue

\* The kernel runs the master and the upload process; nothing makes the worker
\* end, a signal arrive, a process crash or a stopped one be continued.
Spec == Init /\ [][Next]_vars /\ WF_vars(MasterStep) /\ WF_vars(UploadStep)

-----------------------------------------------------------------------------

(***************************************************************************)
(* A child that has ended is not forgotten while the master runs: either    *)
(* a SIGCHLD is still pending, or the handler is about to collect it.  One  *)
(* delivery may stand for two children, which the handler must both reap.   *)
(***************************************************************************)
ZombiesAreCollected ==
  (\E c \in Child : child[c] = "zombie") =>
     pending \/ master \in {"reaping", "nested"} \/ MasterGone

(***************************************************************************)
(* The master leaves its loop only after both children have ended, for want *)
(* of one SIGCHLD for a child that was stopped or continued; with one, it   *)
(* still leaves only after one of them.  It counts deliveries, not children, *)
(* and no other signal may be counted; two stops are enough to make it      *)
(* leave both behind.                                                       *)
(***************************************************************************)
LeavesLast ==
  master = "done" => /\ changes = 0 => \A c \in Child : Exited(c)
                     /\ changes <= 1 => \E c \in Child : Exited(c)

(***************************************************************************)
(* The upload process, which carries the recordings away, is never told to  *)
(* stop while the worker that makes them is there, be it by a command or     *)
(* by the end of file on the pipe, unless a child was stopped or continued: *)
(* that alone makes the master write the command.  The worker holds the     *)
(* write end of that pipe too, so that the death of the master says nothing *)
(* while it lives.                                                          *)
(***************************************************************************)
UploadOutlivesWorker == bExit /\ Alive("worker") => changes > 0

\* The reading thread of the upload process has ended without setting bExit.
Deaf == td = "returned" /\ ~bExit

\* The master counted past 1 and past 2 inside one sigsuspend: it neither writes
\* nor leaves any more, and keeps the pipe open.
Missed == reap > 2 /\ pipe = 0 /\ ~bExit

(***************************************************************************)
(* Once the worker has ended, the upload process ends too, whatever becomes *)
(* of the master and however often a child was stopped and continued,       *)
(* unless a signal made its reading thread deaf, it stays stopped, or the   *)
(* master missed its two numbers.                                           *)
(***************************************************************************)
UploadFollowsWorker ==
  Exited("worker") /\ Alive("upload")
    ~> ~Alive("upload") \/ Deaf \/ child["upload"] = "stopped" \/ Missed

Undisturbed == /\ ~Deaf
               /\ signals = 0
               /\ changes = 0
               /\ Exited("upload") => bExit
               /\ master # "killed"

(***************************************************************************)
(* With both children forked, no crash of the upload process or the master, *)
(* no other signal and no child stopped, the end of the worker makes the    *)
(* master return from its loop: the two SIGCHLD are never merged, and the    *)
(* pipe has a reader when the master writes to it.                          *)
(***************************************************************************)
CleanShutdown ==
  <>Exited("worker") /\ <>(child["upload"] = "running") /\ []Undisturbed
    => <>(master = "done")
=============================================================================
