----------------------------- MODULE Demodulator -----------------------------
(* One demodulator instance: the preprocessor thread takes IQ blocks, asks    *)
(* its worker thread for modems and filters, and hands blocks with the modem  *)
(* to run on them to the demodulator thread, which owns the modem it runs and *)
(* deletes the one before it; the controlling thread tears the three down.    *)
(*                                                                            *)
(* The three threads share raw pointers to modems and their kits. A modem is  *)
(* a number (the order of Modem::makeModem), a kit the modem that built it    *)
(* and the number of the build. Taking an input block is nondeterministic,    *)
(* as every producer pushes without waiting and pop gives up after 50 ms.     *)
EXTENDS Naturals, Sequences, SequencesExt

CONSTANTS Rates,        \* the sample rates of blocks, numbers from 1
          CommandCap,   \* set_max_num_items of workerQueue: 2 in the code
          ResultCap,    \* of workerResults: 100 in the code
          IqCap,        \* of pipeIQDemodData: 100 in the code
          MaxBlocks,    \* bound: input blocks taken
          MaxTypes      \* bound: calls of setDemodType

ASSUME RatesAssumption == Rates \subseteq Nat \ {0}
ASSUME CapsAssumption == {CommandCap, ResultCap, IqCap} \subseteq Nat \ {0}
ASSUME BoundsAssumption == {MaxBlocks, MaxTypes} \subseteq Nat

VARIABLES pre,          \* DemodulatorPreThread: where it is, its block, modem and kit
          worker,       \* DemodulatorWorkerThread: commands merged, modem, result
          demod,        \* DemodulatorThread: the modem and kit it owns
          commands,     \* workerQueue
          results,      \* workerResults
          iq,           \* pipeIQDemodData: each block with its modem and kit
          typeChanged,  \* demodTypeChanged: set by the control, cleared by the thread
          bandwidthChanged,
          stopping,     \* IOThread::stopping of each thread
          teardown,     \* calls of DemodulatorInstance::terminate already made
          freed,        \* modems and kits deleted
          blocks, types, builds  \* counters of MaxBlocks, MaxTypes and kit numbers

vars == <<pre, worker, demod, commands, results, iq, typeChanged,
          bandwidthChanged, stopping, teardown, freed, blocks, types, builds>>

Threads == {"pre", "worker", "demod"}
NoModem == 0
Kit(m, n) == [modem |-> m, build |-> n]
NoKit == Kit(NoModem, 0)
NoBlock == [rate |-> 0, far |-> FALSE]

\* Before Teardown, for comparison: the results queue is not flushed.
TeardownLeavingResults ==
             << <<"stop", "demod">>, <<"flush", "iq">>,
                <<"stop", "pre">>, <<"stop", "worker">>, <<"flush", "commands">>,
                <<"flush", "iq">>, <<"join", "worker">>, <<"flush", "iq">> >>

\* The calls DemodulatorInstance::terminate makes, in order, through the
\* terminate() of the two threads and of the worker.
Teardown == << <<"stop", "demod">>, <<"flush", "iq">>,
               <<"stop", "pre">>, <<"stop", "worker">>,
               <<"flush", "results">>, <<"flush", "commands">>,
               <<"flush", "iq">>, <<"join", "worker">>, <<"flush", "iq">> >>

Terminated(t) == CASE t = "pre" -> pre.pc = "done"
                   [] t = "worker" -> worker.pc = "done"
                   [] t = "demod" -> demod.pc = "done"
AllTerminated == \A t \in Threads : Terminated(t)

\* The locals of a pass (pre.block, pre.make, worker.rate) are 0 or FALSE when
\* they are not in use.
Init ==
    /\ pre = [pc |-> "top", rate |-> 0, newRate |-> 0, rateChanged |-> FALSE,
              modem |-> NoModem, kit |-> NoKit,
              block |-> NoBlock, make |-> FALSE]
    /\ worker = [pc |-> "pop", make |-> 0, build |-> 0, modem |-> NoModem,
                 kit |-> NoKit, rate |-> 0]
    /\ demod = [pc |-> "pop", modem |-> NoModem, kit |-> NoKit]
    /\ commands = <<>> /\ results = <<>> /\ iq = <<>>
    /\ typeChanged = FALSE /\ bandwidthChanged = FALSE
    /\ stopping = [t \in Threads |-> FALSE]
    /\ teardown = 0 /\ freed = {}
    /\ blocks = 0 /\ types = 0 /\ builds = 0

------------------------------------------------------------------------------
(* The controlling thread.                                                    *)

SetDemodType ==
    /\ types < MaxTypes /\ teardown = 0
    /\ types' = types + 1 /\ typeChanged' = TRUE
    /\ UNCHANGED <<pre, worker, demod, commands, results, iq, bandwidthChanged,
                   stopping, teardown, freed, blocks, builds>>

\* setBandwidth, and any other request that makes the filters be built again.
SetBandwidth ==
    /\ teardown = 0 /\ bandwidthChanged' = TRUE
    /\ UNCHANGED <<pre, worker, demod, commands, results, iq, typeChanged,
                   stopping, teardown, freed, blocks, types, builds>>

Flushed(q, name, call) == IF call = <<"flush", name>> THEN <<>> ELSE q

\* The next call of terminate(): a flag, a flush, or the wait for the worker.
Terminate ==
    /\ teardown < Len(Teardown)
    /\ LET call == Teardown[teardown + 1]
       IN /\ call = <<"join", "worker">> => Terminated("worker")
          /\ stopping' = [t \in Threads |-> stopping[t] \/ call = <<"stop", t>>]
          /\ iq' = Flushed(iq, "iq", call)
          /\ results' = Flushed(results, "results", call)
          /\ commands' = Flushed(commands, "commands", call)
    /\ teardown' = teardown + 1
    /\ UNCHANGED <<pre, worker, demod, typeChanged, bandwidthChanged, freed,
                   blocks, types, builds>>

------------------------------------------------------------------------------
(* DemodulatorPreThread::run.                                                 *)

HasModem == pre.modem # NoModem /\ pre.kit # NoKit

\* pop succeeds; a block at another rate than the filters' asks for new ones.
PreTake ==
    /\ pre.pc = "top" /\ ~stopping["pre"] /\ blocks < MaxBlocks
    /\ blocks' = blocks + 1
    /\ \E b \in [rate : Rates, far : BOOLEAN] :
          pre' = [pre EXCEPT !.pc = "decide", !.block = b,
                     !.newRate = IF b.rate # pre.rate THEN b.rate ELSE @,
                     !.rateChanged = @ \/ b.rate # pre.rate]
    /\ UNCHANGED <<worker, demod, commands, results, iq, typeChanged,
                   bandwidthChanged, stopping, teardown, freed, types, builds>>

\* Which command the block calls for, if any. The flag of a new type is cleared
\* only after the push.
PreDecide ==
    /\ pre.pc = "decide"
    /\ \/ /\ typeChanged
          /\ pre' = [pre EXCEPT !.pc = "command", !.make = TRUE,
                                !.rateChanged = FALSE]
          /\ UNCHANGED bandwidthChanged
       \/ /\ ~typeChanged /\ HasModem /\ (bandwidthChanged \/ pre.rateChanged)
          /\ pre' = [pre EXCEPT !.pc = "command", !.make = FALSE,
                                !.rateChanged = FALSE]
          /\ bandwidthChanged' = FALSE
       \/ /\ ~typeChanged /\ ~(HasModem /\ (bandwidthChanged \/ pre.rateChanged))
          /\ pre' = [pre EXCEPT !.pc = "forward"]
          /\ UNCHANGED bandwidthChanged
    /\ UNCHANGED <<worker, demod, commands, results, iq, typeChanged, stopping,
                   teardown, freed, blocks, types, builds>>

\* Before PrePushCommand, for comparison: the old modem is deleted here, when its
\* successor is ordered, instead of by the thread that runs it.
PrePushCommandDeleting ==
    /\ pre.pc = "command" /\ Len(commands) < CommandCap
    /\ commands' = Append(commands, [make |-> pre.make, rate |-> pre.newRate])
    /\ typeChanged' = (typeChanged /\ ~pre.make)
    /\ freed' = freed \cup (IF pre.make /\ pre.modem # NoModem
                            THEN {<<"modem", pre.modem>>} ELSE {})
    /\ pre' = [pre EXCEPT !.pc = "forward", !.make = FALSE,
                          !.modem = IF pre.make THEN NoModem ELSE @,
                          !.kit = IF pre.make THEN NoKit ELSE @]
    /\ UNCHANGED <<worker, demod, results, iq, bandwidthChanged, stopping,
                   teardown, blocks, types, builds>>

\* The blocking push of the command. After a MAKE_DEMOD the thread is without
\* a modem until the worker's result, and a type set meanwhile is forgotten.
PrePushCommand ==
    /\ pre.pc = "command" /\ Len(commands) < CommandCap
    /\ commands' = Append(commands, [make |-> pre.make, rate |-> pre.newRate])
    /\ typeChanged' = (typeChanged /\ ~pre.make)
    /\ pre' = [pre EXCEPT !.pc = "forward", !.make = FALSE,
                          !.modem = IF pre.make THEN NoModem ELSE @,
                          !.kit = IF pre.make THEN NoKit ELSE @]
    /\ UNCHANGED <<worker, demod, results, iq, bandwidthChanged, stopping,
                   teardown, freed, blocks, types, builds>>

\* A block too far from the wanted frequency ends the pass, before the results
\* are looked at; one the filters fit goes on to the demodulator thread.
PreForward ==
    /\ pre.pc = "forward"
    /\ pre' = [pre EXCEPT !.block = NoBlock, !.pc =
                  IF HasModem /\ pre.block.far THEN "top"
                  ELSE IF HasModem /\ pre.block.rate = pre.rate THEN "push"
                  ELSE "results"]
    /\ UNCHANGED <<worker, demod, commands, results, iq, typeChanged,
                   bandwidthChanged, stopping, teardown, freed, blocks, types, builds>>

PrePushBlock ==
    /\ pre.pc = "push" /\ Len(iq) < IqCap
    /\ iq' = Append(iq, [modem |-> pre.modem, kit |-> pre.kit])
    /\ pre' = [pre EXCEPT !.pc = "results"]
    /\ UNCHANGED <<worker, demod, commands, results, typeChanged,
                   bandwidthChanged, stopping, teardown, freed, blocks, types, builds>>

\* Before PreResult, for comparison: a modem already there is kept.
PreResultKitOnly ==
    /\ pre.pc = "results" /\ ~stopping["pre"] /\ results # <<>>
    /\ LET r == Head(results)
       IN pre' = [pre EXCEPT !.modem = IF @ = NoModem THEN r.modem ELSE @,
                             !.kit = r.kit, !.rate = r.rate]
    /\ results' = Tail(results) /\ typeChanged' = FALSE
    /\ UNCHANGED <<worker, demod, commands, iq, bandwidthChanged, stopping,
                   teardown, freed, blocks, types, builds>>

\* One result is adopted; the request flag is cleared, whoever set it.
PreResult ==
    /\ pre.pc = "results" /\ ~stopping["pre"] /\ results # <<>>
    /\ LET r == Head(results)
       IN pre' = [pre EXCEPT !.modem = r.modem, !.kit = r.kit, !.rate = r.rate]
    /\ results' = Tail(results) /\ typeChanged' = FALSE
    /\ UNCHANGED <<worker, demod, commands, iq, bandwidthChanged, stopping,
                   teardown, freed, blocks, types, builds>>

PreNoResult ==
    /\ pre.pc = "results" /\ (stopping["pre"] \/ results = <<>>)
    /\ pre' = [pre EXCEPT !.pc = "top"]
    /\ UNCHANGED <<worker, demod, commands, results, iq, typeChanged,
                   bandwidthChanged, stopping, teardown, freed, blocks, types, builds>>

PreEnd ==
    /\ pre.pc = "top" /\ stopping["pre"]
    /\ iq' = <<>>
    /\ pre' = [pre EXCEPT !.pc = "done"]
    /\ UNCHANGED <<worker, demod, commands, results, typeChanged,
                   bandwidthChanged, stopping, teardown, freed, blocks, types, builds>>

------------------------------------------------------------------------------
(* DemodulatorWorkerThread::run.                                              *)

\* A command is merged with those taken before it: of each kind the last counts.
WorkerTake ==
    /\ worker.pc = "pop" /\ ~stopping["worker"] /\ commands # <<>>
    /\ LET c == Head(commands)
       IN worker' = [worker EXCEPT
                        !.make = IF c.make THEN c.rate ELSE @,
                        !.build = IF c.make THEN @ ELSE c.rate,
                        !.pc = IF Tail(commands) = <<>> THEN "build" ELSE "pop"]
    /\ commands' = Tail(commands)
    /\ UNCHANGED <<pre, demod, results, iq, typeChanged, bandwidthChanged,
                   stopping, teardown, freed, blocks, types, builds>>

\* The modem is made if one was ordered, and its kit and filters are built;
\* if the thread is to stop nothing is built.
WorkerBuild ==
    /\ worker.pc = "build"
    /\ \/ /\ ~stopping["worker"]
          /\ LET m == IF worker.make # 0 THEN worker.modem + 1 ELSE worker.modem
             IN worker' = [worker EXCEPT
                              !.pc = "push", !.modem = m, !.kit = Kit(m, builds + 1),
                              !.rate = IF worker.make # 0 THEN worker.make
                                       ELSE worker.build,
                              !.make = 0, !.build = 0]
          /\ builds' = builds + 1
       \/ /\ stopping["worker"]
          /\ worker' = [worker EXCEPT !.pc = "pop"]
          /\ UNCHANGED builds
    /\ UNCHANGED <<pre, demod, commands, results, iq, typeChanged,
                   bandwidthChanged, stopping, teardown, freed, blocks, types>>

\* Before WorkerPush, for comparison: the result is pushed whether there is room
\* or not.
WorkerPushAnyhow ==
    /\ worker.pc = "push"
    /\ results' = Append(results, [modem |-> worker.modem, kit |-> worker.kit,
                                   rate |-> worker.rate])
    /\ worker' = [worker EXCEPT !.pc = "pop", !.rate = 0]
    /\ UNCHANGED <<pre, demod, commands, iq, typeChanged, bandwidthChanged,
                   stopping, teardown, freed, blocks, types, builds>>

\* The blocking push of the result.
WorkerPush ==
    /\ worker.pc = "push" /\ Len(results) < ResultCap
    /\ results' = Append(results, [modem |-> worker.modem, kit |-> worker.kit,
                                   rate |-> worker.rate])
    /\ worker' = [worker EXCEPT !.pc = "pop", !.rate = 0]
    /\ UNCHANGED <<pre, demod, commands, iq, typeChanged, bandwidthChanged,
                   stopping, teardown, freed, blocks, types, builds>>

WorkerEnd ==
    /\ worker.pc = "pop" /\ stopping["worker"]
    /\ worker' = [worker EXCEPT !.pc = "done"]
    /\ UNCHANGED <<pre, demod, commands, results, iq, typeChanged,
                   bandwidthChanged, stopping, teardown, freed, blocks, types, builds>>

------------------------------------------------------------------------------
(* DemodulatorThread::run.                                                    *)

Changed(new, old, none) == new # none /\ new # old

\* A block's modem and kit are adopted: the kit they replace is given back to
\* the modem that owns it, then that modem is deleted.
DemodTake ==
    /\ demod.pc = "pop" /\ ~stopping["demod"] /\ iq # <<>>
    /\ LET b == Head(iq)
           kitChanged == Changed(b.kit, demod.kit, NoKit)
           modemChanged == Changed(b.modem, demod.modem, NoModem)
       IN /\ freed' = freed
                \cup (IF kitChanged /\ demod.kit # NoKit THEN {<<"kit", demod.kit>>} ELSE {})
                \cup (IF modemChanged /\ demod.modem # NoModem
                      THEN {<<"modem", demod.modem>>} ELSE {})
          /\ demod' = [demod EXCEPT !.kit = IF kitChanged THEN b.kit ELSE @,
                                    !.modem = IF modemChanged THEN b.modem ELSE @]
    /\ iq' = Tail(iq)
    /\ UNCHANGED <<pre, worker, commands, results, typeChanged, bandwidthChanged,
                   stopping, teardown, blocks, types, builds>>

DemodEnd ==
    /\ demod.pc = "pop" /\ stopping["demod"]
    /\ iq' = <<>>
    /\ demod' = [demod EXCEPT !.pc = "done"]
    /\ UNCHANGED <<pre, worker, commands, results, typeChanged, bandwidthChanged,
                   stopping, teardown, freed, blocks, types, builds>>

------------------------------------------------------------------------------

PreStep == \/ PreDecide \/ PrePushCommand \/ PreForward \/ PrePushBlock
           \/ PreResult \/ PreNoResult \/ PreEnd
WorkerStep == WorkerTake \/ WorkerBuild \/ WorkerPush \/ WorkerEnd
DemodStep == DemodTake \/ DemodEnd

Next == \/ SetDemodType \/ SetBandwidth \/ Terminate
        \/ PreTake \/ PreStep \/ WorkerStep \/ DemodStep

\* The threads are scheduled, and a terminate() that has begun goes on; no
\* block need ever arrive and no one need call terminate().
Spec == /\ Init /\ [][Next]_vars
        /\ WF_vars(PreStep) /\ WF_vars(WorkerStep) /\ WF_vars(DemodStep)
        /\ WF_vars(teardown > 0 /\ Terminate)

------------------------------------------------------------------------------
(* Properties.                                                                *)

Modems == 0 .. MaxBlocks
Kits == [modem : Modems, build : 0 .. MaxBlocks]
AnyRate == Rates \cup {0}

PreState == [pc : {"top", "decide", "command", "forward", "push", "results", "done"},
             rate : AnyRate, newRate : AnyRate, rateChanged : BOOLEAN,
             modem : Modems, kit : Kits,
             block : [rate : AnyRate, far : BOOLEAN], make : BOOLEAN]
WorkerState == [pc : {"pop", "build", "push", "done"}, make : AnyRate,
                build : AnyRate, modem : Modems, kit : Kits, rate : AnyRate]
DemodState == [pc : {"pop", "done"}, modem : Modems, kit : Kits]
Command == [make : BOOLEAN, rate : Rates]
Result == [modem : Modems, kit : Kits, rate : Rates]
IqBlock == [modem : Modems, kit : Kits]

\* The type invariant: every queue stays within its capacity.
TypeOK ==
    /\ pre \in PreState /\ worker \in WorkerState /\ demod \in DemodState
    /\ commands \in Seq(Command) /\ Len(commands) <= CommandCap
    /\ results \in Seq(Result) /\ Len(results) <= ResultCap
    /\ iq \in Seq(IqBlock) /\ Len(iq) <= IqCap
    /\ typeChanged \in BOOLEAN /\ bandwidthChanged \in BOOLEAN
    /\ stopping \in [Threads -> BOOLEAN]
    /\ teardown \in 0 .. Len(Teardown)
    /\ freed \subseteq ({"modem"} \X Modems) \cup ({"kit"} \X Kits)
    /\ blocks \in 0 .. MaxBlocks /\ types \in 0 .. MaxTypes /\ builds \in 0 .. MaxBlocks

Pairs == {[modem |-> x.modem, kit |-> x.kit] : x \in
             ToSet(iq) \cup ToSet(results) \cup {pre, worker, demod}}

\* No thread and no queue holds a modem or a kit that has been deleted: the
\* demodulator thread deletes a modem (DemodulatorThread.cpp:105) that the
\* preprocessor and the worker reach through pointers of their own.
NothingDangles == \A x \in Pairs : /\ <<"modem", x.modem>> \notin freed
                                   /\ <<"kit", x.kit>> \notin freed

\* A kit travels with the modem that built it, so disposeKit
\* (DemodulatorThread.cpp:99) is called on the kit's own modem.
KitOfItsModem == \A x \in Pairs : x.kit.modem = x.modem

\* A terminate() that has begun ends with every thread ended, even if the
\* preprocessor and the worker wait for room in each other's queues.
ShutdownCompletes == teardown > 0 ~> AllTerminated /\ teardown = Len(Teardown)
==============================================================================
