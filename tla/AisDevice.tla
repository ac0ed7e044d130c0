----------------------------- MODULE AisDevice -----------------------------
(***************************************************************************)
(* An input device of the AIS worker, from Play to Stop: the thread that      *)
(* reads the source and pushes into the FIFO, the thread Run that takes       *)
(* blocks out and sends them to the model, and the main loop that stops both. *)
(* kind is "network" (src/mode/ais/RTLTCP.cpp), which drops what does not     *)
(* fit, or "file" (src/mode/ais/FileRAW.cpp), which tries again.              *)
(***************************************************************************)
EXTENDS AisFifo

CONSTANTS Kind,     \* the devices
          Lengths,  \* what client.read returns
          MaxBytes  \* bound of the model: bytes read

ASSUME KindAssumption == Kind \subseteq {"network", "file"}
ASSUME LengthsAssumption == Lengths \subseteq 0 .. Size

VARIABLES kind,
          streaming, \* Device::streaming
          lost,      \* RTLTCP::lost: the source failed
          eof,       \* file->eof()
          eoi, done, \* RAWFile: the reader has ended; the end has been seen by Run
          late,      \* history: a wait of Run timed out while the file was still read
          reader,    \* ReadAsync or RunAsync
          len,       \* the bytes it holds
          run,       \* Run
          main       \* AisMode.cpp and Stop

control == <<kind, streaming, lost, eof, eoi, done, late>>
vars == <<fifo, control, reader, len, run, main>>

TypeOK == /\ FifoTypeOK
          /\ kind \in Kind
          /\ {streaming, lost, eof, eoi, done, late} \subseteq BOOLEAN
          /\ reader \in {"loop", "read", "check", "push", "ended"}
          /\ len \in 0 .. Size
          /\ run \in {"loop", "wait", "waiting", "sending", "failed", "ended"}
          /\ main \in {"running", "halting", "joining reader", "joining run", "stopped"}

\* Play has started the two threads.
Init == /\ FifoInit
        /\ kind \in Kind
        /\ streaming = TRUE
        /\ lost = FALSE /\ eof = FALSE /\ eoi = FALSE /\ done = FALSE /\ late = FALSE
        /\ reader = "loop"
        /\ len = 0
        /\ run = "loop"
        /\ main = "running"

\* isStreaming() of the two classes.
IsStreaming == streaming /\ ~lost /\ ~done

-----------------------------------------------------------------------------

NetworkLoop ==
  /\ kind = "network" /\ reader = "loop"
  /\ reader' = IF IsStreaming THEN "read" ELSE "ended"
  /\ UNCHANGED <<fifo, control, len, run, main>>

\* client.read returns bytes, none before its timeout, or an error.
NetworkRead ==
  /\ kind = "network" /\ reader = "read"
  /\ \/ \E n \in Lengths : /\ accepted + n <= MaxBytes
                           /\ len' = n
                           /\ reader' = "check"
                           /\ UNCHANGED lost
     \/ /\ lost' = TRUE
        /\ reader' = "ended"
        /\ UNCHANGED len
  /\ UNCHANGED <<fifo, kind, streaming, eof, eoi, done, late, run, main>>

\* Mutant of FileLoop: the end is declared by the reader.
FileLoopDone ==
  /\ kind = "file" /\ reader = "loop"
  /\ \/ /\ streaming /\ ~eof
        /\ reader' = "read"
        /\ UNCHANGED <<eoi, done>>
     \/ /\ ~streaming \/ eof
        /\ reader' = "ended"
        /\ eoi' = TRUE /\ done' = TRUE
  /\ UNCHANGED <<fifo, kind, streaming, lost, eof, late, len, run, main>>

\* while (file && Device::isStreaming()), and the test of eof.
FileLoop ==
  /\ kind = "file" /\ reader = "loop"
  /\ \/ /\ streaming /\ ~eof
        /\ reader' = "read"
        /\ UNCHANGED eoi
     \/ /\ ~streaming \/ eof
        /\ reader' = "ended"
        /\ eoi' = TRUE
  /\ UNCHANGED <<fifo, kind, streaming, lost, eof, done, late, len, run, main>>

\* file->read fills the buffer, of one block, to its end or to the end of the file.
FileRead ==
  /\ kind = "file" /\ reader = "read"
  /\ len' = BLOCK_SIZE
  /\ eof' \in IF accepted + 2 * BLOCK_SIZE > MaxBytes THEN {TRUE} ELSE BOOLEAN
  /\ reader' = "check"
  /\ UNCHANGED <<fifo, kind, streaming, lost, eoi, done, late, run, main>>

\* isStreaming(), the left side of the && whose right side is the push.
ReaderCheck ==
  /\ reader = "check"
  /\ reader' = IF IsStreaming THEN "push" ELSE "loop"
  /\ UNCHANGED <<fifo, control, len, run, main>>

\* Mutant of ReaderPush: the file tries again without the test of isStreaming.
ReaderPushForEver ==
  /\ reader = "push"
  /\ \/ /\ CanPush(len)
        /\ Push(len)
        /\ reader' = "loop"
     \/ /\ ~CanPush(len)
        /\ reader' = IF kind = "file" THEN "push" ELSE "loop"
        /\ UNCHANGED fifo
  /\ UNCHANGED <<control, len, run, main>>

ReaderPush ==
  /\ reader = "push"
  /\ \/ /\ CanPush(len)
        /\ Push(len)
        /\ reader' = "loop"
     \/ /\ ~CanPush(len)
        /\ reader' = IF kind = "file" THEN "check" ELSE "loop"
        /\ UNCHANGED fifo
  /\ UNCHANGED <<control, len, run, main>>

-----------------------------------------------------------------------------

RunLoop ==
  /\ run = "loop"
  /\ run' = IF IsStreaming THEN "wait" ELSE "ended"
  /\ UNCHANGED <<fifo, control, reader, len, main>>

\* What fifo.Wait() returns.
Waited == run' = IF blocks_filled > 0 THEN "sending" ELSE "failed"

RunWait ==
  /\ run = "wait"
  /\ \/ /\ blocks_filled # 0
        /\ Waited
        /\ UNCHANGED fifo
     \/ /\ blocks_filled = 0
        /\ run' = "waiting"
        /\ Park
  /\ UNCHANGED <<control, reader, len, main>>

\* Woken, Run evaluates its predicate.
RunWoken ==
  /\ run = "waiting" /\ ~parked
  /\ \/ /\ blocks_filled # 0
        /\ Waited
        /\ UNCHANGED fifo
     \/ /\ blocks_filled = 0
        /\ UNCHANGED run
        /\ Park
  /\ UNCHANGED <<control, reader, len, main>>

\* 1.5 seconds have passed.
RunTimeout ==
  /\ run = "waiting"
  /\ Waited
  /\ Unpark
  /\ late' = (late \/ ~eoi)
  /\ UNCHANGED <<kind, streaming, lost, eof, eoi, done, reader, len, main>>

SpuriousWakeup ==
  /\ parked
  /\ Unpark
  /\ UNCHANGED <<control, reader, len, run, main>>

\* Send returns, and Pop.
RunSent ==
  /\ run = "sending"
  /\ Pop
  /\ run' = "loop"
  /\ UNCHANGED <<control, reader, len, main>>

\* The else of if (fifo.Wait()).
RunFailed ==
  /\ run = "failed"
  /\ done' = (done \/ (kind = "file" /\ eoi /\ IsStreaming))
  /\ run' = "loop"
  /\ UNCHANGED <<fifo, kind, streaming, lost, eof, eoi, late, reader, len, main>>

-----------------------------------------------------------------------------

\* The main loop stops: the device is no longer streaming.
StopEnded ==
  /\ main = "running"
  /\ ~IsStreaming
  /\ main' = "halting"
  /\ streaming' = FALSE
  /\ UNCHANGED <<fifo, kind, lost, eof, eoi, done, late, reader, len, run>>

\* The main loop stops for a reason of its own: a signal, or -T.
StopAsked ==
  /\ main = "running"
  /\ main' = "halting"
  /\ streaming' = FALSE
  /\ UNCHANGED <<fifo, kind, lost, eof, eoi, done, late, reader, len, run>>

StopHalt ==
  /\ main = "halting"
  /\ Halt
  /\ main' = "joining reader"
  /\ UNCHANGED <<control, reader, len, run>>

StopJoin ==
  /\ \/ main = "joining reader" /\ reader = "ended" /\ main' = "joining run"
     \/ main = "joining run" /\ run = "ended" /\ main' = "stopped"
  /\ UNCHANGED <<fifo, control, reader, len, run>>

ReaderStep == NetworkLoop \/ NetworkRead \/ FileLoop \/ FileRead \/ ReaderCheck \/ ReaderPush

RunStep == RunLoop \/ RunWait \/ RunWoken \/ RunTimeout \/ RunSent \/ RunFailed

StopStep == StopEnded \/ StopHalt \/ StopJoin

Next == ReaderStep \/ RunStep \/ StopStep \/ StopAsked \/ SpuriousWakeup

(***************************************************************************)
(* The operating system runs the threads, a read of a socket or of a file     *)
(* ends, a wait ends at its timeout, and the main loop looks at isStreaming.  *)
(***************************************************************************)
Fairness == /\ WF_vars(ReaderStep)
            /\ WF_vars(RunStep)
            /\ WF_vars(RunTimeout)
            /\ WF_vars(StopStep)

Spec == Init /\ [][Next]_vars /\ Fairness

-----------------------------------------------------------------------------

(***************************************************************************)
(* While Run uses a block in place, without the lock, it holds the bytes      *)
(* accepted after those of the blocks before it: no push writes into it,      *)
(* wraps into it or is taken for its rest, however much was dropped.          *)
(***************************************************************************)
FrontIntact ==
  run = "sending" =>
    \A i \in 0 .. BLOCK_SIZE - 1 : data[head + i] = taken * BLOCK_SIZE + i

(***************************************************************************)
(* When the source has failed, the file has been read or the main loop stops  *)
(* by itself, Stop is called and returns: neither thread it joins waits for    *)
(* the other, which has ended, or for room in a FIFO that was halted.         *)
(***************************************************************************)
DeviceStops == lost \/ eoi \/ main # "running" ~> main = "stopped"

(***************************************************************************)
(* A file is read to its end (AisMode.cpp:102): when Run declares it done,    *)
(* every block has been sent. Excepted is a file that kept Run waiting for    *)
(* more than the timeout of Wait: the last block may come between the wait    *)
(* that failed and the test of eoi, which does not look at the FIFO again.    *)
(***************************************************************************)
FileReadToTheEnd == done /\ ~late => taken * BLOCK_SIZE = accepted
=============================================================================
