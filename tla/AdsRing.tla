------------------------------ MODULE AdsRing ------------------------------
(***************************************************************************)
(* How the ADS-B worker hands blocks of samples from the thread that reads   *)
(* the device to the thread that decodes them (src/mode/ads/dump1090.cpp:    *)
(* rtlsdrCallback, readerThreadEntryPoint and the loop of modesAds): a ring   *)
(* of pointers under data_mutex, which drops its oldest block when the       *)
(* decoder is late and corrects the time stamp of the next one.              *)
(* A block is named by its rank in the sample stream; a time stamp counts     *)
(* blocks (MODES_ASYNC_BUF_SAMPLES*6 ticks each).                            *)
(***************************************************************************)
EXTENDS Integers

CONSTANTS N,         \* MODES_ASYNC_BUF_NUMBER: slots, and buffers of librtlsdr
          MaxBlocks  \* bound of the model: blocks the device delivers

ASSUME NAssumption == N \in Nat \ {0, 1}
ASSUME MaxBlocksAssumption == MaxBlocks \in Nat

VARIABLES device,       \* blocks the device has filled; it is filling the next
          called,       \* blocks rtlsdrCallback has been called for
          pData,        \* the block each slot points to
          iDataIn, iDataOut, iDataReady, iDataLost,
          timestampBlk, \* the time stamp of the block being decoded, or of the next
          current,      \* the block whose samples are in Modes.magnitude
          processed,    \* stat_blocks_processed
          dropped,      \* stat_blocks_dropped
          main,         \* where modesAds is; it holds data_mutex at "top" and "computing"
          reader        \* the thread inside rtlsdr_read_async

ring == <<pData, iDataIn, iDataOut, iDataReady>>
decoder == <<timestampBlk, current, processed, dropped>>
vars == <<device, called, ring, iDataLost, decoder, main, reader>>

\* No block yet.
None == MaxBlocks

TypeOK == /\ device \in 0 .. MaxBlocks
          /\ called \in 0 .. MaxBlocks
          /\ pData \in [0 .. N - 1 -> 0 .. MaxBlocks]
          /\ iDataIn \in 0 .. N - 1
          /\ iDataOut \in 0 .. N - 1
          /\ iDataReady \in 0 .. N - 1
          /\ iDataLost \in Nat
          /\ timestampBlk \in Nat
          /\ current \in 0 .. MaxBlocks
          /\ processed \in Nat
          /\ dropped \in Nat
          /\ main \in {"lock", "top", "waiting", "computing", "decoding", "background"}
          /\ reader \in {"streaming", "returned", "ended"}

\* modesInit, and modesAds up to the first pthread_mutex_lock.
Init == /\ device = 0
        /\ called = 0
        /\ pData = [i \in 0 .. N - 1 |-> None]
        /\ iDataIn = 0
        /\ iDataOut = 0
        /\ iDataReady = 0
        /\ iDataLost = 0
        /\ timestampBlk = 0
        /\ current = None
        /\ processed = 0
        /\ dropped = 0
        /\ main = "lock"
        /\ reader = "streaming"

\* Mutant of Masked: the mask is forgotten.
Unmasked(i) == i

\* (MODES_ASYNC_BUF_NUMBER-1) & i, for an i below 2 * MODES_ASYNC_BUF_NUMBER.
Masked(i) == IF i >= N THEN i - N ELSE i

After(i) == Masked(i + 1)

Distance(in, out) == Masked((in + N) - out)

Locked == main \in {"top", "computing"}

\* pthread_cond_signal(&Modes.data_cond).
Signal == main' = IF main = "waiting" THEN "lock" ELSE main

-----------------------------------------------------------------------------

\* The device completes a transfer.  librtlsdr keeps N transfers in a circle and
\* submits one again when its callback returns.
DeviceFills ==
  /\ reader = "streaming"
  /\ device < MaxBlocks
  /\ device < called + N
  /\ device' = device + 1
  /\ UNCHANGED <<called, ring, iDataLost, decoder, main, reader>>

\* Mutant of RtlsdrCallback: a full ring refuses the block that arrives.
CallbackRefusingNew ==
  /\ reader = "streaming"
  /\ called < device
  /\ ~Locked
  /\ called' = called + 1
  /\ IF Distance(After(iDataIn), iDataOut) = 0
       THEN /\ iDataLost' = iDataLost + 1
            /\ UNCHANGED ring
       ELSE /\ pData' = [pData EXCEPT ![iDataIn] = called]
            /\ iDataIn' = After(iDataIn)
            /\ iDataReady' = Distance(After(iDataIn), iDataOut)
            /\ UNCHANGED <<iDataOut, iDataLost>>
  /\ Signal
  /\ UNCHANGED <<device, decoder, reader>>

\* The part of rtlsdrCallback that queues block called.
Queue ==
  LET in == After(iDataIn)
      ready == Distance(in, iDataOut)
  IN /\ pData' = [pData EXCEPT ![iDataIn] = called]
     /\ iDataIn' = in
     /\ \/ /\ ready = 0
           /\ iDataOut' = After(iDataOut)
           /\ iDataReady' = N - 1
           /\ iDataLost' = iDataLost + 1
        \/ /\ ready # 0
           /\ iDataReady' = ready
           /\ UNCHANGED <<iDataOut, iDataLost>>

\* Mutant of RtlsdrCallback: the decoder is not woken.
CallbackSilent ==
  /\ reader = "streaming"
  /\ called < device
  /\ ~Locked
  /\ called' = called + 1
  /\ Queue
  /\ UNCHANGED <<device, decoder, main, reader>>

RtlsdrCallback ==
  /\ reader = "streaming"
  /\ called < device
  /\ ~Locked
  /\ called' = called + 1
  /\ Queue
  /\ Signal
  /\ UNCHANGED <<device, decoder, reader>>

\* rtlsdr_read_async returns: the device was unplugged, or failed.
ReadAsyncReturns ==
  /\ reader = "streaming"
  /\ reader' = "returned"
  /\ UNCHANGED <<device, called, ring, iDataLost, decoder, main>>

\* The signal after it; the unlock that follows is of a mutex this thread does not
\* hold, and no other thread is left that could take it.
ReaderEnds ==
  /\ reader = "returned"
  /\ reader' = "ended"
  /\ Signal
  /\ UNCHANGED <<device, called, ring, iDataLost, decoder>>

-----------------------------------------------------------------------------

MainLock ==
  /\ main = "lock"
  /\ main' = "top"
  /\ UNCHANGED <<device, called, ring, iDataLost, decoder, reader>>

\* while (Modes.exit == 0), which nothing in this build ever sets: wait, or start
\* on the oldest block.
MainTop ==
  /\ main = "top"
  /\ main' = IF iDataReady = 0 THEN "waiting" ELSE "computing"
  /\ UNCHANGED <<device, called, ring, iDataLost, decoder, reader>>

\* Mutant of NextBlock: the block that came last.
NewestBlock == pData[Masked((iDataIn + N) - 1)]

NextBlock == pData[iDataOut]

\* Mutant of CorrectTimestamp: one of the lost blocks is forgotten.
CorrectOneShort == /\ timestampBlk' = timestampBlk + (IF iDataLost > 0 THEN iDataLost - 1 ELSE 0)
                   /\ dropped' = dropped + iDataLost
                   /\ iDataLost' = 0

\* Mutant of CorrectTimestamp: iDataLost keeps its value.
CorrectKeepingLost == /\ timestampBlk' = timestampBlk + iDataLost
                      /\ dropped' = dropped + iDataLost
                      /\ iDataLost' = iDataLost

\* "If we lost some blocks, correct the timestamp".
CorrectTimestamp == /\ timestampBlk' = timestampBlk + iDataLost
                    /\ dropped' = dropped + iDataLost
                    /\ iDataLost' = 0

\* computeMagnitudeVector has copied the oldest block; the indices and the time
\* stamp follow, and the mutex is released.
MainCompute ==
  /\ main = "computing"
  /\ current' = NextBlock
  /\ iDataOut' = After(iDataOut)
  /\ iDataReady' = Distance(iDataIn, After(iDataOut))
  /\ CorrectTimestamp
  /\ main' = "decoding"
  /\ UNCHANGED <<device, called, pData, iDataIn, processed, reader>>

\* detectModeS returns.
MainDetect ==
  /\ main = "decoding"
  /\ timestampBlk' = timestampBlk + 1
  /\ processed' = processed + 1
  /\ main' = "background"
  /\ UNCHANGED <<device, called, ring, iDataLost, current, dropped, reader>>

\* backgroundTasks returns.
MainBackground ==
  /\ main = "background"
  /\ main' = "lock"
  /\ UNCHANGED <<device, called, ring, iDataLost, decoder, reader>>

\* pthread_cond_wait may return without a signal.
SpuriousWakeup ==
  /\ main = "waiting"
  /\ main' = "lock"
  /\ UNCHANGED <<device, called, ring, iDataLost, decoder, reader>>

MainStep == MainLock \/ MainTop \/ MainCompute \/ MainDetect \/ MainBackground

ReaderStep == DeviceFills \/ RtlsdrCallback \/ ReaderEnds

Next == MainStep \/ ReaderStep \/ ReadAsyncReturns \/ SpuriousWakeup

\* The operating system runs the decoder; nothing makes the device deliver or
\* stop, or a wait end without a signal.
Spec == Init /\ [][Next]_vars /\ WF_vars(MainStep)

-----------------------------------------------------------------------------

(***************************************************************************)
(* The time stamp given to detectModeS is the one of the block it decodes,  *)
(* however many blocks were dropped while the last one was being decoded.   *)
(***************************************************************************)
TimestampExact == main = "decoding" => timestampBlk = current

\* The i-th block in the ring, from the oldest.
Outstanding(i) == pData[Masked(iDataOut + i)]

(***************************************************************************)
(* Every block is decoded, counted as dropped, about to be counted, in the  *)
(* ring, or in the hands of the decoder.                                    *)
(***************************************************************************)
EveryBlockCounted ==
  called = processed + dropped + iDataLost + iDataReady
             + (IF main = "decoding" THEN 1 ELSE 0)

(***************************************************************************)
(* The ring never points to a buffer the device is writing to as long as no *)
(* callback is due: it gives up its oldest block just before librtlsdr uses *)
(* that buffer again.                                                       *)
(***************************************************************************)
OutstandingIntact ==
  device = called => \A i \in 0 .. iDataReady - 1 : device < Outstanding(i) + N

(***************************************************************************)
(* Blocks are decoded in the order of the stream and none of them twice.    *)
(***************************************************************************)
DecodedInOrder ==
  [][main # "decoding" /\ main' = "decoding" => current = None \/ current < current']_vars

(***************************************************************************)
(* Every block the callback was called for leaves the ring, decoded or      *)
(* dropped, even when the device stops after it: no signal is lost.         *)
(***************************************************************************)
EveryBlockLeaves == \A b \in 0 .. MaxBlocks - 1 : called > b ~> timestampBlk > b

(***************************************************************************)
(* "Signal to the other thread that new data is ready - dummy really so      *)
(* threads don't mutually lock" (dump1090.cpp:337): the decoder does not     *)
(* wait for ever for a reader that has ended.                               *)
(***************************************************************************)
NoWaitForEndedReader == reader = "ended" /\ main = "waiting" ~> main # "waiting"
=============================================================================
