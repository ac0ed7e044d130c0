--------------------------- MODULE AdsRingProofs ---------------------------
(***************************************************************************)
(* The ring of blocks of the ADS-B worker, for every size of the ring and   *)
(* every length of the stream: the blocks in it are the last ones that      *)
(* arrived, in order, and the time stamp makes up for the ones it lost.     *)
(***************************************************************************)
EXTENDS AdsRing, TLAPS

USE NAssumption, MaxBlocksAssumption

\* The ring holds the last iDataReady blocks, the oldest at iDataOut.
RingHoldsLast ==
  /\ iDataReady = Distance(iDataIn, iDataOut)
  /\ iDataReady <= called
  /\ \A i \in 0 .. N - 1 : i < iDataReady => Outstanding(i) = (called - iDataReady) + i

\* The next block to decode is the one the time stamp will be corrected to.
StampInv ==
  /\ main # "decoding" => timestampBlk + iDataLost = called - iDataReady
  /\ main = "decoding" => /\ timestampBlk = current
                          /\ current + 1 + iDataLost = called - iDataReady
  /\ main = "computing" => iDataReady > 0
  /\ current = None \/ current < called - iDataReady

RingInv == TypeOK /\ called <= device /\ RingHoldsLast /\ StampInv /\ EveryBlockCounted

(***************************************************************************)
(* What queueing one more block does to a ring that holds the last blocks.  *)
(***************************************************************************)
LEMMA QueueKeepsLast ==
  ASSUME TypeOK, RingHoldsLast, Queue, called < MaxBlocks, called' = called + 1
  PROVE  /\ pData' \in [0 .. N - 1 -> 0 .. MaxBlocks]
         /\ iDataIn' \in 0 .. N - 1
         /\ iDataOut' \in 0 .. N - 1
         /\ iDataReady' \in 0 .. N - 1
         /\ iDataLost' \in Nat
         /\ \/ iDataReady' = iDataReady /\ iDataLost' = iDataLost + 1
            \/ iDataReady' = iDataReady + 1 /\ iDataLost' = iDataLost
         /\ RingHoldsLast'
<1>0. /\ called \in Nat /\ called' \in Nat /\ N \in Nat /\ N >= 2
      /\ iDataIn \in 0 .. N - 1 /\ iDataOut \in 0 .. N - 1 /\ iDataReady \in 0 .. N - 1
      /\ iDataLost \in Nat
      /\ pData \in [0 .. N - 1 -> 0 .. MaxBlocks]
      /\ called \in 0 .. MaxBlocks
  BY DEF TypeOK
<1>1. /\ iDataIn' = After(iDataIn)
      /\ iDataIn' \in 0 .. N - 1
      /\ pData' = [pData EXCEPT ![iDataIn] = called]
  BY <1>0 DEF Queue, After, Masked
<1>2. pData' \in [0 .. N - 1 -> 0 .. MaxBlocks]
  BY <1>0, <1>1
<1>3. iDataReady = Distance(iDataIn, iDataOut)
  BY DEF RingHoldsLast
<1>4. CASE Distance(iDataIn', iDataOut) = 0
  <2>1. /\ iDataOut' = After(iDataOut)
        /\ iDataReady' = N - 1
        /\ iDataLost' = iDataLost + 1
    BY <1>1, <1>4 DEF Queue
  <2>2. iDataReady = N - 1 /\ iDataOut = iDataIn'
    BY <1>0, <1>1, <1>3, <1>4 DEF Distance, After, Masked
  <2>3. iDataOut' \in 0 .. N - 1 /\ iDataReady' = Distance(iDataIn', iDataOut')
    BY <1>0, <1>1, <2>1, <2>2 DEF Distance, After, Masked
  <2>4. ASSUME NEW i \in 0 .. N - 1, i < iDataReady'
        PROVE  Outstanding(i)' = (called' - iDataReady') + i
    <3>1. CASE i = N - 2
      <4>1. Masked(iDataOut' + i) = iDataIn
        BY <1>0, <1>1, <2>1, <2>2, <3>1 DEF After, Masked
      <4> QED
        BY <1>0, <1>1, <2>1, <3>1, <4>1 DEF Outstanding
    <3>2. CASE i < N - 2
      <4>1. /\ Masked(iDataOut' + i) = Masked(iDataOut + (i + 1))
            /\ Masked(iDataOut' + i) # iDataIn
            /\ Masked(iDataOut' + i) \in 0 .. N - 1
            /\ i + 1 \in 0 .. N - 1 /\ i + 1 < iDataReady
        BY <1>0, <1>1, <2>1, <2>2, <3>2 DEF After, Masked
      <4>2. Outstanding(i + 1) = (called - iDataReady) + (i + 1)
        BY <4>1 DEF RingHoldsLast
      <4>3. Outstanding(i)' = Outstanding(i + 1)
        BY <1>0, <1>1, <4>1 DEF Outstanding
      <4> QED
        BY <1>0, <2>1, <2>2, <4>2, <4>3
    <3> QED
      BY <1>0, <2>1, <2>4, <3>1, <3>2
  <2>5. RingHoldsLast'
    BY <1>0, <2>1, <2>2, <2>3, <2>4 DEF RingHoldsLast
  <2> QED
    BY <1>0, <1>1, <1>2, <2>1, <2>2, <2>3, <2>5
<1>5. CASE Distance(iDataIn', iDataOut) # 0
  <2>1. /\ iDataOut' = iDataOut
        /\ iDataReady' = Distance(iDataIn', iDataOut)
        /\ iDataLost' = iDataLost
    BY <1>1, <1>5 DEF Queue
  <2>2. iDataReady' = iDataReady + 1 /\ iDataReady' \in 0 .. N - 1
    BY <1>0, <1>1, <1>3, <1>5, <2>1 DEF Distance, After, Masked
  <2>3. Masked(iDataOut + iDataReady) = iDataIn
    BY <1>0, <1>3 DEF Distance, Masked
  <2>4. ASSUME NEW i \in 0 .. N - 1, i < iDataReady'
        PROVE  Outstanding(i)' = (called' - iDataReady') + i
    <3>1. CASE i = iDataReady
      BY <1>0, <1>1, <2>1, <2>2, <2>3, <3>1 DEF Outstanding
    <3>2. CASE i < iDataReady
      <4>1. Masked(iDataOut + i) # iDataIn /\ Masked(iDataOut + i) \in 0 .. N - 1
        BY <1>0, <2>3, <3>2 DEF Masked
      <4>2. Outstanding(i) = (called - iDataReady) + i
        BY <3>2 DEF RingHoldsLast
      <4>3. Outstanding(i)' = Outstanding(i)
        BY <1>0, <1>1, <2>1, <4>1 DEF Outstanding
      <4> QED
        BY <1>0, <2>2, <4>2, <4>3
    <3> QED
      BY <1>0, <2>2, <2>4, <3>1, <3>2
  <2>5. RingHoldsLast'
    BY <1>0, <2>1, <2>2, <2>4 DEF RingHoldsLast
  <2> QED
    BY <1>0, <1>1, <1>2, <2>1, <2>2, <2>5
<1> QED
  BY <1>4, <1>5

(***************************************************************************)
(* What taking the oldest block out does to such a ring.                    *)
(***************************************************************************)
LEMMA ComputeKeepsLast ==
  ASSUME TypeOK, RingHoldsLast, MainCompute, iDataReady > 0
  PROVE  /\ iDataOut' \in 0 .. N - 1
         /\ iDataReady' \in 0 .. N - 1
         /\ iDataReady' = iDataReady - 1
         /\ current' = called - iDataReady
         /\ RingHoldsLast'
<1>0. /\ called \in Nat /\ called' = called /\ N \in Nat /\ N >= 2
      /\ iDataIn \in 0 .. N - 1 /\ iDataOut \in 0 .. N - 1 /\ iDataReady \in 0 .. N - 1
      /\ pData' = pData /\ iDataIn' = iDataIn
      /\ iDataOut' = After(iDataOut) /\ iDataReady' = Distance(iDataIn, After(iDataOut))
      /\ iDataReady = Distance(iDataIn, iDataOut)
      /\ iDataReady <= called
  BY DEF TypeOK, MainCompute, RingHoldsLast
<1>1. /\ iDataOut' \in 0 .. N - 1
      /\ iDataReady' \in 0 .. N - 1
      /\ iDataReady' = iDataReady - 1
  BY <1>0 DEF After, Distance, Masked
<1>2. current' = called - iDataReady
  <2>1. Masked(iDataOut + 0) = iDataOut
    BY <1>0 DEF Masked
  <2>2. Outstanding(0) = (called - iDataReady) + 0
    BY <1>0 DEF RingHoldsLast
  <2> QED
    BY <1>0, <2>1, <2>2 DEF Outstanding, MainCompute, NextBlock
<1>3. ASSUME NEW i \in 0 .. N - 1, i < iDataReady'
      PROVE  Outstanding(i)' = (called' - iDataReady') + i
  <2>1. /\ Masked(iDataOut' + i) = Masked(iDataOut + (i + 1))
        /\ i + 1 \in 0 .. N - 1 /\ i + 1 < iDataReady
    BY <1>0, <1>1, <1>3 DEF After, Masked
  <2>2. Outstanding(i + 1) = (called - iDataReady) + (i + 1)
    BY <2>1 DEF RingHoldsLast
  <2>3. Outstanding(i)' = Outstanding(i + 1)
    BY <1>0, <2>1 DEF Outstanding
  <2> QED
    BY <1>0, <1>1, <2>2, <2>3
<1> QED
  BY <1>0, <1>1, <1>2, <1>3 DEF RingHoldsLast

(***************************************************************************)
(* The steps that move the decoder from one place to another without        *)
(* touching the ring.                                                       *)
(***************************************************************************)
LEMMA MovesKeepRing ==
  ASSUME RingInv, called' = called, device' \in 0 .. MaxBlocks, device <= device',
         UNCHANGED <<ring, iDataLost, decoder>>,
         reader' \in {"streaming", "returned", "ended"},
         \/ main' = main
         \/ /\ main # "decoding"
            /\ main' \in {"lock", "top", "waiting", "background"}
         \/ main # "decoding" /\ main' = "computing" /\ iDataReady > 0
  PROVE  RingInv'
<1>1. TypeOK'
  BY DEF RingInv, TypeOK, ring, decoder
<1>2. RingHoldsLast'
  BY DEF RingInv, RingHoldsLast, Outstanding, ring
<1>3. StampInv' /\ EveryBlockCounted'
  BY DEF RingInv, StampInv, EveryBlockCounted, ring, decoder
<1>4. called' <= device'
  BY DEF RingInv, TypeOK
<1> QED
  BY <1>1, <1>2, <1>3, <1>4 DEF RingInv

(***************************************************************************)
(* The invariant of the ring and of the time stamp, kept by the callback,   *)
(* the decoder and the end of the reader in any interleaving.               *)
(***************************************************************************)
THEOREM RingCorrect == Spec => []RingInv
<1>1. Init => RingInv
  <2> SUFFICES ASSUME Init PROVE RingInv
    OBVIOUS
  <2>1. TypeOK /\ called <= device
    BY DEF Init, TypeOK, None
  <2>2. RingHoldsLast
    BY DEF Init, RingHoldsLast, Distance, Masked
  <2>3. StampInv /\ EveryBlockCounted
    BY DEF Init, StampInv, EveryBlockCounted
  <2> QED
    BY <2>1, <2>2, <2>3 DEF RingInv
<1>2. RingInv /\ [Next]_vars => RingInv'
  <2> SUFFICES ASSUME RingInv, [Next]_vars PROVE RingInv'
    OBVIOUS
  <2>0. /\ TypeOK /\ called <= device /\ RingHoldsLast /\ StampInv /\ EveryBlockCounted
        /\ device \in 0 .. MaxBlocks
        /\ reader \in {"streaming", "returned", "ended"}
    BY DEF RingInv, TypeOK
  <2>1. CASE DeviceFills
    BY <2>0, <2>1, MovesKeepRing DEF DeviceFills
  <2>2. CASE RtlsdrCallback
    <3>1. /\ called < MaxBlocks /\ called' = called + 1 /\ called' \in 0 .. MaxBlocks
          /\ called' <= device'
          /\ Queue /\ device' = device /\ reader' = reader
          /\ UNCHANGED decoder
      BY <2>0, <2>2 DEF RtlsdrCallback, TypeOK
    <3>2. /\ main' \in {"lock", "waiting", "decoding", "background"}
          /\ main \in {"lock", "waiting", "decoding", "background"}
          /\ main' = "decoding" <=> main = "decoding"
      BY <2>0, <2>2 DEF RtlsdrCallback, Signal, Locked, TypeOK
    <3>3. /\ pData' \in [0 .. N - 1 -> 0 .. MaxBlocks]
          /\ iDataIn' \in 0 .. N - 1
          /\ iDataOut' \in 0 .. N - 1
          /\ iDataReady' \in 0 .. N - 1
          /\ iDataLost' \in Nat
          /\ \/ iDataReady' = iDataReady /\ iDataLost' = iDataLost + 1
             \/ iDataReady' = iDataReady + 1 /\ iDataLost' = iDataLost
          /\ RingHoldsLast'
      BY <2>0, <3>1, QueueKeepsLast
    <3>4. TypeOK'
      BY <2>0, <3>1, <3>2, <3>3 DEF TypeOK, decoder
    <3>5. /\ called \in Nat /\ iDataReady \in Nat /\ iDataLost \in Nat
          /\ called' \in Nat /\ iDataReady' \in Nat /\ iDataLost' \in Nat
          /\ timestampBlk \in Nat /\ current \in Nat
          /\ processed \in Nat /\ dropped \in Nat
          /\ timestampBlk' = timestampBlk /\ current' = current
          /\ processed' = processed /\ dropped' = dropped
      BY <2>0, <3>1, <3>3 DEF TypeOK, decoder
    <3>6. /\ main # "decoding" => timestampBlk' + iDataLost' = called' - iDataReady'
          /\ main = "decoding" => current' + 1 + iDataLost' = called' - iDataReady'
      BY <2>0, <3>1, <3>3, <3>5, SMTT(30) DEF StampInv
    <3>7. current' = None \/ current' < called' - iDataReady'
      <4>1. CASE current = None
        BY <3>5, <4>1 DEF None
      <4>2. CASE current < called - iDataReady
        <5>1. CASE iDataReady' = iDataReady /\ iDataLost' = iDataLost + 1
          BY <3>1, <3>5, <4>2, <5>1
        <5>2. CASE iDataReady' = iDataReady + 1 /\ iDataLost' = iDataLost
          BY <3>1, <3>5, <4>2, <5>2
        <5> QED
          BY <3>3, <5>1, <5>2
      <4> QED
        BY <2>0, <4>1, <4>2 DEF StampInv
    <3>8. StampInv'
      BY <2>0, <3>2, <3>5, <3>6, <3>7 DEF StampInv, None
    <3>9. EveryBlockCounted'
      <4> DEFINE inHand == IF main = "decoding" THEN 1 ELSE 0
      <4>1. inHand \in Nat /\ inHand' = inHand
        BY <3>2
      <4>2. called = processed + dropped + iDataLost + iDataReady + inHand
        BY <2>0 DEF EveryBlockCounted
      <4> HIDE DEF inHand
      <4>3. called' = processed + dropped + iDataLost' + iDataReady' + inHand
        <5>1. CASE iDataReady' = iDataReady /\ iDataLost' = iDataLost + 1
          BY <3>1, <3>5, <4>1, <4>2, <5>1
        <5>2. CASE iDataReady' = iDataReady + 1 /\ iDataLost' = iDataLost
          BY <3>1, <3>5, <4>1, <4>2, <5>2
        <5> QED
          BY <3>3, <5>1, <5>2
      <4> QED
        BY <3>5, <4>1, <4>3 DEF EveryBlockCounted, inHand
    <3> QED
      BY <3>1, <3>3, <3>4, <3>8, <3>9 DEF RingInv
  <2>3. CASE ReadAsyncReturns
    BY <2>0, <2>3, MovesKeepRing DEF ReadAsyncReturns
  <2>4. CASE ReaderEnds
    BY <2>0, <2>4, MovesKeepRing DEF ReaderEnds, Signal
  <2>5. CASE MainLock
    BY <2>0, <2>5, MovesKeepRing DEF MainLock
  <2>6. CASE MainTop
    <3>1. iDataReady # 0 => iDataReady > 0
      BY <2>0 DEF TypeOK
    <3> QED
      BY <2>0, <2>6, <3>1, MovesKeepRing DEF MainTop
  <2>7. CASE MainCompute
    <3>1. iDataReady > 0
      BY <2>0, <2>7 DEF StampInv, MainCompute
    <3>2. /\ iDataOut' \in 0 .. N - 1
          /\ iDataReady' \in 0 .. N - 1
          /\ iDataReady' = iDataReady - 1
          /\ current' = called - iDataReady
          /\ RingHoldsLast'
      BY <2>0, <2>7, <3>1, ComputeKeepsLast
    <3>3. /\ main = "computing" /\ main' = "decoding"
          /\ timestampBlk' = timestampBlk + iDataLost
          /\ dropped' = dropped + iDataLost
          /\ iDataLost' = 0
          /\ UNCHANGED <<device, called, pData, iDataIn, processed, reader>>
      BY <2>7 DEF MainCompute, CorrectTimestamp
    <3>4. current' \in 0 .. MaxBlocks
      BY <2>0, <3>2, SMTT(30) DEF TypeOK, RingHoldsLast
    <3>5. TypeOK'
      BY <2>0, <3>2, <3>3, <3>4 DEF TypeOK
    <3>6. StampInv'
      BY <2>0, <3>2, <3>3, <3>5 DEF StampInv, TypeOK
    <3>7. EveryBlockCounted'
      BY <2>0, <3>2, <3>3, <3>5 DEF EveryBlockCounted, TypeOK
    <3> QED
      BY <2>0, <3>2, <3>3, <3>5, <3>6, <3>7 DEF RingInv
  <2>8. CASE MainDetect
    <3>1. TypeOK'
      BY <2>0, <2>8 DEF MainDetect, TypeOK, ring
    <3>2. RingHoldsLast'
      BY <2>0, <2>8 DEF MainDetect, RingHoldsLast, Outstanding, ring
    <3>3. StampInv'
      BY <2>0, <2>8 DEF MainDetect, StampInv, TypeOK, ring
    <3>4. EveryBlockCounted'
      BY <2>0, <2>8 DEF MainDetect, EveryBlockCounted, TypeOK, ring
    <3>5. called' <= device'
      BY <2>0, <2>8 DEF MainDetect
    <3> QED
      BY <3>1, <3>2, <3>3, <3>4, <3>5 DEF RingInv
  <2>9. CASE MainBackground
    BY <2>0, <2>9, MovesKeepRing DEF MainBackground
  <2>10. CASE SpuriousWakeup
    BY <2>0, <2>10, MovesKeepRing DEF SpuriousWakeup
  <2>11. CASE UNCHANGED vars
    BY <2>0, <2>11, MovesKeepRing DEF vars
  <2> QED
    BY <2>1, <2>2, <2>3, <2>4, <2>5, <2>6, <2>7, <2>8, <2>9, <2>10, <2>11
    DEF Next, MainStep, ReaderStep
<1> QED
  BY <1>1, <1>2, PTL DEF Spec

(***************************************************************************)
(* The type invariant: the indices stay within the ring.                    *)
(***************************************************************************)
THEOREM TypeCorrect == Spec => []TypeOK
<1>1. RingInv => TypeOK
  BY DEF RingInv
<1> QED
  BY <1>1, RingCorrect, PTL

(***************************************************************************)
(* detectModeS always runs with the time stamp of the block it decodes.     *)
(***************************************************************************)
THEOREM StampsCorrect == Spec => []TimestampExact
<1>1. RingInv => TimestampExact
  BY DEF RingInv, StampInv, TimestampExact
<1> QED
  BY <1>1, RingCorrect, PTL

(***************************************************************************)
(* Every block the callback was called for is accounted for.                *)
(***************************************************************************)
THEOREM BlocksCounted == Spec => []EveryBlockCounted
<1>1. RingInv => EveryBlockCounted
  BY DEF RingInv
<1> QED
  BY <1>1, RingCorrect, PTL

(***************************************************************************)
(* While no callback is due, librtlsdr does not write to a buffer that the  *)
(* ring still points to.                                                    *)
(***************************************************************************)
THEOREM BuffersIntact == Spec => []OutstandingIntact
<1>1. RingInv => OutstandingIntact
  <2> SUFFICES ASSUME RingInv, device = called, NEW i \in 0 .. iDataReady - 1
               PROVE  device < Outstanding(i) + N
    BY DEF OutstandingIntact
  <2>1. /\ called \in Nat /\ N \in Nat /\ iDataReady \in 0 .. N - 1
        /\ i \in 0 .. N - 1 /\ i < iDataReady
    BY DEF RingInv, TypeOK
  <2>2. Outstanding(i) = (called - iDataReady) + i
    BY <2>1 DEF RingInv, RingHoldsLast
  <2> QED
    BY <2>1, <2>2
<1> QED
  BY <1>1, RingCorrect, PTL

(***************************************************************************)
(* Blocks are decoded in the order of the stream and none of them twice.    *)
(***************************************************************************)
THEOREM InOrder == Spec => DecodedInOrder
<1>1. RingInv /\ [Next]_vars => [main # "decoding" /\ main' = "decoding"
                              => current = None \/ current < current']_vars
  <2> SUFFICES ASSUME RingInv, [Next]_vars, main # "decoding", main' = "decoding"
               PROVE  current = None \/ current < current'
    OBVIOUS
  <2>1. MainCompute
    BY DEF Next, MainStep, ReaderStep, DeviceFills, RtlsdrCallback, ReadAsyncReturns,
           ReaderEnds, MainLock, MainTop, MainDetect, MainBackground, SpuriousWakeup,
           Signal, decoder, vars
  <2>2. iDataReady > 0
    BY <2>1 DEF RingInv, StampInv, MainCompute
  <2>3. current' = called - iDataReady
    BY <2>1, <2>2, ComputeKeepsLast DEF RingInv
  <2> QED
    BY <2>3 DEF RingInv, StampInv
<1> QED
  BY <1>1, RingCorrect, PTL DEF Spec, DecodedInOrder
=============================================================================
