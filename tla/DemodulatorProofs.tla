-------------------------- MODULE DemodulatorProofs --------------------------
(***************************************************************************)
(* The pointers that go round the three threads of a demodulator, for any    *)
(* rates, any capacities of the queues and any number of blocks and types.   *)
(***************************************************************************)
EXTENDS Demodulator, TLAPS

USE RatesAssumption, CapsAssumption, BoundsAssumption

Count(b) == IF b THEN 1 ELSE 0

\* Commands that the worker has merged and not yet carried out.
Ordered == worker.make # 0 \/ worker.build # 0

(***************************************************************************)
(* Every build answers a command of its own and every command a block; what  *)
(* is under way has the rate of some block.                                  *)
(***************************************************************************)
BuildsAreBlocks ==
  /\ builds + Len(commands) + Count(Ordered) + Count(pre.pc \in {"decide", "command"}) <= blocks
  /\ worker.pc = "build" => Ordered
  /\ worker.pc = "push" => worker.rate # 0
  /\ worker.modem <= builds
  /\ \/ pre.newRate # 0
     \/ /\ blocks = 0 /\ pre.rate = 0 /\ results = <<>>
        /\ pre.pc \notin {"decide", "command"} /\ worker.pc # "push"

Void == [modem |-> NoModem, kit |-> NoKit]

(***************************************************************************)
(* Builds are numbered in the order of the worker, whose own is the last;    *)
(* a later build has the same modem or a later one.                          *)
(***************************************************************************)
LaterBuildLaterModem ==
  /\ worker.kit.build = builds
  /\ \A x \in Pairs : x.kit.build <= builds
  /\ \A x \in Pairs : x.kit.build = 0 => x = Void
  /\ \A x, y \in Pairs : x.kit.build <= y.kit.build => x.modem <= y.modem

Sorted(q) == \A i, j \in DOMAIN q : i <= j => q[i].kit.build <= q[j].kit.build

(***************************************************************************)
(* From the demodulator thread back to the results that wait, by way of the  *)
(* blocks and the preprocessor, builds are met in their order.               *)
(***************************************************************************)
BuildsInOrder ==
  /\ Sorted(iq) /\ Sorted(results)
  /\ \A i \in DOMAIN iq : demod.kit.build <= iq[i].kit.build
  /\ \A j \in DOMAIN results : demod.kit.build <= results[j].kit.build
  /\ \A i \in DOMAIN iq, j \in DOMAIN results : iq[i].kit.build <= results[j].kit.build
  /\ \A j \in DOMAIN results : pre.kit.build <= results[j].kit.build
  /\ pre.kit # NoKit => /\ demod.kit.build <= pre.kit.build
                        /\ \A i \in DOMAIN iq : iq[i].kit.build <= pre.kit.build
  /\ demod.kit.build <= worker.kit.build

\* The preprocessor passes on no block without a modem.
BlocksHaveModems ==
  /\ pre.pc = "push" => HasModem
  /\ \A i \in DOMAIN iq : iq[i].modem # NoModem /\ iq[i].kit # NoKit

(***************************************************************************)
(* What has been deleted is older than what the demodulator thread owns.     *)
(***************************************************************************)
FreedIsOlder ==
  /\ \A m \in Modems : <<"modem", m>> \in freed => m # NoModem /\ m < demod.modem
  /\ \A k \in Kits : <<"kit", k>> \in freed => k.build # 0 /\ k.build < demod.kit.build

DemodulatorInv == /\ TypeOK /\ BuildsAreBlocks
                  /\ KitOfItsModem /\ LaterBuildLaterModem
                  /\ BuildsInOrder /\ BlocksHaveModems
                  /\ FreedIsOlder

(***************************************************************************)
(* Types and counts through every step: the queues keep their capacities     *)
(* and no build is without a block.                                          *)
(***************************************************************************)
LEMMA TypesAndCounts ==
  ASSUME TypeOK, BuildsAreBlocks, [Next]_vars
  PROVE  TypeOK' /\ BuildsAreBlocks'
<1>1. CASE SetDemodType
  <2>1. TypeOK'
    <3>1. types' \in 0 .. MaxTypes
      BY <1>1 DEF SetDemodType, TypeOK
    <3> QED
      BY <1>1, <3>1, Zenon DEF SetDemodType, TypeOK
  <2>2. BuildsAreBlocks'
    BY <1>1 DEF SetDemodType, TypeOK, PreState, WorkerState, BuildsAreBlocks, Count, Ordered
  <2> QED
    BY <2>1, <2>2
<1>2. CASE SetBandwidth
  <2>1. TypeOK'
    BY <1>2, Zenon DEF SetBandwidth, TypeOK
  <2>2. BuildsAreBlocks'
    BY <1>2 DEF SetBandwidth, TypeOK, PreState, WorkerState, BuildsAreBlocks, Count, Ordered
  <2> QED
    BY <2>1, <2>2
<1>3. CASE Terminate
  <2>1. TypeOK'
    <3>1. /\ commands' \in Seq(Command) /\ Len(commands') <= CommandCap
          /\ results' \in Seq(Result) /\ Len(results') <= ResultCap
          /\ iq' \in Seq(IqBlock) /\ Len(iq') <= IqCap
      BY <1>3 DEF Terminate, TypeOK, Flushed
    <3>2. stopping' \in [Threads -> BOOLEAN]
      BY <1>3 DEF Terminate, TypeOK
    <3>3. teardown' \in 0 .. Len(Teardown)
      BY <1>3 DEF Terminate, TypeOK
    <3> QED
      BY <1>3, <3>1, <3>2, <3>3, Zenon DEF Terminate, TypeOK
  <2>2. BuildsAreBlocks'
    <3>1. /\ Len(commands') \in Nat /\ Len(commands') <= Len(commands)
          /\ results = <<>> => results' = <<>>
          /\ UNCHANGED <<pre, worker, blocks, builds>>
      BY <1>3 DEF Terminate, TypeOK, Flushed
    <3> QED
      BY <3>1 DEF TypeOK, BuildsAreBlocks, Count, Ordered
  <2> QED
    BY <2>1, <2>2
<1>4. CASE PreTake
  <2>1. TypeOK'
    <3>1. pre' \in PreState
      BY <1>4 DEF PreTake, TypeOK, PreState, AnyRate
    <3>2. blocks' \in 0 .. MaxBlocks
      BY <1>4 DEF PreTake, TypeOK
    <3> QED
      BY <1>4, <3>1, <3>2, Zenon DEF PreTake, TypeOK
  <2>2. BuildsAreBlocks'
    BY <1>4 DEF PreTake, TypeOK, PreState, WorkerState, BuildsAreBlocks, Count, Ordered
  <2> QED
    BY <2>1, <2>2
<1>5. CASE PreDecide
  <2>1. TypeOK'
    <3>1. pre' \in PreState
      BY <1>5 DEF PreDecide, TypeOK, PreState
    <3> QED
      BY <1>5, <3>1, Zenon DEF PreDecide, TypeOK
  <2>2. BuildsAreBlocks'
    <3>1. /\ pre.pc = "decide" /\ pre'.pc \in {"command", "forward"}
          /\ pre'.newRate = pre.newRate
          /\ UNCHANGED <<worker, commands, blocks, builds>>
      BY <1>5 DEF PreDecide, TypeOK, PreState
    <3> QED
      BY <3>1 DEF TypeOK, BuildsAreBlocks, Count, Ordered
  <2> QED
    BY <2>1, <2>2
<1>6. CASE PrePushCommand
  <2>1. TypeOK'
    <3>1. NoModem \in Modems /\ NoKit \in Kits
      BY <1>6 DEF PrePushCommand, TypeOK, Modems, Kits, NoModem, NoKit, Kit
    <3>2. pre' \in PreState
      BY <1>6, <3>1 DEF PrePushCommand, TypeOK, PreState
    <3>3. commands' \in Seq(Command) /\ Len(commands') <= CommandCap
      BY <1>6, <3>1, <3>2 DEF PrePushCommand, TypeOK, PreState, AnyRate, Command, BuildsAreBlocks
    <3> QED
      BY <1>6, <3>1, <3>2, <3>3, Zenon DEF PrePushCommand, TypeOK
  <2>2. BuildsAreBlocks'
    BY <1>6 DEF PrePushCommand, TypeOK, PreState, WorkerState, BuildsAreBlocks, Count, Ordered
  <2> QED
    BY <2>1, <2>2
<1>7. CASE PreForward
  <2>1. TypeOK'
    <3>1. pre' \in PreState
      BY <1>7 DEF PreForward, TypeOK, PreState, AnyRate, NoBlock
    <3> QED
      BY <1>7, <3>1, Zenon DEF PreForward, TypeOK
  <2>2. BuildsAreBlocks'
    BY <1>7 DEF PreForward, TypeOK, PreState, WorkerState, BuildsAreBlocks, Count, Ordered
  <2> QED
    BY <2>1, <2>2
<1>8. CASE PrePushBlock
  <2>1. TypeOK'
    <3>1. pre' \in PreState
      BY <1>8 DEF PrePushBlock, TypeOK, PreState
    <3>2. iq' \in Seq(IqBlock) /\ Len(iq') <= IqCap
      BY <1>8 DEF PrePushBlock, TypeOK, PreState, IqBlock
    <3> QED
      BY <1>8, <3>1, <3>2, Zenon DEF PrePushBlock, TypeOK
  <2>2. BuildsAreBlocks'
    BY <1>8 DEF PrePushBlock, TypeOK, PreState, WorkerState, BuildsAreBlocks, Count, Ordered
  <2> QED
    BY <2>1, <2>2
<1>9. CASE PreResult
  <2>1. TypeOK'
    <3>1. Head(results) \in Result
      BY <1>9 DEF PreResult, TypeOK
    <3>2. pre' \in PreState
      BY <1>9, <3>1 DEF PreResult, TypeOK, PreState, Result, AnyRate
    <3>3. results' \in Seq(Result) /\ Len(results') <= ResultCap
      BY <1>9, <3>1, <3>2 DEF PreResult, TypeOK
    <3> QED
      BY <1>9, <3>1, <3>2, <3>3, Zenon DEF PreResult, TypeOK
  <2>2. BuildsAreBlocks'
    BY <1>9 DEF PreResult, TypeOK, PreState, WorkerState, BuildsAreBlocks, Count, Ordered
  <2> QED
    BY <2>1, <2>2
<1>10. CASE PreNoResult
  <2>1. TypeOK'
    <3>1. pre' \in PreState
      BY <1>10 DEF PreNoResult, TypeOK, PreState
    <3> QED
      BY <1>10, <3>1, Zenon DEF PreNoResult, TypeOK
  <2>2. BuildsAreBlocks'
    BY <1>10 DEF PreNoResult, TypeOK, PreState, WorkerState, BuildsAreBlocks, Count, Ordered
  <2> QED
    BY <2>1, <2>2
<1>11. CASE PreEnd
  <2>1. TypeOK'
    <3>1. pre' \in PreState
      BY <1>11 DEF PreEnd, TypeOK, PreState
    <3>2. iq' \in Seq(IqBlock) /\ Len(iq') <= IqCap
      BY <1>11 DEF PreEnd, TypeOK
    <3> QED
      BY <1>11, <3>1, <3>2, Zenon DEF PreEnd, TypeOK
  <2>2. BuildsAreBlocks'
    BY <1>11 DEF PreEnd, TypeOK, PreState, WorkerState, BuildsAreBlocks, Count, Ordered
  <2> QED
    BY <2>1, <2>2
<1>12. CASE WorkerTake
  <2>1. TypeOK'
    <3>1. Head(commands) \in Command
      BY <1>12 DEF WorkerTake, TypeOK
    <3>2. worker' \in WorkerState
      BY <1>12, <3>1 DEF WorkerTake, TypeOK, WorkerState, Command, AnyRate
    <3>3. commands' \in Seq(Command) /\ Len(commands') <= CommandCap
      BY <1>12, <3>1, <3>2 DEF WorkerTake, TypeOK
    <3> QED
      BY <1>12, <3>1, <3>2, <3>3, Zenon DEF WorkerTake, TypeOK
  <2>2. BuildsAreBlocks'
    <3>0. Head(commands) \in Command /\ Len(commands') + 1 = Len(commands) /\ Len(commands') \in Nat
      BY <1>12 DEF WorkerTake, TypeOK
    <3>1. Head(commands).rate # 0
      BY <3>0 DEF Command
    <3>2. /\ worker.pc = "pop" /\ worker'.pc \in {"pop", "build"}
          /\ Ordered'
          /\ worker'.modem = worker.modem
          /\ UNCHANGED <<pre, results, blocks, builds>>
      BY <1>12, <3>1 DEF WorkerTake, TypeOK, WorkerState, Ordered
    <3>3. /\ builds \in Nat /\ blocks \in Nat
          /\ builds + Len(commands') + 1 + Count(pre.pc \in {"decide", "command"}) <= blocks
      BY <3>0 DEF TypeOK, BuildsAreBlocks, Count
    <3>4. blocks # 0
      BY <3>0, <3>3 DEF Count
    <3> QED
      BY <3>0, <3>2, <3>3, <3>4 DEF BuildsAreBlocks, Count
  <2> QED
    BY <2>1, <2>2
<1>13. CASE WorkerBuild
  <2>1. TypeOK'
    <3>1. builds + 1 <= MaxBlocks /\ worker.modem \in Nat /\ worker.modem <= builds
      BY <1>13 DEF WorkerBuild, TypeOK, BuildsAreBlocks, Count, WorkerState, Modems
    <3>2. worker.modem + 1 \in Modems /\ builds + 1 \in 0 .. MaxBlocks
      BY <3>1 DEF TypeOK, Modems
    <3>3. worker' \in WorkerState
      <4>1. CASE stopping["worker"]
        BY <1>13, <4>1 DEF WorkerBuild, TypeOK, WorkerState
      <4>2. CASE ~stopping["worker"]
        <5>1. PICK m \in Modems : worker' = [worker EXCEPT
                              !.pc = "push", !.modem = m, !.kit = Kit(m, builds + 1),
                              !.rate = IF worker.make # 0 THEN worker.make ELSE worker.build,
                              !.make = 0, !.build = 0]
          BY <1>13, <3>2, <4>2 DEF WorkerBuild, TypeOK, WorkerState
        <5>2. Kit(m, builds + 1) \in Kits
          BY <3>2 DEF Kit, Kits
        <5> QED
          BY <5>1, <5>2 DEF TypeOK, WorkerState, AnyRate
      <4> QED
        BY <4>1, <4>2
    <3>4. builds' \in 0 .. MaxBlocks
      BY <1>13, <3>2 DEF WorkerBuild, TypeOK
    <3> QED
      BY <1>13, <3>3, <3>4, Zenon DEF WorkerBuild, TypeOK
  <2>2. BuildsAreBlocks'
    <3>1. CASE stopping["worker"]
      BY <1>13, <3>1 DEF WorkerBuild, TypeOK, WorkerState, BuildsAreBlocks, Count, Ordered
    <3>2. CASE ~stopping["worker"]
      <4>1. /\ Ordered /\ ~Ordered'
            /\ builds' = builds + 1
            /\ worker'.pc = "push" /\ worker'.rate # 0
            /\ worker'.modem <= builds + 1
            /\ UNCHANGED <<pre, commands, results, blocks>>
        <5>1. Ordered /\ worker.modem <= builds /\ worker.modem \in Nat /\ builds \in Nat
          BY <1>13 DEF WorkerBuild, TypeOK, WorkerState, Modems, BuildsAreBlocks
        <5>2. PICK m \in Nat : /\ m <= builds + 1
                              /\ worker' = [worker EXCEPT
                                   !.pc = "push", !.modem = m, !.kit = Kit(m, builds + 1),
                                   !.rate = IF worker.make # 0 THEN worker.make ELSE worker.build,
                                   !.make = 0, !.build = 0]
          <6> DEFINE m == IF worker.make # 0 THEN worker.modem + 1 ELSE worker.modem
          <6>1. m \in Nat /\ m <= builds + 1
            BY <5>1
          <6>2. worker' = [worker EXCEPT
                  !.pc = "push", !.modem = m, !.kit = Kit(m, builds + 1),
                  !.rate = IF worker.make # 0 THEN worker.make ELSE worker.build,
                  !.make = 0, !.build = 0]
            BY <1>13, <3>2, Zenon DEF WorkerBuild
          <6> HIDE DEF m
          <6> QED
            BY <6>1, <6>2
        <5>3. worker'.pc = "push" /\ worker'.make = 0 /\ worker'.build = 0 /\ worker'.modem = m
          BY <5>2 DEF TypeOK, WorkerState
        <5>4. worker'.rate # 0
          BY <5>1, <5>2 DEF TypeOK, WorkerState, Ordered
        <5>5. builds' = builds + 1 /\ UNCHANGED <<pre, commands, results, blocks>>
          BY <1>13, <3>2 DEF WorkerBuild
        <5> QED
          BY <5>1, <5>2, <5>3, <5>4, <5>5 DEF Ordered
      <4> QED
        BY <4>1 DEF TypeOK, BuildsAreBlocks, Count
    <3> QED
      BY <3>1, <3>2
  <2> QED
    BY <2>1, <2>2
<1>14. CASE WorkerPush
  <2>1. TypeOK'
    <3>1. worker' \in WorkerState
      BY <1>14 DEF WorkerPush, TypeOK, WorkerState, AnyRate
    <3>2. results' \in Seq(Result) /\ Len(results') <= ResultCap
      BY <1>14 DEF WorkerPush, TypeOK, WorkerState, AnyRate, Result, BuildsAreBlocks
    <3> QED
      BY <1>14, <3>1, <3>2, Zenon DEF WorkerPush, TypeOK
  <2>2. BuildsAreBlocks'
    BY <1>14 DEF WorkerPush, TypeOK, PreState, WorkerState, BuildsAreBlocks, Count, Ordered
  <2> QED
    BY <2>1, <2>2
<1>15. CASE WorkerEnd
  <2>1. TypeOK'
    <3>1. worker' \in WorkerState
      BY <1>15 DEF WorkerEnd, TypeOK, WorkerState
    <3> QED
      BY <1>15, <3>1, Zenon DEF WorkerEnd, TypeOK
  <2>2. BuildsAreBlocks'
    BY <1>15 DEF WorkerEnd, TypeOK, PreState, WorkerState, BuildsAreBlocks, Count, Ordered
  <2> QED
    BY <2>1, <2>2
<1>16. CASE DemodTake
  <2>1. TypeOK'
    <3>1. Head(iq) \in IqBlock
      BY <1>16 DEF DemodTake, TypeOK
    <3>2. demod' \in DemodState
      BY <1>16, <3>1 DEF DemodTake, TypeOK, DemodState, IqBlock, Changed
    <3>3. iq' \in Seq(IqBlock) /\ Len(iq') <= IqCap
      BY <1>16, <3>1, <3>2 DEF DemodTake, TypeOK
    <3>4. freed' \subseteq ({"modem"} \X Modems) \cup ({"kit"} \X Kits)
      BY <1>16, <3>1, <3>2, <3>3 DEF DemodTake, TypeOK, DemodState
    <3> QED
      BY <1>16, <3>1, <3>2, <3>3, <3>4, Zenon DEF DemodTake, TypeOK
  <2>2. BuildsAreBlocks'
    BY <1>16 DEF DemodTake, TypeOK, PreState, WorkerState, BuildsAreBlocks, Count, Ordered
  <2> QED
    BY <2>1, <2>2
<1>17. CASE DemodEnd
  <2>1. TypeOK'
    <3>1. demod' \in DemodState
      BY <1>17 DEF DemodEnd, TypeOK, DemodState
    <3>2. iq' \in Seq(IqBlock) /\ Len(iq') <= IqCap
      BY <1>17 DEF DemodEnd, TypeOK
    <3> QED
      BY <1>17, <3>1, <3>2, Zenon DEF DemodEnd, TypeOK
  <2>2. BuildsAreBlocks'
    BY <1>17 DEF DemodEnd, TypeOK, PreState, WorkerState, BuildsAreBlocks, Count, Ordered
  <2> QED
    BY <2>1, <2>2
<1>18. CASE UNCHANGED vars
  <2>1. TypeOK'
    BY <1>18, Zenon DEF vars, TypeOK
  <2>2. BuildsAreBlocks'
    BY <1>18 DEF vars, BuildsAreBlocks, Ordered
  <2> QED
    BY <2>1, <2>2
<1> QED
  BY <1>1, <1>2, <1>3, <1>4, <1>5, <1>6, <1>7, <1>8, <1>9, <1>10, <1>11, <1>12, <1>13,
     <1>14, <1>15, <1>16, <1>17, <1>18 DEF Next, PreStep, WorkerStep, DemodStep
------------------------------------------------------------------------------
(* The pairs of a modem and a kit that are under way.                         *)

Pair(x) == [modem |-> x.modem, kit |-> x.kit]

LEMMA PairsByPlace ==
  /\ Pairs = {Pair(iq[i]) : i \in DOMAIN iq} \cup {Pair(results[j]) : j \in DOMAIN results}
                \cup {Pair(pre), Pair(worker), Pair(demod)}
  /\ Pairs' = {Pair(iq'[i]) : i \in DOMAIN iq'}
                \cup {Pair(results'[j]) : j \in DOMAIN results'}
                \cup {Pair(pre'), Pair(worker'), Pair(demod')}
BY DEF Pairs, Pair, ToSet

(***************************************************************************)
(* What a queue holds after a pop and after a push.                         *)
(***************************************************************************)
LEMMA TailAt ==
  ASSUME NEW S, NEW q \in Seq(S), q # <<>>
  PROVE  /\ 1 \in DOMAIN q /\ Head(q) = q[1]
         /\ \A i \in DOMAIN Tail(q) : i \in Nat /\ i + 1 \in DOMAIN q /\ Tail(q)[i] = q[i + 1]
OBVIOUS

LEMMA AppendAt ==
  ASSUME NEW S, NEW q \in Seq(S), NEW e \in S
  PROVE  \A i \in DOMAIN Append(q, e) :
            /\ i \in 1 .. Len(q) + 1
            /\ \/ i \in DOMAIN q /\ Append(q, e)[i] = q[i]
               \/ i = Len(q) + 1 /\ Append(q, e)[i] = e
OBVIOUS

(***************************************************************************)
(* A step that builds nothing passes on pairs that were there already.      *)
(***************************************************************************)
LEMMA PairsKept ==
  ASSUME TypeOK, BlocksHaveModems, [Next]_vars, builds' = builds
  PROVE  /\ Pairs' \subseteq Pairs \cup {Void}
         /\ worker'.kit = worker.kit /\ worker'.modem = worker.modem
<1> USE PairsByPlace
<1>0. /\ iq \in Seq(IqBlock) /\ results \in Seq(Result)
      /\ pre \in PreState /\ worker \in WorkerState /\ demod \in DemodState
      /\ builds \in Nat
  BY DEF TypeOK
<1>1. ASSUME UNCHANGED <<iq, results, demod>>,
             pre'.modem = pre.modem, pre'.kit = pre.kit,
             worker'.modem = worker.modem, worker'.kit = worker.kit
      PROVE  Pairs' \subseteq Pairs
  BY <1>1 DEF Pair
<1>2. CASE SetDemodType \/ SetBandwidth \/ UNCHANGED vars
  BY <1>1, <1>2 DEF SetDemodType, SetBandwidth, vars
<1>3. CASE Terminate
  <2>1. (iq' = iq \/ iq' = <<>>) /\ (results' = results \/ results' = <<>>)
        /\ UNCHANGED <<pre, worker, demod>>
    BY <1>3 DEF Terminate, Flushed
  <2> QED
    BY <2>1 DEF Pair
<1>4. CASE PreTake \/ PreDecide \/ PreForward \/ PreNoResult
  <2>1. /\ pre'.modem = pre.modem /\ pre'.kit = pre.kit
        /\ UNCHANGED <<iq, results, worker, demod>>
    BY <1>0, <1>4 DEF PreTake, PreDecide, PreForward, PreNoResult, PreState
  <2> QED
    BY <1>1, <2>1
<1>5. CASE PrePushCommand
  <2>1. Pair(pre') \in {Pair(pre), Void} /\ UNCHANGED <<iq, results, worker, demod>>
    BY <1>0, <1>5 DEF PrePushCommand, PreState, Pair, Void
  <2> QED
    BY <2>1 DEF Pair
<1>6. CASE PrePushBlock
  <2>1. /\ Pair(pre') = Pair(pre) /\ UNCHANGED <<results, worker, demod>>
        /\ iq' = Append(iq, Pair(pre)) /\ Pair(pre) \in IqBlock
        /\ Pair(Pair(pre)) = Pair(pre)
    BY <1>0, <1>6 DEF PrePushBlock, PreState, IqBlock, Pair
  <2>2. \A i \in DOMAIN iq' : \/ i \in DOMAIN iq /\ iq'[i] = iq[i]
                              \/ iq'[i] = Pair(pre)
    BY <1>0, <2>1, AppendAt
  <2> QED
    BY <2>1, <2>2 DEF Pair
<1>7. CASE PreResult
  <2>1. /\ results # <<>> /\ results' = Tail(results) /\ UNCHANGED <<iq, worker, demod>>
        /\ pre' = [pre EXCEPT !.modem = Head(results).modem, !.kit = Head(results).kit,
                              !.rate = Head(results).rate]
    BY <1>7 DEF PreResult
  <2>2. Pair(pre') = Pair(results[1]) /\ 1 \in DOMAIN results
    BY <1>0, <2>1, TailAt DEF PreState, Pair
  <2>3. \A j \in DOMAIN results' : j + 1 \in DOMAIN results /\ results'[j] = results[j + 1]
    BY <1>0, <2>1, TailAt
  <2> QED
    BY <2>1, <2>2, <2>3 DEF Pair
<1>8. CASE PreEnd \/ DemodEnd
  <2>1. /\ Pair(pre') = Pair(pre) /\ Pair(demod') = Pair(demod)
        /\ iq' = <<>> /\ UNCHANGED <<results, worker>>
    BY <1>0, <1>8 DEF PreEnd, DemodEnd, PreState, DemodState, Pair
  <2> QED
    BY <2>1 DEF Pair
<1>9. CASE WorkerTake \/ WorkerBuild \/ WorkerEnd
  <2>1. /\ worker'.modem = worker.modem /\ worker'.kit = worker.kit
        /\ UNCHANGED <<iq, results, pre, demod>>
    <3>1. CASE WorkerTake \/ WorkerEnd
      BY <1>0, <3>1 DEF WorkerTake, WorkerEnd, WorkerState
    <3>2. CASE WorkerBuild
      <4>1. builds + 1 # builds
        BY <1>0
      <4>2. worker' = [worker EXCEPT !.pc = "pop"] /\ UNCHANGED <<iq, results, pre, demod>>
        BY <3>2, <4>1, Zenon DEF WorkerBuild
      <4> QED
        BY <1>0, <4>2 DEF WorkerState
    <3> QED
      BY <1>9, <3>1, <3>2
  <2> QED
    BY <1>1, <2>1
<1>10. CASE WorkerPush
  <2> DEFINE r == [modem |-> worker.modem, kit |-> worker.kit, rate |-> worker.rate]
  <2>1. /\ worker'.modem = worker.modem /\ worker'.kit = worker.kit
        /\ results' = Append(results, r) /\ UNCHANGED <<iq, pre, demod>>
        /\ Pair(r) = Pair(worker)
    BY <1>0, <1>10 DEF WorkerPush, WorkerState, Pair
  <2>2. \A j \in DOMAIN results' : \/ j \in DOMAIN results /\ results'[j] = results[j]
                                   \/ results'[j] = r
    BY <1>0, <2>1
  <2> HIDE DEF r
  <2> QED
    BY <2>1, <2>2 DEF Pair
<1>11. CASE DemodTake
  <2>1. iq # <<>> /\ iq' = Tail(iq) /\ UNCHANGED <<results, pre, worker>>
    BY <1>11 DEF DemodTake
  <2>2. \A i \in DOMAIN iq' : i + 1 \in DOMAIN iq /\ iq'[i] = iq[i + 1]
    BY <1>0, <2>1, TailAt
  <2>3. Pair(demod') = Pair(iq[1]) /\ 1 \in DOMAIN iq
    <3>1. Head(iq) = iq[1] /\ 1 \in DOMAIN iq
      BY <1>0, <2>1, TailAt
    <3>2. iq[1].modem # NoModem /\ iq[1].kit # NoKit
      BY <3>1 DEF BlocksHaveModems
    <3> QED
      BY <1>0, <1>11, <3>1, <3>2 DEF DemodTake, Changed, DemodState, Pair
  <2> QED
    BY <2>1, <2>2, <2>3 DEF Pair
<1> QED
  BY <1>2, <1>3, <1>4, <1>5, <1>6, <1>7, <1>8, <1>9, <1>10, <1>11
     DEF Next, PreStep, WorkerStep, DemodStep

(***************************************************************************)
(* A build has a number of its own and a modem no other is later than.      *)
(***************************************************************************)
LEMMA PairBuilt ==
  ASSUME TypeOK, [Next]_vars, builds' # builds
  PROVE  /\ builds' = builds + 1
         /\ worker'.kit = Kit(worker'.modem, builds + 1)
         /\ worker.modem <= worker'.modem
         /\ Pairs' \subseteq Pairs \cup {Pair(worker')}
         /\ worker'.modem \in Nat
         /\ UNCHANGED <<pre, demod, iq, results, freed>>
<1>1. WorkerBuild /\ ~stopping["worker"]
  BY DEF Next, PreStep, WorkerStep, DemodStep, vars, SetDemodType, SetBandwidth, Terminate,
         PreTake, PreDecide, PrePushCommand, PreForward, PrePushBlock, PreResult, PreNoResult,
         PreEnd, WorkerTake, WorkerBuild, WorkerPush, WorkerEnd, DemodTake, DemodEnd
<1> DEFINE m == IF worker.make # 0 THEN worker.modem + 1 ELSE worker.modem
<1>2. worker.modem \in Nat /\ builds \in Nat /\ worker \in WorkerState
  BY DEF TypeOK, WorkerState, Modems
<1>3. m \in Nat /\ worker.modem <= m
  BY <1>2
<1>4. /\ builds' = builds + 1 /\ UNCHANGED <<pre, demod, iq, results, freed>>
      /\ worker' = [worker EXCEPT
                       !.pc = "push", !.modem = m, !.kit = Kit(m, builds + 1),
                       !.rate = IF worker.make # 0 THEN worker.make ELSE worker.build,
                       !.make = 0, !.build = 0]
  BY <1>1 DEF WorkerBuild
<1> HIDE DEF m
<1>5. /\ worker'.modem = m /\ worker'.kit = Kit(m, builds + 1)
  BY <1>2, <1>4 DEF WorkerState
<1>6. Pairs' \subseteq Pairs \cup {Pair(worker')}
  BY <1>4, PairsByPlace DEF Pair
<1> QED
  BY <1>3, <1>4, <1>5, <1>6

(***************************************************************************)
(* So a kit stays with its modem, and later builds have later modems.       *)
(***************************************************************************)
LEMMA PairsOrdered ==
  ASSUME TypeOK, TypeOK', BlocksHaveModems, KitOfItsModem, LaterBuildLaterModem, [Next]_vars
  PROVE  KitOfItsModem' /\ LaterBuildLaterModem'
<1>0. \A x \in Pairs \cup Pairs' : x.modem \in Nat /\ x.kit.build \in Nat
  <2> DEFINE Typed(x) == x.modem \in Nat /\ x.kit.build \in Nat
  <2>1. \A x \in IqBlock \cup Result \cup PreState \cup WorkerState \cup DemodState :
           Typed(Pair(x))
    BY DEF IqBlock, Result, PreState, WorkerState, DemodState, Pair, Modems, Kits
  <2>2. /\ \A i \in DOMAIN iq : iq[i] \in IqBlock
        /\ \A j \in DOMAIN results : results[j] \in Result
        /\ \A i \in DOMAIN iq' : iq'[i] \in IqBlock
        /\ \A j \in DOMAIN results' : results'[j] \in Result
    <3>1. /\ iq \in Seq(IqBlock) /\ results \in Seq(Result)
          /\ iq' \in Seq(IqBlock) /\ results' \in Seq(Result)
      BY DEF TypeOK
    <3> QED
      BY <3>1
  <2>3. /\ pre \in PreState /\ worker \in WorkerState /\ demod \in DemodState
        /\ pre' \in PreState /\ worker' \in WorkerState /\ demod' \in DemodState
    BY DEF TypeOK
  <2> HIDE DEF Typed
  <2>4. \A x \in Pairs \cup Pairs' : Typed(x)
    BY <2>1, <2>2, <2>3, PairsByPlace
  <2> QED
    BY <2>4 DEF Typed
<1>1. builds \in Nat /\ Pair(worker) \in Pairs
  BY PairsByPlace DEF TypeOK
<1>2. CASE builds' = builds
  <2>1. Pairs' \subseteq Pairs \cup {Void} /\ worker'.kit = worker.kit
    BY <1>2, PairsKept
  <2>2. Void.kit.build = 0 /\ Void.modem = 0 /\ Void.kit.modem = 0
    BY DEF Void, NoKit, Kit, NoModem
  <2>3. KitOfItsModem'
    BY <2>1, <2>2 DEF KitOfItsModem
  <2>4. \A x \in Pairs' : x.kit.build <= builds
    BY <1>1, <2>1, <2>2 DEF LaterBuildLaterModem
  <2>5. \A x \in Pairs' : x.kit.build = 0 => x = Void
    BY <2>1 DEF LaterBuildLaterModem
  <2>6. \A x, y \in Pairs' : x.kit.build <= y.kit.build => x.modem <= y.modem
    <3> SUFFICES ASSUME NEW x \in Pairs', NEW y \in Pairs', x.kit.build <= y.kit.build
                 PROVE  x.modem <= y.modem
      OBVIOUS
    <3>1. CASE x = Void
      BY <1>0, <2>2, <3>1
    <3>2. CASE x \in Pairs /\ y = Void
      <4>1. x.kit.build = 0
        BY <1>0, <2>2, <3>2
      <4> QED
        BY <1>0, <2>2, <3>2, <4>1 DEF LaterBuildLaterModem
    <3>3. CASE x \in Pairs /\ y \in Pairs
      BY <3>3 DEF LaterBuildLaterModem
    <3> QED
      BY <2>1, <3>1, <3>2, <3>3
  <2> QED
    BY <1>2, <2>1, <2>3, <2>4, <2>5, <2>6 DEF LaterBuildLaterModem
<1>3. CASE builds' # builds
  <2> DEFINE w == Pair(worker')
  <2>1. /\ builds' = builds + 1 /\ worker.modem <= worker'.modem /\ worker'.modem \in Nat
        /\ worker'.kit = Kit(worker'.modem, builds + 1)
        /\ Pairs' \subseteq Pairs \cup {w}
    BY <1>3, PairBuilt
  <2>2. /\ w.modem = worker'.modem /\ w.kit.modem = worker'.modem
        /\ w.kit.build = builds + 1 /\ worker'.kit.build = builds + 1
    BY <2>1 DEF Pair, Kit
  <2> HIDE DEF w
  <2>3. KitOfItsModem'
    BY <2>1, <2>2 DEF KitOfItsModem
  <2>4. \A x \in Pairs : x.kit.build <= builds /\ x.modem <= worker.modem
    <3>1. Pair(worker).kit.build = builds /\ Pair(worker).modem = worker.modem
      BY DEF LaterBuildLaterModem, Pair
    <3> QED
      BY <1>1, <3>1 DEF LaterBuildLaterModem
  <2>5. \A x \in Pairs' : x.kit.build <= builds + 1
    BY <1>0, <1>1, <2>1, <2>2, <2>4
  <2>6. \A x \in Pairs' : x.kit.build = 0 => x = Void
    BY <1>1, <2>1, <2>2 DEF LaterBuildLaterModem
  <2>7. \A x, y \in Pairs' : x.kit.build <= y.kit.build => x.modem <= y.modem
    <3> SUFFICES ASSUME NEW x \in Pairs', NEW y \in Pairs', x.kit.build <= y.kit.build
                 PROVE  x.modem <= y.modem
      OBVIOUS
    <3>1. worker.modem \in Nat
      BY DEF TypeOK, WorkerState, Modems
    <3>2. CASE y = w
      BY <1>0, <2>1, <2>2, <2>4, <3>1, <3>2
    <3>3. CASE y \in Pairs /\ x = w
      BY <1>0, <1>1, <2>2, <2>4, <3>3
    <3>4. CASE x \in Pairs /\ y \in Pairs
      BY <3>4 DEF LaterBuildLaterModem
    <3> QED
      BY <2>1, <3>2, <3>3, <3>4
  <2> QED
    BY <2>1, <2>2, <2>3, <2>5, <2>6, <2>7 DEF LaterBuildLaterModem
<1> QED
  BY <1>2, <1>3
------------------------------------------------------------------------------
(* The order of the builds, and what has been deleted.                        *)

(***************************************************************************)
(* The builds of what a pop leaves, and of what a push makes of a queue.    *)
(***************************************************************************)
LEMMA SortedTail ==
  ASSUME NEW S, NEW q \in Seq(S), q # <<>>, Sorted(q)
  PROVE  Sorted(Tail(q)) /\ \A i \in DOMAIN Tail(q) : q[1].kit.build <= Tail(q)[i].kit.build
<1>1. \A i \in DOMAIN Tail(q) : i \in 1 .. Len(q) /\ i + 1 \in DOMAIN q /\ Tail(q)[i] = q[i + 1]
  OBVIOUS
<1>2. 1 \in DOMAIN q /\ \A i \in DOMAIN Tail(q) : 1 <= i + 1
  OBVIOUS
<1>3. \A i, j \in DOMAIN Tail(q) : i <= j => i + 1 <= j + 1
  BY <1>1
<1> QED
  BY <1>1, <1>2, <1>3 DEF Sorted

LEMMA SortedAppend ==
  ASSUME NEW S, NEW q \in Seq(S), Sorted(q), NEW e \in S,
         e.kit.build \in Nat, \A i \in DOMAIN q : q[i].kit.build <= e.kit.build
  PROVE  Sorted(Append(q, e))
<1> DEFINE r == Append(q, e)
<1>1. \A i \in DOMAIN r : \/ i \in DOMAIN q /\ r[i] = q[i] /\ i \in Nat /\ i < Len(q) + 1
                          \/ i = Len(q) + 1 /\ r[i] = e /\ i \in Nat
  OBVIOUS
<1> HIDE DEF r
<1>2. ASSUME NEW i \in DOMAIN r, NEW j \in DOMAIN r, i <= j
      PROVE  r[i].kit.build <= r[j].kit.build
  <2>1. CASE i \in DOMAIN q /\ j \in DOMAIN q /\ r[i] = q[i] /\ r[j] = q[j]
    BY <1>2, <2>1 DEF Sorted
  <2>2. CASE i \in DOMAIN q /\ r[i] = q[i] /\ r[j] = e
    BY <2>2
  <2>3. CASE i = Len(q) + 1 /\ r[i] = e
    <3>1. r[j] = e
      BY <1>1, <1>2, <2>3
    <3> QED
      BY <2>3, <3>1
  <2> QED
    BY <1>1, <2>1, <2>2, <2>3
<1>3. Sorted(r)
  BY <1>2 DEF Sorted
<1> QED
  BY <1>3 DEF r

(***************************************************************************)
(* Every build under way is a number, none above the last.                  *)
(***************************************************************************)
LEMMA BuildsAreNumbers ==
  ASSUME TypeOK
  PROVE  /\ \A i \in DOMAIN iq : iq[i].kit \in Kits /\ iq[i].modem \in Nat
         /\ \A j \in DOMAIN results : results[j].kit \in Kits /\ results[j].modem \in Nat
         /\ pre.kit \in Kits /\ worker.kit \in Kits /\ demod.kit \in Kits
         /\ pre.modem \in Nat /\ worker.modem \in Nat /\ demod.modem \in Nat
         /\ \A k \in Kits : k.build \in Nat
<1>1. /\ \A i \in DOMAIN iq : iq[i] \in IqBlock
      /\ \A j \in DOMAIN results : results[j] \in Result
  BY DEF TypeOK
<1>2. \A x \in IqBlock \cup Result : x.kit \in Kits /\ x.modem \in Nat
  BY DEF IqBlock, Result, Modems
<1>3. /\ pre.kit \in Kits /\ worker.kit \in Kits /\ demod.kit \in Kits
      /\ pre.modem \in Nat /\ worker.modem \in Nat /\ demod.modem \in Nat
  BY DEF TypeOK, PreState, WorkerState, DemodState, Modems
<1>4. \A k \in Kits : k.build \in Nat
  BY DEF Kits
<1> QED
  BY <1>1, <1>2, <1>3, <1>4

\* What the preprocessor and the demodulator thread rely on.
Orders == BuildsInOrder /\ BlocksHaveModems /\ FreedIsOlder

(***************************************************************************)
(* The order survives every step.                                           *)
(***************************************************************************)
LEMMA OrdersKept ==
  ASSUME TypeOK, TypeOK', BuildsAreBlocks, KitOfItsModem, LaterBuildLaterModem, Orders,
         [Next]_vars
  PROVE  Orders'
<1> USE DEF Orders
<1>0. /\ iq \in Seq(IqBlock) /\ results \in Seq(Result)
      /\ pre \in PreState /\ worker \in WorkerState /\ demod \in DemodState
      /\ builds \in Nat
  BY DEF TypeOK
<1>a. NoKit.build = 0 /\ \A k \in Kits : k.build \in Nat
  BY DEF NoKit, Kit, Kits
<1>b. /\ \A x \in {pre, demod} : x.kit.build <= builds
      /\ \A i \in DOMAIN iq : iq[i].kit.build <= builds
      /\ \A j \in DOMAIN results : results[j].kit.build <= builds
      /\ worker.kit.build = builds
  <2>1. /\ Pair(pre) \in Pairs /\ Pair(demod) \in Pairs
        /\ \A i \in DOMAIN iq : Pair(iq[i]) \in Pairs
        /\ \A j \in DOMAIN results : Pair(results[j]) \in Pairs
    BY PairsByPlace
  <2>2. \A x : Pair(x).kit = x.kit
    BY DEF Pair
  <2> QED
    BY <2>1, <2>2 DEF LaterBuildLaterModem
<1>1. ASSUME UNCHANGED <<iq, results, demod, freed>>,
             pre'.modem = pre.modem, pre'.kit = pre.kit, worker'.kit = worker.kit,
             pre'.pc = "push" => pre.pc = "push" \/ HasModem
      PROVE  Orders'
  BY <1>1 DEF BuildsInOrder, BlocksHaveModems, FreedIsOlder, HasModem, Sorted
<1>2. CASE SetDemodType \/ SetBandwidth \/ UNCHANGED vars
  BY <1>1, <1>2 DEF SetDemodType, SetBandwidth, vars
<1>3. CASE Terminate
  <2>1. (iq' = iq \/ iq' = <<>>) /\ (results' = results \/ results' = <<>>)
        /\ UNCHANGED <<pre, worker, demod, freed>>
    BY <1>3 DEF Terminate, Flushed
  <2> QED
    BY <2>1 DEF BuildsInOrder, BlocksHaveModems, FreedIsOlder, HasModem, Sorted
<1>4. CASE PreTake \/ PreDecide \/ PreForward \/ PreNoResult
  <2>1. /\ pre'.modem = pre.modem /\ pre'.kit = pre.kit
        /\ pre'.pc = "push" => HasModem
        /\ UNCHANGED <<iq, results, worker, demod, freed>>
    BY <1>0, <1>4 DEF PreTake, PreDecide, PreForward, PreNoResult, PreState
  <2> QED
    BY <1>1, <2>1
<1>5. CASE PrePushCommand
  <2>1. /\ pre'.kit = pre.kit \/ pre'.kit = NoKit
        /\ pre'.pc = "forward" /\ UNCHANGED <<iq, results, worker, demod, freed>>
    BY <1>0, <1>5 DEF PrePushCommand, PreState
  <2>2. \A j \in DOMAIN results : 0 <= results[j].kit.build
    BY BuildsAreNumbers
  <2> QED
    BY <1>a, <2>1, <2>2 DEF BuildsInOrder, BlocksHaveModems, FreedIsOlder, Sorted
<1>6. CASE PrePushBlock
  <2>1. /\ HasModem /\ pre'.kit = pre.kit /\ pre'.pc = "results"
        /\ iq' = Append(iq, Pair(pre)) /\ Pair(pre) \in IqBlock
        /\ Pair(pre).kit = pre.kit /\ Pair(pre).modem = pre.modem
        /\ UNCHANGED <<results, worker, demod, freed>>
    BY <1>0, <1>6 DEF PrePushBlock, PreState, IqBlock, Pair, BlocksHaveModems
  <2>2. \A i \in DOMAIN iq' : \/ i \in DOMAIN iq /\ iq'[i] = iq[i]
                              \/ iq'[i] = Pair(pre)
    BY <1>0, <2>1, AppendAt
  <2>3. Sorted(iq')
    BY <1>0, <2>1, SortedAppend, BuildsAreNumbers DEF BuildsInOrder, HasModem
  <2>4. BuildsInOrder'
    <3>1. \A i \in DOMAIN iq' : \/ i \in DOMAIN iq /\ iq'[i].kit = iq[i].kit
                                \/ iq'[i].kit = pre.kit
      BY <2>1, <2>2
    <3>2. /\ pre.kit.build <= pre.kit.build /\ demod.kit.build <= pre.kit.build
          /\ \A i \in DOMAIN iq : iq[i].kit.build <= pre.kit.build
      BY <2>1, BuildsAreNumbers DEF BuildsInOrder, HasModem
    <3> QED
      BY <2>1, <2>3, <3>1, <3>2 DEF BuildsInOrder
  <2> QED
    BY <2>1, <2>2, <2>4 DEF BlocksHaveModems, FreedIsOlder, HasModem
<1>7. CASE PreResult
  <2>1. /\ results # <<>> /\ results' = Tail(results) /\ UNCHANGED <<iq, worker, demod, freed>>
        /\ pre'.kit = Head(results).kit /\ pre'.pc = "results"
    BY <1>0, <1>7 DEF PreResult, PreState
  <2>2. /\ 1 \in DOMAIN results /\ Head(results) = results[1]
        /\ \A j \in DOMAIN results' : j + 1 \in DOMAIN results /\ results'[j] = results[j + 1]
    BY <1>0, <2>1, TailAt
  <2>3. /\ Sorted(results')
        /\ \A j \in DOMAIN results' : results[1].kit.build <= results'[j].kit.build
    BY <1>0, <2>1, SortedTail DEF BuildsInOrder
  <2>4. BuildsInOrder'
    BY <2>1, <2>2, <2>3 DEF BuildsInOrder
  <2> QED
    BY <2>1, <2>4 DEF BlocksHaveModems, FreedIsOlder
<1>8. CASE PreEnd \/ DemodEnd
  <2>1. /\ pre'.kit = pre.kit /\ pre'.modem = pre.modem
        /\ demod'.kit = demod.kit /\ demod'.modem = demod.modem
        /\ pre'.pc = "push" => pre.pc = "push"
        /\ iq' = <<>> /\ UNCHANGED <<results, worker, freed>>
    BY <1>0, <1>8 DEF PreEnd, DemodEnd, PreState, DemodState
  <2> QED
    BY <2>1 DEF BuildsInOrder, BlocksHaveModems, FreedIsOlder, HasModem, Sorted
<1>9. CASE WorkerTake \/ WorkerEnd \/ (WorkerBuild /\ builds' = builds)
  <2>1. UNCHANGED <<iq, results, pre, demod, freed>>
    BY <1>9 DEF WorkerTake, WorkerBuild, WorkerEnd
  <2>2. worker'.kit = worker.kit
    <3>1. builds' = builds
      BY <1>9 DEF WorkerTake, WorkerEnd
    <3> QED
      BY <3>1, PairsKept
  <2> QED
    BY <1>1, <2>1, <2>2
<1>10. CASE WorkerBuild /\ builds' # builds
  <2>1. /\ builds' = builds + 1 /\ worker'.kit = Kit(worker'.modem, builds + 1)
        /\ UNCHANGED <<pre, demod, iq, results, freed>>
    BY <1>10, PairBuilt
  <2>2. worker'.kit.build = builds + 1
    BY <2>1 DEF Kit
  <2>3. demod.kit.build <= builds + 1
    BY <1>0, <1>b, BuildsAreNumbers
  <2> QED
    BY <2>1, <2>2, <2>3 DEF BuildsInOrder, BlocksHaveModems, FreedIsOlder, HasModem, Sorted
<1>11. CASE WorkerPush
  <2> DEFINE r == [modem |-> worker.modem, kit |-> worker.kit, rate |-> worker.rate]
  <2>1. /\ worker'.kit = worker.kit /\ results' = Append(results, r)
        /\ r.kit = worker.kit /\ r \in Result
        /\ UNCHANGED <<iq, pre, demod, freed>>
    BY <1>0, <1>11 DEF WorkerPush, WorkerState, Result, AnyRate, BuildsAreBlocks
  <2> HIDE DEF r
  <2>2. \A j \in DOMAIN results' : \/ j \in DOMAIN results /\ results'[j] = results[j]
                                   \/ results'[j] = r
    BY <1>0, <2>1, AppendAt
  <2>3. Sorted(results')
    BY <1>b, <1>0, <2>1, SortedAppend, BuildsAreNumbers DEF BuildsInOrder
  <2>4. BuildsInOrder'
    BY <1>b, <2>1, <2>2, <2>3 DEF BuildsInOrder
  <2> QED
    BY <2>1, <2>4 DEF BlocksHaveModems, FreedIsOlder, HasModem
<1>12. CASE DemodTake
  <2> DEFINE b == iq[1]
  <2>1. /\ iq # <<>> /\ iq' = Tail(iq) /\ UNCHANGED <<results, pre, worker>>
        /\ Head(iq) = b /\ 1 \in DOMAIN iq
        /\ \A i \in DOMAIN iq' : i + 1 \in DOMAIN iq /\ iq'[i] = iq[i + 1]
    BY <1>0, <1>12, TailAt DEF DemodTake
  <2>2. b.modem # NoModem /\ b.kit # NoKit
    BY <2>1 DEF BlocksHaveModems
  <2>3. demod'.kit = b.kit /\ demod'.modem = b.modem
    BY <1>0, <1>12, <2>1, <2>2 DEF DemodTake, Changed, DemodState
  <2>4. Sorted(iq') /\ \A i \in DOMAIN iq' : b.kit.build <= iq'[i].kit.build
    BY <1>0, <2>1, SortedTail DEF BuildsInOrder
  <2>5. b.kit.build <= worker.kit.build
    BY <1>b, <2>1
  <2>6. BuildsInOrder'
    BY <2>1, <2>3, <2>4, <2>5 DEF BuildsInOrder
  <2>7. BlocksHaveModems'
    BY <2>1 DEF BlocksHaveModems, HasModem
  <2>8. /\ b.kit \in Kits /\ demod.kit \in Kits /\ b.modem \in Nat /\ demod.modem \in Nat
        /\ demod.kit.build <= b.kit.build
    BY <2>1, BuildsAreNumbers DEF BuildsInOrder
  <2>9. Pair(demod) \in Pairs /\ Pair(b) \in Pairs
    BY <2>1, PairsByPlace
  <2>10. demod.modem <= b.modem
    BY <2>8, <2>9 DEF LaterBuildLaterModem, Pair
  <2>11. demod.kit # b.kit => demod.kit.build < b.kit.build
    <3>1. ASSUME demod.kit.build = b.kit.build PROVE demod.kit = b.kit
      <4>1. b.modem <= demod.modem
        BY <2>8, <2>9, <3>1, <1>a DEF LaterBuildLaterModem, Pair
      <4>2. demod.kit.modem = b.kit.modem
        BY <2>8, <2>9, <2>10, <4>1 DEF KitOfItsModem, Pair
      <4> QED
        BY <2>8, <3>1, <4>2 DEF Kits
    <3> QED
      BY <1>a, <2>8, <3>1
  <2>12. demod.kit # NoKit => demod.kit.build # 0
    BY <2>9 DEF LaterBuildLaterModem, Pair, Void
  <2>13. ASSUME NEW m \in Modems, <<"modem", m>> \in freed'
         PROVE  m # NoModem /\ m < b.modem
    <3>1. <<"modem", m>> \in freed \/ (m = demod.modem /\ m # NoModem /\ m # b.modem)
      BY <1>12, <2>1, <2>13 DEF DemodTake, Changed
    <3> QED
      BY <2>8, <2>10, <3>1 DEF FreedIsOlder, Modems
  <2>14. ASSUME NEW k \in Kits, <<"kit", k>> \in freed'
         PROVE  k.build # 0 /\ k.build < b.kit.build
    <3>1. <<"kit", k>> \in freed \/ (k = demod.kit /\ k # NoKit /\ k # b.kit)
      BY <1>12, <2>1, <2>14 DEF DemodTake, Changed
    <3> QED
      BY <1>a, <2>8, <2>11, <2>12, <3>1 DEF FreedIsOlder
  <2>15. FreedIsOlder'
    BY <2>3, <2>13, <2>14 DEF FreedIsOlder
  <2> QED
    BY <2>6, <2>7, <2>15
<1> QED
  BY <1>2, <1>3, <1>4, <1>5, <1>6, <1>7, <1>8, <1>9, <1>10, <1>11, <1>12
     DEF Next, PreStep, WorkerStep, DemodStep

------------------------------------------------------------------------------
(* The theorems.                                                              *)

(***************************************************************************)
(* The invariant holds in every reachable state.                            *)
(***************************************************************************)
THEOREM DemodulatorCorrect == Spec => []DemodulatorInv
<1>1. Init => DemodulatorInv
  <2> SUFFICES ASSUME Init
               PROVE  DemodulatorInv
    OBVIOUS
  <2>1. /\ iq = <<>> /\ results = <<>> /\ commands = <<>> /\ freed = {} /\ builds = 0
        /\ pre.pc = "top" /\ pre.modem = 0 /\ pre.kit = NoKit /\ pre.rate = 0
        /\ worker.pc = "pop" /\ worker.modem = 0 /\ worker.kit = NoKit
        /\ worker.make = 0 /\ worker.build = 0
        /\ demod.modem = 0 /\ demod.kit = NoKit
        /\ blocks = 0 /\ NoKit.build = 0 /\ NoKit.modem = 0
    BY DEF Init, NoKit, Kit, NoModem
  <2>2. TypeOK
    <3>1. 0 \in Modems /\ NoKit \in Kits /\ 0 \in AnyRate
      BY DEF Modems, NoKit, Kits, Kit, NoModem, AnyRate
    <3>2. pre \in PreState /\ worker \in WorkerState /\ demod \in DemodState
      BY <3>1 DEF Init, PreState, WorkerState, DemodState, NoModem, NoBlock
    <3>3. /\ commands \in Seq(Command) /\ Len(commands) <= CommandCap
          /\ results \in Seq(Result) /\ Len(results) <= ResultCap
          /\ iq \in Seq(IqBlock) /\ Len(iq) <= IqCap
      BY <2>1
    <3>4. /\ teardown \in 0 .. Len(Teardown) /\ blocks \in 0 .. MaxBlocks
          /\ types \in 0 .. MaxTypes /\ builds \in 0 .. MaxBlocks
      BY DEF Init, Teardown
    <3>5. stopping \in [Threads -> BOOLEAN]
      BY DEF Init
    <3>6. typeChanged \in BOOLEAN /\ bandwidthChanged \in BOOLEAN /\ freed = {}
      BY DEF Init
    <3> QED
      BY <3>2, <3>3, <3>4, <3>5, <3>6, Zenon DEF TypeOK
  <2>3. \A x \in Pairs : x = Void
    BY <2>1, PairsByPlace DEF Pair, Void, NoModem
  <2>4. Void.modem = 0 /\ Void.kit.modem = 0 /\ Void.kit.build = 0
    BY <2>1 DEF Void, NoModem
  <2>5. KitOfItsModem /\ LaterBuildLaterModem
    BY <2>1, <2>3, <2>4 DEF KitOfItsModem, LaterBuildLaterModem
  <2>6. BuildsAreBlocks
    BY <2>1 DEF BuildsAreBlocks, Ordered, Count
  <2>7. BuildsInOrder /\ BlocksHaveModems /\ FreedIsOlder
    BY <2>1 DEF BuildsInOrder, BlocksHaveModems, FreedIsOlder, Sorted
  <2> QED
    BY <2>2, <2>5, <2>6, <2>7 DEF DemodulatorInv
<1>2. DemodulatorInv /\ [Next]_vars => DemodulatorInv'
  <2> SUFFICES ASSUME DemodulatorInv, [Next]_vars
               PROVE  DemodulatorInv'
    OBVIOUS
  <2>1. TypeOK' /\ BuildsAreBlocks'
    BY TypesAndCounts DEF DemodulatorInv
  <2>2. KitOfItsModem' /\ LaterBuildLaterModem'
    BY <2>1, PairsOrdered DEF DemodulatorInv
  <2>3. Orders'
    BY <2>1, OrdersKept DEF DemodulatorInv, Orders
  <2> QED
    BY <2>1, <2>2, <2>3 DEF DemodulatorInv, Orders
<1> QED
  BY <1>1, <1>2, PTL DEF Spec

(***************************************************************************)
(* Every variable has its type and no queue outgrows its capacity: the      *)
(* pushes of the three threads test for room (ThreadBlockingQueue).         *)
(***************************************************************************)
THEOREM TypeCorrect == Spec => []TypeOK
<1>1. DemodulatorInv => TypeOK
  BY DEF DemodulatorInv
<1> QED
  BY <1>1, DemodulatorCorrect, PTL

(***************************************************************************)
(* A kit travels with the modem that built it.                              *)
(***************************************************************************)
THEOREM KitsKeepTheirModem == Spec => []KitOfItsModem
<1>1. DemodulatorInv => KitOfItsModem
  BY DEF DemodulatorInv
<1> QED
  BY <1>1, DemodulatorCorrect, PTL

(***************************************************************************)
(* No modem or kit is used, or waits in a queue to be used, after the       *)
(* demodulator thread has deleted it: what it deletes is older than what it *)
(* owns, and everything under way is of that age or younger.                *)
(***************************************************************************)
THEOREM NothingIsUsedAfterDelete == Spec => []NothingDangles
<1>1. DemodulatorInv => NothingDangles
  <2> SUFFICES ASSUME DemodulatorInv, NEW x \in Pairs
               PROVE  <<"modem", x.modem>> \notin freed /\ <<"kit", x.kit>> \notin freed
    BY DEF NothingDangles
  <2>0. TypeOK
    BY DEF DemodulatorInv
  <2>1. Pair(demod) \in Pairs /\ Pair(demod).kit = demod.kit /\ Pair(demod).modem = demod.modem
    BY PairsByPlace DEF Pair
  <2>2. x.kit.build = 0 => x = Void
    BY DEF DemodulatorInv, LaterBuildLaterModem
  <2>3. x = Void \/ demod.kit.build <= x.kit.build
    <3>1. CASE x = Pair(pre)
      <4>1. CASE pre.kit = NoKit
        BY <2>2, <3>1, <4>1 DEF Pair, NoKit, Kit
      <4>2. CASE pre.kit # NoKit
        BY <3>1, <4>2 DEF DemodulatorInv, BuildsInOrder, Pair
      <4> QED
        BY <4>1, <4>2
    <3>2. CASE x = Pair(worker)
      BY <3>2 DEF DemodulatorInv, BuildsInOrder, Pair
    <3>3. CASE x = Pair(demod)
      BY <2>0, <3>3, BuildsAreNumbers DEF Pair
    <3>4. CASE \E i \in DOMAIN iq : x = Pair(iq[i])
      BY <3>4 DEF DemodulatorInv, BuildsInOrder, Pair
    <3>5. CASE \E j \in DOMAIN results : x = Pair(results[j])
      BY <3>5 DEF DemodulatorInv, BuildsInOrder, Pair
    <3> QED
      BY <3>1, <3>2, <3>3, <3>4, <3>5, PairsByPlace
  <2>4. x.modem \in Modems /\ x.kit \in Kits
    <3>1. /\ \A i \in DOMAIN iq : iq[i] \in IqBlock
          /\ \A j \in DOMAIN results : results[j] \in Result
      BY <2>0 DEF TypeOK
    <3>2. \A y \in IqBlock \cup Result : y.modem \in Modems
      BY DEF IqBlock, Result
    <3>3. pre.modem \in Modems /\ worker.modem \in Modems /\ demod.modem \in Modems
      BY <2>0 DEF TypeOK, PreState, WorkerState, DemodState
    <3> QED
      BY <2>0, <3>1, <3>2, <3>3, PairsByPlace, BuildsAreNumbers DEF Pair
  <2>5. CASE x = Void
    <3>1. x.modem = NoModem /\ x.kit.build = 0
      BY <2>5 DEF Void, NoKit, Kit
    <3> QED
      BY <2>4, <3>1 DEF DemodulatorInv, FreedIsOlder
  <2>6. CASE demod.kit.build <= x.kit.build
    <3>1. demod.modem <= x.modem
      BY <2>1, <2>6 DEF DemodulatorInv, LaterBuildLaterModem
    <3>2. x.modem \in Nat /\ demod.modem \in Nat /\ x.kit.build \in Nat /\ demod.kit.build \in Nat
      BY <2>0, <2>4, BuildsAreNumbers DEF Modems
    <3>3. ~(x.modem < demod.modem) /\ ~(x.kit.build < demod.kit.build)
      BY <2>6, <3>1, <3>2
    <3> QED
      BY <2>4, <3>3 DEF DemodulatorInv, FreedIsOlder
  <2> QED
    BY <2>3, <2>5, <2>6
<1> QED
  BY <1>1, DemodulatorCorrect, PTL
==============================================================================
