--------------------------- MODULE AisDeviceProofs ---------------------------
(***************************************************************************)
(* The sample FIFO and the devices that fill it, for every size of a block   *)
(* and of the FIFO, every length of a read and both kinds of device: the     *)
(* bytes between head and tail are the last that were accepted, a block that *)
(* is being sent is one of them, and a file is declared done when none is    *)
(* left.                                                                     *)
(***************************************************************************)
EXTENDS AisDevice, TLAPS

USE FifoAssumption, KindAssumption, LengthsAssumption

(***************************************************************************)
(* Division by the size of a block or of the FIFO.                          *)
(***************************************************************************)
LEMMA DivMod ==
  ASSUME NEW a \in Nat, NEW n \in Nat \ {0}
  PROVE  /\ a \div n \in Nat /\ a % n \in 0 .. n - 1
         /\ a = n * (a \div n) + (a % n)
<1>1. a \div n \in Nat /\ a % n \in 0 .. n - 1
  OBVIOUS
<1>2. a = n * (a \div n) + (a % n)
  OBVIOUS
<1> QED
  BY <1>1, <1>2

LEMMA Quotient ==
  ASSUME NEW q \in Nat, NEW n \in Nat \ {0}, NEW r \in 0 .. n - 1
  PROVE  (n * q + r) \div n = q /\ (n * q + r) % n = r
<1>1. (n * q + r) \div n = q
  OBVIOUS
<1>2. (n * q + r) % n = r
  OBVIOUS
<1> QED
  BY <1>1, <1>2

LEMMA QuotientOf ==
  ASSUME NEW a, NEW q \in Nat, NEW n \in Nat \ {0}, NEW r \in 0 .. n - 1, a = n * q + r
  PROVE  a \div n = q /\ a % n = r
BY Quotient

Wrap(x) == IF x >= Size THEN x - Size ELSE x

\* The remainders that Push and Pop take only bring an index back into _data.
LEMMA WrapIsRemainder ==
  /\ Size \in Nat \ {0} /\ BLOCK_SIZE <= Size
  /\ \A x \in 0 .. 2 * Size - 1 : x % Size = Wrap(x) /\ Wrap(x) \in 0 .. Size - 1
  /\ \A x \in 0 .. Size - 1 : x % Size = x
  /\ \A x \in 1 - Size .. -1 : x % Size = x + Size
<1>1. Size \in Nat \ {0} /\ BLOCK_SIZE <= Size
  <2>1. \A m, n \in Nat \ {0} : m * n \in Nat \ {0} /\ n <= m * n
    OBVIOUS
  <2> QED
    BY <2>1 DEF Size
<1>2. \A n \in Nat \ {0} : /\ \A x \in 0 .. n - 1 : x % n = x
                           /\ \A x \in n .. 2 * n - 1 : x % n = x - n
                           /\ \A x \in 1 - n .. -1 : x % n = x + n
  OBVIOUS
<1>3. ASSUME NEW x \in 0 .. 2 * Size - 1
      PROVE  x % Size = Wrap(x) /\ Wrap(x) \in 0 .. Size - 1
  <2>1. CASE x \in 0 .. Size - 1
    BY <1>1, <1>2, <2>1 DEF Wrap
  <2>2. CASE x \in Size .. 2 * Size - 1
    BY <1>1, <1>2, <2>2 DEF Wrap
  <2> QED
    BY <1>1, <2>1, <2>2
<1> QED
  BY <1>1, <1>2, <1>3

(***************************************************************************)
(* A block that begins at a multiple of its size ends within _data.         *)
(***************************************************************************)
LEMMA Multiples ==
  /\ \A h \in 0 .. Size - 1 :
        h % BLOCK_SIZE = 0 => /\ h + BLOCK_SIZE <= Size
                              /\ Wrap(h + BLOCK_SIZE) % BLOCK_SIZE = 0
  /\ \A h \in 0 .. Size - 1, u \in 0 .. Size :
        h % BLOCK_SIZE = 0 => Wrap(h + u) % BLOCK_SIZE = u % BLOCK_SIZE
<1>0. Size \in Nat \ {0} /\ BLOCK_SIZE <= Size
  BY WrapIsRemainder
<1>1. ASSUME NEW h \in 0 .. Size - 1, h % BLOCK_SIZE = 0
      PROVE  \E k \in 0 .. N_BLOCKS - 1 : h = BLOCK_SIZE * k
  <2> DEFINE k == h \div BLOCK_SIZE
  <2>1. k \in Nat /\ h = BLOCK_SIZE * k
    BY <1>0, <1>1, DivMod
  <2>2. k < N_BLOCKS
    <3>1. \A a, b, c \in Nat : a > 0 /\ a * b < c * a => b < c
      OBVIOUS
    <3> QED
      BY <1>0, <2>1, <3>1 DEF Size
  <2> QED
    BY <2>1, <2>2
<1>2. ASSUME NEW k \in Nat, NEW u \in Nat
      PROVE  (BLOCK_SIZE * k + u) % BLOCK_SIZE = u % BLOCK_SIZE
  <2> DEFINE q == u \div BLOCK_SIZE
             r == u % BLOCK_SIZE
  <2>1. u = BLOCK_SIZE * q + r /\ q \in Nat /\ r \in 0 .. BLOCK_SIZE - 1
    BY DivMod
  <2> HIDE DEF q, r
  <2>2. BLOCK_SIZE * k + u = BLOCK_SIZE * (k + q) + r /\ k + q \in Nat
    BY <2>1
  <2>3. (BLOCK_SIZE * (k + q) + r) % BLOCK_SIZE = r
    BY <2>1, <2>2, Quotient
  <2> QED
    BY <2>2, <2>3 DEF r
<1>3. ASSUME NEW h \in 0 .. Size - 1, NEW u \in 0 .. Size, h % BLOCK_SIZE = 0
      PROVE  h + BLOCK_SIZE <= Size /\ Wrap(h + u) % BLOCK_SIZE = u % BLOCK_SIZE
  <2>1. PICK k \in 0 .. N_BLOCKS - 1 : h = BLOCK_SIZE * k
    BY <1>1, <1>3
  <2>2. h + BLOCK_SIZE <= Size
    <3>1. \A a, b, c \in Nat : b + 1 <= c => a * b + a <= c * a
      OBVIOUS
    <3> QED
      BY <2>1, <3>1 DEF Size
  <2>a. (h + u) % BLOCK_SIZE = u % BLOCK_SIZE
    <3>1. k \in Nat /\ u \in Nat
      BY <1>0
    <3>2. (BLOCK_SIZE * k + u) % BLOCK_SIZE = u % BLOCK_SIZE
      BY <1>2, <3>1, Zenon
    <3> QED
      BY <2>1, <3>2, Zenon
  <2>3. CASE h + u < Size
    <3>1. Wrap(h + u) = h + u
      BY <1>0, <2>3 DEF Wrap
    <3> QED
      BY <2>2, <2>a, <3>1, Zenon
  <2>4. CASE h + u >= Size
    <3>1. h + u - Size \in Nat
      BY <1>0, <2>4
    <3>2. h + u = BLOCK_SIZE * N_BLOCKS + (h + u - Size)
      BY <1>0 DEF Size
    <3>3. (h + u) % BLOCK_SIZE = (h + u - Size) % BLOCK_SIZE
      BY <1>2, <3>1, <3>2
    <3>4. Wrap(h + u) = h + u - Size
      BY <1>0, <2>4 DEF Wrap
    <3> QED
      BY <2>2, <2>a, <3>3, <3>4, Zenon
  <2> QED
    BY <1>0, <2>2, <2>3, <2>4
<1>4. BLOCK_SIZE % BLOCK_SIZE = 0 /\ BLOCK_SIZE \in 0 .. Size
  BY <1>0
<1>5. \A h \in 0 .. Size - 1, u \in 0 .. Size :
        h % BLOCK_SIZE = 0 => /\ h + BLOCK_SIZE <= Size
                              /\ Wrap(h + u) % BLOCK_SIZE = u % BLOCK_SIZE
  BY <1>3
<1> QED
  BY <1>4, <1>5
------------------------------------------------------------------------------
(* The FIFO.                                                                  *)

\* The bytes accepted and not yet popped.
Unread == accepted - taken * BLOCK_SIZE

(***************************************************************************)
(* The unread bytes lie from head to tail, in their order, and               *)
(* blocks_filled is the number of whole blocks among them.                   *)
(***************************************************************************)
FifoInv ==
  /\ Unread \in 0 .. Size
  /\ tail = Wrap(head + Unread)
  /\ head % BLOCK_SIZE = 0
  /\ blocks_filled = -1 \/ blocks_filled = Unread \div BLOCK_SIZE
  /\ \A i \in 0 .. Unread - 1 : data[Wrap(head + i)] = taken * BLOCK_SIZE + i

(***************************************************************************)
(* A push that has room keeps every unread byte and adds its own after them. *)
(***************************************************************************)
LEMMA PushKeepsFifo ==
  ASSUME FifoTypeOK, FifoInv, NEW sz \in Nat, CanPush(sz), Push(sz)
  PROVE  /\ FifoTypeOK' /\ FifoInv' /\ Unread' = Unread + sz
         /\ head' = head /\ taken' = taken
         /\ blocks_filled' = -1 <=> blocks_filled = -1
<1>0. /\ Size \in Nat \ {0} /\ BLOCK_SIZE \in Nat \ {0} /\ N_BLOCKS \in Nat
      /\ head \in 0 .. Size - 1 /\ tail \in 0 .. Size - 1
      /\ accepted \in Nat /\ taken \in Nat
      /\ Unread \in 0 .. Size /\ Unread \in Nat
      /\ data \in [0 .. Size - 1 -> Int] /\ blocks_filled \in -1 .. N_BLOCKS
  BY WrapIsRemainder DEF FifoTypeOK, FifoInv
<1>a. taken * BLOCK_SIZE \in Nat /\ accepted = taken * BLOCK_SIZE + Unread
  BY <1>0 DEF Unread
<1>1. /\ accepted' = accepted + sz /\ head' = head /\ taken' = taken
      /\ tail' = (tail + sz) % Size
      /\ Unread' = Unread + sz
  BY <1>0, <1>a DEF Push, Unread
<1> DEFINE B == BLOCK_SIZE
           t == tail % B
           n == Unread \div B
           m == (t + sz) \div B
<1>2. /\ t \in 0 .. B - 1 /\ n \in Nat /\ Unread = B * n + t
  <2>1. t = Unread % B
    BY <1>0, Multiples DEF FifoInv
  <2> QED
    BY <1>0, <2>1, DivMod
<1>3. /\ m \in Nat /\ (t + sz) % B \in 0 .. B - 1
      /\ t + sz = B * m + ((t + sz) % B)
  <2>1. t + sz \in Nat
    BY <1>2
  <2> QED
    BY <1>0, <2>1, DivMod
<1>4. (Unread + sz) \div B = n + m
  <2> DEFINE r == (t + sz) % B
  <2> HIDE DEF r, t, n, m
  <2>1. Unread + sz = B * (n + m) + r /\ r \in 0 .. B - 1 /\ n + m \in Nat
    <3>1. B * (n + m) = B * n + B * m /\ B * n \in Nat /\ B * m \in Nat
      BY <1>0, <1>2, <1>3
    <3>2. t + sz = B * m + r /\ r \in 0 .. B - 1 /\ n + m \in Nat
      BY <1>2, <1>3 DEF r
    <3>3. /\ B * n \in Nat /\ B * m \in Nat /\ B * n + B * m = B * (n + m)
          /\ Unread = B * n + t /\ t \in Nat /\ r \in Nat
      BY <1>2, <3>1, <3>2
    <3>4. Unread + sz = B * n + B * m + r
      <4> DEFINE bn == B * n
                 bm == B * m
      <4>1. bn \in Nat /\ bm \in Nat /\ Unread = bn + t /\ t + sz = bm + r
        BY <3>2, <3>3
      <4> HIDE DEF bn, bm
      <4>2. Unread + sz = bn + bm + r
        BY <3>3, <4>1
      <4> QED
        BY <4>2 DEF bn, bm
    <3> QED
      BY <3>2, <3>3, <3>4
  <2> QED
    BY <1>0, <2>1, QuotientOf
<1>5. Unread + sz <= Size /\ (sz # 0 => n + m <= N_BLOCKS)
  <2>1. CASE sz = 0
    BY <1>0, <2>1
  <2>2. CASE sz # 0
    <3> DEFINE e == (t + sz - 1) \div B
    <3>1. t + sz - 1 \in Nat
      BY <1>0, <1>2, <2>2
    <3>2. e \in Nat /\ (t + sz - 1) % B \in 0 .. B - 1 /\ t + sz - 1 = B * e + ((t + sz - 1) % B)
      BY <1>0, <3>1, DivMod
    <3>3. n + (e + 1) <= N_BLOCKS
      BY <2>2 DEF CanPush, BlocksNeeded, FifoInv
    <3> HIDE DEF e, t, n, m
    <3>4. t + sz <= B * (e + 1)
      BY <1>0, <1>2, <3>2
    <3>5. Unread + sz <= B * (n + (e + 1))
      <4>1. B * (n + (e + 1)) = B * n + B * (e + 1) /\ B * n \in Nat /\ B * (e + 1) \in Nat
        BY <1>0, <1>2, <3>2
      <4> QED
        BY <1>0, <1>2, <3>4, <4>1
    <3>6. B * (n + (e + 1)) <= Size
      <4>1. \A a, b, c \in Nat : b <= c => a * b <= c * a
        OBVIOUS
      <4> QED
        BY <1>0, <1>2, <3>2, <3>3, <4>1 DEF Size
    <3>7. Unread + sz <= Size
      BY <1>0, <1>2, <3>2, <3>5, <3>6
    <3>8. n + m <= N_BLOCKS
      <4>1. B * (n + m) <= N_BLOCKS * B
        BY <1>0, <1>2, <1>3, <3>7 DEF Size
      <4>2. \A a, b, c \in Nat : a > 0 /\ a * b <= c * a => b <= c
        OBVIOUS
      <4> QED
        BY <1>0, <1>2, <1>3, <4>1, <4>2, n + m \in Nat, B > 0, Zenon
    <3> QED
      BY <3>7, <3>8
  <2> QED
    BY <2>1, <2>2
<1>6. blocks_filled' = blocks_filled + (IF sz = 0 THEN 0 ELSE m)
  BY DEF Push, BlocksReady
<1> HIDE DEF t, n, m
<1>7. tail' = Wrap(head + (Unread + sz)) /\ tail' \in 0 .. Size - 1
  <2>1. tail = Wrap(head + Unread)
    BY DEF FifoInv
  <2>2. tail' = Wrap(tail + sz) /\ tail' \in 0 .. Size - 1
    <3>1. tail + sz \in 0 .. 2 * Size - 1
      BY <1>0, <1>5
    <3> QED
      BY <1>1, <3>1, WrapIsRemainder, Zenon
  <2> QED
    BY <1>0, <1>5, <2>1, <2>2 DEF Wrap
<1>8. /\ blocks_filled' = -1 <=> blocks_filled = -1
      /\ blocks_filled' = -1 \/ blocks_filled' = (Unread + sz) \div B
      /\ blocks_filled' \in -1 .. N_BLOCKS
  <2>1. blocks_filled = -1 \/ blocks_filled = n
    BY DEF FifoInv, n
  <2>2. blocks_filled = -1 => sz = 0
    BY DEF CanPush
  <2>3. sz = 0 => n + m = n
    <3>1. sz = 0 => Unread + sz = Unread
      BY <1>0
    <3> QED
      BY <1>4, <3>1, Zenon DEF n
  <2> QED
    BY <1>0, <1>2, <1>3, <1>4, <1>5, <1>6, <2>1, <2>2, <2>3, SMTT(30)
<1>9. data' = [i \in 0 .. Size - 1 |-> IF (i - tail) % Size < sz
                                       THEN accepted + ((i - tail) % Size) ELSE data[i]]
  BY DEF Push
<1>10. data' \in [0 .. Size - 1 -> Int]
  <2>1. \A i \in 0 .. Size - 1 : (i - tail) % Size \in Int
    BY <1>0
  <2> QED
    BY <1>0, <1>9, <2>1
<1>11. ASSUME NEW i \in 0 .. Unread + sz - 1
       PROVE  data'[Wrap(head + i)] = taken * BLOCK_SIZE + i
  <2> DEFINE j == Wrap(head + i)
  <2>0. i \in 0 .. Size - 1 /\ i \in Int
    BY <1>0, <1>5
  <2>1. j \in 0 .. Size - 1
    BY <1>0, <2>0 DEF Wrap
  <2>2. tail = Wrap(head + Unread)
    BY DEF FifoInv
  <2>3. CASE i < Unread
    <3>1. (j - tail) % Size = i - Unread + Size
      <4>1. \/ j - tail = i - Unread + Size /\ j - tail \in 0 .. Size - 1
            \/ j - tail = i - Unread /\ j - tail \in 1 - Size .. -1
            \/ j - tail = 0 /\ i = 0 /\ Unread = Size
        BY <1>0, <2>0, <2>2, <2>3 DEF Wrap
      <4> HIDE DEF j
      <4>2. CASE j - tail \in 0 .. Size - 1
        <5>1. (j - tail) % Size = j - tail
          BY <4>2, WrapIsRemainder, Zenon
        <5> QED
          BY <1>0, <2>0, <4>1, <4>2, <5>1, SMTT(30)
      <4>3. CASE j - tail \in 1 - Size .. -1
        <5>1. (j - tail) % Size = (j - tail) + Size
          BY <4>3, WrapIsRemainder, Zenon
        <5> QED
          BY <1>0, <2>0, <4>1, <4>3, <5>1
      <4> QED
        BY <1>0, <4>1, <4>2, <4>3
    <3>2. ~((j - tail) % Size < sz)
      BY <1>0, <1>5, <2>0, <3>1
    <3>3. data[j] = taken * BLOCK_SIZE + i
      BY <2>0, <2>3 DEF FifoInv
    <3> QED
      BY <1>9, <2>1, <3>2, <3>3
  <2>4. CASE i >= Unread
    <3>1. (j - tail) % Size = i - Unread
      <4>1. \/ j - tail = i - Unread /\ j - tail \in 0 .. Size - 1
            \/ j - tail = i - Unread - Size /\ j - tail \in 1 - Size .. -1
        BY <1>0, <2>0, <2>2, <2>4 DEF Wrap
      <4> HIDE DEF j
      <4>2. CASE j - tail \in 0 .. Size - 1
        <5>1. (j - tail) % Size = j - tail
          BY <4>2, WrapIsRemainder, Zenon
        <5> QED
          BY <1>0, <2>0, <4>1, <4>2, <5>1
      <4>3. CASE j - tail \in 1 - Size .. -1
        <5>1. (j - tail) % Size = (j - tail) + Size
          BY <4>3, WrapIsRemainder, Zenon
        <5> QED
          BY <1>0, <2>0, <4>1, <4>3, <5>1
      <4> QED
        BY <1>0, <4>1, <4>2, <4>3
    <3>2. (j - tail) % Size < sz
      BY <1>0, <2>0, <3>1
    <3>3. data'[j] = accepted + (i - Unread)
      BY <1>9, <2>1, <3>1, <3>2
    <3> HIDE DEF j
    <3> QED
      BY <1>0, <1>a, <2>0, <3>3 DEF j
  <2> QED
    BY <1>0, <2>0, <2>3, <2>4
<1>12. FifoInv'
  BY <1>0, <1>1, <1>5, <1>7, <1>8, <1>11 DEF FifoInv
<1>13. FifoTypeOK'
  BY <1>0, <1>1, <1>7, <1>8, <1>10 DEF FifoTypeOK, Push
<1> QED
  BY <1>1, <1>8, <1>12, <1>13

(***************************************************************************)
(* A pop takes the oldest block out, unless the FIFO was halted.            *)
(***************************************************************************)
LEMMA PopKeepsFifo ==
  ASSUME FifoTypeOK, FifoInv, Pop
  PROVE  /\ FifoTypeOK' /\ FifoInv'
         /\ blocks_filled' = -1 <=> blocks_filled = -1
         /\ Unread' = Unread \/ Unread' = Unread - BLOCK_SIZE
<1>0. /\ Size \in Nat \ {0} /\ BLOCK_SIZE \in Nat \ {0} /\ BLOCK_SIZE <= Size
      /\ N_BLOCKS \in Nat
      /\ head \in 0 .. Size - 1 /\ tail \in 0 .. Size - 1
      /\ accepted \in Nat /\ taken \in Nat
      /\ Unread \in 0 .. Size /\ Unread \in Nat
      /\ data \in [0 .. Size - 1 -> Int] /\ blocks_filled \in -1 .. N_BLOCKS
  BY WrapIsRemainder DEF FifoTypeOK, FifoInv
<1>a. taken * BLOCK_SIZE \in Nat /\ accepted = taken * BLOCK_SIZE + Unread
  BY <1>0 DEF Unread
<1>1. CASE UNCHANGED fifo
  BY <1>1 DEF fifo, FifoTypeOK, FifoInv, Unread
<1>2. CASE /\ blocks_filled > 0
           /\ head' = (head + BLOCK_SIZE) % Size
           /\ blocks_filled' = blocks_filled - 1
           /\ taken' = taken + 1
           /\ UNCHANGED <<data, tail, parked, accepted>>
  <2>1. Unread' = Unread - BLOCK_SIZE /\ taken' * BLOCK_SIZE = taken * BLOCK_SIZE + BLOCK_SIZE
    BY <1>0, <1>a, <1>2 DEF Unread
  <2>2. head + BLOCK_SIZE <= Size /\ Wrap(head + BLOCK_SIZE) % BLOCK_SIZE = 0
    BY <1>0, Multiples DEF FifoInv
  <2>3. head' = Wrap(head + BLOCK_SIZE) /\ head' \in 0 .. Size - 1
    BY <1>0, <1>2, <2>2, WrapIsRemainder
  <2> DEFINE n == Unread \div BLOCK_SIZE
             r == Unread % BLOCK_SIZE
  <2>4. n \in Nat /\ r \in 0 .. BLOCK_SIZE - 1 /\ Unread = BLOCK_SIZE * n + r
    BY <1>0, DivMod
  <2>5. blocks_filled = n /\ n >= 1
    BY <1>0, <1>2 DEF FifoInv
  <2> HIDE DEF n, r
  <2>6. Unread - BLOCK_SIZE = BLOCK_SIZE * (n - 1) + r /\ n - 1 \in Nat
    BY <1>0, <2>4, <2>5
  <2>7. (Unread - BLOCK_SIZE) \div BLOCK_SIZE = n - 1
    BY <1>0, <2>4, <2>6, QuotientOf
  <2>8. Unread - BLOCK_SIZE \in 0 .. Size
    <3>1. \A a, b \in Nat : a * b \in Nat
      OBVIOUS
    <3>2. BLOCK_SIZE * (n - 1) \in Nat
      BY <1>0, <2>6, <3>1
    <3> QED
      BY <1>0, <2>4, <2>6, <3>2
  <2>9. tail = Wrap(head' + (Unread - BLOCK_SIZE))
    BY <1>0, <2>2, <2>3, <2>8 DEF FifoInv, Wrap
  <2>10. ASSUME NEW i \in 0 .. Unread - BLOCK_SIZE - 1
         PROVE  data[Wrap(head' + i)] = (taken * BLOCK_SIZE + BLOCK_SIZE) + i
    <3>1. BLOCK_SIZE + i \in 0 .. Unread - 1
      BY <1>0
    <3>2. Wrap(head' + i) = Wrap(head + (BLOCK_SIZE + i))
      BY <1>0, <2>2, <2>3 DEF Wrap
    <3>3. data[Wrap(head + (BLOCK_SIZE + i))] = taken * BLOCK_SIZE + (BLOCK_SIZE + i)
      BY <3>1 DEF FifoInv
    <3> QED
      BY <1>0, <1>a, <3>2, <3>3
  <2>11. FifoInv'
    BY <1>2, <2>1, <2>2, <2>3, <2>5, <2>7, <2>8, <2>9, <2>10 DEF FifoInv
  <2>12. FifoTypeOK'
    BY <1>0, <1>2, <2>3, <2>5 DEF FifoTypeOK
  <2> QED
    BY <1>0, <1>2, <2>1, <2>5, <2>11, <2>12
<1> QED
  BY <1>1, <1>2 DEF Pop
------------------------------------------------------------------------------
(* The device.                                                                *)

(***************************************************************************)
(* A block that is being sent is still in the FIFO, though it may have been  *)
(* halted meanwhile. A file comes in whole blocks, its reader ends when all  *)
(* are pushed, and a wait fails then only on an empty FIFO, unless it began  *)
(* while the file was still read.                                            *)
(***************************************************************************)
ControlInv ==
  /\ run = "sending" => BLOCK_SIZE <= Unread
  /\ streaming = (main = "running")
  /\ blocks_filled = -1 => main \notin {"running", "halting"}
  /\ kind = "file" => /\ Unread % BLOCK_SIZE = 0
                      /\ reader \in {"check", "push"} => len = BLOCK_SIZE
  /\ eoi => kind = "file" /\ reader = "ended"
  /\ run = "failed" /\ streaming /\ ~late => eoi /\ Unread = 0
  /\ done => kind = "file" /\ eoi /\ (late \/ Unread = 0)
DeviceInv == TypeOK /\ FifoInv /\ ControlInv

(***************************************************************************)
(* What leaves the bytes alone, or halts the FIFO, keeps it as it is.       *)
(***************************************************************************)
LEMMA FifoKept ==
  ASSUME FifoTypeOK, FifoInv, UNCHANGED <<data, head, tail, accepted, taken>>,
         blocks_filled' \in {blocks_filled, -1}, parked' \in BOOLEAN
  PROVE  FifoTypeOK' /\ FifoInv' /\ Unread' = Unread
<1>1. Unread' = Unread
  BY DEF Unread
<1>2. FifoInv'
  BY <1>1 DEF FifoInv
<1>3. FifoTypeOK'
  BY DEF FifoTypeOK
<1> QED
  BY <1>1, <1>2, <1>3

(***************************************************************************)
(* The invariant holds in every reachable state.                            *)
(***************************************************************************)
THEOREM DeviceCorrect == Spec => []DeviceInv
<1>1. Init => DeviceInv
  <2> SUFFICES ASSUME Init
               PROVE  DeviceInv
    OBVIOUS
  <2>0. Size \in Nat \ {0} /\ BLOCK_SIZE \in Nat \ {0}
    BY WrapIsRemainder
  <2>1. /\ accepted = 0 /\ taken = 0 /\ head = 0 /\ tail = 0 /\ blocks_filled = 0
        /\ run = "loop" /\ main = "running" /\ streaming = TRUE /\ eoi = FALSE /\ done = FALSE
        /\ reader = "loop"
    BY DEF Init, FifoInit
  <2>2. Unread = 0
    BY <2>0, <2>1 DEF Unread
  <2>3. 0 % BLOCK_SIZE = 0 /\ 0 \div BLOCK_SIZE = 0
    BY <2>0, Quotient
  <2>4. FifoInv
    BY <2>0, <2>1, <2>2, <2>3 DEF FifoInv, Wrap
  <2>5. FifoTypeOK
    <3>0. data = [i \in 0 .. Size - 1 |-> -1] /\ parked = FALSE
      BY DEF Init, FifoInit
    <3>1. data \in [0 .. Size - 1 -> Int]
      BY <3>0, -1 \in Int
    <3>a. parked \in BOOLEAN
      BY <3>0
    <3>2. 0 \in 0 .. Size - 1 /\ 0 \in -1 .. N_BLOCKS /\ 0 \in Nat
      BY <2>0
    <3> QED
      BY <2>1, <3>1, <3>a, <3>2 DEF FifoTypeOK
  <2>6. TypeOK
    <3>1. len \in 0 .. Size
      BY <2>0 DEF Init
    <3> QED
      BY <2>5, <3>1, Zenon DEF Init, TypeOK
  <2>7. ControlInv
    <3>1. streaming = (main = "running")
      BY <2>1
    <3> QED
      BY <2>1, <2>2, <2>3, <3>1 DEF ControlInv
  <2> QED
    BY <2>4, <2>6, <2>7 DEF DeviceInv
<1>2. DeviceInv /\ [Next]_vars => DeviceInv'
  <2> SUFFICES ASSUME TypeOK, FifoInv, ControlInv, [Next]_vars
               PROVE  TypeOK' /\ FifoInv' /\ ControlInv'
    BY DEF DeviceInv
  <2>0. /\ FifoTypeOK /\ Unread \in Nat /\ BLOCK_SIZE \in Nat \ {0} /\ Size \in Nat
        /\ BLOCK_SIZE <= Size /\ blocks_filled \in -1 .. N_BLOCKS
    <3>1. /\ FifoTypeOK /\ Unread \in 0 .. Size /\ Size \in Nat \ {0} /\ BLOCK_SIZE <= Size
          /\ blocks_filled \in -1 .. N_BLOCKS
      BY WrapIsRemainder DEF TypeOK, FifoInv, FifoTypeOK
    <3> QED
      BY <3>1
  <2>a. ASSUME UNCHANGED fifo
        PROVE  FifoTypeOK' /\ FifoInv' /\ Unread' = Unread /\ blocks_filled' = blocks_filled
    BY <2>0, <2>a, FifoKept DEF fifo, FifoTypeOK
  <2>b. ASSUME NEW b \in BOOLEAN, parked' = b,
               UNCHANGED <<data, head, tail, blocks_filled, accepted, taken>>
        PROVE  FifoTypeOK' /\ FifoInv' /\ Unread' = Unread /\ blocks_filled' = blocks_filled
    BY <2>0, <2>b, FifoKept
  <2>c. Unread % BLOCK_SIZE \in Nat /\ (blocks_filled > 0 => BLOCK_SIZE <= Unread)
        /\ (blocks_filled = 0 /\ Unread % BLOCK_SIZE = 0 => Unread = 0)
    <3> DEFINE n == Unread \div BLOCK_SIZE
               r == Unread % BLOCK_SIZE
    <3>1. n \in Nat /\ r \in 0 .. BLOCK_SIZE - 1 /\ Unread = BLOCK_SIZE * n + r
      BY <2>0, DivMod
    <3>2. blocks_filled = -1 \/ blocks_filled = n
      BY DEF FifoInv
    <3> HIDE DEF n, r
    <3>3. n = 0 => Unread = r
      BY <2>0, <3>1
    <3>4. n > 0 => BLOCK_SIZE <= Unread
      <4>1. \A a, b \in Nat : b > 0 => a <= a * b
        OBVIOUS
      <4> QED
        BY <2>0, <3>1, <4>1
    <3> QED
      BY <2>0, <3>1, <3>2, <3>3, <3>4 DEF r
  <2>1. CASE NetworkLoop \/ RunLoop \/ ReaderCheck \/ StopJoin
    <3>1. FifoTypeOK' /\ FifoInv' /\ Unread' = Unread /\ blocks_filled' = blocks_filled
      BY <2>1, <2>a DEF NetworkLoop, RunLoop, ReaderCheck, StopJoin
    <3>2. TypeOK'
      BY <2>1, <3>1 DEF NetworkLoop, RunLoop, ReaderCheck, StopJoin, TypeOK, control
    <3>3. ControlInv'
      <4>1. CASE NetworkLoop
        BY <3>1, <4>1 DEF NetworkLoop, ControlInv, control
      <4>2. CASE RunLoop
        BY <3>1, <4>2 DEF RunLoop, ControlInv, control
      <4>3. CASE ReaderCheck
        BY <3>1, <4>3 DEF ReaderCheck, ControlInv, control
      <4>4. CASE StopJoin
        BY <3>1, <4>4 DEF StopJoin, ControlInv, control
      <4> QED
        BY <2>1, <4>1, <4>2, <4>3, <4>4
    <3> QED
      BY <3>1, <3>2, <3>3
  <2>2. CASE NetworkRead
    <3>1. FifoTypeOK' /\ FifoInv' /\ Unread' = Unread /\ blocks_filled' = blocks_filled
      BY <2>2, <2>a DEF NetworkRead
    <3>2. TypeOK'
      BY <2>0, <2>2, <3>1 DEF NetworkRead, TypeOK
    <3>3. ControlInv'
      BY <2>2, <3>1 DEF NetworkRead, ControlInv
    <3> QED
      BY <3>1, <3>2, <3>3
  <2>3. CASE FileLoop
    <3>1. FifoTypeOK' /\ FifoInv' /\ Unread' = Unread /\ blocks_filled' = blocks_filled
      BY <2>3, <2>a DEF FileLoop
    <3>2. TypeOK'
      BY <2>3, <3>1 DEF FileLoop, TypeOK
    <3>3. ControlInv'
      BY <2>3, <3>1 DEF FileLoop, ControlInv
    <3> QED
      BY <3>1, <3>2, <3>3
  <2>4. CASE FileRead
    <3>1. FifoTypeOK' /\ FifoInv' /\ Unread' = Unread /\ blocks_filled' = blocks_filled
      BY <2>4, <2>a DEF FileRead
    <3>0. eof' \in BOOLEAN
      BY <2>4, Zenon DEF FileRead
    <3>1a. len' = BLOCK_SIZE
      BY <2>4, Zenon DEF FileRead
    <3>2. eof' \in BOOLEAN /\ len' \in 0 .. Size
      BY <2>0, <3>0, <3>1a
    <3>3. TypeOK'
      BY <2>4, <3>1, <3>2, Zenon DEF FileRead, TypeOK
    <3>4. ControlInv'
      BY <2>4, <3>1 DEF FileRead, ControlInv
    <3> QED
      BY <3>1, <3>3, <3>4
  <2>5. CASE ReaderPush
    <3>1. CASE CanPush(len) /\ Push(len) /\ reader' = "loop"
      <4>0. /\ UNCHANGED <<kind, streaming, lost, eof, eoi, done, late, len, run, main>>
            /\ len \in Nat /\ reader = "push"
        <5>1. len \in 0 .. Size
          BY DEF TypeOK
        <5> QED
          BY <2>0, <2>5, <5>1 DEF ReaderPush, control
      <4>1. FifoTypeOK' /\ FifoInv' /\ Unread' = Unread + len
            /\ (blocks_filled' = -1 <=> blocks_filled = -1)
        BY <2>0, <3>1, <4>0, PushKeepsFifo
      <4>2. TypeOK'
        BY <3>1, <4>0, <4>1 DEF TypeOK
      <4>3. kind = "file" => Unread' % BLOCK_SIZE = 0
        <5> SUFFICES ASSUME kind = "file"
                     PROVE  (Unread + BLOCK_SIZE) % BLOCK_SIZE = 0
          BY <4>0, <4>1 DEF ControlInv
        <5> DEFINE n == Unread \div BLOCK_SIZE
        <5>1. n \in Nat /\ Unread = BLOCK_SIZE * n + 0
          BY <2>0, DivMod DEF ControlInv
        <5> HIDE DEF n
        <5>2. Unread + BLOCK_SIZE = BLOCK_SIZE * (n + 1) + 0
          BY <2>0, <5>1
        <5> QED
          BY <2>0, <5>1, <5>2, QuotientOf
      <4>4. ControlInv'
        BY <2>0, <3>1, <4>0, <4>1, <4>3 DEF ControlInv
      <4> QED
        BY <4>1, <4>2, <4>4
    <3>2. CASE UNCHANGED fifo /\ reader' \in {"check", "loop"}
      <4>1. FifoTypeOK' /\ FifoInv' /\ Unread' = Unread /\ blocks_filled' = blocks_filled
        BY <3>2, <2>a
      <4>2. TypeOK'
        BY <2>5, <3>2, <4>1 DEF ReaderPush, TypeOK, control
      <4>3. ControlInv'
        BY <2>5, <3>2, <4>1 DEF ReaderPush, ControlInv, control
      <4> QED
        BY <4>1, <4>2, <4>3
    <3> QED
      BY <2>5, <3>1, <3>2 DEF ReaderPush
  <2>6. CASE RunWait \/ RunWoken
    <3>1. FifoTypeOK' /\ FifoInv' /\ Unread' = Unread /\ blocks_filled' = blocks_filled
      BY <2>6, <2>a, <2>b DEF RunWait, RunWoken, Park
    <3>2. /\ UNCHANGED <<kind, streaming, lost, eof, eoi, done, late, reader, len, main>>
          /\ \/ run' = "sending" /\ blocks_filled > 0
             \/ run' = "failed" /\ blocks_filled = -1
             \/ run' = "waiting"
      BY <2>0, <2>6 DEF RunWait, RunWoken, Waited, control
    <3>3. TypeOK'
      BY <3>1, <3>2 DEF TypeOK
    <3>4. ControlInv'
      BY <2>c, <3>1, <3>2 DEF ControlInv
    <3> QED
      BY <3>1, <3>3, <3>4
  <2>7. CASE RunTimeout
    <3>1. FifoTypeOK' /\ FifoInv' /\ Unread' = Unread /\ blocks_filled' = blocks_filled
      BY <2>7, <2>b DEF RunTimeout, Unpark
    <3>2. /\ UNCHANGED <<kind, streaming, lost, eof, eoi, done, reader, len, main>>
          /\ late' = (late \/ ~eoi)
          /\ \/ run' = "sending" /\ blocks_filled > 0
             \/ run' = "failed" /\ blocks_filled \in {-1, 0}
      BY <2>0, <2>7 DEF RunTimeout, Waited
    <3>3. TypeOK'
      BY <3>1, <3>2 DEF TypeOK
    <3>4. ControlInv'
      BY <2>c, <3>1, <3>2 DEF ControlInv, TypeOK
    <3> QED
      BY <3>1, <3>3, <3>4
  <2>8. CASE SpuriousWakeup
    <3>1. FifoTypeOK' /\ FifoInv' /\ Unread' = Unread /\ blocks_filled' = blocks_filled
      BY <2>8, <2>b DEF SpuriousWakeup, Unpark
    <3>2. TypeOK'
      BY <2>8, <3>1 DEF SpuriousWakeup, TypeOK, control
    <3>3. ControlInv'
      BY <2>8, <3>1 DEF SpuriousWakeup, ControlInv, control
    <3> QED
      BY <3>1, <3>2, <3>3
  <2>9. CASE RunSent
    <3>0. /\ UNCHANGED <<kind, streaming, lost, eof, eoi, done, late, reader, len, main>>
          /\ run = "sending" /\ run' = "loop" /\ BLOCK_SIZE <= Unread
      BY <2>9 DEF RunSent, control, ControlInv
    <3>1. /\ FifoTypeOK' /\ FifoInv' /\ (blocks_filled' = -1 <=> blocks_filled = -1)
          /\ Unread' = Unread \/ Unread' = Unread - BLOCK_SIZE
      BY <2>0, <2>9, PopKeepsFifo DEF RunSent
    <3>2. TypeOK'
      BY <3>0, <3>1 DEF TypeOK
    <3>3. kind = "file" => Unread' % BLOCK_SIZE = 0
      <4> SUFFICES ASSUME kind = "file"
                   PROVE  (Unread - BLOCK_SIZE) % BLOCK_SIZE = 0
        BY <3>1 DEF ControlInv
      <4> DEFINE n == Unread \div BLOCK_SIZE
      <4>1. n \in Nat /\ Unread = BLOCK_SIZE * n + 0
        BY <2>0, DivMod DEF ControlInv
      <4> HIDE DEF n
      <4>2. n # 0
        BY <2>0, <3>0, <4>1
      <4>3. Unread - BLOCK_SIZE = BLOCK_SIZE * (n - 1) + 0 /\ n - 1 \in Nat
        BY <2>0, <4>1, <4>2
      <4> QED
        <5>1. 0 \in 0 .. BLOCK_SIZE - 1
          BY <2>0
        <5> QED
          BY <2>0, <4>3, <5>1, QuotientOf, Zenon
    <3>4. Unread # 0
      BY <2>0, <3>0
    <3>5. ControlInv'
      BY <3>0, <3>1, <3>3, <3>4 DEF ControlInv
    <3> QED
      BY <3>1, <3>2, <3>5
  <2>10. CASE RunFailed
    <3>1. FifoTypeOK' /\ FifoInv' /\ Unread' = Unread /\ blocks_filled' = blocks_filled
      BY <2>10, <2>a DEF RunFailed
    <3>2. TypeOK'
      BY <2>10, <3>1 DEF RunFailed, TypeOK
    <3>3. ControlInv'
      BY <2>10, <3>1 DEF RunFailed, ControlInv, IsStreaming, TypeOK
    <3> QED
      BY <3>1, <3>2, <3>3
  <2>11. CASE StopEnded \/ StopAsked
    <3>1. FifoTypeOK' /\ FifoInv' /\ Unread' = Unread /\ blocks_filled' = blocks_filled
      BY <2>11, <2>a DEF StopEnded, StopAsked
    <3>2. TypeOK'
      BY <2>11, <3>1 DEF StopEnded, StopAsked, TypeOK
    <3>3. ControlInv'
      <4>1. streaming' = FALSE /\ main' = "halting" /\ main = "running"
            /\ UNCHANGED <<kind, eoi, done, late, reader, len, run>>
        BY <2>11 DEF StopEnded, StopAsked
      <4> QED
        BY <3>1, <4>1 DEF ControlInv
    <3> QED
      BY <3>1, <3>2, <3>3
  <2>12. CASE StopHalt
    <3>1. FifoTypeOK' /\ FifoInv' /\ Unread' = Unread
      BY <2>0, <2>12, FifoKept DEF StopHalt, Halt
    <3>2. TypeOK'
      BY <2>12, <3>1 DEF StopHalt, TypeOK, control
    <3>3. ControlInv'
      BY <2>12, <3>1 DEF StopHalt, ControlInv, control
    <3> QED
      BY <3>1, <3>2, <3>3
  <2>13. CASE UNCHANGED vars
    <3>1. FifoTypeOK' /\ FifoInv' /\ Unread' = Unread /\ blocks_filled' = blocks_filled
      BY <2>13, <2>a DEF vars
    <3>2. TypeOK'
      BY <2>13, <3>1 DEF vars, TypeOK, control
    <3>3. ControlInv'
      BY <2>13, <3>1 DEF vars, ControlInv, control
    <3> QED
      BY <3>1, <3>2, <3>3
  <2> QED
    BY <2>1, <2>2, <2>3, <2>4, <2>5, <2>6, <2>7, <2>8, <2>9, <2>10, <2>11, <2>12, <2>13
       DEF Next, ReaderStep, RunStep, StopStep
<1> QED
  BY <1>1, <1>2, PTL DEF Spec

(***************************************************************************)
(* The variables have their types: no index leaves _data and blocks_filled  *)
(* counts no more blocks than there are (FIFO.h).                           *)
(***************************************************************************)
THEOREM TypeCorrect == Spec => []TypeOK
<1>1. DeviceInv => TypeOK
  BY DEF DeviceInv
<1> QED
  BY <1>1, DeviceCorrect, PTL

(***************************************************************************)
(* The block that Run sends, without the lock, is not written to meanwhile: *)
(* it holds the next BLOCK_SIZE bytes that were accepted.                   *)
(***************************************************************************)
THEOREM BlockStaysIntact == Spec => []FrontIntact
<1>1. DeviceInv => FrontIntact
  <2> SUFFICES ASSUME DeviceInv, run = "sending", NEW i \in 0 .. BLOCK_SIZE - 1
               PROVE  data[head + i] = taken * BLOCK_SIZE + i
    BY DEF FrontIntact
  <2>1. /\ BLOCK_SIZE <= Unread /\ Unread \in 0 .. Size /\ head \in 0 .. Size - 1
        /\ head % BLOCK_SIZE = 0 /\ Size \in Nat /\ BLOCK_SIZE \in Nat
    BY WrapIsRemainder DEF DeviceInv, ControlInv, FifoInv, TypeOK, FifoTypeOK
  <2>2. head + BLOCK_SIZE <= Size
    BY <2>1, Multiples
  <2>3. Wrap(head + i) = head + i /\ i \in 0 .. Unread - 1
    BY <2>1, <2>2 DEF Wrap
  <2>4. data[Wrap(head + i)] = taken * BLOCK_SIZE + i
    BY <2>3 DEF DeviceInv, FifoInv
  <2> QED
    BY <2>3, <2>4
<1> QED
  BY <1>1, DeviceCorrect, PTL

(***************************************************************************)
(* When a file is declared done, every block of it has been sent, unless a  *)
(* wait of Run had timed out while the file was still read.                 *)
(***************************************************************************)
THEOREM FileIsReadToTheEnd == Spec => []FileReadToTheEnd
<1>1. DeviceInv => FileReadToTheEnd
  <2> SUFFICES ASSUME DeviceInv, done, ~late
               PROVE  taken * BLOCK_SIZE = accepted
    BY DEF FileReadToTheEnd
  <2>1. Unread = 0 /\ taken \in Nat /\ accepted \in Nat /\ taken * BLOCK_SIZE \in Nat
    <3>1. Unread = 0 /\ taken \in Nat /\ accepted \in Nat
      BY DEF DeviceInv, ControlInv, TypeOK, FifoTypeOK
    <3>2. \A a, b \in Nat : a * b \in Nat
      OBVIOUS
    <3> QED
      BY <3>1, <3>2
  <2> QED
    BY <2>1 DEF Unread
<1> QED
  BY <1>1, DeviceCorrect, PTL
=============================================================================
