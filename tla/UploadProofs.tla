---------------------------- MODULE UploadProofs ----------------------------
(***************************************************************************)
(* The upload beside a recording, for every capacity of a file, every set    *)
(* of blocks and every bound: no frame is lost between the disk and the      *)
(* server, and a file leaves the disk only when the server has all of it.    *)
(***************************************************************************)
EXTENDS Upload, TLAPS, WellFoundedInduction, SequenceTheorems

(***************************************************************************)
(* The sink thread: a block is whole frames, a recording that is over has   *)
(* no file, and the frames and files to come stay within the bounds.        *)
(***************************************************************************)
\* The files that the blocks taken so far may have opened.
Opens == 2 * blocks - (IF sink.pc = "write" THEN 2 ELSE IF sink.pc = "rest" THEN 1 ELSE 0)

\* The frames of the block that are still to be written.
Pending == IF sink.pc = "write" THEN Frames(sink.block)
           ELSE IF sink.pc = "rest" THEN FramesAfter(sink.room) ELSE 0

SinkRuns ==
  /\ sink.pc \in {"write", "rest"} =>
       /\ sink.channels \in {1, 2} /\ sink.block % sink.channels = 0
       /\ blocks > 0
  /\ sink.seq <= blocks /\ (sink.pc = "write" => sink.seq < blocks)
  /\ control \in {"idle", "ended"} => sink = NoSink
  /\ Len(home) + Pending <= blocks * Capacity

SinkInv ==
  /\ SinkRuns
  /\ \A n \in DOMAIN disk : n.idx < Opens
  /\ \A n \in DOMAIN disk : Len(disk[n].data) <= Len(home)
  /\ \A n \in DOMAIN server : Len(server[n].data) <= Len(home)

Begins(part, whole) ==
  Len(part) <= Len(whole) /\ \A i \in 1 .. Len(part) : part[i] = whole[i]

(***************************************************************************)
(* What is on disk is closed but for the file that is written, and what the *)
(* server has of a file on disk is its beginning.                           *)
(***************************************************************************)
FilesInv ==
  /\ \A n \in DOMAIN disk : disk[n].closed \/ n = sink.file \/ Spoilt(n)
  /\ sink.file \in DOMAIN disk => ~disk[sink.file].closed
  /\ sink.file # NoName /\ sink.file \notin DOMAIN disk => Spoilt(sink.file)
  /\ \A n \in DOMAIN disk \cap DOMAIN server :
       \/ Spoilt(n)
       \/ /\ disk[n].closed /\ server[n].closed
          /\ Begins(server[n].data, disk[n].data)

(***************************************************************************)
(* The file in transfer stays on disk and does not change; the position of  *)
(* a resumed transfer is 0 as long as the server has no such file.          *)
(***************************************************************************)
TransferInv ==
  /\ upload.todo \subseteq DOMAIN disk
  /\ upload.pc \in {"store", "resume", "remove"} =>
       /\ upload.file \in DOMAIN disk \ upload.todo
       /\ disk[upload.file].closed \/ Spoilt(upload.file)
  /\ upload.pc \in {"sleep", "next", "store", "ended"} => upload.from = 0
  /\ upload.pc = "resume" /\ upload.file \notin DOMAIN server => upload.from = 0
  /\ upload.pc = "remove" =>
       \/ Spoilt(upload.file)
       \/ upload.file \in DOMAIN server /\ server[upload.file] = disk[upload.file]

\* A frame is in its file on disk, or, when that has left, in that on the server.
Kept(f) ==
  LET n == home[f].file
  IN  \/ home[f].cut
      \/ Spoilt(n)
      \/ n \in DOMAIN disk /\ f \in ToSet(disk[n].data)
      \/ n \in DOMAIN server \ DOMAIN disk /\ f \in ToSet(server[n].data)

FramesInv == \A f \in DOMAIN home : Kept(f)

UploadInv == TypeOK /\ SinkInv /\ FilesInv /\ TransferInv /\ FramesInv

-----------------------------------------------------------------------------
(***************************************************************************)
(* A set of numbers has a least one.                                        *)
(***************************************************************************)
Below == {ss \in Nat \X Nat : ss[1] < ss[2]}

LEMMA LeastNumber ==
  ASSUME NEW S \in SUBSET Nat, S # {}
  PROVE  \E x \in S : \A y \in S : x <= y
<1>1. OpToRel(<, Nat) = Below
  BY Zenon DEF OpToRel, Below
<1>2. PICK x \in S : \A y \in S : ~(<<y, x>> \in Below)
  BY <1>1, NatLessThanWellFounded, WFMin, Zenon
<1>3. ASSUME NEW y \in S PROVE x <= y
  <2>1. <<y, x>> \in Nat \X Nat /\ x \in Nat /\ y \in Nat
    OBVIOUS
  <2>2. ~(y < x)
    BY <1>2, <2>1 DEF Below
  <2> QED
    BY <2>1, <2>2
<1> QED
  BY <1>3

LEMMA ToSetOf ==
  ASSUME NEW S, NEW s \in Seq(S)
  PROVE  \A e : e \in ToSet(s) <=> \E p \in 1 .. Len(s) : s[p] = e
BY DEF ToSet

Continues(new, held, whole, k, S) ==
  /\ new \in Seq(S) /\ Len(new) = Len(held) + k
  /\ Begins(held, whole) => Begins(new, whole)
  /\ Begins(held, whole) /\ k = Len(whole) - Len(held) => new = whole

(***************************************************************************)
(* What k more frames make of a file on the server that ends at its place.  *)
(***************************************************************************)
LEMMA MoreFrames ==
  ASSUME NEW S, NEW held \in Seq(S), NEW whole \in Seq(S), NEW k \in Nat,
         k <= IF Len(held) < Len(whole) THEN Len(whole) - Len(held) ELSE 0,
         NEW new, new = held \o SubSeq(whole, Len(held) + 1, Len(held) + k)
  PROVE  Continues(new, held, whole, k, S)
<1> DEFINE n == Len(held)
           more == SubSeq(whole, n + 1, n + k)
<1>1. n \in Nat /\ Len(whole) \in Nat /\ (k > 0 => n + k <= Len(whole))
  OBVIOUS
<1>2. more \in Seq(S) /\ Len(more) = k /\ \A i \in 1 .. k : more[i] = whole[n + i]
  OBVIOUS
<1>3. /\ new \in Seq(S) /\ Len(new) = Len(held) + Len(more)
      /\ \A i \in 1 .. Len(held) + Len(more) :
           new[i] = IF i <= Len(held) THEN held[i] ELSE more[i - Len(held)]
  BY <1>2, ConcatProperties, Zenon
<1> HIDE DEF more
<1>4. ASSUME Begins(held, whole) PROVE Begins(new, whole)
  <2>1. Len(new) <= Len(whole)
    BY <1>1, <1>2, <1>3, <1>4 DEF Begins
  <2>2. ASSUME NEW i \in 1 .. Len(new) PROVE new[i] = whole[i]
    <3>1. CASE i <= n
      BY <1>1, <1>2, <1>3, <1>4, <3>1 DEF Begins
    <3>2. CASE i > n
      <4>1. i - n \in 1 .. k /\ n + (i - n) = i
        BY <1>1, <1>2, <1>3, <3>2
      <4>2. more[i - n] = whole[i]
        BY <1>2, <4>1
      <4> QED
        BY <1>1, <1>2, <1>3, <3>2, <4>2
    <3> QED
      BY <1>1, <3>1, <3>2
  <2> QED
    BY <2>1, <2>2, Zenon DEF Begins
<1>5. ASSUME Begins(new, whole), k = Len(whole) - Len(held) PROVE new = whole
  <2>1. Len(new) = Len(whole)
    BY <1>1, <1>2, <1>3, <1>5
  <2> QED
    BY <1>3, <1>5, <2>1, SeqEqual DEF Begins
<1> QED
  BY <1>2, <1>3, <1>4, <1>5 DEF Continues

LEMMA Bounds ==
  /\ Capacity \in Nat /\ MaxSeconds \in Nat /\ MaxBlocks \in Nat /\ MaxFaults \in Nat
  /\ \A b \in Blocks : /\ b.channels \in {1, 2} /\ b.samples \in 1 .. Capacity
                       /\ b.samples % b.channels = 0
BY RecordingAssumption, UploadAssumption DEF RecordingAssumption, UploadAssumption

\* What the type invariant says of each variable.
LEMMA Types ==
  ASSUME TypeOK
  PROVE  /\ DOMAIN disk \subseteq Names
         /\ \A n \in DOMAIN disk : disk[n] \in Files
         /\ DOMAIN server \subseteq Names
         /\ \A n \in DOMAIN server : server[n] \in Files
         /\ sink.file \in Names \cup {NoName}
         /\ sink.size \in 0 .. Capacity /\ sink.room \in 0 .. Capacity
         /\ sink.block \in 0 .. Capacity /\ sink.channels \in 0 .. 2
         /\ sink.second \in 0 .. MaxSeconds /\ sink.seq \in 0 .. MaxBlocks
         /\ now \in 0 .. MaxSeconds /\ blocks \in 0 .. MaxBlocks
         /\ home \in Seq([file : Names, cut : BOOLEAN]) /\ Len(home) \in Nat
         /\ upload.todo \subseteq Names /\ upload.file \in Names \cup {NoName}
         /\ upload.from \in 0 .. Len(home)
BY DEF TypeOK, RecordingTypeOK

(***************************************************************************)
(* getOutputFileName finds a name: the indices of the files there are stay  *)
(* below the number of files opened.                                        *)
(***************************************************************************)
LEMMA NameIsFree ==
  ASSUME TypeOK, SinkInv
  PROVE  LET n == NextName(sink.second, sink.seq)
         IN  n \in Names /\ n \notin DOMAIN disk /\ n # NoName /\ n.idx <= Opens
<1> DEFINE name(i) == [second |-> sink.second, seq |-> sink.seq, idx |-> i]
           taken == {i \in 0 .. 2 * MaxBlocks : name(i) \in DOMAIN disk}
           free == {i \in Nat : name(i) \notin DOMAIN disk}
           Least(i) == i \notin taken /\ 0 .. i - 1 \subseteq taken
<1>1. Opens \in Nat /\ Opens <= 2 * MaxBlocks
  <2>1. sink.pc \in {"write", "rest"} => blocks > 0
    BY Zenon DEF SinkInv, SinkRuns
  <2>2. blocks \in 0 .. MaxBlocks /\ MaxBlocks \in Nat
    BY Bounds, Types
  <2> QED
    BY <2>1, <2>2 DEF Opens
<1>2. \A i \in Nat : name(i).idx = i
  OBVIOUS
<1>3. \A i \in Nat : name(i) \in DOMAIN disk => i < Opens
  BY <1>2, Zenon DEF SinkInv
<1>4. Opens \in free
  BY <1>1, <1>3
<1>5. PICK x \in free : \A y \in free : x <= y
  <2>1. free \in SUBSET Nat /\ free # {}
    BY <1>4
  <2> HIDE DEF free
  <2> QED
    BY <2>1, LeastNumber
<1>6. x \in 0 .. 2 * MaxBlocks /\ Least(x)
  <2>1. x \in Nat /\ x <= Opens /\ name(x) \notin DOMAIN disk
    BY <1>4, <1>5
  <2>2. ASSUME NEW i \in 0 .. x - 1 PROVE i \in taken
    <3>1. i \in Nat /\ i < x /\ i \in 0 .. 2 * MaxBlocks
      BY <1>1, <2>1, Bounds
    <3>2. i \notin free
      BY <1>5, <2>1, <3>1
    <3> QED
      BY <3>1, <3>2
  <2> QED
    BY <1>1, <2>1, <2>2, Bounds
<1> DEFINE i0 == CHOOSE i \in 0 .. 2 * MaxBlocks : Least(i)
<1>7. i0 \in 0 .. 2 * MaxBlocks /\ Least(i0)
  BY <1>6, Zenon
<1>8. NextName(sink.second, sink.seq) = name(i0)
  BY Zenon DEF NextName
<1> HIDE DEF i0
<1>9. i0 <= Opens
  <2>1. i0 = 0 \/ i0 - 1 \in taken
    BY <1>7, Bounds
  <2>2. i0 # 0 => i0 - 1 \in Nat /\ i0 - 1 < Opens
    BY <1>3, <1>7, <2>1, Bounds
  <2> QED
    BY <1>1, <1>7, <2>2, Bounds
<1>10. name(i0) \in Names /\ name(i0) \notin DOMAIN disk /\ name(i0).idx = i0
  BY <1>7, Types DEF Names
<1>11. NoName \notin Names
  BY Bounds DEF NoName, Names
<1> HIDE DEF name
<1> QED
  BY <1>8, <1>9, <1>10, <1>11

(***************************************************************************)
(* The file that is written to, opened if none is.                          *)
(***************************************************************************)
LEMMA TheOutput ==
  ASSUME TypeOK, SinkInv
  PROVE  /\ Output \in Names /\ Output # NoName
         /\ sink.file # NoName => Output = sink.file /\ Opened = disk
         /\ sink.file = NoName =>
              /\ Output \notin DOMAIN disk /\ Output.idx <= Opens
              /\ DOMAIN Opened = DOMAIN disk \cup {Output}
              /\ Opened[Output] = [data |-> << >>, closed |-> FALSE]
              /\ \A n \in DOMAIN disk : Opened[n] = disk[n]
<1>1. sink.file = NoName => Output = NextName(sink.second, sink.seq)
  BY Zenon DEF Output
<1>2. sink.file # NoName => Output = sink.file /\ Opened = disk
  BY Zenon DEF Output, Opened
<1>3. sink.file # NoName => sink.file \in Names
  BY Types
<1>4. sink.file = NoName => Output \in Names /\ Output # NoName /\ Output \notin DOMAIN disk
                            /\ Output.idx <= Opens
  BY <1>1, NameIsFree, Zenon
<1>5. ASSUME sink.file = NoName
      PROVE  /\ DOMAIN Opened = DOMAIN disk \cup {Output}
             /\ Opened[Output] = [data |-> << >>, closed |-> FALSE]
             /\ \A n \in DOMAIN disk : Opened[n] = disk[n]
  <2>1. Opened = [n \in DOMAIN disk \cup {Output} |->
                    IF n = Output THEN [data |-> << >>, closed |-> FALSE] ELSE disk[n]]
    BY <1>5, Zenon DEF Opened
  <2>2. Output \notin DOMAIN disk
    BY <1>4, <1>5
  <2> QED
    BY <2>1, <2>2
<1> QED
  BY <1>2, <1>3, <1>4, <1>5, Zenon

LEMMA ClosedFiles ==
  ASSUME NEW files
  PROVE  /\ DOMAIN Closed(files) = DOMAIN files
         /\ \A n \in DOMAIN files : n # Output => Closed(files)[n] = files[n]
         /\ Output \in DOMAIN files =>
              Closed(files)[Output] = [files[Output] EXCEPT !.closed = TRUE]
BY DEF Closed

(***************************************************************************)
(* Every frame written gets its rank; a file that was removed while it is   *)
(* open gets none.                                                          *)
(***************************************************************************)
Extended(data, k) == data \o [i \in 1 .. k |-> Len(home) + i]

LEMMA FramesAdded ==
  ASSUME TypeOK, NEW data \in Seq(1 .. MaxFrames), Len(data) <= Len(home), NEW k \in Nat,
         Len(home) + k <= MaxFrames
  PROVE  /\ Extended(data, k) \in Seq(1 .. MaxFrames)
         /\ Len(Extended(data, k)) <= Len(home) + k
         /\ ToSet(data) \subseteq ToSet(Extended(data, k))
         /\ \A f \in Len(home) + 1 .. Len(home) + k : f \in ToSet(Extended(data, k))
<1> DEFINE more == [i \in 1 .. k |-> Len(home) + i]
           new == data \o more
<1>1. Len(home) \in Nat /\ Len(data) \in Nat /\ MaxFrames \in Int
  BY Types, Bounds DEF MaxFrames
<1>2. more \in Seq(1 .. MaxFrames) /\ Len(more) = k
  <2>1. \A i \in 1 .. k : Len(home) + i \in 1 .. MaxFrames
    BY <1>1
  <2> QED
    BY <2>1
<1>3. \A i \in 1 .. k : more[i] = Len(home) + i
  OBVIOUS
<1>4. /\ new \in Seq(1 .. MaxFrames) /\ Len(new) = Len(data) + Len(more)
      /\ \A i \in 1 .. Len(data) + Len(more) :
           new[i] = IF i <= Len(data) THEN data[i] ELSE more[i - Len(data)]
  BY <1>2, ConcatProperties, Zenon
<1> HIDE DEF more, new
<1>5. \A e : e \in ToSet(new) <=> \E p \in 1 .. Len(new) : new[p] = e
  BY <1>4, ToSetOf
<1>6. \A e : e \in ToSet(data) <=> \E p \in 1 .. Len(data) : data[p] = e
  BY ToSetOf
<1>7. ToSet(data) \subseteq ToSet(new)
  <2>1. \A p \in 1 .. Len(data) : p \in 1 .. Len(new) /\ new[p] = data[p]
    BY <1>1, <1>2, <1>4
  <2> QED
    BY <1>5, <1>6, <2>1, Zenon
<1>8. ASSUME NEW f \in Len(home) + 1 .. Len(home) + k PROVE f \in ToSet(new)
  <2>1. /\ f - Len(home) \in 1 .. k /\ Len(home) + (f - Len(home)) = f
        /\ Len(data) + (f - Len(home)) \in 1 .. Len(new)
    BY <1>1, <1>2, <1>4
  <2>2. new[Len(data) + (f - Len(home))] = f
    <3>1. more[f - Len(home)] = f
      BY <1>3, <2>1
    <3>2. /\ ~(Len(data) + (f - Len(home)) <= Len(data))
          /\ Len(data) + (f - Len(home)) - Len(data) = f - Len(home)
      BY <1>1, <2>1
    <3> QED
      BY <1>2, <1>4, <2>1, <3>1, <3>2, SMTT(30)
  <2> QED
    BY <1>5, <2>1, <2>2, Zenon
<1> QED
  BY <1>1, <1>2, <1>4, <1>7, <1>8 DEF new, more, Extended

LEMMA WrittenFiles ==
  ASSUME TypeOK, SinkInv, FilesInv, NEW k \in Nat, Len(home) + k <= MaxFrames, NEW w, w = Written(k)
  PROVE  /\ DOMAIN disk \subseteq DOMAIN w /\ DOMAIN w \subseteq DOMAIN disk \cup {Output}
         /\ sink.file # NoName => DOMAIN w = DOMAIN disk
         /\ \A n \in DOMAIN disk : n # Output => w[n] = disk[n]
         /\ \A n \in DOMAIN w : w[n] \in Files /\ Len(w[n].data) <= Len(home) + k
         /\ Output \in DOMAIN w =>
              /\ w[Output].closed = FALSE
              /\ \A f \in Len(home) + 1 .. Len(home) + k : f \in ToSet(w[Output].data)
              /\ Output \in DOMAIN disk => ToSet(disk[Output].data) \subseteq ToSet(w[Output].data)
         /\ Output \notin DOMAIN w => Spoilt(Output)
<1>1. w = [n \in DOMAIN Opened |->
             IF n = Output THEN [Opened[n] EXCEPT !.data = Extended(@, k)] ELSE Opened[n]]
  BY Zenon DEF Written, Extended
<1>2. /\ sink.file # NoName => Output = sink.file /\ Opened = disk
      /\ sink.file = NoName =>
              /\ Output \notin DOMAIN disk
              /\ DOMAIN Opened = DOMAIN disk \cup {Output}
              /\ Opened[Output] = [data |-> << >>, closed |-> FALSE]
              /\ \A n \in DOMAIN disk : Opened[n] = disk[n]
  BY TheOutput, Zenon
<1>3. DOMAIN w = DOMAIN Opened /\ \A n \in DOMAIN disk : n # Output => w[n] = disk[n]
  BY <1>1, <1>2
<1>4. \A n \in DOMAIN disk : disk[n] \in Files /\ Len(disk[n].data) <= Len(home)
  BY Types, Zenon DEF SinkInv
<1>5. Len(home) \in Nat
  BY Types
<1>6. ASSUME Output \in DOMAIN w
      PROVE  /\ Opened[Output] \in Files /\ Len(Opened[Output].data) <= Len(home)
             /\ Opened[Output].closed = FALSE
             /\ Output \in DOMAIN disk => disk[Output] = Opened[Output]
  <2>1. CASE sink.file = NoName
    <3>1. << >> \in Seq(1 .. MaxFrames) /\ Len(<< >>) <= Len(home)
      BY <1>5
    <3> DEFINE new == [data |-> << >>, closed |-> FALSE]
    <3>2. new \in Files /\ new.data = << >> /\ new.closed = FALSE
      BY <3>1 DEF Files
    <3> HIDE DEF new
    <3>3. Opened[Output] = new /\ Output \notin DOMAIN disk
      BY <1>2, <2>1, Zenon DEF new
    <3> QED
      BY <3>1, <3>2, <3>3, Zenon
  <2>2. CASE sink.file # NoName
    <3>1. Output \in DOMAIN disk /\ Opened[Output] = disk[Output] /\ Output = sink.file
      BY <1>2, <1>3, <1>6, <2>2, Zenon
    <3>2. ~disk[Output].closed
      BY <3>1, Zenon DEF FilesInv
    <3> QED
      BY <1>4, <3>1, <3>2 DEF Files
  <2> QED
    BY <2>1, <2>2
<1>7. ASSUME Output \in DOMAIN w
      PROVE  /\ w[Output] \in Files /\ Len(w[Output].data) <= Len(home) + k
             /\ w[Output].closed = FALSE
             /\ \A f \in Len(home) + 1 .. Len(home) + k : f \in ToSet(w[Output].data)
             /\ Output \in DOMAIN disk => ToSet(disk[Output].data) \subseteq ToSet(w[Output].data)
  <2> DEFINE old == Opened[Output].data
  <2>1. w[Output] = [Opened[Output] EXCEPT !.data = Extended(@, k)]
    BY <1>1, <1>3, <1>7
  <2>2. old \in Seq(1 .. MaxFrames) /\ Len(old) <= Len(home)
    BY <1>6, <1>7 DEF Files
  <2>3. /\ w[Output].data = Extended(old, k) /\ w[Output].closed = FALSE
        /\ Extended(old, k) \in Seq(1 .. MaxFrames) => w[Output] \in Files
    BY <1>6, <1>7, <2>1 DEF Files
  <2> HIDE DEF old
  <2>4. /\ Extended(old, k) \in Seq(1 .. MaxFrames)
        /\ Len(Extended(old, k)) <= Len(home) + k
        /\ ToSet(old) \subseteq ToSet(Extended(old, k))
        /\ \A f \in Len(home) + 1 .. Len(home) + k : f \in ToSet(Extended(old, k))
    BY <2>2, FramesAdded
  <2>5. Output \in DOMAIN disk => disk[Output].data = old
    BY <1>6, <1>7 DEF old
  <2> QED
    BY <2>3, <2>4, <2>5, Zenon
<1>8. \A n \in DOMAIN w : w[n] \in Files /\ Len(w[n].data) <= Len(home) + k
  <2> SUFFICES ASSUME NEW n \in DOMAIN w, n # Output
               PROVE  w[n] \in Files /\ Len(w[n].data) <= Len(home) + k
    BY <1>7, Zenon
  <2>1. n \in DOMAIN disk /\ w[n] = disk[n]
    BY <1>2, <1>3, Zenon
  <2>2. w[n] \in Files /\ Len(w[n].data) <= Len(home) /\ Len(w[n].data) \in Int
    BY <1>4, <2>1 DEF Files
  <2> QED
    BY <1>5, <2>2
<1>9. Output \notin DOMAIN w => Spoilt(Output)
  BY <1>2, <1>3, Zenon DEF FilesInv
<1>10. /\ DOMAIN disk \subseteq DOMAIN w /\ DOMAIN w \subseteq DOMAIN disk \cup {Output}
       /\ sink.file # NoName => DOMAIN w = DOMAIN disk
  BY <1>2, <1>3
<1> QED
  BY <1>3, <1>7, <1>8, <1>9, <1>10

(***************************************************************************)
(* What a step of the worker does to the files: only the one that is open   *)
(* changes, it loses nothing unless it is spoilt, and new frames go into    *)
(* their file if it is still on disk.                                       *)
(***************************************************************************)
SpoiltNow(n) == \E cause \in {"reused", "unseen", "unclosed"} : <<cause, n>> \in spoilt'

DiskStep ==
  /\ DOMAIN disk \subseteq DOMAIN disk'
  /\ \A n \in DOMAIN disk : disk'[n] = disk[n] \/ n = sink.file
  /\ \A n \in DOMAIN disk' \ DOMAIN disk : disk'[n].closed \/ n = sink'.file
  /\ sink.file \in DOMAIN disk =>
       \/ SpoiltNow(sink.file)
       \/ /\ disk'[sink.file].closed \/ sink.file = sink'.file
          /\ ToSet(disk[sink.file].data) \subseteq ToSet(disk'[sink.file].data)
  /\ sink'.file \in DOMAIN disk' => ~disk'[sink'.file].closed
  /\ sink'.file # NoName /\ sink'.file \notin DOMAIN disk' => SpoiltNow(sink'.file)
  /\ \A f \in DOMAIN home : f \in DOMAIN home' /\ home'[f] = home[f]
  /\ \A f \in DOMAIN home' \ DOMAIN home :
       \/ home'[f].cut
       \/ SpoiltNow(home'[f].file)
       \/ home'[f].file \in DOMAIN disk' /\ f \in ToSet(disk'[home'[f].file].data)

LEMMA FilesKept ==
  ASSUME FilesInv, TransferInv, FramesInv, DiskStep, upload' = upload, server' = server,
         \A n : Spoilt(n) => SpoiltNow(n),
         \A n \in DOMAIN disk' \ DOMAIN disk : n \in DOMAIN server => SpoiltNow(n)
  PROVE  FilesInv' /\ TransferInv' /\ FramesInv'
<1>1. \A n : Spoilt(n)' <=> SpoiltNow(n)
  BY Zenon DEF Spoilt, SpoiltNow
<1>2. ASSUME NEW n \in DOMAIN disk
      PROVE  \/ n \in DOMAIN disk' /\ disk'[n] = disk[n]
             \/ n = sink.file /\ ~disk[n].closed
  BY Zenon DEF DiskStep, FilesInv
<1>3. FilesInv'
  <2>1. ASSUME NEW n \in DOMAIN disk'
        PROVE  disk'[n].closed \/ n = sink'.file \/ SpoiltNow(n)
    <3>1. CASE n \notin DOMAIN disk
      BY <3>1, Zenon DEF DiskStep
    <3>2. CASE n = sink.file /\ n \in DOMAIN disk
      BY <3>2, Zenon DEF DiskStep
    <3>3. CASE n \in DOMAIN disk /\ n # sink.file
      BY <3>3, Zenon DEF DiskStep, FilesInv
    <3> QED
      BY <3>1, <3>2, <3>3
  <2>2. ASSUME NEW n \in DOMAIN disk' \cap DOMAIN server
        PROVE  \/ SpoiltNow(n)
               \/ /\ disk'[n].closed /\ server[n].closed
                  /\ Begins(server[n].data, disk'[n].data)
    <3>1. CASE n \notin DOMAIN disk
      BY <3>1
    <3>2. CASE n \in DOMAIN disk
      <4>1. \/ Spoilt(n)
            \/ /\ disk[n].closed /\ server[n].closed
               /\ Begins(server[n].data, disk[n].data)
        BY <3>2, Zenon DEF FilesInv
      <4> QED
        BY <1>2, <3>2, <4>1, Zenon
    <3> QED
      BY <3>1, <3>2
  <2>3. /\ sink'.file \in DOMAIN disk' => ~disk'[sink'.file].closed
        /\ sink'.file # NoName /\ sink'.file \notin DOMAIN disk' => SpoiltNow(sink'.file)
    BY Zenon DEF DiskStep
  <2> QED
    BY <2>1, <2>2, <2>3 DEF FilesInv, Spoilt, SpoiltNow, Begins
<1>4. TransferInv'
  <2>1. upload.todo \subseteq DOMAIN disk'
    BY Zenon DEF TransferInv, DiskStep
  <2>2. ASSUME upload.pc \in {"store", "resume", "remove"}
        PROVE  /\ upload.file \in DOMAIN disk' \ upload.todo
               /\ disk'[upload.file].closed \/ SpoiltNow(upload.file)
               /\ disk'[upload.file] = disk[upload.file] \/ SpoiltNow(upload.file)
    <3>1. /\ upload.file \in DOMAIN disk \ upload.todo
          /\ disk[upload.file].closed \/ Spoilt(upload.file)
      BY <2>2, Zenon DEF TransferInv
    <3>2. upload.file \in DOMAIN disk'
      BY <3>1, Zenon DEF DiskStep
    <3> QED
      BY <1>2, <3>1, <3>2, Zenon
  <2>3. upload.pc = "remove" =>
          \/ SpoiltNow(upload.file)
          \/ upload.file \in DOMAIN server /\ server[upload.file] = disk'[upload.file]
    BY <2>2, Zenon DEF TransferInv
  <2>4. /\ upload.pc \in {"sleep", "next", "store", "ended"} => upload.from = 0
        /\ upload.pc = "resume" /\ upload.file \notin DOMAIN server => upload.from = 0
    BY Zenon DEF TransferInv
  <2> QED
    BY <2>1, <2>2, <2>3, <2>4, Zenon DEF TransferInv, Spoilt, SpoiltNow
<1>5. FramesInv'
  <2>1. ASSUME NEW f \in DOMAIN home', NEW n, n = home'[f].file
        PROVE  \/ home'[f].cut
               \/ SpoiltNow(n)
               \/ n \in DOMAIN disk' /\ f \in ToSet(disk'[n].data)
               \/ n \in DOMAIN server \ DOMAIN disk' /\ f \in ToSet(server[n].data)
    <3>1. CASE f \notin DOMAIN home
      BY <2>1, <3>1, Zenon DEF DiskStep
    <3>2. CASE f \in DOMAIN home
      <4>1. home'[f] = home[f] /\ n = home[f].file
        BY <2>1, <3>2, Zenon DEF DiskStep
      <4>2. \/ home[f].cut
            \/ Spoilt(n)
            \/ n \in DOMAIN disk /\ f \in ToSet(disk[n].data)
            \/ n \in DOMAIN server \ DOMAIN disk /\ f \in ToSet(server[n].data)
        BY <3>2, <4>1, Zenon DEF FramesInv, Kept
      <4>3. ASSUME n \in DOMAIN disk, f \in ToSet(disk[n].data)
            PROVE  SpoiltNow(n) \/ (n \in DOMAIN disk' /\ f \in ToSet(disk'[n].data))
        <5>1. CASE n = sink.file
          <6>1. n \in DOMAIN disk'
            BY <4>3, Zenon DEF DiskStep
          <6>2. \/ SpoiltNow(sink.file)
                \/ ToSet(disk[sink.file].data) \subseteq ToSet(disk'[sink.file].data)
            BY <4>3, <5>1, Zenon DEF DiskStep
          <6> QED
            BY <4>3, <5>1, <6>1, <6>2
        <5>2. CASE n # sink.file
          BY <4>3, <5>2, Zenon DEF DiskStep
        <5> QED
          BY <5>1, <5>2
      <4>4. ASSUME n \in DOMAIN server \ DOMAIN disk, f \in ToSet(server[n].data)
            PROVE  SpoiltNow(n) \/ n \notin DOMAIN disk'
        BY <4>4, Zenon
      <4> QED
        BY <4>1, <4>2, <4>3, <4>4, Zenon
    <3> QED
      BY <3>1, <3>2
  <2> QED
    BY <2>1, Zenon DEF FramesInv, Kept, Spoilt, SpoiltNow
<1> QED
  BY <1>3, <1>4, <1>5

-----------------------------------------------------------------------------
(***************************************************************************)
(* The frames that are added to the history.                                *)
(***************************************************************************)
Homed == [file : Names, cut : BOOLEAN]
Whole(k) == Homes(k, FALSE)
Cut(k) == Homes(k, TRUE)
Longer(h, one, k) == h \o [i \in 1 .. k |-> one]

IsLonger(new, h, one, k) ==
  /\ new \in Seq(Homed) /\ Len(new) = Len(h) + k
  /\ DOMAIN new = 1 .. Len(h) + k
  /\ \A f \in 1 .. Len(h) : new[f] = h[f]
  /\ \A f \in Len(h) + 1 .. Len(h) + k : new[f] = one

LEMMA HomesAdded ==
  ASSUME NEW h \in Seq(Homed), NEW k \in Nat, NEW one \in Homed,
         NEW new, new = Longer(h, one, k)
  PROVE  IsLonger(new, h, one, k)
<1> DEFINE more == [i \in 1 .. k |-> one]
<1>1. more \in Seq(Homed) /\ Len(more) = k /\ \A i \in 1 .. k : more[i] = one
  OBVIOUS
<1> HIDE DEF more
<1>2. /\ new \in Seq(Homed) /\ Len(new) = Len(h) + Len(more)
      /\ \A i \in 1 .. Len(h) + Len(more) :
           new[i] = IF i <= Len(h) THEN h[i] ELSE more[i - Len(h)]
  <2> DEFINE both == h \o more
  <2>1. /\ both \in Seq(Homed) /\ Len(both) = Len(h) + Len(more)
        /\ \A i \in 1 .. Len(h) + Len(more) :
             both[i] = IF i <= Len(h) THEN h[i] ELSE more[i - Len(h)]
    BY <1>1, ConcatProperties, Zenon
  <2>2. new = both
    BY Zenon DEF more, Longer
  <2> HIDE DEF both
  <2> QED
    BY <2>1, <2>2
<1>3. Len(h) \in Nat /\ DOMAIN new = 1 .. Len(new)
  BY <1>2
<1>4. \A f \in Len(h) + 1 .. Len(h) + k : new[f] = one
  <2> SUFFICES ASSUME NEW f \in Len(h) + 1 .. Len(h) + k PROVE new[f] = one
    OBVIOUS
  <2>1. f \in 1 .. Len(h) + k /\ ~(f <= Len(h)) /\ f - Len(h) \in 1 .. k
    BY <1>3
  <2> QED
    BY <1>1, <1>2, <2>1
<1>5. \A f \in 1 .. Len(h) : new[f] = h[f]
  BY <1>1, <1>2, <1>3
<1> QED
  BY <1>1, <1>2, <1>3, <1>4, <1>5 DEF IsLonger

(***************************************************************************)
(* The steps of the worker, by what they do to the files: nothing, the file *)
(* is closed, frames are written, and the last ones that fit.               *)
(***************************************************************************)
SpoiltStays == \A n : Spoilt(n) => SpoiltNow(n)

\* What the type invariant and SinkInv say of the files.
FilesFit(opens) ==
  /\ DOMAIN disk' \subseteq Names
  /\ \A n \in DOMAIN disk' : disk'[n] \in Files /\ Len(disk'[n].data) <= Len(home')
  /\ \A n \in DOMAIN disk' : n.idx < opens
  /\ home' \in Seq([file : Names, cut : BOOLEAN])
  /\ Len(home) <= Len(home')

LEMMA FilesAreLeft ==
  ASSUME TypeOK, SinkInv, FilesInv, SpoiltStays,
         disk' = disk, home' = home, sink'.file = sink.file
  PROVE  DiskStep /\ FilesFit(Opens)
<1>1. FilesFit(Opens)
  <2>1. Len(home) <= Len(home)
    BY Types
  <2> QED
    BY <2>1, Types, Zenon DEF FilesFit, SinkInv
<1>2. DiskStep
  BY Zenon DEF DiskStep, FilesInv, SpoiltStays
<1> QED
  BY <1>1, <1>2

LEMMA FileIsClosed ==
  ASSUME TypeOK, SinkInv, FilesInv, SpoiltStays,
         disk' = Closed(disk), home' = home, sink'.file = NoName
  PROVE  DiskStep /\ FilesFit(Opens)
<1>1. /\ DOMAIN disk' = DOMAIN disk
      /\ \A n \in DOMAIN disk : n # Output => disk'[n] = disk[n]
      /\ Output \in DOMAIN disk => disk'[Output] = [disk[Output] EXCEPT !.closed = TRUE]
  BY ClosedFiles, Zenon
<1>2. /\ sink.file # NoName => Output = sink.file
      /\ sink.file = NoName => Output \notin DOMAIN disk
  BY TheOutput, Zenon
<1>3. /\ DOMAIN disk \subseteq Names /\ \A n \in DOMAIN disk : disk[n] \in Files
      /\ NoName \notin Names
  BY Types, Bounds DEF NoName, Names
<1>4. Output \in DOMAIN disk =>
        /\ disk'[Output] \in Files /\ disk'[Output].closed
        /\ disk'[Output].data = disk[Output].data
  BY <1>1, <1>3 DEF Files
<1>5. FilesFit(Opens)
  <2>1. ASSUME NEW n \in DOMAIN disk
        PROVE  disk'[n] \in Files /\ Len(disk'[n].data) <= Len(home)
    <3>1. disk[n] \in Files /\ Len(disk[n].data) <= Len(home)
      BY <1>3, Zenon DEF SinkInv
    <3> QED
      BY <1>1, <1>4, <3>1, Zenon
  <2>2. /\ \A n \in DOMAIN disk : n.idx < Opens
        /\ home \in Seq([file : Names, cut : BOOLEAN])
    BY Types, Zenon DEF SinkInv
  <2>3. Len(home) <= Len(home)
    BY Types
  <2> QED
    BY <1>1, <1>3, <2>1, <2>2, <2>3, Zenon DEF FilesFit
<1>6. DiskStep
  <2>1. \A n \in DOMAIN disk : disk'[n] = disk[n] \/ n = sink.file
    BY <1>1, <1>2, Zenon
  <2>2. sink.file \in DOMAIN disk =>
          disk'[sink.file].closed /\ disk'[sink.file].data = disk[sink.file].data
    BY <1>2, <1>3, <1>4, Zenon
  <2>3. sink'.file \notin DOMAIN disk'
    BY <1>1, <1>3, Zenon
  <2> QED
    BY <1>1, <2>1, <2>2, <2>3 DEF DiskStep
<1> QED
  BY <1>5, <1>6

LEMMA FramesAreWritten ==
  ASSUME TypeOK, SinkInv, FilesInv, SpoiltStays, NEW k \in Nat, Len(home) + k <= MaxFrames,
         disk' = Written(k), home' = home \o Whole(k), sink'.file = Output
  PROVE  DiskStep /\ FilesFit(Opens + 1) /\ Len(home') = Len(home) + k
<1>1. /\ DOMAIN disk \subseteq DOMAIN disk' /\ DOMAIN disk' \subseteq DOMAIN disk \cup {Output}
      /\ sink.file # NoName => DOMAIN disk' = DOMAIN disk
      /\ \A n \in DOMAIN disk : n # Output => disk'[n] = disk[n]
      /\ \A n \in DOMAIN disk' : disk'[n] \in Files /\ Len(disk'[n].data) <= Len(home) + k
      /\ Output \in DOMAIN disk' =>
           /\ disk'[Output].closed = FALSE
           /\ \A f \in Len(home) + 1 .. Len(home) + k : f \in ToSet(disk'[Output].data)
           /\ Output \in DOMAIN disk => ToSet(disk[Output].data) \subseteq ToSet(disk'[Output].data)
      /\ Output \notin DOMAIN disk' => Spoilt(Output)
  BY WrittenFiles, Zenon
<1>2. /\ Output \in Names /\ Output # NoName
      /\ sink.file # NoName => Output = sink.file
      /\ sink.file = NoName => Output \notin DOMAIN disk /\ Output.idx <= Opens
  BY TheOutput, Zenon
<1>3. /\ home' \in Seq(Homed) /\ Len(home') = Len(home) + k
      /\ DOMAIN home' = 1 .. Len(home) + k
      /\ \A f \in 1 .. Len(home) : home'[f] = home[f]
      /\ \A f \in Len(home) + 1 .. Len(home) + k : home'[f].file = Output
  <2>1. home \in Seq(Homed)
    BY Types DEF Homed
  <2> DEFINE one == [file |-> Output, cut |-> FALSE]
  <2>2. one \in Homed /\ one.file = Output
    BY <1>2 DEF Homed
  <2>3. home' = Longer(home, one, k)
    BY Zenon DEF Whole, Homes, Longer
  <2> HIDE DEF one
  <2>4. IsLonger(home', home, one, k)
    BY <2>1, <2>2, <2>3, HomesAdded, Zenon
  <2> QED
    BY <2>2, <2>4 DEF IsLonger
<1>4. DOMAIN home = 1 .. Len(home) /\ Len(home) \in Nat
  BY Types
<1>5. DOMAIN disk \subseteq Names /\ NoName \notin Names /\ Opens \in Int
  BY Types, Bounds, SMTT(30) DEF NoName, Names, Opens
<1>6. FilesFit(Opens + 1)
  <2>1. \A n \in DOMAIN disk : n.idx < Opens /\ n.idx \in Int
    <3>1. \A n \in DOMAIN disk : n.idx < Opens
      BY Zenon DEF SinkInv
    <3> QED
      BY <1>5, <3>1 DEF Names
  <2>2. Output.idx \in Int
    BY <1>2, Bounds DEF Names
  <2>3. ASSUME NEW n \in DOMAIN disk' PROVE n.idx < Opens + 1
    <3>1. n \in DOMAIN disk \/ (n = Output /\ Output.idx <= Opens)
      BY <1>1, <1>2, Zenon
    <3> QED
      BY <1>5, <2>1, <2>2, <3>1
  <2>4. Len(home) <= Len(home')
    BY <1>3, <1>4
  <2> QED
    BY <1>1, <1>2, <1>3, <1>5, <2>3, <2>4, Zenon DEF FilesFit, Homed
<1>7. DiskStep
  <2>1. /\ \A n \in DOMAIN disk : disk'[n] = disk[n] \/ n = sink.file
        /\ \A n \in DOMAIN disk' \ DOMAIN disk : n = sink'.file
    BY <1>1, <1>2, Zenon
  <2>2. sink.file \in DOMAIN disk =>
          /\ sink.file = sink'.file
          /\ ToSet(disk[sink.file].data) \subseteq ToSet(disk'[sink.file].data)
    BY <1>1, <1>2, <1>5, Zenon
  <2>3. /\ sink'.file \in DOMAIN disk' => ~disk'[sink'.file].closed
        /\ sink'.file \notin DOMAIN disk' => SpoiltNow(sink'.file)
    BY <1>1, Zenon DEF SpoiltStays
  <2>4. \A f \in DOMAIN home : f \in DOMAIN home' /\ home'[f] = home[f]
    BY <1>3, <1>4
  <2>5. ASSUME NEW f \in DOMAIN home' \ DOMAIN home
        PROVE  \/ SpoiltNow(home'[f].file)
               \/ home'[f].file \in DOMAIN disk' /\ f \in ToSet(disk'[home'[f].file].data)
    <3>1. f \in Len(home) + 1 .. Len(home) + k
      BY <1>3, <1>4
    <3> QED
      BY <1>1, <1>3, <2>3, <3>1, Zenon
  <2> QED
    BY <1>1, <2>1, <2>2, <2>3, <2>4, <2>5, Zenon DEF DiskStep
<1> QED
  BY <1>3, <1>6, <1>7

LEMMA FileIsCompleted ==
  ASSUME TypeOK, SinkInv, FilesInv, SpoiltStays,
         NEW k \in Nat, NEW lost \in Nat, Len(home) + k + lost <= MaxFrames,
         disk' = Closed(Written(k)),
         home' = home \o Whole(k) \o Cut(lost), sink'.file = NoName
  PROVE  DiskStep /\ FilesFit(Opens + 1) /\ Len(home') = Len(home) + k + lost
<1> DEFINE w == Written(k)
           kept == [file |-> Output, cut |-> FALSE]
           gone == [file |-> Output, cut |-> TRUE]
           part == Longer(home, kept, k)
<1>1. /\ Output \in Names /\ Output # NoName
      /\ sink.file # NoName => Output = sink.file
      /\ sink.file = NoName => Output \notin DOMAIN disk /\ Output.idx <= Opens
  BY TheOutput, Zenon
<1>2. /\ kept \in Homed /\ kept.file = Output
      /\ gone \in Homed /\ gone.cut
  BY <1>1 DEF Homed
<1>3. home' = Longer(part, gone, lost)
  BY Zenon DEF Whole, Cut, Homes, Longer
<1> HIDE DEF kept, gone
<1>4. home \in Seq(Homed) /\ DOMAIN home = 1 .. Len(home) /\ Len(home) \in Nat
  BY Types DEF Homed
<1>5. /\ part \in Seq(Homed) /\ Len(part) = Len(home) + k
      /\ \A f \in 1 .. Len(home) : part[f] = home[f]
      /\ \A f \in Len(home) + 1 .. Len(home) + k : part[f] = kept
  <2>1. IsLonger(part, home, kept, k)
    BY <1>2, <1>4, HomesAdded, Zenon
  <2> QED
    BY <2>1 DEF IsLonger
<1> HIDE DEF part
<1>6. /\ home' \in Seq(Homed) /\ Len(home') = Len(part) + lost
      /\ DOMAIN home' = 1 .. Len(part) + lost
      /\ \A f \in 1 .. Len(part) : home'[f] = part[f]
      /\ \A f \in Len(part) + 1 .. Len(part) + lost : home'[f] = gone
  <2>1. IsLonger(home', part, gone, lost)
    BY <1>2, <1>3, <1>5, HomesAdded, Zenon
  <2> QED
    BY <2>1 DEF IsLonger
<1>7. Len(home) + k <= MaxFrames /\ Len(home) + k <= Len(home') /\ Len(home) <= Len(home')
      /\ Len(home') = Len(home) + k + lost
  <2>1. MaxFrames \in Int
    BY Bounds DEF MaxFrames
  <2> QED
    BY <1>4, <1>5, <1>6, <2>1
<1>8. /\ DOMAIN disk \subseteq DOMAIN w /\ DOMAIN w \subseteq DOMAIN disk \cup {Output}
      /\ sink.file # NoName => DOMAIN w = DOMAIN disk
      /\ \A n \in DOMAIN disk : n # Output => w[n] = disk[n]
      /\ \A n \in DOMAIN w : w[n] \in Files /\ Len(w[n].data) <= Len(home) + k
      /\ Output \in DOMAIN w =>
           /\ \A f \in Len(home) + 1 .. Len(home) + k : f \in ToSet(w[Output].data)
           /\ Output \in DOMAIN disk => ToSet(disk[Output].data) \subseteq ToSet(w[Output].data)
      /\ Output \notin DOMAIN w => Spoilt(Output)
  BY <1>7, WrittenFiles, Zenon
<1> HIDE DEF w
<1>9. /\ DOMAIN disk' = DOMAIN w
      /\ \A n \in DOMAIN w : n # Output => disk'[n] = w[n]
      /\ Output \in DOMAIN w => disk'[Output] = [w[Output] EXCEPT !.closed = TRUE]
  BY ClosedFiles, Zenon DEF w
<1>10. Output \in DOMAIN w =>
         /\ disk'[Output] \in Files /\ disk'[Output].closed
         /\ disk'[Output].data = w[Output].data
  BY <1>8, <1>9 DEF Files
<1>11. DOMAIN disk \subseteq Names /\ NoName \notin Names /\ Opens \in Int
  BY Types, Bounds DEF NoName, Names, Opens
<1>12. FilesFit(Opens + 1)
  <2>1. \A n \in DOMAIN disk : n.idx < Opens /\ n.idx \in Int
    <3>1. \A n \in DOMAIN disk : n.idx < Opens
      BY Zenon DEF SinkInv
    <3> QED
      BY <1>11, <3>1 DEF Names
  <2>2. Output.idx \in Int
    BY <1>1, Bounds DEF Names
  <2>3. ASSUME NEW n \in DOMAIN w PROVE n.idx < Opens + 1
    <3>1. n \in DOMAIN disk \/ (n = Output /\ Output.idx <= Opens)
      BY <1>1, <1>8, Zenon
    <3> QED
      BY <1>11, <2>1, <2>2, <3>1
  <2>4. ASSUME NEW n \in DOMAIN w PROVE disk'[n] \in Files /\ Len(disk'[n].data) <= Len(home')
    <3>1. disk'[n] \in Files /\ disk'[n].data = w[n].data
      BY <1>8, <1>9, <1>10, Zenon
    <3>2. Len(w[n].data) <= Len(home) + k /\ Len(w[n].data) \in Int
      BY <1>8 DEF Files
    <3>3. Len(w[n].data) <= Len(home')
      BY <1>4, <1>5, <1>6, <1>7, <3>2
    <3> QED
      BY <3>1, <3>3
  <2>5. DOMAIN disk' \subseteq Names
    BY <1>1, <1>8, <1>9, <1>11
  <2> QED
    BY <1>6, <1>7, <1>9, <2>3, <2>4, <2>5, Zenon DEF FilesFit, Homed
<1>13. DiskStep
  <2>1. \A n \in DOMAIN disk : disk'[n] = disk[n] \/ n = sink.file
    BY <1>1, <1>8, <1>9, Zenon
  <2>2. \A n \in DOMAIN disk' \ DOMAIN disk : disk'[n].closed
    BY <1>8, <1>9, <1>10, Zenon
  <2>3. sink.file \in DOMAIN disk =>
          /\ disk'[sink.file].closed
          /\ ToSet(disk[sink.file].data) \subseteq ToSet(disk'[sink.file].data)
    BY <1>1, <1>8, <1>10, <1>11, Zenon
  <2>4. sink'.file \notin DOMAIN disk'
    BY <1>1, <1>8, <1>9, <1>11
  <2>5. \A f \in DOMAIN home : f \in DOMAIN home' /\ home'[f] = home[f]
    BY <1>4, <1>5, <1>6
  <2>6. ASSUME NEW f \in DOMAIN home' \ DOMAIN home
        PROVE  \/ home'[f].cut
               \/ SpoiltNow(home'[f].file)
               \/ home'[f].file \in DOMAIN disk' /\ f \in ToSet(disk'[home'[f].file].data)
    <3>1. CASE f \in Len(home) + 1 .. Len(home) + k
      <4>1. home'[f] = kept
        BY <1>4, <1>5, <1>6, <3>1, SMTT(30)
      <4> QED
        BY <1>2, <1>8, <1>9, <1>10, <3>1, <4>1, Zenon DEF SpoiltStays
    <3>2. CASE f \notin Len(home) + 1 .. Len(home) + k
      <4>1. home'[f] = gone
        BY <1>4, <1>5, <1>6, <3>2
      <4> QED
        BY <1>2, <4>1, Zenon
    <3> QED
      BY <3>1, <3>2
  <2> QED
    BY <1>8, <1>9, <1>11, <2>1, <2>2, <2>3, <2>4, <2>5, <2>6, Zenon DEF DiskStep
<1> QED
  BY <1>7, <1>12, <1>13

-----------------------------------------------------------------------------
(***************************************************************************)
(* Arithmetic of frames and samples.                                        *)
(***************************************************************************)
LEMMA Quotients ==
  ASSUME NEW c \in {1, 2}, NEW n \in Nat
  PROVE  n \div c \in Nat /\ n \div c <= n /\ (n \div c) * c <= n
<1>1. CASE c = 1
  BY <1>1
<1>2. CASE c = 2
  BY <1>2
<1> QED
  BY <1>1, <1>2

LEMMA BlocksTimesCapacity ==
  ASSUME TypeOK
  PROVE  /\ blocks * Capacity \in Int /\ MaxFrames \in Int /\ blocks * Capacity <= MaxFrames
         /\ (blocks + 1) * Capacity = blocks * Capacity + Capacity
<1>1. blocks \in Nat /\ MaxBlocks \in Nat /\ Capacity \in Nat /\ blocks <= MaxBlocks
  BY Types, Bounds
<1> QED
  BY <1>1 DEF MaxFrames

LEMMA PendingFits ==
  ASSUME TypeOK, SinkInv
  PROVE  /\ Pending \in Nat /\ Len(home) + Pending <= MaxFrames
         /\ Len(home) + Pending <= blocks * Capacity
<1>1. Len(home) + Pending <= blocks * Capacity
  BY Zenon DEF SinkInv, SinkRuns
<1>2. Pending \in Nat
  <2>1. sink.pc \in {"write", "rest"} => sink.channels \in {1, 2}
    BY Zenon DEF SinkInv, SinkRuns
  <2>2. sink.block \in Nat /\ sink.room \in Nat
    BY Types, Bounds
  <2>3. sink.pc \in {"write", "rest"} => Frames(sink.block) \in Nat
    BY <2>1, <2>2, Quotients DEF Frames
  <2> QED
    BY <2>2, <2>3 DEF Pending, FramesAfter
<1> QED
  BY <1>1, <1>2, Types, BlocksTimesCapacity

-----------------------------------------------------------------------------
(***************************************************************************)
(* The steps of the worker preserve what is said of it, and are steps of    *)
(* the files.                                                               *)
(***************************************************************************)
SinkRecords ==
  [pc : {"new", "top", "write", "rest", "ended"}, file : Names \cup {NoName},
   size : 0 .. Capacity, second : 0 .. MaxSeconds, seq : 0 .. MaxBlocks,
   since : 0 .. MaxSeconds, channels : 0 .. 2, block : 0 .. Capacity, room : 0 .. Capacity]

SinkTypeOK ==
  /\ control \in {"idle", "recording", "joining", "ended"}
  /\ sink \in SinkRecords
  /\ stopping \in BOOLEAN
  /\ now \in 0 .. MaxSeconds
  /\ blocks \in 0 .. MaxBlocks

WorkerStep == RecordingTypeOK' /\ SinkInv' /\ DiskStep /\ Len(home) <= Len(home')

LEMMA WorkerStepOf ==
  ASSUME TypeOK, SinkInv, server' = server, NEW opens \in Int, FilesFit(opens), opens <= Opens',
         DiskStep, SinkTypeOK', SinkRuns'
  PROVE  WorkerStep
<1>1. RecordingTypeOK'
  BY Zenon DEF RecordingTypeOK, SinkTypeOK, SinkRecords, FilesFit
<1>2. ASSUME NEW n \in DOMAIN disk' PROVE n.idx < Opens'
  <2>1. n.idx \in Int
    BY <1>2, Bounds DEF FilesFit, Names
  <2>2. n.idx < opens /\ Opens' \in Int
    BY <1>2, Bounds DEF FilesFit, SinkTypeOK, Opens
  <2> QED
    BY <2>1, <2>2
<1>3. ASSUME NEW n \in DOMAIN server PROVE Len(server[n].data) <= Len(home')
  <2>1. Len(server[n].data) <= Len(home) /\ server[n] \in Files
    BY Types, Zenon DEF SinkInv
  <2>2. Len(server[n].data) \in Int
    BY <2>1 DEF Files
  <2>3. Len(home) \in Int /\ Len(home) <= Len(home') /\ Len(home') \in Int
    BY Types DEF FilesFit
  <2> QED
    BY <2>1, <2>2, <2>3
<1>4. SinkInv'
  BY <1>2, <1>3, Zenon DEF SinkInv, FilesFit
<1> QED
  BY <1>1, <1>4, Zenon DEF WorkerStep, FilesFit

LEMMA SinkTypes ==
  ASSUME TypeOK
  PROVE  SinkTypeOK
BY Zenon DEF TypeOK, RecordingTypeOK, SinkTypeOK, SinkRecords

LEMMA NoSinkTypeOK ==
  NoSink \in SinkRecords
BY Bounds DEF NoSink, SinkRecords

LEMMA TickStep ==
  ASSUME TypeOK, SinkInv, FilesInv, SpoiltStays, server' = server, Tick
  PROVE  WorkerStep
<1>1. DiskStep /\ FilesFit(Opens)
  BY FilesAreLeft, Zenon DEF Tick
<1>2. SinkTypeOK'
  BY SinkTypes, Bounds DEF Tick, SinkTypeOK
<1>3. SinkRuns' /\ Opens' = Opens
  <2>1. SinkRuns
    BY Zenon DEF SinkInv
  <2> QED
    BY <2>1, Zenon DEF Tick, SinkRuns, Opens, Pending, Frames, FramesAfter
<1>4. Opens \in Int
  BY Types, Bounds DEF Opens
<1> QED
  BY <1>1, <1>2, <1>3, <1>4, WorkerStepOf

LEMMA StartRecordingStep ==
  ASSUME TypeOK, SinkInv, FilesInv, SpoiltStays, server' = server, StartRecording
  PROVE  WorkerStep
<1>1. sink = NoSink
  BY Zenon DEF SinkInv, SinkRuns, StartRecording
<1>2. /\ sink'.pc = "new" /\ sink'.file = NoName /\ sink'.seq = 0
      /\ sink.pc = "ended" /\ sink.file = NoName
  BY <1>1 DEF StartRecording, NoSink
<1>3. DiskStep /\ FilesFit(Opens)
  BY <1>2, FilesAreLeft, Zenon DEF StartRecording
<1>4. SinkTypeOK'
  <2>1. sink' \in SinkRecords
    BY NoSinkTypeOK, Types DEF StartRecording, SinkRecords
  <2> QED
    BY <2>1, SinkTypes, Zenon DEF StartRecording, SinkTypeOK
<1>5. SinkRuns' /\ Opens' = Opens
  <2>1. Len(home) + 0 <= blocks * Capacity
    BY <1>2, PendingFits DEF Pending
  <2>2. Pending' = 0 /\ Opens = 2 * blocks - 0 /\ Opens' = 2 * blocks - 0
    BY <1>2, Zenon DEF Pending, Opens, StartRecording
  <2>3. 0 <= blocks
    BY Types, Bounds
  <2> QED
    BY <1>2, <2>1, <2>2, <2>3 DEF StartRecording, SinkRuns
<1>6. Opens \in Int
  BY Types, Bounds DEF Opens
<1> QED
  BY <1>3, <1>4, <1>5, <1>6, WorkerStepOf

LEMMA StopRecordingStep ==
  ASSUME TypeOK, SinkInv, FilesInv, SpoiltStays, server' = server, StopRecording
  PROVE  WorkerStep
<1>1. DiskStep /\ FilesFit(Opens)
  BY FilesAreLeft, Zenon DEF StopRecording
<1>2. SinkTypeOK'
  BY SinkTypes, Zenon DEF StopRecording, SinkTypeOK
<1>3. SinkRuns' /\ Opens' = Opens
  <2>1. SinkRuns
    BY Zenon DEF SinkInv
  <2> QED
    BY <2>1, Zenon DEF StopRecording, SinkRuns, Opens, Pending, Frames, FramesAfter
<1>4. Opens \in Int
  BY Types, Bounds DEF Opens
<1> QED
  BY <1>1, <1>2, <1>3, <1>4, WorkerStepOf

\* A step after which the sink thread has neither a block nor a file.
LEMMA SinkIsEmptied ==
  ASSUME TypeOK, SinkInv, home' = home, blocks' = blocks, sink' = NoSink
  PROVE  SinkRuns' /\ Opens' = 2 * blocks /\ Opens <= Opens' /\ Opens \in Int
<1>1. sink'.pc = "ended" /\ sink'.seq = 0
  BY DEF NoSink
<1>2. Pending' = 0 /\ Opens' = 2 * blocks - 0
  BY <1>1, Zenon DEF Pending, Opens
<1>3. Len(home) <= blocks * Capacity /\ blocks \in Nat
  BY PendingFits, Types, Bounds, BlocksTimesCapacity
<1>4. Opens <= 2 * blocks /\ Opens \in Int
  BY <1>3 DEF Opens
<1> QED
  BY <1>1, <1>2, <1>3, <1>4, Types DEF SinkRuns

LEMMA JoinRecordingStep ==
  ASSUME TypeOK, SinkInv, FilesInv, SpoiltStays, server' = server, JoinRecording
  PROVE  WorkerStep
<1>1. sink'.file = NoName
  BY DEF JoinRecording, NoSink
<1>2. DiskStep /\ FilesFit(Opens)
  BY <1>1, FileIsClosed, Zenon DEF JoinRecording
<1>3. SinkTypeOK'
  BY NoSinkTypeOK, SinkTypes, Zenon DEF JoinRecording, SinkTypeOK
<1>4. SinkRuns' /\ Opens <= Opens' /\ Opens \in Int
  BY SinkIsEmptied, Zenon DEF JoinRecording
<1> QED
  BY <1>2, <1>3, <1>4, WorkerStepOf

LEMMA WorkerEndsStep ==
  ASSUME TypeOK, SinkInv, FilesInv, SpoiltStays, server' = server, WorkerEnds,
         sink.file \in DOMAIN disk => SpoiltNow(sink.file)
  PROVE  WorkerStep
<1>1. PICK lost \in {0, 1} :
        disk' = [n \in DOMAIN disk |->
                  IF IsOpen(n) THEN [disk[n] EXCEPT !.data = SubSeq(@, 1, Len(@) - lost)]
                  ELSE disk[n]]
  BY Zenon DEF WorkerEnds
<1>2. /\ DOMAIN disk' = DOMAIN disk
      /\ \A n \in DOMAIN disk : n # sink.file => disk'[n] = disk[n]
      /\ \A n \in DOMAIN disk : n = sink.file =>
           disk'[n] = [disk[n] EXCEPT !.data = SubSeq(@, 1, Len(@) - lost)]
  BY <1>1, Zenon DEF IsOpen
<1>3. sink'.file = NoName /\ home' = home
  BY DEF WorkerEnds, NoSink
<1>4. /\ DOMAIN disk \subseteq Names /\ \A n \in DOMAIN disk : disk[n] \in Files
      /\ NoName \notin Names
  BY Types, Bounds DEF NoName, Names
<1>5. ASSUME NEW n \in DOMAIN disk
      PROVE  disk'[n] \in Files /\ Len(disk'[n].data) <= Len(home)
  <2>1. disk[n] \in Files /\ Len(disk[n].data) <= Len(home)
    BY <1>4, Zenon DEF SinkInv
  <2>2. CASE n # sink.file
    BY <1>2, <2>1, <2>2, Zenon
  <2>3. CASE n = sink.file
    <3> DEFINE data == disk[n].data
               less == SubSeq(data, 1, Len(data) - lost)
    <3>1. data \in Seq(1 .. MaxFrames) /\ disk[n].closed \in BOOLEAN
      BY <2>1 DEF Files
    <3>2. disk'[n] = [disk[n] EXCEPT !.data = less]
      BY <1>2, <2>3
    <3>3. less \in Seq(1 .. MaxFrames) /\ Len(less) <= Len(data)
      <4> DEFINE end == Len(data) - lost
      <4>1. Len(data) \in Nat /\ end \in Int /\ end <= Len(data)
        BY <3>1
      <4> HIDE DEF data, end
      <4>2. \A i \in 1 .. end : data[i] \in 1 .. MaxFrames
        <5> DEFINE Ranks == 1 .. MaxFrames
        <5> HIDE DEF Ranks
        <5>1. \A i \in 1 .. Len(data) : data[i] \in Ranks
          <6>1. data \in Seq(Ranks)
            BY <3>1 DEF Ranks
          <6> QED
            BY <6>1
        <5>2. \A i \in 1 .. end : i \in 1 .. Len(data)
          BY <4>1
        <5> QED
          BY <5>1, <5>2, Zenon DEF Ranks
      <4>3. less \in Seq(1 .. MaxFrames) /\ Len(less) = IF 1 <= end THEN end - 1 + 1 ELSE 0
        <5>1. less = SubSeq(data, 1, end)
          BY Zenon DEF end
        <5> QED
          BY <4>1, <4>2, <5>1, SubSeqProperties
      <4> QED
        BY <4>1, <4>3
    <3> HIDE DEF less
    <3>4. disk'[n] \in Files /\ disk'[n].data = less
      BY <2>1, <3>2, <3>3 DEF Files
    <3>5. Len(less) \in Int /\ Len(data) \in Int
      BY <3>1, <3>3
    <3>6. Len(less) <= Len(home)
      BY <2>1, <3>3, <3>5, Types
    <3> QED
      BY <3>4, <3>6
  <2> QED
    BY <2>2, <2>3
<1>6. FilesFit(Opens)
  <2>1. Len(home) <= Len(home) /\ home \in Seq([file : Names, cut : BOOLEAN])
    BY Types
  <2> QED
    BY <1>2, <1>3, <1>4, <1>5, <2>1, Zenon DEF FilesFit, SinkInv
<1>7. DiskStep
  <2>1. sink'.file \notin DOMAIN disk'
    BY <1>2, <1>3, <1>4, Zenon
  <2> QED
    BY <1>2, <1>3, <2>1, Zenon DEF DiskStep
<1>8. SinkTypeOK'
  <2>1. TRUE \in BOOLEAN
    OBVIOUS
  <2> QED
    BY <2>1, NoSinkTypeOK, SinkTypes, Zenon DEF WorkerEnds, SinkTypeOK
<1>9. SinkRuns' /\ Opens <= Opens' /\ Opens \in Int
  BY SinkIsEmptied, Zenon DEF WorkerEnds
<1> QED
  BY <1>6, <1>7, <1>8, <1>9, WorkerStepOf

LEMMA SinkStartStep ==
  ASSUME TypeOK, SinkInv, FilesInv, SpoiltStays, server' = server, SinkStart
  PROVE  WorkerStep
<1>1. sink \in SinkRecords
  BY SinkTypes, Zenon DEF SinkTypeOK
<1>2. /\ sink' \in SinkRecords /\ sink'.pc = "top" /\ sink.pc = "new"
      /\ sink'.file = sink.file /\ sink'.seq = sink.seq
  BY <1>1 DEF SinkStart, SinkRecords
<1>3. DiskStep /\ FilesFit(Opens)
  BY <1>2, FilesAreLeft, Zenon DEF SinkStart
<1>4. SinkTypeOK'
  BY <1>2, SinkTypes DEF SinkStart, SinkTypeOK
<1>5. SinkRuns' /\ Opens' = Opens
  <2>1. Pending' = 0 /\ Pending = 0 /\ Opens' = 2 * blocks - 0 /\ Opens = 2 * blocks - 0
    BY <1>2, Zenon DEF Pending, Opens, SinkStart
  <2>2. NoSink.pc = "ended"
    BY DEF NoSink
  <2>3. SinkRuns
    BY Zenon DEF SinkInv
  <2> QED
    BY <1>2, <2>1, <2>2, <2>3 DEF SinkStart, SinkRuns
<1>6. Opens \in Int
  BY Types, Bounds DEF Opens
<1> QED
  BY <1>3, <1>4, <1>5, <1>6, WorkerStepOf

LEMMA SinkEndStep ==
  ASSUME TypeOK, SinkInv, FilesInv, SpoiltStays, server' = server, SinkEnd
  PROVE  WorkerStep
<1>1. sink \in SinkRecords
  BY SinkTypes, Zenon DEF SinkTypeOK
<1>2. /\ sink' \in SinkRecords /\ sink'.pc = "ended" /\ sink.pc = "top"
      /\ sink'.file = sink.file /\ sink'.seq = sink.seq
  BY <1>1 DEF SinkEnd, SinkRecords
<1>3. DiskStep /\ FilesFit(Opens)
  BY <1>2, FilesAreLeft, Zenon DEF SinkEnd
<1>4. SinkTypeOK'
  BY <1>2, SinkTypes DEF SinkEnd, SinkTypeOK
<1>5. SinkRuns' /\ Opens' = Opens
  <2>1. Pending' = 0 /\ Pending = 0 /\ Opens' = 2 * blocks - 0 /\ Opens = 2 * blocks - 0
    BY <1>2, Zenon DEF Pending, Opens, SinkEnd
  <2>2. NoSink.pc = "ended"
    BY DEF NoSink
  <2>3. SinkRuns
    BY Zenon DEF SinkInv
  <2> QED
    BY <1>2, <2>1, <2>2, <2>3 DEF SinkEnd, SinkRuns
<1>6. Opens \in Int
  BY Types, Bounds DEF Opens
<1> QED
  BY <1>3, <1>4, <1>5, <1>6, WorkerStepOf

LEMMA SinkTakeStep ==
  ASSUME TypeOK, SinkInv, FilesInv, SpoiltStays, server' = server, SinkTake
  PROVE  WorkerStep
<1>1. sink \in SinkRecords /\ now \in 0 .. MaxSeconds /\ NoName \in Names \cup {NoName}
  BY SinkTypes, Zenon DEF SinkTypeOK
<1>2. PICK b \in Blocks :
       \/ /\ b.channels = sink.channels
          /\ sink' = [sink EXCEPT !.pc = "write", !.block = b.samples]
          /\ UNCHANGED disk
       \/ /\ sink' = [sink EXCEPT !.pc = "write", !.block = b.samples,
                                  !.channels = b.channels, !.since = now,
                                  !.file = NoName, !.size = 0]
          /\ disk' = Closed(disk)
       \/ /\ b.channels = sink.channels /\ now > sink.since
          /\ sink' = [sink EXCEPT !.pc = "write", !.block = b.samples,
                                  !.second = now, !.seq = 0, !.since = now,
                                  !.file = NoName, !.size = 0]
          /\ disk' = Closed(disk)
  BY Zenon DEF SinkTake
<1>3. /\ b.channels \in {1, 2} /\ b.samples \in 1 .. Capacity /\ b.samples % b.channels = 0
      /\ Capacity \in Nat /\ MaxBlocks \in Nat
  BY Bounds
<1>4. /\ sink' \in SinkRecords /\ sink'.pc = "write" /\ sink.pc = "top"
      /\ sink'.block = b.samples /\ sink'.channels = b.channels
      /\ sink'.seq = sink.seq \/ sink'.seq = 0
      /\ \/ disk' = disk /\ sink'.file = sink.file
         \/ disk' = Closed(disk) /\ sink'.file = NoName
  <2>1. sink.pc = "top"
    BY Zenon DEF SinkTake
  <2>2. b.samples \in 0 .. Capacity /\ b.channels \in 0 .. 2 /\ 0 \in 0 .. MaxBlocks
        /\ 0 \in 0 .. Capacity
    BY <1>3
  <2>3. CASE b.channels = sink.channels
             /\ sink' = [sink EXCEPT !.pc = "write", !.block = b.samples] /\ UNCHANGED disk
    BY <1>1, <2>1, <2>2, <2>3 DEF SinkRecords
  <2>4. CASE /\ sink' = [sink EXCEPT !.pc = "write", !.block = b.samples,
                                     !.channels = b.channels, !.since = now,
                                     !.file = NoName, !.size = 0]
             /\ disk' = Closed(disk)
    BY <1>1, <2>1, <2>2, <2>4 DEF SinkRecords
  <2>5. CASE /\ b.channels = sink.channels /\ now > sink.since
             /\ sink' = [sink EXCEPT !.pc = "write", !.block = b.samples,
                                     !.second = now, !.seq = 0, !.since = now,
                                     !.file = NoName, !.size = 0]
             /\ disk' = Closed(disk)
    BY <1>1, <2>1, <2>2, <2>5 DEF SinkRecords
  <2> QED
    BY <1>2, <2>3, <2>4, <2>5, Zenon
<1>5. DiskStep /\ FilesFit(Opens)
  BY <1>4, FilesAreLeft, FileIsClosed, Zenon DEF SinkTake
<1>6. SinkTypeOK'
  <2>1. blocks' \in 0 .. MaxBlocks
    BY <1>3, Types DEF SinkTake
  <2> QED
    BY <1>4, <2>1, SinkTypes, Zenon DEF SinkTake, SinkTypeOK
<1>7. blocks \in Nat /\ blocks' = blocks + 1 /\ control' = "recording" /\ home' = home
  BY <1>3, Types DEF SinkTake
<1>8. Opens' = Opens /\ Opens \in Int
  BY <1>4, <1>7 DEF Opens
<1>9. SinkRuns'
  <2>1. Len(home) <= blocks * Capacity /\ Len(home) \in Nat
    BY <1>4, PendingFits, Types DEF Pending
  <2>2. Pending' = b.samples \div b.channels
    BY <1>4, Zenon DEF Pending, Frames
  <2>3. b.samples \div b.channels \in Nat /\ b.samples \div b.channels <= Capacity
    BY <1>3, Quotients
  <2>4. Len(home') + Pending' <= blocks' * Capacity
    <3>1. blocks' * Capacity = blocks * Capacity + Capacity /\ blocks * Capacity \in Int
      BY <1>7, BlocksTimesCapacity, Zenon
    <3> DEFINE frames == b.samples \div b.channels
               most == blocks * Capacity
    <3>2. /\ frames \in Nat /\ frames <= Capacity /\ Pending' = frames
          /\ most \in Int /\ Len(home) <= most /\ blocks' * Capacity = most + Capacity
      BY <2>1, <2>2, <2>3, <3>1, Zenon
    <3> HIDE DEF frames, most
    <3>3. Len(home) + frames <= most + Capacity
      BY <1>3, <2>1, <3>2
    <3> QED
      BY <1>7, <3>2, <3>3
  <2>5. sink'.seq < blocks' /\ sink'.seq <= blocks' /\ blocks' > 0
    <3>1. sink.seq <= blocks /\ sink.seq \in Nat
      BY Types, Bounds DEF SinkInv, SinkRuns
    <3> QED
      BY <1>4, <1>7, <3>1
  <2>6. sink'.channels \in {1, 2} /\ sink'.block % sink'.channels = 0
    BY <1>3, <1>4, Zenon
  <2>7. control' \notin {"idle", "ended"}
    BY <1>7
  <2> QED
    BY <2>4, <2>5, <2>6, <2>7, Zenon DEF SinkRuns
<1> QED
  BY <1>5, <1>6, <1>8, <1>9, WorkerStepOf

\* What holds while a block is written: its frames, and the place in the file.
LEMMA SinkWrites ==
  ASSUME TypeOK, SinkInv, sink.pc \in {"write", "rest"}
  PROVE  /\ sink.channels \in {1, 2} /\ sink.size \in Nat /\ sink.size <= Capacity
         /\ sink.block \in Nat /\ sink.block <= Capacity /\ Capacity \in Nat
         /\ sink.room \in Nat /\ sink.room <= Capacity
         /\ Frames(sink.block) \in Nat /\ Frames(sink.block) * sink.channels <= sink.block
         /\ Frames(sink.block) <= sink.block
         /\ Room \in Nat /\ Room <= Capacity - sink.size
         /\ blocks \in Nat /\ blocks > 0 /\ sink.seq \in Nat
<1>1. sink.channels \in {1, 2} /\ blocks > 0
  BY Zenon DEF SinkInv, SinkRuns
<1>2. /\ sink.size \in Nat /\ sink.size <= Capacity /\ sink.block \in Nat /\ sink.block <= Capacity
      /\ sink.room \in Nat /\ sink.room <= Capacity
      /\ Capacity \in Nat /\ blocks \in Nat /\ sink.seq \in Nat
  BY Types, Bounds
<1>3. /\ Frames(sink.block) \in Nat /\ Frames(sink.block) * sink.channels <= sink.block
      /\ Frames(sink.block) <= sink.block
  BY <1>1, <1>2, Quotients DEF Frames
<1>4. Room \in Nat /\ Room <= Capacity - sink.size
  <2>1. Capacity - sink.size \in Nat
    BY <1>2
  <2> QED
    BY <1>1, <2>1, Quotients, Zenon DEF Room
<1> QED
  BY <1>1, <1>2, <1>3, <1>4

LEMMA SinkWriteStep ==
  ASSUME TypeOK, SinkInv, FilesInv, SpoiltStays, server' = server, SinkWrite
  PROVE  WorkerStep
<1> DEFINE k == Frames(sink.block)
<1>1. sink \in SinkRecords /\ sink.pc = "write" /\ Output \in Names
  BY SinkTypes, TheOutput, Zenon DEF SinkTypeOK, SinkWrite
<1>2. /\ k \in Nat /\ sink.size \in Nat /\ sink.block \in Nat /\ Capacity \in Nat
      /\ Room \in Nat /\ Room <= Capacity - sink.size /\ sink.block <= Room
  BY <1>1, SinkWrites DEF SinkWrite
<1>3. /\ disk' = Written(k) /\ home' = home \o Whole(k)
      /\ sink' = [sink EXCEPT !.pc = "top", !.file = Output, !.block = 0,
                              !.size = @ + sink.block]
  BY Zenon DEF SinkWrite, Whole
<1>4. /\ sink' \in SinkRecords /\ sink'.pc = "top" /\ sink'.file = Output
      /\ sink'.seq = sink.seq
  <2>1. sink.size + sink.block \in 0 .. Capacity /\ 0 \in 0 .. Capacity
    BY <1>2
  <2> HIDE DEF k
  <2> QED
    BY <1>1, <1>3, <2>1 DEF SinkRecords
<1>5. Pending = k /\ Pending' = 0
  BY <1>1, <1>4, Zenon DEF Pending
<1> HIDE DEF k
<1>6. Len(home) + k <= MaxFrames /\ Len(home) + k <= blocks * Capacity
  BY <1>5, PendingFits
<1>7. DiskStep /\ FilesFit(Opens + 1) /\ Len(home') = Len(home) + k
  BY <1>2, <1>3, <1>4, <1>6, FramesAreWritten, Zenon
<1>8. SinkTypeOK'
  BY <1>4, SinkTypes, Zenon DEF SinkWrite, SinkTypeOK
<1>9. Opens \in Int /\ Opens + 1 <= Opens'
  <2>1. Opens = 2 * blocks - 2 /\ Opens' = 2 * blocks - 0
    BY <1>1, <1>4, Zenon DEF Opens, SinkWrite
  <2> QED
    BY <2>1, Types, Bounds
<1>10. SinkRuns'
  <2>1. control \notin {"idle", "ended"}
    <3>1. NoSink.pc = "ended"
      BY DEF NoSink
    <3> QED
      BY <1>1, <3>1 DEF SinkInv, SinkRuns
  <2>2. sink.seq <= blocks
    BY Zenon DEF SinkInv, SinkRuns
  <2>3. Len(home') + Pending' <= blocks * Capacity
    BY <1>2, <1>5, <1>6, <1>7, Types
  <2> QED
    BY <1>4, <2>1, <2>2, <2>3 DEF SinkWrite, SinkRuns
<1>11. Opens + 1 \in Int
  BY <1>9
<1> QED
  BY <1>7, <1>8, <1>9, <1>10, <1>11, WorkerStepOf

LEMMA SinkRestStep ==
  ASSUME TypeOK, SinkInv, FilesInv, SpoiltStays, server' = server, SinkRest
  PROVE  WorkerStep
<1> DEFINE k == FramesAfter(sink.room)
           size == k * sink.channels
<1>1. sink \in SinkRecords /\ sink.pc = "rest" /\ Output \in Names
  BY SinkTypes, TheOutput, Zenon DEF SinkTypeOK, SinkRest
<1>2. /\ disk' = Written(k) /\ home' = home \o Whole(k)
      /\ sink' = [sink EXCEPT !.pc = "top", !.file = Output, !.block = 0,
                              !.size = size, !.room = 0]
  BY Zenon DEF SinkRest, Whole
<1>3. Pending = k
  BY <1>1, Zenon DEF Pending
<1>4. k \in Nat /\ size \in 0 .. Capacity
  <2> DEFINE n == Frames(sink.block)
             c == sink.channels
  <2>1. /\ c \in {1, 2} /\ n \in Nat /\ n * c <= sink.block
        /\ sink.block \in Nat /\ sink.block <= Capacity /\ sink.room \in Nat /\ Capacity \in Nat
    BY <1>1, SinkWrites
  <2>2. k = IF sink.room < n THEN n - sink.room ELSE 0
    BY Zenon DEF FramesAfter
  <2>3. size = k * c
    OBVIOUS
  <2> HIDE DEF n, c, k, size
  <2>4. k \in Nat /\ k <= n
    BY <2>1, <2>2
  <2>5. CASE c = 1
    BY <2>1, <2>3, <2>4, <2>5
  <2>6. CASE c = 2
    BY <2>1, <2>3, <2>4, <2>6
  <2> QED
    BY <2>1, <2>4, <2>5, <2>6
<1> HIDE DEF k, size
<1>5. /\ sink' \in SinkRecords /\ sink'.pc = "top" /\ sink'.file = Output
      /\ sink'.seq = sink.seq
  <2>1. 0 \in 0 .. Capacity
    BY Bounds
  <2> QED
    BY <1>1, <1>2, <1>4, <2>1 DEF SinkRecords
<1>6. Pending' = 0
  BY <1>5, Zenon DEF Pending
<1>7. Len(home) + k <= MaxFrames /\ Len(home) + k <= blocks * Capacity
  BY <1>3, PendingFits
<1>8. DiskStep /\ FilesFit(Opens + 1) /\ Len(home') = Len(home) + k
  BY <1>2, <1>4, <1>5, <1>7, FramesAreWritten, Zenon
<1>9. SinkTypeOK'
  BY <1>5, SinkTypes, Zenon DEF SinkRest, SinkTypeOK
<1>10. Opens \in Int /\ Opens + 1 <= Opens'
  <2>1. Opens = 2 * blocks - 1 /\ Opens' = 2 * blocks - 0
    BY <1>1, <1>5, Zenon DEF Opens, SinkRest
  <2> QED
    BY <2>1, Types, Bounds
<1>11. SinkRuns'
  <2>1. control \notin {"idle", "ended"}
    <3>1. NoSink.pc = "ended"
      BY DEF NoSink
    <3> QED
      BY <1>1, <3>1 DEF SinkInv, SinkRuns
  <2>2. sink.seq <= blocks
    BY Zenon DEF SinkInv, SinkRuns
  <2>3. Len(home') + Pending' <= blocks * Capacity
    BY <1>4, <1>6, <1>7, <1>8, Types
  <2> QED
    BY <1>5, <2>1, <2>2, <2>3 DEF SinkRest, SinkRuns
<1>12. Opens + 1 \in Int
  BY <1>10
<1> QED
  BY <1>8, <1>9, <1>10, <1>11, <1>12, WorkerStepOf

LEMMA SinkCutStep ==
  ASSUME TypeOK, SinkInv, FilesInv, SpoiltStays, server' = server, SinkCut
  PROVE  WorkerStep
<1> DEFINE n == Frames(sink.block)
           before == FramesBefore(Room)
           after == FramesAfter(Room)
           lost == n - before - after
<1>1. sink \in SinkRecords /\ sink.pc = "write"
  BY SinkTypes, Zenon DEF SinkTypeOK, SinkCut
<1>2. /\ disk' = Closed(Written(before))
      /\ home' = home \o Whole(before) \o Cut(lost)
      /\ sink' = [sink EXCEPT !.pc = "rest", !.room = Room, !.file = NoName, !.size = 0,
                              !.seq = @ + 1]
  BY Zenon DEF SinkCut, Whole, Cut
<1>3. Pending = n
  BY <1>1, Zenon DEF Pending
<1>4. /\ before \in Nat /\ after \in Nat /\ lost \in Nat /\ before + lost + after = n
      /\ Room \in 0 .. Capacity /\ blocks \in Nat /\ sink.seq \in Nat /\ Capacity \in Nat
  <2> DEFINE c == sink.channels
             room == Room
  <2>1. /\ c \in {1, 2} /\ n \in Nat /\ sink.block \in Nat /\ room \in Nat
        /\ room <= Capacity - sink.size /\ sink.size \in Nat
        /\ blocks \in Nat /\ sink.seq \in Nat /\ Capacity \in Nat
    BY <1>1, SinkWrites
  <2>2. /\ after = (IF room < n THEN n - room ELSE 0) /\ before = room \div c
        /\ n = sink.block \div c /\ room < sink.block
    BY Zenon DEF SinkCut, FramesAfter, FramesBefore, Frames
  <2> HIDE DEF c, room, n, before, after
  <2>3. before \in Nat /\ before <= room /\ before <= n
    <3>1. CASE c = 1
      BY <2>1, <2>2, <3>1
    <3>2. CASE c = 2
      BY <2>1, <2>2, <3>2
    <3> QED
      BY <2>1, <3>1, <3>2
  <2>4. after \in Nat /\ n - before - after \in Nat
    BY <2>1, <2>2, <2>3
  <2>5. room \in 0 .. Capacity
    BY <2>1
  <2> QED
    BY <2>1, <2>3, <2>4, <2>5 DEF room
<1>5. FramesAfter(Room) = after
  OBVIOUS
<1> HIDE DEF n, before, after, lost
<1>6. /\ sink' \in SinkRecords /\ sink'.pc = "rest" /\ sink'.file = NoName
      /\ sink'.seq = sink.seq + 1 /\ sink'.room = Room
      /\ sink'.block = sink.block /\ sink'.channels = sink.channels
  <2>1. sink.seq < blocks /\ blocks <= MaxBlocks /\ MaxBlocks \in Nat
    BY <1>1, Types, Bounds DEF SinkInv, SinkRuns
  <2>2. sink.seq + 1 \in 0 .. MaxBlocks /\ 0 \in 0 .. Capacity
    BY <1>4, <2>1
  <2> QED
    BY <1>1, <1>2, <1>4, <2>2 DEF SinkRecords
<1>7. Pending' = after
  <2>1. Pending' = FramesAfter(sink.room)'
    BY <1>6, Zenon DEF Pending
  <2>2. FramesAfter(sink.room)' = FramesAfter(Room)
    BY <1>6, Zenon DEF FramesAfter, Frames
  <2> QED
    BY <1>5, <2>1, <2>2, Zenon
<1>8. Len(home) + n <= MaxFrames /\ Len(home) + n <= blocks * Capacity
  BY <1>3, PendingFits
<1>9. Len(home) + before + lost <= MaxFrames /\ Len(home) + before + lost + after = Len(home) + n
  BY <1>4, <1>8, Types, BlocksTimesCapacity
<1>10. DiskStep /\ FilesFit(Opens + 1) /\ Len(home') = Len(home) + before + lost
  BY <1>2, <1>4, <1>6, <1>9, FileIsCompleted, Zenon
<1>11. SinkTypeOK'
  BY <1>6, SinkTypes, Zenon DEF SinkCut, SinkTypeOK
<1>12. Opens \in Int /\ Opens + 1 <= Opens' /\ Opens + 1 \in Int
  <2>1. Opens = 2 * blocks - 2 /\ Opens' = 2 * blocks - 1
    BY <1>1, <1>6, Zenon DEF Opens, SinkCut
  <2> QED
    BY <1>4, <2>1
<1>13. SinkRuns'
  <2>1. control \notin {"idle", "ended"}
    <3>1. NoSink.pc = "ended"
      BY DEF NoSink
    <3> QED
      BY <1>1, <3>1 DEF SinkInv, SinkRuns
  <2>2. sink.seq + 1 <= blocks /\ blocks > 0
    <3>1. sink.seq < blocks
      BY <1>1 DEF SinkInv, SinkRuns
    <3> QED
      BY <1>4, <3>1
  <2>3. Len(home') + Pending' <= blocks * Capacity
    BY <1>7, <1>8, <1>9, <1>10
  <2>4. sink.channels \in {1, 2} /\ sink.block % sink.channels = 0
    BY <1>1 DEF SinkInv, SinkRuns
  <2> QED
    BY <1>6, <2>1, <2>2, <2>3, <2>4 DEF SinkCut, SinkRuns
<1> QED
  BY <1>10, <1>11, <1>12, <1>13, WorkerStepOf

LEMMA WorkerSpoils ==
  ASSUME TypeOK, Worker
  PROVE  /\ SpoiltStays
         /\ \A n \in DOMAIN disk' \ DOMAIN disk : n \in DOMAIN server => SpoiltNow(n)
         /\ control' = "ended" /\ sink.file \in DOMAIN disk => SpoiltNow(sink.file)
         /\ DOMAIN disk' \subseteq Names =>
              spoilt' \subseteq {"reused", "unseen", "unclosed"} \X Names
         /\ faults' \in 0 .. MaxFaults
         /\ upload' = upload /\ server' = server
<1>1. spoilt' = spoilt
       \cup {<<"reused", n>> : n \in (DOMAIN disk' \ DOMAIN disk) \cap DOMAIN server}
       \cup {<<"unclosed", n>> : n \in {m \in {sink.file} :
                                        control' = "ended" /\ m \in DOMAIN disk}}
  BY Zenon DEF Worker
<1>2. SpoiltStays
  BY <1>1 DEF SpoiltStays, Spoilt, SpoiltNow
<1>3. ASSUME NEW n \in DOMAIN disk' \ DOMAIN disk, n \in DOMAIN server PROVE SpoiltNow(n)
  <2>1. <<"reused", n>> \in spoilt'
    BY <1>1, <1>3
  <2> QED
    BY <2>1, Zenon DEF SpoiltNow
<1>4. ASSUME control' = "ended", sink.file \in DOMAIN disk PROVE SpoiltNow(sink.file)
  <2>1. <<"unclosed", sink.file>> \in spoilt'
    BY <1>1, <1>4
  <2> QED
    BY <2>1, Zenon DEF SpoiltNow
<1>5. DOMAIN disk' \subseteq Names => spoilt' \subseteq {"reused", "unseen", "unclosed"} \X Names
  <2>1. spoilt \subseteq {"reused", "unseen", "unclosed"} \X Names /\ DOMAIN disk \subseteq Names
    BY Zenon DEF TypeOK, RecordingTypeOK
  <2> QED
    BY <1>1, <2>1
<1>6. faults' \in 0 .. MaxFaults
  BY Bounds DEF Worker, TypeOK
<1> QED
  BY <1>2, <1>3, <1>4, <1>5, <1>6, Zenon DEF Worker

LEMMA WorkerMoves ==
  ASSUME UploadInv, Worker
  PROVE  WorkerStep
<1> USE DEF UploadInv
<1>1. /\ SpoiltStays
      /\ \A n \in DOMAIN disk' \ DOMAIN disk : n \in DOMAIN server => SpoiltNow(n)
      /\ control' = "ended" /\ sink.file \in DOMAIN disk => SpoiltNow(sink.file)
      /\ DOMAIN disk' \subseteq Names =>
           spoilt' \subseteq {"reused", "unseen", "unclosed"} \X Names
      /\ faults' \in 0 .. MaxFaults
      /\ upload' = upload /\ server' = server
  BY WorkerSpoils
<1>2. CASE Tick
  BY <1>1, <1>2, TickStep
<1>3. CASE StartRecording
  BY <1>1, <1>3, StartRecordingStep
<1>4. CASE StopRecording
  BY <1>1, <1>4, StopRecordingStep
<1>5. CASE JoinRecording
  BY <1>1, <1>5, JoinRecordingStep
<1>6. CASE WorkerEnds
  <2>1. control' = "ended"
    BY <1>6, Zenon DEF WorkerEnds
  <2> QED
    BY <1>1, <1>6, <2>1, WorkerEndsStep
<1>7. CASE SinkTake
  BY <1>1, <1>7, SinkTakeStep
<1>8. CASE SinkStart
  BY <1>1, <1>8, SinkStartStep
<1>9. CASE SinkWrite
  BY <1>1, <1>9, SinkWriteStep
<1>10. CASE SinkCut
  BY <1>1, <1>10, SinkCutStep
<1>11. CASE SinkRest
  BY <1>1, <1>11, SinkRestStep
<1>12. CASE SinkEnd
  BY <1>1, <1>12, SinkEndStep
<1> QED
  BY <1>2, <1>3, <1>4, <1>5, <1>6, <1>7, <1>8, <1>9, <1>10, <1>11, <1>12, Zenon
     DEF Worker, RecordingNext, SinkStep

LEMMA WorkerKeeps ==
  ASSUME UploadInv, Worker
  PROVE  UploadInv'
<1> USE DEF UploadInv
<1>1. /\ SpoiltStays
      /\ \A n \in DOMAIN disk' \ DOMAIN disk : n \in DOMAIN server => SpoiltNow(n)
      /\ control' = "ended" /\ sink.file \in DOMAIN disk => SpoiltNow(sink.file)
      /\ DOMAIN disk' \subseteq Names =>
           spoilt' \subseteq {"reused", "unseen", "unclosed"} \X Names
      /\ faults' \in 0 .. MaxFaults
      /\ upload' = upload /\ server' = server
  BY WorkerSpoils
<1>2. WorkerStep
  BY WorkerMoves
<1>3. FilesInv' /\ TransferInv' /\ FramesInv'
  BY <1>1, <1>2, FilesKept, Zenon DEF WorkerStep, SpoiltStays
<1>4. TypeOK'
  <2>1. upload' \in [pc : {"sleep", "next", "store", "resume", "remove", "ended"},
                 todo : SUBSET Names, file : Names \cup {NoName},
                 try : 0 .. Tries, from : 0 .. Len(home')]
    <3>1. upload \in [pc : {"sleep", "next", "store", "resume", "remove", "ended"},
                 todo : SUBSET Names, file : Names \cup {NoName},
                 try : 0 .. Tries, from : 0 .. Len(home)]
      BY Zenon DEF TypeOK
    <3>2. 0 .. Len(home) \subseteq 0 .. Len(home')
      <4>1. Len(home) \in Int /\ Len(home') \in Int /\ Len(home) <= Len(home')
        BY <1>2, Types DEF WorkerStep, RecordingTypeOK
      <4> QED
        BY <4>1
    <3> QED
      BY <1>1, <3>1, <3>2
  <2>2. RecordingTypeOK' /\ DOMAIN disk' \subseteq Names
    BY <1>2, Zenon DEF WorkerStep, RecordingTypeOK
  <2>3. DOMAIN server \subseteq Names /\ \A n \in DOMAIN server : server[n] \in Files
    BY Zenon DEF TypeOK
  <2>4. Files' = Files
    BY Zenon DEF Files, MaxFrames
  <2> QED
    BY <1>1, <2>1, <2>2, <2>3, <2>4, Zenon DEF TypeOK
<1> QED
  BY <1>2, <1>3, <1>4, Zenon DEF WorkerStep

-----------------------------------------------------------------------------
(***************************************************************************)
(* The steps of the upload process that leave the files as they are.        *)
(***************************************************************************)
UploadRecords ==
  [pc : {"sleep", "next", "store", "resume", "remove", "ended"}, todo : SUBSET Names,
   file : Names \cup {NoName}, try : 0 .. Tries, from : 0 .. Len(home)]

Spoils == spoilt' \subseteq {"reused", "unseen", "unclosed"} \X Names /\ faults' \in 0 .. MaxFaults

LEMMA UploadTypes ==
  ASSUME TypeOK
  PROVE  /\ upload \in UploadRecords /\ Len(home) \in Nat /\ 0 \in 0 .. Len(home)
         /\ DOMAIN disk \subseteq Names
         /\ spoilt \subseteq {"reused", "unseen", "unclosed"} \X Names
         /\ faults \in 0 .. MaxFaults
<1>1. /\ upload \in UploadRecords
      /\ spoilt \subseteq {"reused", "unseen", "unclosed"} \X Names
      /\ faults \in 0 .. MaxFaults
  BY Zenon DEF TypeOK, UploadRecords
<1> QED
  BY <1>1, Types

LEMMA FilesStay ==
  ASSUME UploadInv, UNCHANGED <<disk, sink, stopping, now, blocks, home, server>>,
         control' = control \/ (control = "ended" /\ control' = "idle"),
         SpoiltStays, Spoils, upload' \in UploadRecords, TransferInv'
  PROVE  UploadInv'
<1> USE DEF UploadInv
<1>1. /\ disk' = disk /\ sink' = sink /\ stopping' = stopping
      /\ now' = now /\ blocks' = blocks /\ home' = home /\ server' = server
  OBVIOUS
<1>2. RecordingTypeOK' /\ SinkInv'
  <2>1. RecordingTypeOK
    BY Zenon DEF TypeOK
  <2>2. control' \in {"idle", "recording", "joining", "ended"}
    BY <2>1 DEF RecordingTypeOK
  <2>3. control' \in {"idle", "ended"} => sink = NoSink
    BY DEF SinkInv, SinkRuns
  <2>4. RecordingTypeOK'
    BY <1>1, <2>1, <2>2, Zenon DEF RecordingTypeOK, Files, MaxFrames
  <2> QED
    BY <1>1, <2>3, <2>4, Zenon DEF SinkInv, SinkRuns, Opens, Pending, Frames, FramesAfter
<1>3. TypeOK'
  <2>1. DOMAIN server \subseteq Names /\ \A n \in DOMAIN server : server[n] \in Files
    BY Zenon DEF TypeOK
  <2>2. Files' = Files
    BY Zenon DEF Files, MaxFrames
  <2> QED
    BY <1>1, <1>2, <2>1, <2>2, Zenon DEF TypeOK, Spoils, UploadRecords
<1>4. \A n : Spoilt(n) => Spoilt(n)'
  BY Zenon DEF SpoiltStays, Spoilt, SpoiltNow
<1>5. FilesInv'
  <2>1. \A n \in DOMAIN disk : disk[n].closed \/ n = sink.file \/ SpoiltNow(n)
    BY Zenon DEF FilesInv, SpoiltStays
  <2>2. /\ sink.file \in DOMAIN disk => ~disk[sink.file].closed
        /\ sink.file # NoName /\ sink.file \notin DOMAIN disk => SpoiltNow(sink.file)
    BY Zenon DEF FilesInv, SpoiltStays
  <2>3. \A n \in DOMAIN disk \cap DOMAIN server :
          \/ SpoiltNow(n)
          \/ /\ disk[n].closed /\ server[n].closed
             /\ Begins(server[n].data, disk[n].data)
    BY Zenon DEF FilesInv, SpoiltStays
  <2> QED
    BY <1>1, <2>1, <2>2, <2>3 DEF FilesInv, Spoilt, SpoiltNow, Begins
<1>6. FramesInv'
  BY <1>1, <1>4, Zenon DEF FramesInv, Kept
<1> QED
  BY <1>2, <1>3, <1>5, <1>6

LEMMA UploadMoves ==
  ASSUME UploadInv, UNCHANGED <<recording, server>>, SpoiltStays, Spoils,
         upload' \in UploadRecords, TransferInv'
  PROVE  UploadInv'
BY FilesStay DEF recording

LEMMA UpTraverseKeeps ==
  ASSUME UploadInv, UpTraverse
  PROVE  UploadInv'
<1>1. /\ UNCHANGED <<recording, server>> /\ spoilt' = spoilt /\ faults' = faults
      /\ upload' = [upload EXCEPT !.pc = "next", !.todo = DOMAIN disk] /\ upload.pc = "sleep"
  BY DEF UpTraverse
<1>2. /\ upload' \in UploadRecords /\ upload'.pc = "next" /\ upload'.todo = DOMAIN disk
      /\ upload'.from = upload.from
  BY <1>1, UploadTypes DEF UploadInv, UploadRecords
<1>3. upload.from = 0 /\ disk' = disk
  BY <1>1 DEF UploadInv, TransferInv, recording
<1>4. TransferInv'
  BY <1>2, <1>3 DEF TransferInv
<1>5. SpoiltStays /\ Spoils
  BY <1>1, UploadTypes DEF UploadInv, SpoiltStays, Spoilt, SpoiltNow, Spoils
<1> QED
  BY <1>1, <1>2, <1>4, <1>5, UploadMoves

LEMMA UpDoneKeeps ==
  ASSUME UploadInv, UpDone
  PROVE  UploadInv'
<1>1. UNCHANGED <<recording, server>> /\ spoilt' = spoilt /\ faults' = faults
  BY DEF UpDone
<1>2. /\ upload' \in UploadRecords /\ upload'.pc = "sleep" /\ upload'.todo = {}
      /\ upload'.from = 0
  BY UploadTypes DEF UploadInv, UploadRecords, UpDone, NoTransfer, Tries
<1>3. TransferInv'
  BY <1>2 DEF TransferInv
<1>4. SpoiltStays /\ Spoils
  BY <1>1, UploadTypes DEF UploadInv, SpoiltStays, Spoilt, SpoiltNow, Spoils
<1> QED
  BY <1>1, <1>2, <1>3, <1>4, UploadMoves

\* A file is taken from the list: one that is closed, or one now known as spoilt.
LEMMA TakeKeeps ==
  ASSUME UploadInv, UNCHANGED <<recording, server>>, SpoiltStays, Spoils, upload.pc = "next",
         NEW n \in upload.todo, upload' = Take(n), disk[n].closed \/ SpoiltNow(n)
  PROVE  UploadInv'
<1>1. /\ upload \in UploadRecords /\ upload.todo \subseteq DOMAIN disk /\ n \in Names
      /\ upload.from = 0 /\ 1 \in 0 .. Tries /\ disk' = disk /\ server' = server
  BY UploadTypes DEF UploadInv, TransferInv, recording, Tries
<1>2. /\ upload' \in UploadRecords /\ upload'.pc = "store" /\ upload'.todo = upload.todo \ {n}
      /\ upload'.file = n /\ upload'.from = upload.from
  BY <1>1 DEF UploadRecords, Take
<1>3. TransferInv'
  <2>1. /\ upload'.file \in DOMAIN disk' \ upload'.todo
        /\ disk'[upload'.file].closed \/ SpoiltNow(upload'.file)
    BY <1>1, <1>2
  <2>2. upload'.todo \subseteq DOMAIN disk'
    BY <1>1, <1>2
  <2> QED
    BY <1>1, <1>2, <2>1, <2>2 DEF TransferInv, Spoilt, SpoiltNow
<1> QED
  BY <1>2, <1>3, UploadMoves

LEMMA UpTestKeeps ==
  ASSUME UploadInv, UpTest
  PROVE  UploadInv'
<1>1. /\ UNCHANGED <<recording, server>> /\ spoilt' = spoilt /\ faults' = faults
      /\ upload.pc = "next"
  BY DEF UpTest
<1>2. SpoiltStays /\ Spoils
  BY <1>1, UploadTypes DEF UploadInv, SpoiltStays, Spoilt, SpoiltNow, Spoils
<1>3. PICK n \in upload.todo :
        upload' = IF IsOpen(n) THEN [upload EXCEPT !.todo = @ \ {n}] ELSE Take(n)
  BY Zenon DEF UpTest
<1>4. CASE IsOpen(n)
  <2>1. upload' = [upload EXCEPT !.todo = @ \ {n}] /\ upload \in UploadRecords
    BY <1>3, <1>4, UploadTypes DEF UploadInv
  <2>2. /\ upload' \in UploadRecords /\ upload'.pc = "next" /\ upload'.todo = upload.todo \ {n}
        /\ upload'.from = upload.from
    BY <1>1, <2>1 DEF UploadRecords
  <2>3. TransferInv'
    BY <1>1, <2>2 DEF UploadInv, TransferInv, recording
  <2> QED
    BY <1>1, <1>2, <2>2, <2>3, UploadMoves
<1>5. CASE ~IsOpen(n)
  <2>1. upload' = Take(n) /\ n # sink.file
    BY <1>3, <1>5 DEF IsOpen
  <2>2. n \in DOMAIN disk
    BY DEF UploadInv, TransferInv
  <2>3. disk[n].closed \/ SpoiltNow(n)
    BY <1>2, <2>1, <2>2, Zenon DEF UploadInv, FilesInv, SpoiltStays
  <2> QED
    BY <1>1, <1>2, <2>1, <2>3, TakeKeeps
<1> QED
  BY <1>4, <1>5

LEMMA UpTestBlindKeeps ==
  ASSUME UploadInv, UpTestBlind
  PROVE  UploadInv'
<1>1. PICK n \in upload.todo : upload' = Take(n) /\ spoilt' = spoilt \cup {<<"unseen", n>>}
  BY Zenon DEF UpTestBlind
<1>2. UNCHANGED <<recording, server>> /\ upload.pc = "next"
  BY DEF UpTestBlind
<1>3. SpoiltStays /\ SpoiltNow(n)
  <2>1. <<"unseen", n>> \in spoilt'
    BY <1>1
  <2>2. SpoiltNow(n)
    BY <2>1, Zenon DEF SpoiltNow
  <2>3. SpoiltStays
    BY <1>1 DEF SpoiltStays, Spoilt, SpoiltNow
  <2> QED
    BY <2>2, <2>3
<1>4. Spoils
  <2>1. n \in Names /\ spoilt \subseteq {"reused", "unseen", "unclosed"} \X Names
    BY UploadTypes DEF UploadInv, TransferInv
  <2>2. faults' \in 0 .. MaxFaults
    BY UploadTypes, Bounds DEF UploadInv, UpTestBlind
  <2> QED
    BY <1>1, <2>1, <2>2 DEF Spoils
<1> QED
  BY <1>1, <1>2, <1>3, <1>4, TakeKeeps

LEMMA RestartKeeps ==
  ASSUME UploadInv, Restart
  PROVE  UploadInv'
<1>1. /\ UNCHANGED <<disk, sink, stopping, now, blocks, home, server>>
      /\ control = "ended" /\ control' = "idle" /\ spoilt' = spoilt /\ faults' = faults
  BY DEF Restart
<1>2. /\ upload' \in UploadRecords /\ upload'.pc = "sleep" /\ upload'.todo = {}
      /\ upload'.from = 0
  BY UploadTypes DEF UploadInv, UploadRecords, Restart, NoTransfer, Tries
<1>3. TransferInv'
  BY <1>2 DEF TransferInv
<1>4. SpoiltStays /\ Spoils
  BY <1>1, UploadTypes DEF UploadInv, SpoiltStays, Spoilt, SpoiltNow, Spoils
<1> QED
  BY <1>1, <1>2, <1>3, <1>4, FilesStay

LEMMA UpLeaveKeeps ==
  ASSUME UploadInv, UpLeave
  PROVE  UploadInv'
<1>1. UNCHANGED <<recording, server>> /\ spoilt' = spoilt /\ faults' = faults
  BY DEF UpLeave
<1>2. /\ upload' \in UploadRecords /\ upload'.pc = "ended" /\ upload'.todo = upload.todo
      /\ upload'.from = upload.from /\ upload.pc = "sleep"
  BY UploadTypes DEF UploadInv, UploadRecords, UpLeave
<1>3. TransferInv'
  BY <1>1, <1>2 DEF UploadInv, TransferInv, recording
<1>4. SpoiltStays /\ Spoils
  BY <1>1, UploadTypes DEF UploadInv, SpoiltStays, Spoilt, SpoiltNow, Spoils
<1> QED
  BY <1>1, <1>2, <1>3, <1>4, UploadMoves

LEMMA UploadDiesKeeps ==
  ASSUME UploadInv, UploadDies
  PROVE  UploadInv'
<1>1. UNCHANGED <<recording, server>> /\ spoilt' = spoilt
  BY DEF UploadDies
<1>2. /\ upload' \in UploadRecords /\ upload'.pc = "ended" /\ upload'.todo = {}
      /\ upload'.from = 0
  BY UploadTypes DEF UploadInv, UploadRecords, UploadDies, NoTransfer, Tries
<1>3. TransferInv'
  BY <1>2 DEF TransferInv
<1>4. faults' \in 0 .. MaxFaults
  BY UploadTypes, Bounds DEF UploadInv, UploadDies
<1>5. SpoiltStays /\ Spoils
  BY <1>1, <1>4, UploadTypes DEF UploadInv, SpoiltStays, Spoilt, SpoiltNow, Spoils
<1> QED
  BY <1>1, <1>2, <1>3, <1>5, UploadMoves

LEMMA NextFileTypes ==
  ASSUME upload \in UploadRecords, 0 \in 0 .. Len(home)
  PROVE  /\ NextFile \in UploadRecords /\ NextFile.pc = "next" /\ NextFile.from = 0
         /\ NextFile.todo = upload.todo
<1>1. NoTransfer \in UploadRecords /\ NoTransfer.from = 0
  BY DEF NoTransfer, UploadRecords, Tries
<1> QED
  BY <1>1 DEF NextFile, UploadRecords

\* After a try that fails, the file is resumed or given up.
LEMMA FailedTypes ==
  ASSUME upload \in UploadRecords, upload.pc \in {"store", "resume"}, 0 \in 0 .. Len(home),
         NEW from \in 0 .. Len(home), upload' = Failed(from)
  PROVE  /\ upload' \in UploadRecords /\ upload'.todo = upload.todo
         /\ \/ upload'.pc = "next" /\ upload'.from = 0
            \/ upload'.pc = "resume" /\ upload'.from = from /\ upload'.file = upload.file
<1>1. CASE upload.try < Tries
  <2>1. upload' = [upload EXCEPT !.pc = "resume", !.try = @ + 1, !.from = from]
    BY <1>1, Zenon DEF Failed
  <2>2. upload.try + 1 \in 0 .. Tries
    BY <1>1 DEF UploadRecords, Tries
  <2> QED
    BY <2>1, <2>2 DEF UploadRecords
<1>2. CASE ~(upload.try < Tries)
  <2>1. upload' = NextFile
    BY <1>2, Zenon DEF Failed
  <2> QED
    BY <2>1, NextFileTypes
<1> QED
  BY <1>1, <1>2

LEMMA UpFailKeeps ==
  ASSUME UploadInv, UpFail
  PROVE  UploadInv'
<1>1. /\ UNCHANGED <<recording, server>> /\ spoilt' = spoilt /\ faults' = faults
      /\ upload.pc \in {"store", "resume"} /\ upload' = Failed(upload.from)
  BY DEF UpFail
<1>2. upload \in UploadRecords /\ 0 \in 0 .. Len(home) /\ upload.from \in 0 .. Len(home)
  BY UploadTypes DEF UploadInv, UploadRecords
<1>3. /\ upload' \in UploadRecords /\ upload'.todo = upload.todo
      /\ \/ upload'.pc = "next" /\ upload'.from = 0
         \/ upload'.pc = "resume" /\ upload'.from = upload.from /\ upload'.file = upload.file
  BY <1>1, <1>2, FailedTypes
<1>4. TransferInv'
  <2>1. disk' = disk /\ server' = server /\ (Spoilt(upload.file) => SpoiltNow(upload.file))
    BY <1>1 DEF recording, Spoilt, SpoiltNow
  <2>2. /\ upload.todo \subseteq DOMAIN disk
        /\ upload.file \in DOMAIN disk \ upload.todo
        /\ disk[upload.file].closed \/ Spoilt(upload.file)
        /\ upload.pc = "store" => upload.from = 0
        /\ upload.pc = "resume" /\ upload.file \notin DOMAIN server => upload.from = 0
    BY <1>1 DEF UploadInv, TransferInv
  <2> QED
    BY <1>1, <1>3, <2>1, <2>2 DEF TransferInv, Spoilt, SpoiltNow
<1>5. SpoiltStays /\ Spoils
  BY <1>1, UploadTypes DEF UploadInv, SpoiltStays, Spoilt, SpoiltNow, Spoils
<1> QED
  BY <1>1, <1>3, <1>4, <1>5, UploadMoves

-----------------------------------------------------------------------------
(***************************************************************************)
(* A try sends frames from the place where the server's file ends: what the *)
(* server has stays the beginning of the file on disk, and is all of it     *)
(* when the try succeeds.                                                   *)
(***************************************************************************)
LEMMA TransferredFile ==
  ASSUME UploadInv, upload.pc \in {"store", "resume"},
         NEW held, held = << >> \/ (OnServer /\ held = server[upload.file].data),
         NEW k \in Nat, k <= Left(Len(held)), server' = Transferred(held, Len(held), k)
  PROVE  LET file == upload.file
         IN  /\ file \in DOMAIN disk /\ DOMAIN server' = DOMAIN server \cup {file}
             /\ \A n \in DOMAIN server : n # file => server'[n] = server[n]
             /\ server'[file] \in Files /\ Len(server'[file].data) <= Len(home)
             /\ \/ Spoilt(file)
                \/ /\ disk[file].closed /\ server'[file].closed
                   /\ Begins(server'[file].data, disk[file].data)
                   /\ k = Left(Len(held)) => server'[file] = disk[file]
             /\ Len(held) \in 0 .. Len(home)
<1> DEFINE file == upload.file
           whole == disk[file].data
           new == held \o SubSeq(whole, Len(held) + 1, Len(held) + k)
           shut == IF held = << >> THEN Local.closed ELSE Remote.closed
<1>1. /\ file \in DOMAIN disk /\ file \in Names
      /\ disk[file].closed \/ Spoilt(file)
      /\ disk[file] \in Files /\ Len(whole) <= Len(home)
  <2>1. file \in DOMAIN disk \ upload.todo /\ (disk[file].closed \/ Spoilt(file))
    BY Zenon DEF UploadInv, TransferInv
  <2> QED
    BY <2>1, Types DEF UploadInv, SinkInv
<1>2. ASSUME file \in DOMAIN server
      PROVE  /\ server[file] \in Files /\ Len(server[file].data) <= Len(home)
             /\ \/ Spoilt(file)
                \/ server[file].closed /\ Begins(server[file].data, whole)
  BY <1>1, <1>2, Types, Zenon DEF UploadInv, SinkInv, FilesInv
<1>3. whole \in Seq(1 .. MaxFrames) /\ Len(whole) \in Nat /\ Len(home) \in Nat
  BY <1>1, Types DEF UploadInv, Files
<1>4. /\ held \in Seq(1 .. MaxFrames) /\ Len(held) \in Nat /\ Len(held) <= Len(home)
      /\ Spoilt(file) \/ Begins(held, whole)
  <2>1. CASE held = << >>
    <3>1. << >> \in Seq(1 .. MaxFrames) /\ Len(<< >>) = 0
      OBVIOUS
    <3>2. Begins(<< >>, whole)
      BY <1>3 DEF Begins
    <3> QED
      BY <1>3, <2>1, <3>1, <3>2
  <2>2. CASE OnServer /\ held = server[upload.file].data
    <3>1. file \in DOMAIN server /\ held = server[file].data
      BY <2>2, Zenon DEF OnServer
    <3>2. held \in Seq(1 .. MaxFrames) /\ Len(held) <= Len(home)
          /\ (Spoilt(file) \/ Begins(held, whole))
      BY <1>2, <3>1 DEF Files
    <3> QED
      BY <3>2
  <2> QED
    BY <2>1, <2>2
<1>5. Left(Len(held)) = IF Len(held) < Len(whole) THEN Len(whole) - Len(held) ELSE 0
  BY Zenon DEF Left, Local
<1>6. /\ new \in Seq(1 .. MaxFrames) /\ Len(new) = Len(held) + k
      /\ Begins(held, whole) => Begins(new, whole)
      /\ Begins(held, whole) /\ k = Len(whole) - Len(held) => new = whole
  <2>1. k <= IF Len(held) < Len(whole) THEN Len(whole) - Len(held) ELSE 0
    BY <1>5, Zenon
  <2> HIDE DEF whole
  <2>2. new = held \o SubSeq(whole, Len(held) + 1, Len(held) + k)
    OBVIOUS
  <2> HIDE DEF new
  <2> QED
    <3>1. Continues(new, held, whole, k, 1 .. MaxFrames)
      BY <1>3, <1>4, <2>1, <2>2, MoreFrames, Zenon
    <3> QED
      BY <3>1, Zenon DEF Continues
<1>7. server' = [n \in DOMAIN server \cup {file} |->
                   IF n = file THEN [data |-> new, closed |-> shut] ELSE server[n]]
  BY Zenon DEF Transferred, Local
<1>8. shut \in BOOLEAN /\ (Spoilt(file) \/ shut = TRUE)
  <2>1. CASE held = << >>
    <3>1. shut = disk[file].closed
      BY <2>1, Zenon DEF Local
    <3> QED
      BY <1>1, <3>1 DEF Files
  <2>2. CASE held # << >>
    <3>1. file \in DOMAIN server
      BY <2>2 DEF OnServer
    <3>2. shut = server[file].closed
      BY <2>2, <3>1, Zenon DEF Remote, OnServer
    <3> QED
      BY <1>2, <3>1, <3>2 DEF Files
  <2> QED
    BY <2>1, <2>2
<1> HIDE DEF new, shut
<1>9. /\ DOMAIN server' = DOMAIN server \cup {file}
      /\ \A n \in DOMAIN server : n # file => server'[n] = server[n]
      /\ server'[file] = [data |-> new, closed |-> shut]
  <2> HIDE DEF file
  <2> QED
    BY <1>7
<1>10. server'[file].data = new /\ server'[file].closed = shut /\ server'[file] \in Files
  BY <1>6, <1>8, <1>9 DEF Files
<1>11. Len(new) <= Len(home)
  <2> HIDE DEF whole
  <2> QED
    BY <1>1, <1>3, <1>4, <1>5, <1>6
<1>12. ASSUME ~Spoilt(file)
       PROVE  /\ disk[file].closed /\ shut = TRUE /\ Begins(new, whole)
              /\ k = Left(Len(held)) => server'[file] = disk[file]
  <2>1. disk[file].closed /\ shut = TRUE /\ Begins(held, whole) /\ Begins(new, whole)
    BY <1>1, <1>4, <1>6, <1>8, <1>12, Zenon
  <2>2. ASSUME k = Left(Len(held)) PROVE server'[file] = disk[file]
    <3>1. k = Len(whole) - Len(held)
      BY <1>3, <1>4, <1>5, <2>1, <2>2 DEF Begins
    <3>2. new = whole
      BY <1>6, <2>1, <3>1, Zenon
    <3>3. disk[file] = [data |-> whole, closed |-> TRUE]
      BY <1>1, <2>1 DEF Files
    <3> QED
      BY <1>9, <2>1, <3>2, <3>3
  <2> QED
    BY <2>1, <2>2
<1>13. Len(held) \in 0 .. Len(home)
  BY <1>3, <1>4
<1> HIDE DEF whole
<1>14. Spoilt(file) \/ (/\ disk[file].closed /\ server'[file].closed
                        /\ Begins(server'[file].data, disk[file].data)
                        /\ k = Left(Len(held)) => server'[file] = disk[file])
  BY <1>10, <1>12, Zenon DEF whole
<1> QED
  BY <1>1, <1>9, <1>10, <1>11, <1>13, <1>14, Zenon

LEMMA PerformKeeps ==
  ASSUME UploadInv, upload.pc \in {"store", "resume"},
         NEW held, held = << >> \/ (OnServer /\ held = server[upload.file].data),
         Perform(held, Len(held)), UNCHANGED <<recording, spoilt, faults>>
  PROVE  UploadInv'
<1> DEFINE file == upload.file
           from == Len(held)
<1>1. PICK k \in Nat : /\ k <= Left(from) /\ server' = Transferred(held, from, k)
                       /\ \/ k = Left(from) /\ upload' = Succeeded
                          \/ upload' = Failed(from)
  <2>1. Left(from) \in Nat
    <3>1. file \in DOMAIN disk
      BY DEF UploadInv, TransferInv
    <3>2. Len(Local.data) \in Nat
      BY <3>1, Types DEF UploadInv, Local, Files
    <3>3. from \in Nat
      <4>1. CASE held = << >>
        BY <4>1
      <4>2. CASE OnServer /\ held = server[upload.file].data
        BY <4>2, Types DEF UploadInv, OnServer, Files
      <4> QED
        BY <4>1, <4>2
    <3> HIDE DEF from
    <3> QED
      BY <3>2, <3>3 DEF Left
  <2>2. CASE server' = Transferred(held, from, Left(from)) /\ upload' = Succeeded
    <3>1. Left(from) <= Left(from)
      BY <2>1
    <3> QED
      BY <2>1, <2>2, <3>1, Zenon
  <2>3. ASSUME NEW k \in {1, Left(from)}, k <= Left(from), server' = Transferred(held, from, k),
               upload' = Failed(from)
        PROVE  \E i \in Nat : /\ i <= Left(from) /\ server' = Transferred(held, from, i)
                              /\ \/ i = Left(from) /\ upload' = Succeeded
                                 \/ upload' = Failed(from)
    <3>1. k \in Nat
      BY <2>1, <2>3
    <3> QED
      BY <2>3, <3>1, Zenon
  <2> QED
    BY <2>2, <2>3, Zenon DEF Perform
<1>2. /\ file \in DOMAIN disk /\ DOMAIN server' = DOMAIN server \cup {file}
      /\ \A n \in DOMAIN server : n # file => server'[n] = server[n]
      /\ server'[file] \in Files /\ Len(server'[file].data) <= Len(home)
      /\ \/ Spoilt(file)
         \/ /\ disk[file].closed /\ server'[file].closed
            /\ Begins(server'[file].data, disk[file].data)
            /\ k = Left(from) => server'[file] = disk[file]
      /\ from \in 0 .. Len(home)
  BY <1>1, TransferredFile, Zenon
<1> HIDE DEF from
<1>3. /\ disk' = disk /\ control' = control /\ sink' = sink /\ stopping' = stopping
      /\ now' = now /\ blocks' = blocks /\ home' = home /\ spoilt' = spoilt /\ faults' = faults
  BY DEF recording
<1>4. /\ upload \in UploadRecords /\ 0 \in 0 .. Len(home) /\ file \in Names
      /\ DOMAIN server \subseteq Names
  BY <1>2, UploadTypes, Types DEF UploadInv
<1>5. /\ upload' \in UploadRecords /\ upload'.todo = upload.todo
      /\ \/ upload'.pc = "next" /\ upload'.from = 0
         \/ upload'.pc = "resume" /\ upload'.file = file
         \/ upload'.pc = "remove" /\ upload'.file = file /\ k = Left(from)
  <2>1. CASE upload' = Failed(from)
    BY <1>2, <1>4, <2>1, FailedTypes
  <2>2. CASE k = Left(from) /\ upload' = Succeeded
    BY <1>4, <2>2 DEF Succeeded, UploadRecords
  <2> QED
    BY <1>1, <2>1, <2>2
<1>6. RecordingTypeOK'
  BY <1>3, Zenon DEF UploadInv, TypeOK, RecordingTypeOK, Files, MaxFrames
<1>7. SinkInv'
  <2>1. ASSUME NEW n \in DOMAIN server' PROVE Len(server'[n].data) <= Len(home')
    <3>1. n = file \/ (n # file /\ n \in DOMAIN server)
      BY <1>2, Zenon
    <3> QED
      BY <1>2, <1>3, <3>1, Zenon DEF UploadInv, SinkInv
  <2> QED
    BY <1>3, <2>1, Zenon DEF UploadInv, SinkInv, SinkRuns, Opens, Pending, Frames, FramesAfter
<1>8. TypeOK'
  <2>1. ASSUME NEW n \in DOMAIN server' PROVE n \in Names /\ server'[n] \in Files
    <3>1. n = file \/ (n # file /\ n \in DOMAIN server)
      BY <1>2, Zenon
    <3> QED
      BY <1>2, <1>4, <3>1, Types, Zenon DEF UploadInv
  <2>2. DOMAIN server' \subseteq Names
    BY <2>1
  <2>3. Files' = Files
    BY Zenon DEF Files, MaxFrames
  <2> QED
    BY <1>3, <1>5, <1>6, <2>1, <2>2, <2>3, Zenon DEF UploadInv, TypeOK, UploadRecords
<1>9. \A n : Spoilt(n)' <=> Spoilt(n)
  BY <1>3, Zenon DEF Spoilt
<1>10. FilesInv'
  <2>1. ASSUME NEW n \in DOMAIN disk \cap DOMAIN server'
        PROVE  \/ Spoilt(n)
               \/ /\ disk[n].closed /\ server'[n].closed
                  /\ Begins(server'[n].data, disk[n].data)
    <3>1. CASE n = file
      BY <1>2, <3>1, Zenon
    <3>2. CASE n # file
      <4>1. n \in DOMAIN server /\ server'[n] = server[n]
        BY <1>2, <2>1, <3>2
      <4> QED
        BY <2>1, <4>1, Zenon DEF UploadInv, FilesInv
    <3> QED
      BY <3>1, <3>2
  <2>2. /\ \A n \in DOMAIN disk : disk[n].closed \/ n = sink.file \/ Spoilt(n)
        /\ sink.file \in DOMAIN disk => ~disk[sink.file].closed
        /\ sink.file # NoName /\ sink.file \notin DOMAIN disk => Spoilt(sink.file)
    BY Zenon DEF UploadInv, FilesInv
  <2> QED
    BY <1>3, <2>1, <2>2 DEF FilesInv, Spoilt, Begins
<1>11. TransferInv'
  <2>1. /\ upload.todo \subseteq DOMAIN disk
        /\ file \in DOMAIN disk \ upload.todo
        /\ disk[file].closed \/ Spoilt(file)
    BY DEF UploadInv, TransferInv
  <2>2. file \in DOMAIN server'
    BY <1>2
  <2>3. k = Left(from) => Spoilt(file) \/ server'[file] = disk[file]
    BY <1>2, Zenon
  <2> HIDE DEF file
  <2> QED
    BY <1>3, <1>5, <2>1, <2>2, <2>3 DEF TransferInv, Spoilt
<1>12. FramesInv'
  <2>1. ASSUME NEW f \in DOMAIN home, NEW n, n = home[f].file
        PROVE  \/ home[f].cut
               \/ Spoilt(n)
               \/ n \in DOMAIN disk /\ f \in ToSet(disk[n].data)
               \/ n \in DOMAIN server' \ DOMAIN disk /\ f \in ToSet(server'[n].data)
    <3>1. \/ home[f].cut
          \/ Spoilt(n)
          \/ n \in DOMAIN disk /\ f \in ToSet(disk[n].data)
          \/ n \in DOMAIN server \ DOMAIN disk /\ f \in ToSet(server[n].data)
      BY <2>1, Zenon DEF UploadInv, FramesInv, Kept
    <3>2. n \in DOMAIN server \ DOMAIN disk => n \in DOMAIN server' /\ server'[n] = server[n]
      BY <1>2
    <3> QED
      BY <3>1, <3>2, Zenon
  <2> QED
    BY <1>3, <2>1, Zenon DEF FramesInv, Kept, Spoilt
<1> QED
  BY <1>7, <1>8, <1>10, <1>11, <1>12, Zenon DEF UploadInv

LEMMA UpStoreKeeps ==
  ASSUME UploadInv, UpStore
  PROVE  UploadInv'
<1>1. Len(<< >>) = 0
  OBVIOUS
<1>2. Perform(<< >>, Len(<< >>))
  BY <1>1, Zenon DEF UpStore
<1>3. upload.pc \in {"store", "resume"} /\ UNCHANGED <<recording, spoilt, faults>>
  BY DEF UpStore
<1> QED
  BY <1>2, <1>3, PerformKeeps, Zenon

LEMMA UpResumeKeeps ==
  ASSUME UploadInv, UpResume
  PROVE  UploadInv'
<1>1. upload.pc = "resume" /\ UNCHANGED <<recording, spoilt, faults>>
  BY Zenon DEF UpResume
<1>2. CASE OnServer
  <2>1. Remote.data = server[upload.file].data
    BY <1>2, Zenon DEF Remote
  <2>2. Perform(server[upload.file].data, Len(server[upload.file].data))
    BY <1>2, <2>1, Zenon DEF UpResume
  <2>3. upload.pc \in {"store", "resume"}
    BY <1>1
  <2> QED
    BY <1>1, <1>2, <2>2, <2>3, PerformKeeps, Zenon
<1>3. CASE ~OnServer
  <2>1. Remote.data = << >>
    BY <1>3 DEF Remote
  <2>2. upload.from = 0
    BY <1>1, <1>3, Zenon DEF UploadInv, TransferInv, OnServer
  <2>3. Len(<< >>) = 0
    OBVIOUS
  <2>4. Perform(<< >>, Len(<< >>))
    BY <1>3, <2>1, <2>2, <2>3, Zenon DEF UpResume
  <2>5. upload.pc \in {"store", "resume"}
    BY <1>1
  <2> QED
    BY <1>1, <2>4, <2>5, PerformKeeps, Zenon
<1> QED
  BY <1>2, <1>3

-----------------------------------------------------------------------------
(***************************************************************************)
(* The removal: the server has what leaves the disk.                        *)
(***************************************************************************)
LEMMA UpRemoveKeeps ==
  ASSUME UploadInv, UpRemove
  PROVE  UploadInv'
<1> DEFINE file == upload.file
<1>1. /\ control' = control /\ sink' = sink /\ stopping' = stopping
      /\ now' = now /\ blocks' = blocks /\ home' = home /\ server' = server
      /\ spoilt' = spoilt /\ faults' = faults
  BY DEF UpRemove
<1>2. /\ file \in DOMAIN disk \ upload.todo
      /\ disk[file].closed \/ Spoilt(file)
      /\ Spoilt(file) \/ (file \in DOMAIN server /\ server[file] = disk[file])
      /\ upload.todo \subseteq DOMAIN disk
  BY DEF UploadInv, TransferInv, UpRemove
<1>3. /\ DOMAIN disk \ {file} \subseteq DOMAIN disk' /\ DOMAIN disk' \subseteq DOMAIN disk
      /\ \A n \in DOMAIN disk' : disk'[n] = disk[n]
  BY DEF UpRemove
<1>4. /\ upload' \in UploadRecords /\ upload'.todo = upload.todo
      /\ upload'.pc = "next" /\ upload'.from = 0
  BY UploadTypes, NextFileTypes DEF UploadInv, UpRemove
<1>5. RecordingTypeOK'
  <2>1. RecordingTypeOK /\ Files' = Files
    BY Zenon DEF UploadInv, TypeOK, Files, MaxFrames
  <2>2. DOMAIN disk' \subseteq Names /\ \A n \in DOMAIN disk' : disk'[n] \in Files
    BY <1>3, <2>1 DEF RecordingTypeOK
  <2> QED
    BY <1>1, <2>1, <2>2, Zenon DEF RecordingTypeOK
<1>6. SinkInv'
  <2>1. \A n \in DOMAIN disk' : n.idx < Opens /\ Len(disk'[n].data) <= Len(home)
    BY <1>3 DEF UploadInv, SinkInv
  <2> QED
    BY <1>1, <2>1, Zenon DEF UploadInv, SinkInv, SinkRuns, Opens, Pending, Frames, FramesAfter
<1>7. TypeOK'
  <2>1. Files' = Files
    BY Zenon DEF Files, MaxFrames
  <2> QED
    BY <1>1, <1>4, <1>5, <2>1, Zenon DEF UploadInv, TypeOK, UploadRecords
<1>8. FilesInv'
  <2>1. \A n \in DOMAIN disk' : disk[n].closed \/ n = sink.file \/ Spoilt(n)
    BY <1>3, Zenon DEF UploadInv, FilesInv
  <2>2. sink.file \in DOMAIN disk' => ~disk[sink.file].closed
    BY <1>3, Zenon DEF UploadInv, FilesInv
  <2>3. ASSUME sink.file # NoName, sink.file \notin DOMAIN disk' PROVE Spoilt(sink.file)
    <3>1. CASE sink.file \notin DOMAIN disk
      BY <2>3, <3>1, Zenon DEF UploadInv, FilesInv
    <3>2. CASE sink.file \in DOMAIN disk
      <4>1. sink.file = file
        BY <1>3, <2>3, <3>2
      <4> QED
        BY <1>2, <3>2, <4>1, Zenon DEF UploadInv, FilesInv
    <3> QED
      BY <3>1, <3>2
  <2>4. \A n \in DOMAIN disk' \cap DOMAIN server :
          \/ Spoilt(n)
          \/ /\ disk[n].closed /\ server[n].closed
             /\ Begins(server[n].data, disk[n].data)
    BY <1>3, Zenon DEF UploadInv, FilesInv
  <2> QED
    BY <1>1, <1>3, <2>1, <2>2, <2>3, <2>4 DEF FilesInv, Spoilt, Begins
<1>9. TransferInv'
  <2>1. upload.todo \subseteq DOMAIN disk'
    BY <1>2, <1>3
  <2> QED
    BY <1>4, <2>1 DEF TransferInv
<1>10. FramesInv'
  <2>1. ASSUME NEW f \in DOMAIN home, NEW n, n = home[f].file
        PROVE  \/ home[f].cut
               \/ Spoilt(n)
               \/ n \in DOMAIN disk' /\ f \in ToSet(disk'[n].data)
               \/ n \in DOMAIN server \ DOMAIN disk' /\ f \in ToSet(server[n].data)
    <3>1. \/ home[f].cut
          \/ Spoilt(n)
          \/ n \in DOMAIN disk /\ f \in ToSet(disk[n].data)
          \/ n \in DOMAIN server \ DOMAIN disk /\ f \in ToSet(server[n].data)
      BY <2>1, Zenon DEF UploadInv, FramesInv, Kept
    <3>2. n \in DOMAIN disk /\ n \notin DOMAIN disk' => n = file
      BY <1>3
    <3> QED
      BY <1>2, <1>3, <3>1, <3>2, Zenon
  <2> QED
    BY <1>1, <2>1, Zenon DEF FramesInv, Kept, Spoilt
<1> QED
  BY <1>6, <1>7, <1>8, <1>9, <1>10, Zenon DEF UploadInv

-----------------------------------------------------------------------------

LEMMA InitiallyCorrect ==
  ASSUME Init
  PROVE  UploadInv
<1>1. /\ disk = << >> /\ control = "idle" /\ sink = NoSink /\ stopping = TRUE /\ now = 0
      /\ blocks = 0 /\ home = << >> /\ upload = NoTransfer /\ server = << >>
      /\ spoilt = {} /\ faults = 0
  BY DEF Init, RecordingInit
<1>2. DOMAIN disk = {} /\ DOMAIN server = {} /\ DOMAIN home = {} /\ Len(home) = 0
  BY <1>1
<1>3. sink.pc = "ended" /\ sink.seq = 0 /\ sink.file = NoName
  BY <1>1 DEF NoSink
<1>4. TypeOK
  <2>1. SinkTypeOK
    BY <1>1, NoSinkTypeOK, Bounds DEF SinkTypeOK
  <2>2. home \in Seq([file : Names, cut : BOOLEAN])
    BY <1>1
  <2>3. RecordingTypeOK
    BY <1>2, <2>1, <2>2, Zenon DEF RecordingTypeOK, SinkTypeOK, SinkRecords
  <2>4. upload \in UploadRecords
    BY <1>1, <1>2 DEF UploadRecords, NoTransfer, Tries
  <2>5. faults \in 0 .. MaxFaults /\ spoilt \subseteq {"reused", "unseen", "unclosed"} \X Names
    BY <1>1, Bounds
  <2> QED
    BY <1>2, <2>3, <2>4, <2>5, Zenon DEF TypeOK, UploadRecords
<1>5. SinkInv
  <2>1. Len(home) + Pending <= blocks * Capacity
    <3>1. Pending = 0
      BY <1>3, Zenon DEF Pending
    <3> QED
      BY <1>1, <1>2, <3>1, Bounds
  <2> QED
    BY <1>1, <1>2, <1>3, <2>1 DEF SinkInv, SinkRuns
<1>6. FilesInv
  BY <1>2, <1>3 DEF FilesInv
<1>7. TransferInv
  BY <1>1 DEF TransferInv, NoTransfer
<1>8. FramesInv
  BY <1>2, Zenon DEF FramesInv
<1> QED
  BY <1>4, <1>5, <1>6, <1>7, <1>8 DEF UploadInv

LEMMA UnchangedKeeps ==
  ASSUME UploadInv, UNCHANGED vars
  PROVE  UploadInv'
<1>1. UNCHANGED <<recording, server>> /\ upload' = upload /\ spoilt' = spoilt /\ faults' = faults
  BY DEF vars
<1>2. upload' \in UploadRecords /\ TransferInv'
  BY <1>1, UploadTypes DEF UploadInv, TransferInv, recording, Spoilt
<1>3. SpoiltStays /\ Spoils
  BY <1>1, UploadTypes DEF UploadInv, SpoiltStays, Spoilt, SpoiltNow, Spoils
<1> QED
  BY <1>1, <1>2, <1>3, UploadMoves

LEMMA StepKeeps ==
  ASSUME UploadInv, [Next]_vars
  PROVE  UploadInv'
<1>1. CASE Worker
  BY <1>1, WorkerKeeps
<1>2. CASE UpTraverse
  BY <1>2, UpTraverseKeeps
<1>3. CASE UpDone
  BY <1>3, UpDoneKeeps
<1>4. CASE UpTest
  BY <1>4, UpTestKeeps
<1>5. CASE UpTestBlind
  BY <1>5, UpTestBlindKeeps
<1>6. CASE UpFail
  BY <1>6, UpFailKeeps
<1>7. CASE UpStore
  BY <1>7, UpStoreKeeps
<1>8. CASE UpResume
  BY <1>8, UpResumeKeeps
<1>9. CASE UpRemove
  BY <1>9, UpRemoveKeeps
<1>10. CASE UpLeave
  BY <1>10, UpLeaveKeeps
<1>11. CASE UploadDies
  BY <1>11, UploadDiesKeeps
<1>12. CASE Restart
  BY <1>12, RestartKeeps
<1>13. CASE UNCHANGED vars
  BY <1>13, UnchangedKeeps
<1> QED
  BY <1>1, <1>2, <1>3, <1>4, <1>5, <1>6, <1>7, <1>8, <1>9, <1>10, <1>11, <1>12, <1>13, Zenon
     DEF Next, UploadStep

(***************************************************************************)
(* The inductive invariant of the upload beside a recording.                *)
(***************************************************************************)
THEOREM UploadCorrect == Spec => []UploadInv
BY InitiallyCorrect, StepKeeps, PTL DEF Spec

(***************************************************************************)
(* The variables keep their types: the names that getOutputFileName finds,  *)
(* the samples in a file and the frames in all files stay within bounds.    *)
(***************************************************************************)
THEOREM TypeCorrect == Spec => []TypeOK
<1>1. UploadInv => TypeOK
  BY DEF UploadInv
<1> QED
  BY <1>1, UploadCorrect, PTL

(***************************************************************************)
(* No frame is lost: what is not on disk any more is on the server.         *)
(***************************************************************************)
THEOREM FramesAreKept == Spec => []EveryFrameIsKept
<1>1. ASSUME UploadInv PROVE EveryFrameIsKept
  <2> SUFFICES ASSUME NEW f \in DOMAIN home
               PROVE  \/ home[f].cut \/ Spoilt(home[f].file)
                      \/ f \in FramesOf(disk) \/ f \in FramesOf(server)
    BY Zenon DEF EveryFrameIsKept
  <2>1. Kept(f)
    BY <1>1, Zenon DEF UploadInv, FramesInv
  <2>2. ASSUME NEW files, NEW n \in DOMAIN files, f \in ToSet(files[n].data)
        PROVE  f \in FramesOf(files)
    BY <2>2, Zenon DEF FramesOf
  <2> QED
    BY <2>1, <2>2, Zenon DEF Kept
<1> QED
  BY <1>1, UploadCorrect, PTL

(***************************************************************************)
(* A file leaves the disk only when it was closed and the server has it all, *)
(* unless its name had been used before, or a test had not seen that it was   *)
(* open, or its writer had died without closing it: of these files the server *)
(* may lack a part.                                                          *)
(***************************************************************************)
THEOREM RemovedFilesAreOnServer == Spec => RemovedIsOnServer
<1> DEFINE Removed == \A n \in DOMAIN disk \ DOMAIN disk' :
       Spoilt(n) \/ (disk[n].closed /\ n \in DOMAIN server /\ server[n] = disk[n])
<1>1. ASSUME UploadInv, [Next]_vars PROVE [Removed]_vars
  <2>1. CASE Worker
    <3>1. DOMAIN disk \subseteq DOMAIN disk'
      BY <1>1, <2>1, WorkerMoves, Zenon DEF WorkerStep, DiskStep
    <3> QED
      BY <3>1
  <2>2. CASE UpRemove
    <3>1. \A n \in DOMAIN disk \ DOMAIN disk' : n = upload.file
      BY <2>2 DEF UpRemove
    <3>2. LET n == upload.file
          IN  Spoilt(n) \/ (disk[n].closed /\ n \in DOMAIN server /\ server[n] = disk[n])
      BY <1>1, <2>2, Zenon DEF UploadInv, TransferInv, UpRemove
    <3> QED
      BY <3>1, <3>2, Zenon
  <2>3. CASE UNCHANGED disk
    BY <2>3
  <2> QED
    BY <1>1, <2>1, <2>2, <2>3
       DEF Next, UploadStep, vars, recording, UpTraverse, UpDone, UpTest, UpTestBlind, UpFail,
           UpStore, UpResume, UpLeave, UploadDies, Restart
<1> QED
  BY <1>1, UploadCorrect, PTL DEF Spec, RemovedIsOnServer
=============================================================================
