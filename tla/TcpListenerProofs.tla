-------------------------- MODULE TcpListenerProofs --------------------------
(***************************************************************************)
(* The TCP listener, for any number of senders, callers, slots and messages  *)
(* and every length and limit: what a client received with what waits in its  *)
(* slot is a row of whole messages, those of a sender in the order of its      *)
(* broadcasts, and a broadcast that is not given up reaches every client that *)
(* stays.                                                                     *)
(***************************************************************************)
EXTENDS TcpListener, TLAPS, WellFoundedInduction, SequenceTheorems

(***************************************************************************)
(* What is appended in two parts is appended as a whole.                    *)
(***************************************************************************)
Joined(s, t) == s \o t

LEMMA JoinedInAnyOrder ==
  ASSUME NEW S, NEW a \in Seq(S), NEW b \in Seq(S), NEW c \in Seq(S)
  PROVE  Joined(Joined(a, b), c) = Joined(a, Joined(b, c))
BY DEF Joined

USE ListenerAssumption

(***************************************************************************)
(* The first free slot and the first who waits exist.                       *)
(***************************************************************************)
Below == {ss \in Nat \X Nat : ss[1] < ss[2]}

LEMMA MinIsMember ==
  ASSUME NEW S \in SUBSET Nat, S # {}
  PROVE  Min(S) \in S
<1>1. OpToRel(<, Nat) = Below
  BY Zenon DEF OpToRel, Below
<1>2. PICK x \in S : \A y \in S : ~(<<y, x>> \in Below)
  BY <1>1, NatLessThanWellFounded, WFMin, Zenon
<1>3. ASSUME NEW y \in S PROVE x <= y
  <2>1. <<y, x>> \in Nat \X Nat /\ x \in Nat /\ y \in Nat
    OBVIOUS
  <2>2. ~(y < x)
    BY <1>2, <2>1 DEF Below
  <2> QED
    BY <2>1, <2>2
<1> QED
  BY <1>3 DEF Min

(***************************************************************************)
(* Sending k bytes of out leaves what the client gets as it was.            *)
(***************************************************************************)
SentInPart(S, got, out, k) ==
  /\ Joined(got, SubSeq(out, 1, k)) \in Seq(S) /\ Unsent(out, k) \in Seq(S)
  /\ Len(Unsent(out, k)) <= Len(out)
  /\ Joined(Joined(got, SubSeq(out, 1, k)), Unsent(out, k)) = Joined(got, out)

LEMMA SentAndUnsent ==
  ASSUME NEW S, NEW got \in Seq(S), NEW out \in Seq(S), NEW k \in 0 .. Len(out)
  PROVE  SentInPart(S, got, out, k)
<1>1. SubSeq(out, 1, k) \in Seq(S)
  OBVIOUS
<1>2. Unsent(out, k) \in Seq(S) /\ Len(Unsent(out, k)) <= Len(out)
  BY DEF Unsent
<1>3. SubSeq(out, 1, k) \o Unsent(out, k) = out
  <2>1. ASSUME Len(out) = 0 PROVE SubSeq(out, 1, k) \o Unsent(out, k) = out
    BY <2>1 DEF Unsent
  <2>2. ASSUME Len(out) # 0 PROVE SubSeq(out, 1, k) \o Unsent(out, k) = SubSeq(out, 1, Len(out))
    <3>1. /\ 1 \in 1 .. Len(out) + 1 /\ k \in 1 - 1 .. Len(out)
          /\ Len(out) \in k .. Len(out)
      OBVIOUS
    <3> QED
      BY <3>1, ConcatAdjacentSubSeq, Zenon DEF Unsent
  <2>3. SubSeq(out, 1, Len(out)) = out
    OBVIOUS
  <2> QED
    BY <2>1, <2>2, <2>3
<1>4. Joined(got, SubSeq(out, 1, k)) \in Seq(S)
  BY <1>1, ConcatProperties, Zenon DEF Joined
<1>5. Joined(Joined(got, SubSeq(out, 1, k)), Unsent(out, k)) = Joined(got, out)
  <2> DEFINE a == SubSeq(out, 1, k)
             b == Unsent(out, k)
  <2>1. a \in Seq(S) /\ b \in Seq(S)
    BY <1>1, <1>2
  <2>2. Joined(a, b) = out
    BY <1>3 DEF Joined
  <2> HIDE DEF a, b
  <2>3. Joined(Joined(got, a), b) = Joined(got, Joined(a, b))
    BY <2>1, JoinedInAnyOrder
  <2>4. Joined(Joined(got, a), b) = Joined(got, out)
    BY <2>2, <2>3, Zenon
  <2> QED
    BY <2>4, Zenon DEF a, b
<1> QED
  BY <1>2, <1>4, <1>5, Zenon DEF SentInPart

(***************************************************************************)
(* Whole messages.                                                          *)
(***************************************************************************)
Intact(s, since) ==
  \A p \in 1 .. Len(s) :
    /\ s[p][2] >= since[s[p][1]]
    /\ s[p][3] = ((p - 1) % Size) + 1
    /\ IF s[p][3] = 1
       THEN \A q \in 1 .. p - 1 : s[q][1] = s[p][1] => s[q][2] < s[p][2]
       ELSE s[p][1] = s[p - 1][1] /\ s[p][2] = s[p - 1][2]

\* The messages of a sender go up to number m, or are all before it.
UpTo(s, z, m) == \A p \in 1 .. Len(s) : s[p][1] = z => s[p][2] <= m
Before(s, z, m) == \A p \in 1 .. Len(s) : s[p][1] = z => s[p][2] < m

LEMMA ToSetOf ==
  ASSUME NEW S, NEW s \in Seq(S)
  PROVE  \A e : e \in ToSet(s) <=> \E p \in 1 .. Len(s) : s[p] = e
BY DEF ToSet

LEMMA BytesOfMessage ==
  ASSUME NEW z \in Senders, NEW m \in Nat
  PROVE  /\ Bytes(z, m) \in Seq(AllBytes) /\ Len(Bytes(z, m)) = Size
         /\ \A k \in 1 .. Size : Bytes(z, m)[k] = <<z, m, k>>
BY DEF Bytes, AllBytes

(***************************************************************************)
(* A message that is later than all there are of its sender can be added.   *)
(***************************************************************************)
Added(s, t, z, m) ==
  /\ \A y, n : UpTo(s, y, n) /\ (y = z => m <= n) => UpTo(t, y, n)
  /\ \A y, n : y # z /\ Before(s, y, n) => Before(t, y, n)
  /\ <<z, m, 1>> \in ToSet(t)
  /\ ToSet(s) \subseteq ToSet(t)

LEMMA IntactWithMessage ==
  ASSUME NEW s \in Seq(AllBytes), NEW since, NEW z \in Senders, NEW m \in Nat,
         Intact(s, since), Len(s) % Size = 0, since[z] <= m, Before(s, z, m)
  PROVE  /\ Intact(s \o Bytes(z, m), since)
         /\ Len(s \o Bytes(z, m)) % Size = 0
         /\ Added(s, s \o Bytes(z, m), z, m)
<1> DEFINE t == s \o Bytes(z, m)
           n == Len(s)
<1>0. n \in Nat /\ Size \in Nat \ {0} /\ m \in Nat
  OBVIOUS
<1>1. /\ t \in Seq(AllBytes) /\ Len(t) = n + Size
      /\ \A p \in 1 .. n : t[p] = s[p]
      /\ \A k \in 1 .. Size : t[n + k] = <<z, m, k>>
  <2>1. /\ t \in Seq(AllBytes) /\ Len(t) = Len(s) + Len(Bytes(z, m))
        /\ \A i \in 1 .. Len(s) + Len(Bytes(z, m)) :
             t[i] = IF i <= Len(s) THEN s[i] ELSE Bytes(z, m)[i - Len(s)]
    BY BytesOfMessage, ConcatProperties, Zenon
  <2>2. \A k \in 1 .. Size : t[n + k] = Bytes(z, m)[k]
    <3> SUFFICES ASSUME NEW k \in 1 .. Size PROVE t[n + k] = Bytes(z, m)[k]
      OBVIOUS
    <3> HIDE DEF t
    <3>1. n + k \in 1 .. Len(s) + Len(Bytes(z, m)) /\ ~(n + k <= Len(s)) /\ n + k - Len(s) = k
      BY BytesOfMessage
    <3>2. t[n + k] = IF n + k <= Len(s) THEN s[n + k] ELSE Bytes(z, m)[n + k - Len(s)]
      BY <2>1, <3>1
    <3> QED
      BY <3>1, <3>2
  <2> HIDE DEF t
  <2>3. \A p \in 1 .. n : p \in 1 .. Len(s) + Len(Bytes(z, m)) /\ p <= Len(s)
    BY BytesOfMessage
  <2> QED
    BY <2>1, <2>2, <2>3, BytesOfMessage
<1> HIDE DEF t
<1>2. PICK d \in Nat : n = Size * d
  <2>1. n = Size * (n \div Size) + (n % Size) /\ n \div Size \in Nat
    BY <1>0
  <2> QED
    BY <2>1
<1>a. n = Len(s)
  OBVIOUS
<1> HIDE DEF n
<1>3. \A k \in 0 .. Size - 1 : (n + k) % Size = k
  <2>1. \A k \in 0 .. Size - 1 : (Size * d + k) % Size = k
    BY <1>0
  <2> QED
    BY <1>2, <2>1
<1>4. Len(t) % Size = 0
  <2>1. (Size * (d + 1)) % Size = 0
    BY <1>0
  <2>2. Size * (d + 1) = n + Size
    BY <1>0, <1>2
  <2> QED
    BY <1>1, <2>1, <2>2
<1>5. \A p \in 1 .. Len(t) : p \in 1 .. n \/ \E k \in 1 .. Size : p = n + k
  <2> SUFFICES ASSUME NEW p \in 1 .. Len(t), p > n
               PROVE  p - n \in 1 .. Size /\ p = n + (p - n)
    BY <1>0
  <2> QED
    BY <1>0, <1>1
<1>6. Intact(t, since)
  <2> DEFINE InPlace(p) ==
               /\ t[p][2] >= since[t[p][1]]
               /\ t[p][3] = ((p - 1) % Size) + 1
               /\ IF t[p][3] = 1
                  THEN \A q \in 1 .. p - 1 : t[q][1] = t[p][1] => t[q][2] < t[p][2]
                  ELSE t[p][1] = t[p - 1][1] /\ t[p][2] = t[p - 1][2]
  <2>1. ASSUME NEW p \in 1 .. n PROVE InPlace(p)
    <3>1. /\ s[p][2] >= since[s[p][1]]
          /\ s[p][3] = ((p - 1) % Size) + 1
          /\ IF s[p][3] = 1
             THEN \A q \in 1 .. p - 1 : s[q][1] = s[p][1] => s[q][2] < s[p][2]
             ELSE s[p][1] = s[p - 1][1] /\ s[p][2] = s[p - 1][2]
      BY <1>a, Zenon DEF Intact
    <3>2. t[p] = s[p] /\ \A q \in 1 .. p - 1 : t[q] = s[q]
      BY <1>0, <1>1
    <3>3. s[p][3] # 1 => p - 1 \in 1 .. p - 1
      <4>1. p = 1 => s[p][3] = 1
        <5>1. 0 \in 0 .. Size - 1 /\ n + 0 = n
          BY <1>0
        <5>2. 0 % Size = 0
          BY <1>0
        <5> QED
          BY <3>1, <5>2
      <4> QED
        BY <1>0, <4>1
    <3> QED
      BY <3>1, <3>2, <3>3, Zenon
  <2>2. ASSUME NEW k \in 1 .. Size PROVE InPlace(n + k)
    <3>1. t[n + k][1] = z /\ t[n + k][2] = m /\ t[n + k][3] = k
      BY <1>1
    <3>2. ((n + k) - 1) % Size = k - 1
      <4>1. k - 1 \in 0 .. Size - 1 /\ n + (k - 1) = (n + k) - 1
        BY <1>0
      <4> QED
        BY <1>3, <4>1
    <3>3. ASSUME k = 1, NEW q \in 1 .. (n + k) - 1, t[q][1] = z PROVE t[q][2] < m
      <4>1. q \in 1 .. n
        BY <1>0, <3>3
      <4>2. s[q][1] = z /\ t[q] = s[q] /\ q \in 1 .. Len(s)
        BY <1>1, <1>a, <3>3, <4>1
      <4> QED
        BY <4>2, Zenon DEF Before
    <3>4. k # 1 => t[(n + k) - 1][1] = z /\ t[(n + k) - 1][2] = m
      <4>1. k # 1 => k - 1 \in 1 .. Size /\ n + (k - 1) = (n + k) - 1
        BY <1>0
      <4> QED
        BY <1>1, <4>1
    <3>5. m >= since[z] /\ k = (((n + k) - 1) % Size) + 1
      BY <1>0, <3>2
    <3> QED
      BY <3>1, <3>3, <3>4, <3>5, Zenon
  <2>3. ASSUME NEW p \in 1 .. Len(t) PROVE InPlace(p)
    <3> HIDE DEF InPlace
    <3> QED
      BY <1>5, <2>1, <2>2, Zenon
  <2> QED
    BY <2>3, Zenon DEF Intact
<1>7. ASSUME NEW p \in 1 .. Len(t)
      PROVE  (p \in 1 .. Len(s) /\ t[p] = s[p]) \/ (t[p][1] = z /\ t[p][2] = m)
  <2>1. CASE p \in 1 .. n
    BY <1>1, <1>a, <2>1, Zenon
  <2>2. CASE \E k \in 1 .. Size : p = n + k
    <3>1. PICK k \in 1 .. Size : t[p] = <<z, m, k>>
      BY <1>1, <2>2, Zenon
    <3> QED
      BY <3>1
  <2> QED
    BY <1>5, <2>1, <2>2, Zenon
<1>8. ASSUME NEW y, NEW l, UpTo(s, y, l), y = z => m <= l PROVE UpTo(t, y, l)
  BY <1>7, <1>8, Zenon DEF UpTo
<1>9. ASSUME NEW y, NEW l, y # z, Before(s, y, l) PROVE Before(t, y, l)
  BY <1>7, <1>9, Zenon DEF Before
<1>10. \A e : e \in ToSet(t) <=> \E p \in 1 .. Len(t) : t[p] = e
  BY <1>1, ToSetOf
<1>11. <<z, m, 1>> \in ToSet(t)
  <2>1. 1 \in 1 .. Size /\ n + 1 \in 1 .. Len(t)
    BY <1>0, <1>1
  <2>2. t[n + 1] = <<z, m, 1>>
    BY <1>1, <2>1
  <2> QED
    BY <1>10, <2>1, <2>2, Zenon
<1>12. ToSet(s) \subseteq ToSet(t)
  <2>1. \A p \in 1 .. n : p \in 1 .. Len(t)
    BY <1>0, <1>1
  <2>2. \A e : e \in ToSet(s) <=> \E p \in 1 .. n : s[p] = e
    BY <1>a, ToSetOf
  <2> QED
    BY <1>1, <1>10, <2>1, <2>2, Zenon
<1>13. Added(s, t, z, m)
  BY <1>8, <1>9, <1>11, <1>12, Zenon DEF Added
<1> QED
  BY <1>4, <1>6, <1>13, Zenon DEF t

-----------------------------------------------------------------------------
(* What a slot's client has received and what waits for it.                  *)
StreamAt(i) == client[slot[i].sock].got \o slot[i].out

(* An open client is in one slot, and who is not open in none.               *)
SlotsAndClients ==
  /\ \A i, j \in Slots : IsConnected(i) /\ slot[i].sock = slot[j].sock => i = j
  /\ \A i \in Slots : IsConnected(i) => client[slot[i].sock].state = "open"
  /\ \A i \in Slots : ~IsConnected(i) => slot[i].out = << >>
  /\ \A c \in Clients : client[c].state = "open" => \E i \in Slots : slot[i].sock = c
  /\ \A c \in Clients : client[c].state # "open" => client[c].got = << >>
  /\ \A c \in Clients, z \in Senders : client[c].since[z] <= sender[z].m

(* Whole messages, none of them later than its sender's last broadcast; the  *)
(* slots that a broadcast has still to visit have nothing of it.             *)
StreamsWhole ==
  \A i \in Slots : IsConnected(i) =>
    /\ Intact(StreamAt(i), client[slot[i].sock].since)
    /\ Len(StreamAt(i)) % Size = 0
    /\ \A z \in Senders :
         /\ UpTo(StreamAt(i), z, sender[z].m)
         /\ sender[z].pc # "idle" /\ i >= sender[z].i => Before(StreamAt(i), z, sender[z].m)

(* Who was due a message has it or has gone: for good, as nobody calls twice. *)
Due(z, m, cs, is) ==
  \A c \in cs :
    /\ client[c].state \in {"open", "closed"}
    /\ \A i \in is : slot[i].sock = c => <<z, m, 1>> \in ToSet(StreamAt(i))

BroadcastsReach ==
  /\ \A r \in reached : Due(r.by, r.m, r.due, Slots)
  /\ \A z \in Senders : sender[z].pc # "idle" =>
       Due(z, sender[z].m, sender[z].present, 1 .. sender[z].i - 1)

ListenerInv == TypeOK /\ SlotsAndClients /\ StreamsWhole /\ BroadcastsReach

LEMMA InitialListener == Init => ListenerInv
<1> SUFFICES ASSUME Init PROVE ListenerInv
  OBVIOUS
<1> USE DEF Init, NotOpen, FreeSlot
<1>1. TypeOK
  <2>1. << >> \in Seq(AllBytes) /\ Len(<< >>) <= Limit /\ 1 \in Slots
    BY DEF Slots
  <2>2. client \in [Clients -> Caller]
    BY <2>1 DEF Caller
  <2>3. slot \in [Slots -> Connection] /\ \A i \in Slots : Len(slot[i].out) <= Limit
    BY <2>1 DEF Connection
  <2>4. server \in [pc : DOMAIN Phase, i : Slots]
    BY <2>1 DEF Phase
  <2>5. sender \in [Senders -> Broadcast]
    BY <2>1 DEF Idle, Broadcast
  <2> QED
    BY <2>2, <2>3, <2>4, <2>5 DEF TypeOK
<1>2. SlotsAndClients
  BY DEF SlotsAndClients, IsConnected, Idle
<1>3. StreamsWhole
  BY DEF StreamsWhole, IsConnected
<1>4. BroadcastsReach
  BY DEF BroadcastsReach, Idle
<1> QED
  BY <1>1, <1>2, <1>3, <1>4 DEF ListenerInv

(***************************************************************************)
(* What the operations on slots leave: every stream is as before, or it     *)
(* is the empty one of a caller who was not accepted before.                *)
(***************************************************************************)
OldOrNew ==
  /\ \A i \in Slots : IsConnected(i)' =>
       \/ /\ slot'[i].sock = slot[i].sock
          /\ StreamAt(i)' = StreamAt(i)
          /\ client'[slot[i].sock].since = client[slot[i].sock].since
       \/ /\ client[slot'[i].sock].state \notin {"open", "closed"}
          /\ StreamAt(i)' = << >>
  /\ \A c \in Clients :
       client[c].state \in {"open", "closed"} => client'[c].state \in {"open", "closed"}

SlotTypes ==
  /\ client' \in [Clients -> Caller] /\ slot' \in [Slots -> Connection]
  /\ \A i \in Slots : Len(slot'[i].out) <= Limit

\* No broadcast begins; those there are stay where they are or end.
SameNumbers == \A z \in Senders : sender'[z].m = sender[z].m

SendersKept ==
  \A z \in Senders :
    \/ sender'[z].pc = "idle"
    \/ /\ sender[z].pc # "idle"
       /\ sender'[z].i = sender[z].i /\ sender'[z].present = sender[z].present

LEMMA StreamsKept ==
  ASSUME TypeOK, StreamsWhole, BroadcastsReach, OldOrNew,
         SameNumbers, SendersKept, reached' = reached
  PROVE  StreamsWhole' /\ BroadcastsReach'
<1>1. StreamsWhole'
  <2> SUFFICES ASSUME NEW i \in Slots, IsConnected(i)'
               PROVE  /\ Intact(StreamAt(i)', client'[slot'[i].sock].since)
                      /\ Len(StreamAt(i)') % Size = 0
                      /\ \A z \in Senders :
                           /\ UpTo(StreamAt(i)', z, sender'[z].m)
                           /\ sender'[z].pc # "idle" /\ i >= sender'[z].i
                                => Before(StreamAt(i)', z, sender'[z].m)
    BY Zenon DEF StreamsWhole, Intact, UpTo, Before
  <2>1. CASE StreamAt(i)' = << >>
    <3>1. Len(<< >>) = 0 /\ 0 % Size = 0 /\ 1 .. 0 = {}
      OBVIOUS
    <3> QED
      BY <2>1, <3>1, Zenon DEF Intact, UpTo, Before
  <2>2. CASE /\ slot'[i].sock = slot[i].sock
             /\ StreamAt(i)' = StreamAt(i)
             /\ client'[slot[i].sock].since = client[slot[i].sock].since
    <3>1. IsConnected(i)
      BY <2>2, Zenon DEF IsConnected
    <3>2. ASSUME NEW z \in Senders
          PROVE  /\ UpTo(StreamAt(i)', z, sender'[z].m)
                 /\ sender'[z].pc # "idle" /\ i >= sender'[z].i
                      => Before(StreamAt(i)', z, sender'[z].m)
      <4>1. /\ UpTo(StreamAt(i), z, sender[z].m)
            /\ sender[z].pc # "idle" /\ i >= sender[z].i
                 => Before(StreamAt(i), z, sender[z].m)
        BY <3>1, Zenon DEF StreamsWhole
      <4>2. sender'[z].m = sender[z].m
        BY Zenon DEF SameNumbers
      <4>3. sender'[z].pc # "idle" => sender[z].pc # "idle" /\ sender'[z].i = sender[z].i
        BY Zenon DEF SendersKept
      <4> QED
        BY <2>2, <4>1, <4>2, <4>3, Zenon
    <3> QED
      BY <2>2, <3>1, <3>2, Zenon DEF StreamsWhole
  <2> QED
    BY <2>1, <2>2, Zenon DEF OldOrNew
<1>2. ASSUME NEW z, NEW m, NEW cs \in SUBSET Clients, NEW is \in SUBSET Slots, Due(z, m, cs, is)
      PROVE  \A c \in cs :
               /\ client'[c].state \in {"open", "closed"}
               /\ \A i \in is : slot'[i].sock = c => <<z, m, 1>> \in ToSet(StreamAt(i)')
  <2> SUFFICES ASSUME NEW c \in cs
               PROVE  /\ client'[c].state \in {"open", "closed"}
                      /\ \A i \in is : slot'[i].sock = c => <<z, m, 1>> \in ToSet(StreamAt(i)')
    BY Zenon
  <2>1. client'[c].state \in {"open", "closed"} /\ client[c].state \in {"open", "closed"}
    BY <1>2, Zenon DEF Due, OldOrNew
  <2>2. ASSUME NEW i \in is, slot'[i].sock = c
        PROVE  <<z, m, 1>> \in ToSet(StreamAt(i)')
    <3>1. i \in Slots /\ IsConnected(i)'
      BY <2>2 DEF IsConnected, NoClient, Clients
    <3>2. slot'[i].sock = slot[i].sock /\ StreamAt(i)' = StreamAt(i)
      BY <2>1, <2>2, <3>1, Zenon DEF OldOrNew
    <3> QED
      BY <1>2, <2>2, <3>2, Zenon DEF Due
  <2> QED
    BY <2>1, <2>2
<1>3. \A r \in reached : Due(r.by, r.m, r.due, Slots)'
  <2> SUFFICES ASSUME NEW r \in reached PROVE Due(r.by, r.m, r.due, Slots)'
    OBVIOUS
  <2>1. r.due \in SUBSET Clients /\ Due(r.by, r.m, r.due, Slots)
    BY DEF TypeOK, BroadcastsReach
  <2> QED
    BY <1>2, <2>1, Zenon DEF Due
<1>4. ASSUME NEW z \in Senders, sender'[z].pc # "idle"
      PROVE  Due(z, sender[z].m, sender[z].present, 1 .. sender[z].i - 1)'
  <2>1. /\ sender[z].present \in SUBSET Clients /\ 1 .. sender[z].i - 1 \in SUBSET Slots
    BY DEF TypeOK, Broadcast, Slots
  <2>2. /\ sender[z].pc # "idle" /\ sender'[z].i = sender[z].i
        /\ sender'[z].present = sender[z].present /\ sender'[z].m = sender[z].m
    BY <1>4, Zenon DEF SendersKept, SameNumbers
  <2>3. Due(z, sender[z].m, sender[z].present, 1 .. sender[z].i - 1)
    BY <2>2, Zenon DEF BroadcastsReach
  <2>4. \A c \in sender[z].present :
          /\ client'[c].state \in {"open", "closed"}
          /\ \A i \in 1 .. sender[z].i - 1 :
               slot'[i].sock = c => <<z, sender[z].m, 1>> \in ToSet(StreamAt(i)')
    BY <1>2, <2>1, <2>3, Zenon
  <2> QED
    BY <2>2, <2>4, Zenon DEF Due
<1> QED
  BY <1>1, <1>3, <1>4, Zenon DEF BroadcastsReach

\* The numbers of the broadcasts only grow.
Numbers == \A z \in Senders : sender'[z].m \in Nat /\ sender[z].m <= sender'[z].m

LEMMA NumbersGoOn == TypeOK /\ SameNumbers => Numbers
BY DEF TypeOK, Broadcast, SameNumbers, Numbers

LEMMA SlotsUnchanged ==
  ASSUME TypeOK, SlotsAndClients, Unchanged, Numbers
  PROVE  SlotTypes /\ SlotsAndClients' /\ OldOrNew
<1>1. SlotTypes
  BY DEF Unchanged, TypeOK, SlotTypes
<1>2. SlotsAndClients'
  <2>1. ASSUME NEW c \in Clients, NEW z \in Senders
        PROVE  client[c].since[z] <= sender'[z].m
    <3>1. client[c].since[z] \in Nat /\ sender[z].m \in Nat
      BY DEF TypeOK, Caller, Broadcast
    <3>2. client[c].since[z] <= sender[z].m
      BY Zenon DEF SlotsAndClients
    <3>3. sender'[z].m \in Nat /\ sender[z].m <= sender'[z].m
      BY Zenon DEF Numbers
    <3> QED
      BY <3>1, <3>2, <3>3
  <2> QED
    BY <2>1, Zenon DEF SlotsAndClients, Unchanged, IsConnected
<1>3. OldOrNew
  BY Zenon DEF OldOrNew, Unchanged, StreamAt, IsConnected
<1> QED
  BY <1>1, <1>2, <1>3

LEMMA SlotClosed ==
  ASSUME NEW i \in Slots, TypeOK, SlotsAndClients, CloseUnsafe(i), SameNumbers
  PROVE  SlotTypes /\ SlotsAndClients' /\ OldOrNew
<1>1. << >> \in Seq(AllBytes) /\ Len(<< >>) = 0
  OBVIOUS
<1>2. NotOpen \in Caller /\ FreeSlot \in Connection
  BY <1>1 DEF NotOpen, FreeSlot, Caller, Connection
<1>3. client \in [Clients -> Caller] /\ slot \in [Slots -> Connection]
  BY DEF TypeOK
<1>4. \A j \in Slots : slot'[j] = IF j = i THEN FreeSlot ELSE slot[j]
  BY <1>3 DEF CloseUnsafe
<1>5. \A c \in Clients : client'[c] = IF c = slot[i].sock THEN NotOpen ELSE client[c]
  BY DEF CloseUnsafe
<1>6. SlotTypes
  <2>1. client' \in [Clients -> Caller]
    BY <1>2, <1>3 DEF CloseUnsafe
  <2>2. slot' \in [Slots -> Connection]
    BY <1>2, <1>3 DEF CloseUnsafe
  <2>3. ASSUME NEW j \in Slots PROVE Len(slot'[j].out) <= Limit
    BY <1>1, <1>4 DEF TypeOK, FreeSlot
  <2> QED
    BY <2>1, <2>2, <2>3 DEF SlotTypes
<1>7. ASSUME NEW j \in Slots, slot'[j].sock # NoClient
      PROVE  /\ j # i /\ slot'[j] = slot[j] /\ IsConnected(j) /\ slot[j].sock \in Clients
             /\ client'[slot[j].sock] = client[slot[j].sock]
  <2>1. j # i /\ slot'[j] = slot[j] /\ IsConnected(j)
    BY <1>4, <1>7 DEF FreeSlot, IsConnected
  <2>2. slot[j].sock # slot[i].sock
    BY <2>1, Zenon DEF SlotsAndClients
  <2>3. slot[j].sock \in Clients
    BY <1>3, <2>1 DEF Connection, IsConnected
  <2> QED
    BY <1>5, <2>1, <2>2, <2>3, Zenon
<1>8. ASSUME NEW c \in Clients
      PROVE  \/ client'[c] = client[c] /\ c # slot[i].sock
             \/ client'[c] = NotOpen
  BY <1>5, Zenon
<1>9. SlotsAndClients'
  <2>1. \A j, k \in Slots : IsConnected(j)' /\ slot'[j].sock = slot'[k].sock => j = k
    <3> SUFFICES ASSUME NEW j \in Slots, NEW k \in Slots, IsConnected(j)',
                        slot'[j].sock = slot'[k].sock
                 PROVE  j = k
      BY Zenon
    <3>1. slot'[j].sock # NoClient /\ slot'[k].sock # NoClient
      BY DEF IsConnected
    <3>2. slot'[j] = slot[j] /\ slot'[k] = slot[k] /\ IsConnected(j)
      BY <1>7, <3>1, Zenon
    <3>3. slot[j].sock = slot[k].sock
      BY <3>2, Zenon
    <3> QED
      BY <3>2, <3>3, Zenon DEF SlotsAndClients
  <2>2. ASSUME NEW j \in Slots, IsConnected(j)'
        PROVE  client'[slot'[j].sock].state = "open"
    <3>1. /\ slot'[j] = slot[j] /\ IsConnected(j)
          /\ client'[slot[j].sock] = client[slot[j].sock]
      BY <1>7, <2>2, Zenon DEF IsConnected
    <3>2. client[slot[j].sock].state = "open"
      BY <3>1, Zenon DEF SlotsAndClients
    <3> QED
      BY <3>1, <3>2, Zenon
  <2>3. \A j \in Slots : ~IsConnected(j)' => slot'[j].out = << >>
    <3> SUFFICES ASSUME NEW j \in Slots, ~IsConnected(j)' PROVE slot'[j].out = << >>
      BY Zenon
    <3>1. CASE j = i
      BY <1>4, <3>1 DEF FreeSlot
    <3>2. CASE j # i
      BY <1>4, <3>2, Zenon DEF SlotsAndClients, IsConnected
    <3> QED
      BY <3>1, <3>2
  <2>4. ASSUME NEW c \in Clients, client'[c].state = "open"
        PROVE  \E j \in Slots : slot'[j].sock = c
    <3>1. client'[c] = client[c] /\ c # slot[i].sock
      BY <1>8, <2>4 DEF NotOpen
    <3>2. PICK j \in Slots : slot[j].sock = c
      BY <2>4, <3>1, Zenon DEF SlotsAndClients
    <3> QED
      BY <1>4, <3>1, <3>2, Zenon
  <2>5. \A c \in Clients : client'[c].state # "open" => client'[c].got = << >>
    BY <1>8 DEF NotOpen, SlotsAndClients
  <2>6. ASSUME NEW c \in Clients, NEW z \in Senders
        PROVE  client'[c].since[z] <= sender'[z].m
    <3>1. NotOpen.since[z] = 0 /\ 0 <= sender[z].m
      BY DEF TypeOK, Broadcast, NotOpen
    <3>2. sender'[z].m = sender[z].m
      BY Zenon DEF SameNumbers
    <3>3. client[c].since[z] <= sender[z].m
      BY Zenon DEF SlotsAndClients
    <3> QED
      BY <1>8, <3>1, <3>2, <3>3, Zenon
  <2> QED
    BY <2>1, <2>2, <2>3, <2>4, <2>5, <2>6, Zenon DEF SlotsAndClients
<1>10. OldOrNew
  <2>1. ASSUME NEW j \in Slots, IsConnected(j)'
        PROVE  /\ slot'[j].sock = slot[j].sock
               /\ StreamAt(j)' = StreamAt(j)
               /\ client'[slot[j].sock].since = client[slot[j].sock].since
    BY <1>7, <2>1, Zenon DEF IsConnected, StreamAt
  <2>2. \A c \in Clients :
          client[c].state \in {"open", "closed"} => client'[c].state \in {"open", "closed"}
    BY <1>8 DEF NotOpen
  <2> QED
    BY <2>1, <2>2, Zenon DEF OldOrNew
<1> QED
  BY <1>6, <1>9, <1>10

LEMMA SlotTaken ==
  ASSUME NEW i \in Slots, NEW a \in Clients, TypeOK, SlotsAndClients, ~IsConnected(i),
         client[a].state = "waiting", Start(i, a), SameNumbers
  PROVE  SlotTypes /\ SlotsAndClients' /\ OldOrNew
<1> DEFINE taken == [sock |-> a, out |-> << >>]
           since == [z \in Senders |-> sender[z].m]
           opened == [client[a] EXCEPT !.state = "open", !.since = since]
<1>1. client \in [Clients -> Caller] /\ slot \in [Slots -> Connection]
  BY DEF TypeOK
<1>2. taken \in Connection /\ Len(<< >>) = 0
  <2>1. << >> \in Seq(AllBytes) /\ Len(<< >>) = 0
    OBVIOUS
  <2> QED
    BY <2>1 DEF Connection
<1>3. /\ opened \in Caller /\ opened.state = "open" /\ opened.got = client[a].got
      /\ opened.since = since
  <2>1. since \in [Senders -> Nat]
    BY DEF TypeOK, Broadcast
  <2> HIDE DEF since
  <2> QED
    BY <1>1, <2>1 DEF Caller
<1>4. /\ slot' = [slot EXCEPT ![i] = taken]
      /\ client' = [client EXCEPT ![a] = opened]
  <2>1. slot' = [slot EXCEPT ![i] = taken]
    <3>1. [FreeSlot EXCEPT !.sock = a] = taken
      BY DEF FreeSlot
    <3> QED
      BY <3>1, Zenon DEF Start
  <2>2. client' = [client EXCEPT ![a] = opened]
    BY <1>1 DEF Start
  <2> QED
    BY <2>1, <2>2
<1> HIDE DEF opened
<1>5. /\ \A j \in Slots : slot'[j] = IF j = i THEN taken ELSE slot[j]
      /\ \A c \in Clients : client'[c] = IF c = a THEN opened ELSE client[c]
  BY <1>1, <1>4, Zenon
<1>6. SlotTypes
  <2>1. client' \in [Clients -> Caller]
    BY <1>1, <1>3, <1>4
  <2>2. slot' \in [Slots -> Connection]
    BY <1>1, <1>2, <1>4
  <2>3. ASSUME NEW j \in Slots PROVE Len(slot'[j].out) <= Limit
    BY <1>2, <1>5 DEF TypeOK
  <2> QED
    BY <2>1, <2>2, <2>3 DEF SlotTypes
<1>7. client[a].got = << >>
  BY DEF SlotsAndClients
<1>8. \A j \in Slots : slot[j].sock # a
  BY DEF SlotsAndClients, IsConnected, Clients, NoClient
<1>9. ASSUME NEW j \in Slots, j # i, slot'[j].sock # NoClient
      PROVE  /\ slot'[j] = slot[j] /\ IsConnected(j) /\ slot[j].sock # a
             /\ client'[slot[j].sock] = client[slot[j].sock]
  <2>1. slot'[j] = slot[j] /\ IsConnected(j) /\ slot[j].sock # a
    BY <1>5, <1>8, <1>9, Zenon DEF IsConnected
  <2>2. slot[j].sock \in Clients
    BY <1>1, <2>1 DEF Connection, IsConnected
  <2> QED
    BY <1>5, <2>1, <2>2, Zenon
<1>10. SlotsAndClients'
  <2>1. \A j, k \in Slots : IsConnected(j)' /\ slot'[j].sock = slot'[k].sock => j = k
    <3> SUFFICES ASSUME NEW j \in Slots, NEW k \in Slots, IsConnected(j)',
                        slot'[j].sock = slot'[k].sock
                 PROVE  j = k
      BY Zenon
    <3>1. slot'[j].sock # NoClient /\ slot'[k].sock # NoClient
      BY DEF IsConnected
    <3>2. slot'[i].sock = a
      BY <1>5
    <3>3. CASE j = i \/ k = i
      BY <1>9, <3>1, <3>2, <3>3, Zenon
    <3>4. CASE j # i /\ k # i
      <4>1. slot'[j] = slot[j] /\ slot'[k] = slot[k] /\ IsConnected(j)
        BY <1>9, <3>1, <3>4, Zenon
      <4>2. slot[j].sock = slot[k].sock
        BY <4>1, Zenon
      <4> QED
        BY <4>1, <4>2, Zenon DEF SlotsAndClients
    <3> QED
      BY <3>3, <3>4, Zenon
  <2>2. ASSUME NEW j \in Slots, IsConnected(j)'
        PROVE  client'[slot'[j].sock].state = "open"
    <3>1. CASE j = i
      BY <1>3, <1>5, <3>1
    <3>2. CASE j # i
      <4>1. /\ slot'[j] = slot[j] /\ IsConnected(j)
            /\ client'[slot[j].sock] = client[slot[j].sock]
        BY <1>9, <2>2, <3>2, Zenon DEF IsConnected
      <4>2. client[slot[j].sock].state = "open"
        BY <4>1, Zenon DEF SlotsAndClients
      <4> QED
        BY <4>1, <4>2, Zenon
    <3> QED
      BY <3>1, <3>2, Zenon
  <2>3. \A j \in Slots : ~IsConnected(j)' => slot'[j].out = << >>
    <3> SUFFICES ASSUME NEW j \in Slots, ~IsConnected(j)' PROVE slot'[j].out = << >>
      BY Zenon
    <3>1. CASE j = i
      BY <1>5, <3>1
    <3>2. CASE j # i
      BY <1>5, <3>2, Zenon DEF SlotsAndClients, IsConnected
    <3> QED
      BY <3>1, <3>2
  <2>4. ASSUME NEW c \in Clients, client'[c].state = "open"
        PROVE  \E j \in Slots : slot'[j].sock = c
    <3>1. CASE c = a
      BY <1>5, <3>1
    <3>2. CASE c # a
      <4>1. PICK j \in Slots : slot[j].sock = c
        BY <1>5, <2>4, <3>2, Zenon DEF SlotsAndClients
      <4>2. j # i
        BY <4>1 DEF IsConnected, Clients, NoClient
      <4> QED
        BY <1>5, <4>1, <4>2, Zenon
    <3> QED
      BY <3>1, <3>2, Zenon
  <2>5. \A c \in Clients : client'[c].state # "open" => client'[c].got = << >>
    BY <1>3, <1>5 DEF SlotsAndClients
  <2>6. ASSUME NEW c \in Clients, NEW z \in Senders
        PROVE  client'[c].since[z] <= sender'[z].m
    <3>1. opened.since[z] = sender[z].m /\ sender[z].m <= sender[z].m
      BY <1>3 DEF TypeOK, Broadcast
    <3>2. sender'[z].m = sender[z].m
      BY Zenon DEF SameNumbers
    <3>3. client[c].since[z] <= sender[z].m
      BY Zenon DEF SlotsAndClients
    <3> QED
      BY <1>5, <3>1, <3>2, <3>3, Zenon
  <2> QED
    BY <2>1, <2>2, <2>3, <2>4, <2>5, <2>6, Zenon DEF SlotsAndClients
<1>11. OldOrNew
  <2>1. ASSUME NEW j \in Slots, IsConnected(j)', j # i
        PROVE  /\ slot'[j].sock = slot[j].sock
               /\ StreamAt(j)' = StreamAt(j)
               /\ client'[slot[j].sock].since = client[slot[j].sock].since
    BY <1>9, <2>1, Zenon DEF IsConnected, StreamAt
  <2>2. client[slot'[i].sock].state \notin {"open", "closed"} /\ StreamAt(i)' = << >>
    <3>1. slot'[i].sock = a /\ slot'[i].out = << >> /\ client'[a].got = << >>
      BY <1>3, <1>5, <1>7
    <3>2. << >> \o << >> = << >>
      OBVIOUS
    <3> QED
      BY <3>1, <3>2 DEF StreamAt
  <2>3. \A c \in Clients :
          client[c].state \in {"open", "closed"} => client'[c].state \in {"open", "closed"}
    BY <1>3, <1>5
  <2> QED
    BY <2>1, <2>2, <2>3, Zenon DEF OldOrNew
<1> QED
  BY <1>6, <1>10, <1>11

LEMMA SlotWritten ==
  ASSUME NEW i \in Slots, TypeOK, SlotsAndClients, SendBuffer(i), SameNumbers
  PROVE  SlotTypes /\ SlotsAndClients' /\ OldOrNew
<1>0. client \in [Clients -> Caller] /\ slot \in [Slots -> Connection]
  BY DEF TypeOK
<1>1. ASSUME IsConnected(i), NEW k \in 0 .. Len(slot[i].out),
             client' = [client EXCEPT ![slot[i].sock].got = @ \o SubSeq(slot[i].out, 1, k)],
             slot' = [slot EXCEPT ![i].out = Unsent(@, k)]
      PROVE  SlotTypes /\ SlotsAndClients' /\ OldOrNew
  <2> DEFINE c == slot[i].sock
             got == client[c].got \o SubSeq(slot[i].out, 1, k)
             out == Unsent(slot[i].out, k)
  <2>1. c \in Clients /\ client[c] \in Caller /\ client[c].state = "open" /\ slot[i] \in Connection
    BY <1>0, <1>1 DEF Connection, IsConnected, SlotsAndClients
  <2>2. /\ got \in Seq(AllBytes) /\ out \in Seq(AllBytes) /\ Len(out) <= Len(slot[i].out)
        /\ got \o out = StreamAt(i)
    <3>1. client[c].got \in Seq(AllBytes) /\ slot[i].out \in Seq(AllBytes)
      BY <2>1 DEF Caller, Connection
    <3>2. SentInPart(AllBytes, client[c].got, slot[i].out, k)
      BY <3>1, SentAndUnsent, Zenon
    <3> QED
      BY <3>2, Zenon DEF SentInPart, Joined, StreamAt
  <2>3. /\ client' = [client EXCEPT ![c].got = got]
        /\ slot' = [slot EXCEPT ![i].out = out]
    BY <1>0, <1>1, <2>1
  <2> HIDE DEF c, got, out
  <2>4. /\ \A d \in Clients :
             client'[d] = IF d = c THEN [client[c] EXCEPT !.got = got] ELSE client[d]
        /\ \A j \in Slots : slot'[j] = IF j = i THEN [slot[i] EXCEPT !.out = out] ELSE slot[j]
    BY <1>0, <2>1, <2>3
  <2>5. \A d \in Clients : /\ client'[d].state = client[d].state
                           /\ client'[d].since = client[d].since
                           /\ client'[d].got = IF d = c THEN got ELSE client[d].got
    <3>1. /\ [client[c] EXCEPT !.got = got].state = client[c].state
          /\ [client[c] EXCEPT !.got = got].since = client[c].since
          /\ [client[c] EXCEPT !.got = got].got = got
      BY <2>1 DEF Caller
    <3> QED
      BY <2>4, <3>1, Zenon
  <2>6. \A j \in Slots : /\ slot'[j].sock = slot[j].sock
                         /\ slot'[j].out = IF j = i THEN out ELSE slot[j].out
    BY <1>0, <2>4 DEF Connection
  <2>7. SlotTypes
    <3>1. client' \in [Clients -> Caller]
      BY <1>0, <2>1, <2>2, <2>3 DEF Caller
    <3>2. slot' \in [Slots -> Connection]
      BY <1>0, <2>2, <2>3 DEF Connection
    <3>3. ASSUME NEW j \in Slots PROVE Len(slot'[j].out) <= Limit
      <4>1. Len(slot[j].out) <= Limit /\ Len(slot[i].out) <= Limit
        BY DEF TypeOK
      <4>2. Len(slot[i].out) \in Int /\ Len(out) \in Int /\ Limit \in Int
        BY <2>1, <2>2 DEF Connection
      <4> QED
        BY <2>2, <2>6, <4>1, <4>2, SMTT(30)
    <3> QED
      BY <3>1, <3>2, <3>3 DEF SlotTypes
  <2>8. c = slot[i].sock
    BY DEF c
  <2>9. SlotsAndClients'
    <3>1. \A j, l \in Slots : IsConnected(j)' /\ slot'[j].sock = slot'[l].sock => j = l
      <4> SUFFICES ASSUME NEW j \in Slots, NEW l \in Slots, IsConnected(j)',
                          slot'[j].sock = slot'[l].sock
                   PROVE  j = l
        BY Zenon
      <4>1. IsConnected(j) /\ slot[j].sock = slot[l].sock
        BY <2>6, Zenon DEF IsConnected
      <4> QED
        BY <4>1, Zenon DEF SlotsAndClients
    <3>2. ASSUME NEW j \in Slots, IsConnected(j)'
          PROVE  client'[slot'[j].sock].state = "open"
      <4>1. slot[j].sock \in Clients /\ IsConnected(j)
        BY <1>0, <2>6, <3>2 DEF Connection, IsConnected
      <4>2. client[slot[j].sock].state = "open"
        BY <4>1, Zenon DEF SlotsAndClients
      <4> QED
        BY <2>5, <2>6, <4>1, <4>2, Zenon
    <3>3. ASSUME NEW j \in Slots, ~IsConnected(j)' PROVE slot'[j].out = << >>
      <4>1. ~IsConnected(j) /\ j # i
        BY <1>1, <2>6, <3>3, Zenon DEF IsConnected
      <4> QED
        BY <2>6, <4>1, Zenon DEF SlotsAndClients
    <3>4. ASSUME NEW d \in Clients, client'[d].state = "open"
          PROVE  \E j \in Slots : slot'[j].sock = d
      <4>1. PICK j \in Slots : slot[j].sock = d
        BY <2>5, <3>4, Zenon DEF SlotsAndClients
      <4> QED
        BY <2>6, <4>1, Zenon
    <3>5. ASSUME NEW d \in Clients, client'[d].state # "open" PROVE client'[d].got = << >>
      <4>1. d # c /\ client[d].state # "open"
        BY <2>1, <2>5, <3>5, Zenon
      <4> QED
        BY <2>5, <4>1, Zenon DEF SlotsAndClients
    <3>6. \A d \in Clients, z \in Senders : client'[d].since[z] <= sender'[z].m
      BY <2>5, Zenon DEF SlotsAndClients, SameNumbers
    <3> QED
      BY <3>1, <3>2, <3>3, <3>4, <3>5, <3>6, Zenon DEF SlotsAndClients
  <2>10. OldOrNew
    <3>1. ASSUME NEW j \in Slots, IsConnected(j)'
          PROVE  /\ slot'[j].sock = slot[j].sock
                 /\ StreamAt(j)' = StreamAt(j)
                 /\ client'[slot[j].sock].since = client[slot[j].sock].since
      <4>1. slot[j].sock \in Clients /\ IsConnected(j)
        BY <1>0, <2>6, <3>1 DEF Connection, IsConnected
      <4>2. CASE j = i
        <5>1. StreamAt(i)' = got \o out
          BY <2>1, <2>5, <2>6, <2>8, Zenon DEF StreamAt
        <5> QED
          BY <2>2, <2>5, <2>6, <4>1, <4>2, <5>1, Zenon
      <4>3. CASE j # i
        <5>1. slot[j].sock # c
          BY <2>8, <4>1, <4>3, Zenon DEF SlotsAndClients
        <5> QED
          BY <2>5, <2>6, <4>1, <4>3, <5>1, Zenon DEF StreamAt
      <4> QED
        BY <4>2, <4>3, Zenon
    <3>2. \A d \in Clients :
            client[d].state \in {"open", "closed"} => client'[d].state \in {"open", "closed"}
      BY <2>5, Zenon
    <3> QED
      BY <3>1, <3>2, Zenon DEF OldOrNew
  <2> QED
    BY <2>7, <2>9, <2>10
<1>2. CASE CloseUnsafe(i)
  BY <1>2, SlotClosed
<1>3. CASE Unchanged
  BY <1>3, NumbersGoOn, SlotsUnchanged
<1> QED
  BY <1>1, <1>2, <1>3 DEF SendBuffer

(***************************************************************************)
(* What a caller does, and a caller who is refused, disturb no slot.        *)
(***************************************************************************)
LEMMA CallerChanged ==
  ASSUME NEW c \in Clients, NEW new \in Caller, TypeOK, SlotsAndClients,
         client' = [client EXCEPT ![c] = new], slot' = slot, SameNumbers,
         new.got = client[c].got, \A z \in Senders : new.since[z] <= sender[z].m,
         \/ new.state = client[c].state /\ new.since = client[c].since
         \/ client[c].state \notin {"open", "closed"} /\ new.state # "open"
  PROVE  SlotTypes /\ SlotsAndClients' /\ OldOrNew
<1>1. client \in [Clients -> Caller] /\ slot \in [Slots -> Connection]
  BY DEF TypeOK
<1>2. \A d \in Clients : client'[d] = IF d = c THEN new ELSE client[d]
  BY <1>1
<1>3. ASSUME NEW i \in Slots, IsConnected(i)
      PROVE  /\ client'[slot[i].sock].state = "open"
             /\ client'[slot[i].sock].got = client[slot[i].sock].got
             /\ client'[slot[i].sock].since = client[slot[i].sock].since
  <2>1. slot[i].sock \in Clients /\ client[slot[i].sock].state = "open"
    BY <1>1, <1>3 DEF Connection, IsConnected, SlotsAndClients
  <2> QED
    BY <1>2, <2>1
<1>4. SlotTypes
  BY <1>1 DEF SlotTypes, TypeOK
<1>5. SlotsAndClients'
  <2>1. \A i, j \in Slots : IsConnected(i)' /\ slot'[i].sock = slot'[j].sock => i = j
    BY Zenon DEF SlotsAndClients, IsConnected
  <2>2. \A i \in Slots : IsConnected(i)' => client'[slot'[i].sock].state = "open"
    BY <1>3, Zenon DEF IsConnected
  <2>3. \A i \in Slots : ~IsConnected(i)' => slot'[i].out = << >>
    BY Zenon DEF SlotsAndClients, IsConnected
  <2>4. ASSUME NEW d \in Clients, client'[d].state = "open"
        PROVE  \E i \in Slots : slot'[i].sock = d
    <3>1. client[d].state = "open"
      BY <1>2, <2>4
    <3> QED
      BY <3>1, Zenon DEF SlotsAndClients
  <2>5. \A d \in Clients : client'[d].state # "open" => client'[d].got = << >>
    BY <1>2 DEF SlotsAndClients
  <2>6. ASSUME NEW d \in Clients, NEW z \in Senders
        PROVE  client'[d].since[z] <= sender'[z].m
    BY <1>2, Zenon DEF SlotsAndClients, SameNumbers
  <2> QED
    BY <2>1, <2>2, <2>3, <2>4, <2>5, <2>6, Zenon DEF SlotsAndClients
<1>6. OldOrNew
  <2>1. \A i \in Slots : IsConnected(i)' => IsConnected(i)
    BY Zenon DEF IsConnected
  <2>2. \A d \in Clients :
          client[d].state \in {"open", "closed"} => client'[d].state \in {"open", "closed"}
    BY <1>2
  <2> QED
    BY <1>3, <2>1, <2>2, Zenon DEF OldOrNew, StreamAt
<1> QED
  BY <1>4, <1>5, <1>6

LEMMA ServerGoesOn ==
  ASSUME TypeOK, Onward
  PROVE  server' \in [pc : DOMAIN Phase, i : Slots]
<1>1. 1 \in Slots
  BY DEF Slots
<1>2. server \in [pc : {"accept", "read", "write", "clean"}, i : Slots]
  BY DEF TypeOK, Phase
<1>3. Phase[server.pc] \in {"accept", "read", "write", "clean"}
  BY <1>2 DEF Phase
<1>4. server.i < MaxConn => server.i + 1 \in Slots
  BY <1>2 DEF Slots
<1>5. DOMAIN Phase = {"accept", "read", "write", "clean"}
  BY DEF Phase
<1>6. CASE server.pc # "accept" /\ server.i < MaxConn
  BY <1>2, <1>4, <1>5, <1>6 DEF Onward
<1>7. CASE ~(server.pc # "accept" /\ server.i < MaxConn)
  <2>1. server' = [pc |-> Phase[server.pc], i |-> 1]
    BY <1>7, Zenon DEF Onward
  <2> HIDE DEF Phase
  <2> QED
    BY <1>1, <1>3, <1>5, <2>1
<1> QED
  BY <1>6, <1>7

(***************************************************************************)
(* The steps of one sender leave the others where they are.                 *)
(***************************************************************************)
LEMMA SenderChanged ==
  ASSUME TypeOK, NEW z \in Senders, NEW new \in Broadcast, sender' = [sender EXCEPT ![z] = new]
  PROVE  /\ sender' \in [Senders -> Broadcast]
         /\ sender'[z] = new
         /\ \A y \in Senders : y # z => sender'[y] = sender[y]
<1>1. sender \in [Senders -> Broadcast]
  BY DEF TypeOK
<1> QED
  BY <1>1, Zenon

\* What NextSlot does.
WentOn(z) ==
  /\ \A y \in Senders : y # z => sender'[y] = sender[y]
  /\ sender'[z].m = sender[z].m
  /\ \/ /\ sender'[z].pc = "idle" /\ sender[z].i = MaxConn
        /\ reached' = reached \cup {Reached(z)}
     \/ /\ sender'[z].i = sender[z].i + 1 /\ sender'[z].present = sender[z].present
        /\ reached' = reached

Reports == [by : Senders, m : Nat, due : SUBSET Clients]

LEMMA FinishedType ==
  ASSUME TypeOK, NEW z \in Senders
  PROVE  Finished(z) \in Broadcast /\ Finished(z).m = sender[z].m /\ Finished(z).pc = "idle"
<1>1. sender[z].m \in Nat /\ 1 \in Slots /\ {} \in SUBSET Clients
  BY DEF TypeOK, Broadcast, Slots
<1>2. Finished(z) = [pc |-> "idle", i |-> 1, m |-> sender[z].m, present |-> {}]
  BY DEF Finished, Idle
<1> QED
  BY <1>1, <1>2 DEF Broadcast

LEMMA NextSlotTypes ==
  ASSUME TypeOK, NEW z \in Senders, NextSlot(z)
  PROVE  sender' \in [Senders -> Broadcast] /\ reached' \subseteq Reports /\ WentOn(z)
<1>1. /\ sender \in [Senders -> Broadcast] /\ reached \subseteq Reports
      /\ sender[z] \in Broadcast /\ sender[z].i \in Slots
  BY DEF TypeOK, Broadcast, Reports
<1>2. CASE sender[z].i < MaxConn
  <2> DEFINE new == [sender[z] EXCEPT !.pc = "check", !.i = @ + 1]
  <2>1. sender[z].i + 1 \in Slots
    BY <1>1, <1>2 DEF Slots
  <2>2. /\ new \in Broadcast /\ new.i = sender[z].i + 1 /\ new.m = sender[z].m
        /\ new.present = sender[z].present
    BY <1>1, <2>1 DEF Broadcast
  <2>3. sender' = [sender EXCEPT ![z] = new] /\ reached' = reached
    BY <1>1, <1>2 DEF NextSlot
  <2> HIDE DEF new
  <2>4. /\ sender' \in [Senders -> Broadcast] /\ sender'[z] = new
        /\ \A y \in Senders : y # z => sender'[y] = sender[y]
    BY <2>2, <2>3, SenderChanged
  <2> QED
    BY <1>1, <2>2, <2>3, <2>4, Zenon DEF WentOn
<1>3. CASE ~(sender[z].i < MaxConn)
  <2>1. sender[z].i = MaxConn
    BY <1>1, <1>3 DEF Slots
  <2>2. sender' = [sender EXCEPT ![z] = Finished(z)] /\ reached' = reached \cup {Reached(z)}
    BY <1>3 DEF NextSlot
  <2>3. Finished(z) \in Broadcast /\ Finished(z).m = sender[z].m /\ Finished(z).pc = "idle"
    BY FinishedType
  <2>4. Reached(z) \in Reports
    BY <1>1 DEF Reached, Reports, Broadcast
  <2>5. /\ sender' \in [Senders -> Broadcast] /\ sender'[z] = Finished(z)
        /\ \A y \in Senders : y # z => sender'[y] = sender[y]
    BY <2>2, <2>3, SenderChanged
  <2>6. reached' \subseteq Reports
    BY <1>1, <2>2, <2>4
  <2>7. WentOn(z)
    BY <2>1, <2>2, <2>3, <2>5, Zenon DEF WentOn
  <2> QED
    BY <2>5, <2>6, <2>7
<1> QED
  BY <1>2, <1>3

(***************************************************************************)
(* A broadcast goes to the next slot when the slot it leaves is free, or    *)
(* its client has the message.                                              *)
(***************************************************************************)
Visited(z, i) ==
  /\ \A j \in Slots : slot'[j].sock = slot[j].sock /\ (j # i => slot'[j] = slot[j])
  /\ IsConnected(i) =>
       /\ Intact(StreamAt(i)', client[slot[i].sock].since)
       /\ Len(StreamAt(i)') % Size = 0
       /\ \A y \in Senders :
            /\ UpTo(StreamAt(i)', y, sender[y].m)
            /\ y # z /\ sender[y].pc # "idle" /\ i >= sender[y].i
                 => Before(StreamAt(i)', y, sender[y].m)
       /\ <<z, sender[z].m, 1>> \in ToSet(StreamAt(i)')
       /\ ToSet(StreamAt(i)) \subseteq ToSet(StreamAt(i)')

LEMMA BroadcastGoesOn ==
  ASSUME TypeOK, SlotsAndClients, StreamsWhole, BroadcastsReach, client' = client,
         NEW z \in Senders, sender[z].pc # "idle", NEW i, i = sender[z].i,
         Visited(z, i), WentOn(z)
  PROVE  StreamsWhole' /\ BroadcastsReach'
<1>1. /\ i \in Slots /\ sender[z].present \in SUBSET Clients
      /\ \A r \in reached : r.due \in SUBSET Clients
      /\ \A y \in Senders : sender[y].present \in SUBSET Clients /\ sender[y].i \in Slots
  BY DEF TypeOK, Broadcast
<1>2. /\ \A y \in Senders : sender'[y].m = sender[y].m
      /\ \A y \in Senders : y # z => sender'[y] = sender[y]
  BY Zenon DEF WentOn
<1>3. ASSUME NEW j \in Slots, j # i
      PROVE  slot'[j] = slot[j] /\ StreamAt(j)' = StreamAt(j)
  BY <1>3, Zenon DEF Visited, StreamAt
<1>4. ASSUME NEW j \in Slots
      PROVE  slot'[j].sock = slot[j].sock /\ (IsConnected(j)' => IsConnected(j))
  BY Zenon DEF Visited, IsConnected
<1>5. IsConnected(i) =>
        /\ Intact(StreamAt(i)', client[slot[i].sock].since)
        /\ Len(StreamAt(i)') % Size = 0
        /\ \A y \in Senders :
             /\ UpTo(StreamAt(i)', y, sender[y].m)
             /\ y # z /\ sender[y].pc # "idle" /\ i >= sender[y].i
                  => Before(StreamAt(i)', y, sender[y].m)
        /\ <<z, sender[z].m, 1>> \in ToSet(StreamAt(i)')
        /\ ToSet(StreamAt(i)) \subseteq ToSet(StreamAt(i)')
  BY Zenon DEF Visited
\* The slots that the broadcast has still to visit are those it had, but one.
<1>6. ASSUME NEW j \in Slots, sender'[z].pc # "idle", j >= sender'[z].i
      PROVE  j # i /\ j >= sender[z].i
  <2>1. sender'[z].i = i + 1
    BY <1>6, Zenon DEF WentOn
  <2> QED
    BY <1>1, <1>6, <2>1 DEF Slots
<1>7. StreamsWhole'
  <2> SUFFICES ASSUME NEW j \in Slots, IsConnected(j)'
               PROVE  /\ Intact(StreamAt(j)', client'[slot'[j].sock].since)
                      /\ Len(StreamAt(j)') % Size = 0
                      /\ \A y \in Senders :
                           /\ UpTo(StreamAt(j)', y, sender'[y].m)
                           /\ sender'[y].pc # "idle" /\ j >= sender'[y].i
                                => Before(StreamAt(j)', y, sender'[y].m)
    BY Zenon DEF StreamsWhole, Intact, UpTo, Before
  <2>1. IsConnected(j)
    BY <1>4, Zenon
  <2>2. client'[slot'[j].sock].since = client[slot[j].sock].since
    BY <1>4, Zenon
  <2>3. CASE j = i
    <3>1. StreamAt(j)' = StreamAt(i)' /\ client[slot[j].sock] = client[slot[i].sock]
      BY <2>3, Zenon DEF StreamAt
    <3>2. ASSUME NEW y \in Senders
          PROVE  /\ UpTo(StreamAt(j)', y, sender'[y].m)
                 /\ sender'[y].pc # "idle" /\ j >= sender'[y].i
                      => Before(StreamAt(j)', y, sender'[y].m)
      <4>1. CASE y = z
        BY <1>2, <1>5, <1>6, <2>1, <2>3, <3>1, <4>1, Zenon
      <4>2. CASE y # z
        BY <1>2, <1>5, <2>1, <2>3, <3>1, <4>2, Zenon
      <4> QED
        BY <4>1, <4>2
    <3> QED
      BY <1>5, <2>1, <2>2, <2>3, <3>1, <3>2, Zenon
  <2>4. CASE j # i
    <3>1. /\ Intact(StreamAt(j), client[slot[j].sock].since)
          /\ Len(StreamAt(j)) % Size = 0
          /\ \A y \in Senders :
               /\ UpTo(StreamAt(j), y, sender[y].m)
               /\ sender[y].pc # "idle" /\ j >= sender[y].i
                    => Before(StreamAt(j), y, sender[y].m)
      BY <2>1, Zenon DEF StreamsWhole
    <3>2. StreamAt(j)' = StreamAt(j)
      BY <1>3, <2>4
    <3>3. ASSUME NEW y \in Senders, sender'[y].pc # "idle", j >= sender'[y].i
          PROVE  sender[y].pc # "idle" /\ j >= sender[y].i
      <4>1. CASE y = z
        BY <1>6, <3>3, <4>1, Zenon
      <4>2. CASE y # z
        BY <1>2, <3>3, <4>2, Zenon
      <4> QED
        BY <4>1, <4>2
    <3> QED
      BY <1>2, <2>2, <3>1, <3>2, <3>3, Zenon
  <2> QED
    BY <2>3, <2>4
<1>8. ASSUME NEW e, NEW c \in Clients, NEW j \in Slots, slot'[j].sock = c,
             e \in ToSet(StreamAt(j))
      PROVE  e \in ToSet(StreamAt(j)')
  <2>1. CASE j = i
    <3>1. IsConnected(i)
      BY <1>4, <1>8, <2>1 DEF IsConnected, NoClient, Clients
    <3>2. StreamAt(j)' = StreamAt(i)' /\ StreamAt(j) = StreamAt(i)
      BY <2>1, Zenon DEF StreamAt
    <3> QED
      BY <1>5, <1>8, <3>1, <3>2, Zenon
  <2>2. CASE j # i
    <3>1. StreamAt(j)' = StreamAt(j)
      BY <1>3, <2>2
    <3> QED
      BY <1>8, <3>1, Zenon
  <2> QED
    BY <2>1, <2>2
\* Who was due a message has it still.
<1>9. ASSUME NEW y, NEW n, NEW cs \in SUBSET Clients, NEW is \in SUBSET Slots, Due(y, n, cs, is)
      PROVE  \A c \in cs :
               /\ client'[c].state \in {"open", "closed"}
               /\ \A j \in is : slot'[j].sock = c => <<y, n, 1>> \in ToSet(StreamAt(j)')
  <2> SUFFICES ASSUME NEW c \in cs
               PROVE  /\ client'[c].state \in {"open", "closed"}
                      /\ \A j \in is : slot'[j].sock = c => <<y, n, 1>> \in ToSet(StreamAt(j)')
    BY Zenon
  <2>1. client[c].state \in {"open", "closed"}
    BY <1>9, Zenon DEF Due
  <2>2. ASSUME NEW j \in is, slot'[j].sock = c
        PROVE  <<y, n, 1>> \in ToSet(StreamAt(j)')
    <3>1. j \in Slots /\ c \in Clients
      OBVIOUS
    <3>2. slot[j].sock = c
      BY <1>4, <2>2, <3>1, Zenon
    <3>3. <<y, n, 1>> \in ToSet(StreamAt(j))
      BY <1>9, <3>2, Zenon DEF Due
    <3> QED
      BY <1>8, <2>2, <3>1, <3>3, Zenon
  <2> QED
    BY <2>1, <2>2, Zenon
\* And those in the slot that was visited have it now.
<1>10. ASSUME NEW c \in sender[z].present
       PROVE  /\ client'[c].state \in {"open", "closed"}
              /\ \A j \in 1 .. i :
                   slot'[j].sock = c => <<z, sender[z].m, 1>> \in ToSet(StreamAt(j)')
  <2>1. c \in Clients
    BY <1>1
  <2>2. Due(z, sender[z].m, sender[z].present, 1 .. i - 1)
    BY Zenon DEF BroadcastsReach
  <2>3. client[c].state \in {"open", "closed"}
    BY <2>2, Zenon DEF Due
  <2>4. ASSUME NEW j \in 1 .. i, slot'[j].sock = c
        PROVE  <<z, sender[z].m, 1>> \in ToSet(StreamAt(j)')
    <3>1. j \in Slots /\ (j = i \/ j \in 1 .. i - 1)
      BY <1>1 DEF Slots
    <3>2. slot[j].sock = c
      BY <1>4, <2>4, <3>1, Zenon
    <3>3. CASE j = i
      <4>1. IsConnected(i)
        BY <2>1, <3>2, <3>3 DEF IsConnected, NoClient, Clients
      <4>2. StreamAt(j)' = StreamAt(i)'
        BY <3>3, Zenon DEF StreamAt
      <4> QED
        BY <1>5, <4>1, <4>2, Zenon
    <3>4. CASE j \in 1 .. i - 1
      <4>1. <<z, sender[z].m, 1>> \in ToSet(StreamAt(j))
        BY <2>2, <3>2, <3>4, Zenon DEF Due
      <4> QED
        BY <1>8, <2>1, <2>4, <3>1, <4>1, Zenon
    <3> QED
      BY <3>1, <3>3, <3>4, Zenon
  <2> QED
    BY <2>3, <2>4, Zenon
<1>11. \A r \in reached : Due(r.by, r.m, r.due, Slots)'
  <2> SUFFICES ASSUME NEW r \in reached PROVE Due(r.by, r.m, r.due, Slots)'
    OBVIOUS
  <2>1. r.due \in SUBSET Clients /\ Due(r.by, r.m, r.due, Slots) /\ Slots \in SUBSET Slots
    BY <1>1, Zenon DEF BroadcastsReach
  <2> QED
    BY <1>9, <2>1, Zenon DEF Due
<1>12. ASSUME NEW y \in Senders, y # z, sender'[y].pc # "idle"
       PROVE  Due(y, sender[y].m, sender[y].present, 1 .. sender[y].i - 1)'
  <2>1. sender'[y] = sender[y]
    BY <1>2, <1>12, Zenon
  <2>2. sender[y].present \in SUBSET Clients /\ 1 .. sender[y].i - 1 \in SUBSET Slots
    BY <1>1 DEF Slots
  <2>3. Due(y, sender[y].m, sender[y].present, 1 .. sender[y].i - 1)
    BY <1>12, <2>1, Zenon DEF BroadcastsReach
  <2> QED
    BY <1>9, <2>1, <2>2, <2>3, Zenon DEF Due
<1>13. CASE /\ sender'[z].pc = "idle" /\ sender[z].i = MaxConn
            /\ reached' = reached \cup {Reached(z)}
  <2>1. 1 .. i = Slots
    BY <1>13 DEF Slots
  <2>2. /\ Reached(z).by = z /\ Reached(z).m = sender[z].m
        /\ Reached(z).due = sender[z].present
    BY DEF Reached
  <2>3. ASSUME NEW c \in sender[z].present
        PROVE  /\ client'[c].state \in {"open", "closed"}
               /\ \A j \in Slots :
                    slot'[j].sock = c => <<z, sender[z].m, 1>> \in ToSet(StreamAt(j)')
    BY <1>10, <2>1, Zenon
  <2>4. ASSUME NEW r \in reached'
        PROVE  \A c \in r.due :
                 /\ client'[c].state \in {"open", "closed"}
                 /\ \A j \in Slots :
                      slot'[j].sock = c => <<r.by, r.m, 1>> \in ToSet(StreamAt(j)')
    <3>1. CASE r \in reached
      BY <1>11, <3>1, Zenon DEF Due
    <3>2. CASE r = Reached(z)
      <4>1. r.by = z /\ r.m = sender[z].m /\ r.due = sender[z].present
        BY <2>2, <3>2, Zenon
      <4> QED
        BY <2>3, <4>1, Zenon
    <3>3. r \in reached \/ r = Reached(z)
      BY <1>13, Zenon
    <3> QED
      BY <3>1, <3>2, <3>3, Zenon
  <2>5. ASSUME NEW y \in Senders, sender'[y].pc # "idle" PROVE y # z
    BY <1>13, <2>5, Zenon
  <2> QED
    BY <1>7, <1>12, <2>4, <2>5, Zenon DEF BroadcastsReach, Due
<1>14. CASE /\ sender'[z].i = sender[z].i + 1 /\ sender'[z].present = sender[z].present
            /\ reached' = reached
  <2>1. sender'[z].i - 1 = i /\ sender'[z].m = sender[z].m
    BY <1>1, <1>2, <1>14 DEF Slots
  <2>2. Due(z, sender[z].m, sender[z].present, 1 .. sender[z].i - 1)'
    BY <1>10, <1>14, <2>1, Zenon DEF Due
  <2>3. ASSUME NEW y \in Senders, sender'[y].pc # "idle"
        PROVE  Due(y, sender[y].m, sender[y].present, 1 .. sender[y].i - 1)'
    <3>1. CASE y = z
      <4>1. \A c \in sender'[z].present :
              /\ client'[c].state \in {"open", "closed"}
              /\ \A j \in 1 .. sender'[z].i - 1 :
                   slot'[j].sock = c => <<z, sender'[z].m, 1>> \in ToSet(StreamAt(j)')
        BY <2>2, Zenon DEF Due
      <4> QED
        BY <3>1, <4>1, Zenon DEF Due
    <3>2. CASE y # z
      BY <1>12, <2>3, <3>2, Zenon
    <3> QED
      BY <3>1, <3>2
  <2> QED
    BY <1>7, <1>11, <1>14, <2>3, Zenon DEF BroadcastsReach, Due
<1> QED
  BY <1>13, <1>14, Zenon DEF WentOn

(***************************************************************************)
(* Send adds the message to the stream of the slot's client.                *)
(***************************************************************************)
LEMMA MessageAdded ==
  ASSUME TypeOK, SlotsAndClients, StreamsWhole, NEW z \in Senders, SendClient(z),
         NEW i, NEW m, i = sender[z].i, m = sender[z].m, SameNumbers
  PROVE  SlotTypes /\ SlotsAndClients' /\ Visited(z, i)
<1> DEFINE c == slot[i].sock
           out == slot[i].out \o Bytes(z, m)
<1>1. /\ client \in [Clients -> Caller] /\ slot \in [Slots -> Connection]
      /\ i \in Slots /\ m \in Nat
      /\ sender[z].pc # "idle" /\ IsConnected(i)
  BY DEF TypeOK, Broadcast, SendClient
<1>2. /\ c \in Clients /\ client[c] \in Caller /\ slot[i] \in Connection
      /\ client[c].got \in Seq(AllBytes) /\ slot[i].out \in Seq(AllBytes)
      /\ client[c].since[z] <= m
  BY <1>1 DEF Connection, Caller, IsConnected, SlotsAndClients
<1>3. out \in Seq(AllBytes) /\ Len(out) = Len(slot[i].out) + Size /\ Len(out) <= Limit
  <2>1. out \in Seq(AllBytes) /\ Len(out) = Len(slot[i].out) + Len(Bytes(z, m))
    BY <1>1, <1>2, BytesOfMessage, ConcatProperties, ZenonT(30)
  <2>2. Len(slot[i].out) + Size <= Limit
    BY DEF SendClient, Fits
  <2> QED
    BY <1>1, <2>1, <2>2, BytesOfMessage
<1>4. StreamAt(i) = Joined(client[c].got, slot[i].out) /\ StreamAt(i) \in Seq(AllBytes)
  BY <1>2, ConcatProperties, Zenon DEF StreamAt, Joined
<1>5. client' = client /\ slot' = [slot EXCEPT ![i].out = out]
  BY <1>1 DEF SendClient
<1>6. Joined(client[c].got, Joined(slot[i].out, Bytes(z, m))) = Joined(StreamAt(i), Bytes(z, m))
  <2>1. Bytes(z, m) \in Seq(AllBytes)
    BY <1>1, BytesOfMessage
  <2>2. Joined(Joined(client[c].got, slot[i].out), Bytes(z, m))
          = Joined(client[c].got, Joined(slot[i].out, Bytes(z, m)))
    BY <1>2, <2>1, JoinedInAnyOrder
  <2> QED
    BY <1>4, <2>2, Zenon
<1>7. c = slot[i].sock /\ out = Joined(slot[i].out, Bytes(z, m))
  BY Zenon DEF Joined
<1> HIDE DEF c, out
<1>8. \A j \in Slots : /\ slot'[j].sock = slot[j].sock
                       /\ slot'[j].out = IF j = i THEN out ELSE slot[j].out
                       /\ j # i => slot'[j] = slot[j]
  BY <1>1, <1>5 DEF Connection
<1>9. SlotTypes
  <2>1. slot' \in [Slots -> Connection]
    BY <1>1, <1>3, <1>5 DEF Connection
  <2>2. \A j \in Slots : Len(slot'[j].out) <= Limit
    BY <1>3, <1>8 DEF TypeOK
  <2> QED
    BY <1>1, <1>5, <2>1, <2>2 DEF SlotTypes
<1>10. SlotsAndClients'
  <2>1. \A j \in Slots : IsConnected(j)' => IsConnected(j)
    BY <1>8, Zenon DEF IsConnected
  <2>2. \A j, l \in Slots : IsConnected(j)' /\ slot'[j].sock = slot'[l].sock => j = l
    <3> SUFFICES ASSUME NEW j \in Slots, NEW l \in Slots, IsConnected(j)',
                        slot'[j].sock = slot'[l].sock
                 PROVE  j = l
      BY Zenon
    <3>1. IsConnected(j) /\ slot[j].sock = slot[l].sock
      BY <1>8, <2>1, Zenon
    <3> QED
      BY <3>1, Zenon DEF SlotsAndClients
  <2>3. ASSUME NEW j \in Slots, IsConnected(j)'
        PROVE  client'[slot'[j].sock].state = "open"
    <3>1. client[slot[j].sock].state = "open"
      BY <2>1, <2>3, Zenon DEF SlotsAndClients
    <3> QED
      BY <1>5, <1>8, <3>1, Zenon
  <2>4. ASSUME NEW j \in Slots, ~IsConnected(j)' PROVE slot'[j].out = << >>
    <3>1. ~IsConnected(j) /\ j # i
      BY <1>1, <1>8, <2>4, Zenon DEF IsConnected
    <3> QED
      BY <1>8, <3>1, Zenon DEF SlotsAndClients
  <2>5. ASSUME NEW d \in Clients, client'[d].state = "open"
        PROVE  \E j \in Slots : slot'[j].sock = d
    <3>1. PICK j \in Slots : slot[j].sock = d
      BY <1>5, <2>5, Zenon DEF SlotsAndClients
    <3> QED
      BY <1>8, <3>1, Zenon
  <2>6. /\ \A d \in Clients : client'[d].state # "open" => client'[d].got = << >>
        /\ \A d \in Clients, y \in Senders : client'[d].since[y] <= sender'[y].m
    BY <1>5, Zenon DEF SlotsAndClients, SameNumbers
  <2> QED
    BY <2>2, <2>3, <2>4, <2>5, <2>6, Zenon DEF SlotsAndClients
<1>11. Visited(z, i)
  <2> DEFINE t == Joined(StreamAt(i), Bytes(z, m))
  <2>1. StreamAt(i)' = t
    BY <1>1, <1>5, <1>6, <1>7, <1>8, Zenon DEF StreamAt, Joined
  <2>2. /\ Intact(StreamAt(i), client[c].since) /\ Len(StreamAt(i)) % Size = 0
        /\ \A y \in Senders :
             /\ UpTo(StreamAt(i), y, sender[y].m)
             /\ sender[y].pc # "idle" /\ i >= sender[y].i
                  => Before(StreamAt(i), y, sender[y].m)
    BY <1>1, <1>7, Zenon DEF StreamsWhole
  <2>3. Before(StreamAt(i), z, m)
    <3>1. i >= sender[z].i
      BY <1>1 DEF Slots
    <3> QED
      BY <1>1, <2>2, <3>1, Zenon
  <2>4. /\ Intact(t, client[c].since) /\ Len(t) % Size = 0
        /\ Added(StreamAt(i), t, z, m)
    <3>1. Intact(StreamAt(i), client[c].since) /\ Len(StreamAt(i)) % Size = 0
      BY <2>2, Zenon
    <3>2. StreamAt(i) \in Seq(AllBytes) /\ m \in Nat /\ client[c].since[z] <= m
      BY <1>1, <1>2, <1>4, Zenon
    <3>3. t = StreamAt(i) \o Bytes(z, m)
      BY Zenon DEF Joined
    <3> HIDE DEF t
    <3>4. /\ Intact(StreamAt(i) \o Bytes(z, m), client[c].since)
          /\ Len(StreamAt(i) \o Bytes(z, m)) % Size = 0
          /\ Added(StreamAt(i), StreamAt(i) \o Bytes(z, m), z, m)
      BY <2>3, <3>1, <3>2, IntactWithMessage, Zenon
    <3> QED
      BY <3>3, <3>4, Zenon
  <2> HIDE DEF t
  <2>5. ASSUME NEW y \in Senders
        PROVE  /\ UpTo(t, y, sender[y].m)
               /\ y # z /\ sender[y].pc # "idle" /\ i >= sender[y].i
                    => Before(t, y, sender[y].m)
    <3>1. y = z => m <= sender[y].m
      BY <1>1
    <3> QED
      BY <2>2, <2>4, <3>1, Zenon DEF Added
  <2>6. <<z, sender[z].m, 1>> \in ToSet(t) /\ ToSet(StreamAt(i)) \subseteq ToSet(t)
    BY <2>4, Zenon DEF Added
  <2> QED
    BY <1>7, <1>8, <2>1, <2>4, <2>5, <2>6, Zenon DEF Visited
<1> QED
  BY <1>9, <1>10, <1>11

LEMMA TypesKept ==
  ASSUME SlotTypes, server' \in [pc : DOMAIN Phase, i : Slots],
         sender' \in [Senders -> Broadcast], reached' \subseteq Reports
  PROVE  TypeOK'
BY Zenon DEF SlotTypes, TypeOK, Reports

(***************************************************************************)
(* A broadcast begins with the first slot, and nobody has its message.      *)
(***************************************************************************)
LEMMA BroadcastBegins ==
  ASSUME ListenerInv, NEW z \in Senders, SendAll(z)
  PROVE  ListenerInv'
<1> DEFINE new == [pc |-> "check", i |-> 1, m |-> sender[z].m + 1, present |-> Present]
<1>1. /\ TypeOK /\ SlotsAndClients /\ StreamsWhole /\ BroadcastsReach
      /\ client \in [Clients -> Caller] /\ slot \in [Slots -> Connection]
      /\ sender \in [Senders -> Broadcast] /\ sender[z].m \in Nat
      /\ slot' = slot /\ client' = client /\ reached' = reached /\ server' = server
      /\ Unchanged
  BY DEF ListenerInv, TypeOK, Broadcast, SendAll, Unchanged
<1>2. /\ new \in Broadcast /\ new.pc = "check" /\ new.i = 1 /\ new.m = sender[z].m + 1
      /\ new.present = Present
  BY <1>1 DEF Broadcast, Slots, Present
<1>3. sender' = [sender EXCEPT ![z] = new]
  BY <1>1 DEF SendAll
<1> HIDE DEF new
<1>4. /\ sender' \in [Senders -> Broadcast] /\ sender'[z] = new
      /\ \A y \in Senders : y # z => sender'[y] = sender[y]
  BY <1>1, <1>2, <1>3, SenderChanged
<1>5. TypeOK'
  <2>1. SlotTypes
    BY <1>1, Zenon DEF SlotTypes, TypeOK
  <2>2. server' \in [pc : DOMAIN Phase, i : Slots] /\ reached' \subseteq Reports
    BY <1>1 DEF TypeOK, Reports
  <2> QED
    BY <1>4, <2>1, <2>2, TypesKept
<1>6. SlotsAndClients'
  <2>1. ASSUME NEW y \in Senders PROVE sender'[y].m \in Nat /\ sender[y].m <= sender'[y].m
    <3>1. sender[y].m \in Nat
      BY <1>1 DEF Broadcast
    <3>2. CASE y = z
      <4>1. sender'[y].m = sender[y].m + 1
        BY <1>2, <1>4, <3>2, Zenon
      <4> QED
        BY <3>1, <4>1
    <3>3. CASE y # z
      <4>1. sender'[y].m = sender[y].m
        BY <1>4, <3>3, Zenon
      <4> QED
        BY <3>1, <4>1
    <3> QED
      BY <3>2, <3>3
  <2>2. Numbers
    BY <2>1, Zenon DEF Numbers
  <2> QED
    BY <1>1, <2>2, SlotsUnchanged
<1>7. StreamsWhole'
  <2> SUFFICES ASSUME NEW i \in Slots, IsConnected(i)'
               PROVE  /\ Intact(StreamAt(i)', client'[slot'[i].sock].since)
                      /\ Len(StreamAt(i)') % Size = 0
                      /\ \A y \in Senders :
                           /\ UpTo(StreamAt(i)', y, sender'[y].m)
                           /\ sender'[y].pc # "idle" /\ i >= sender'[y].i
                                => Before(StreamAt(i)', y, sender'[y].m)
    BY Zenon DEF StreamsWhole, Intact, UpTo, Before
  <2>0. /\ IsConnected(i) /\ StreamAt(i)' = StreamAt(i)
        /\ client'[slot'[i].sock].since = client[slot[i].sock].since
    BY <1>1, Zenon DEF IsConnected, StreamAt
  <2>1. /\ Intact(StreamAt(i), client[slot[i].sock].since)
        /\ Len(StreamAt(i)) % Size = 0
        /\ \A y \in Senders :
             /\ UpTo(StreamAt(i), y, sender[y].m)
             /\ sender[y].pc # "idle" /\ i >= sender[y].i
                  => Before(StreamAt(i), y, sender[y].m)
    BY <1>1, <2>0, Zenon DEF StreamsWhole
  <2>2. client[slot[i].sock].got \in Seq(AllBytes) /\ slot[i].out \in Seq(AllBytes)
    BY <1>1, <2>0 DEF Connection, Caller, IsConnected
  <2>3. StreamAt(i) \in Seq(AllBytes)
    BY <2>2, ConcatProperties, Zenon DEF StreamAt
  <2>4. UpTo(StreamAt(i), z, sender[z].m + 1) /\ Before(StreamAt(i), z, sender[z].m + 1)
    <3> SUFFICES ASSUME NEW p \in 1 .. Len(StreamAt(i)), StreamAt(i)[p][1] = z
                 PROVE  /\ StreamAt(i)[p][2] <= sender[z].m + 1
                        /\ StreamAt(i)[p][2] < sender[z].m + 1
      BY Zenon DEF UpTo, Before
    <3>1. StreamAt(i)[p] \in AllBytes
      BY <2>3
    <3>2. StreamAt(i)[p][2] \in Nat
      BY <3>1 DEF AllBytes
    <3>3. StreamAt(i)[p][2] <= sender[z].m
      BY <2>1, Zenon DEF UpTo
    <3> QED
      BY <1>1, <3>2, <3>3
  <2>5. ASSUME NEW y \in Senders
        PROVE  /\ UpTo(StreamAt(i), y, sender'[y].m)
               /\ sender'[y].pc # "idle" /\ i >= sender'[y].i
                    => Before(StreamAt(i), y, sender'[y].m)
    <3>1. CASE y = z
      BY <1>2, <1>4, <2>4, <3>1, Zenon
    <3>2. CASE y # z
      BY <1>4, <2>1, <3>2, Zenon
    <3> QED
      BY <3>1, <3>2
  <2> QED
    BY <2>0, <2>1, <2>5, Zenon
<1>8. BroadcastsReach'
  <2>1. \A r \in reached : Due(r.by, r.m, r.due, Slots)'
    BY <1>1, Zenon DEF BroadcastsReach, Due, StreamAt
  <2>2. ASSUME NEW y \in Senders, sender'[y].pc # "idle"
        PROVE  \A c \in sender'[y].present :
                 /\ client[c].state \in {"open", "closed"}
                 /\ \A i \in 1 .. sender'[y].i - 1 :
                      slot[i].sock = c => <<y, sender'[y].m, 1>> \in ToSet(StreamAt(i))
    <3>1. CASE y = z
      <4>1. \A c \in Present : client[c].state \in {"open", "closed"}
        BY DEF Present
      <4>2. 1 .. 1 - 1 = {}
        OBVIOUS
      <4> QED
        BY <1>2, <1>4, <3>1, <4>1, <4>2, Zenon
    <3>2. CASE y # z
      <4>1. sender'[y] = sender[y]
        BY <1>4, <3>2, Zenon
      <4> QED
        BY <1>1, <2>2, <4>1, Zenon DEF BroadcastsReach, Due
    <3> QED
      BY <3>1, <3>2
  <2> QED
    BY <1>1, <2>1, <2>2, Zenon DEF BroadcastsReach, Due, StreamAt
<1> QED
  BY <1>5, <1>6, <1>7, <1>8 DEF ListenerInv

LEMMA ListenerStep == ListenerInv /\ [Next]_vars => ListenerInv'
<1> SUFFICES ASSUME ListenerInv, [Next]_vars PROVE ListenerInv'
  OBVIOUS
<1>1. /\ TypeOK /\ SlotsAndClients /\ StreamsWhole /\ BroadcastsReach
      /\ client \in [Clients -> Caller] /\ slot \in [Slots -> Connection]
      /\ server \in [pc : DOMAIN Phase, i : Slots]
      /\ sender \in [Senders -> Broadcast] /\ reached \subseteq Reports
  BY DEF ListenerInv, TypeOK, Reports
\* What the slots do leaves the invariant, when the broadcasts stay or end.
<1>2. ASSUME SlotTypes, SlotsAndClients', OldOrNew, reached' = reached,
             server' \in [pc : DOMAIN Phase, i : Slots],
             sender' \in [Senders -> Broadcast], SameNumbers, SendersKept
      PROVE  ListenerInv'
  <2>1. TypeOK'
    BY <1>1, <1>2, TypesKept
  <2>2. StreamsWhole' /\ BroadcastsReach'
    BY <1>1, <1>2, StreamsKept, Zenon
  <2> QED
    BY <1>2, <2>1, <2>2 DEF ListenerInv
\* A broadcast that is under way may be in the same slot, or end.
<1>3. ASSUME NEW z \in Senders, NEW new \in Broadcast, sender' = [sender EXCEPT ![z] = new],
             new.m = sender[z].m, sender[z].pc # "idle",
             \/ new.pc = "idle"
             \/ new.i = sender[z].i /\ new.present = sender[z].present
      PROVE  sender' \in [Senders -> Broadcast] /\ SameNumbers /\ SendersKept
  <2>1. /\ sender' \in [Senders -> Broadcast] /\ sender'[z] = new
        /\ \A y \in Senders : y # z => sender'[y] = sender[y]
    BY <1>1, <1>3, SenderChanged
  <2>2. SameNumbers
    BY <1>3, <2>1, Zenon DEF SameNumbers
  <2>3. SendersKept
    BY <1>3, <2>1, Zenon DEF SendersKept
  <2> QED
    BY <2>1, <2>2, <2>3
<1>4. ASSUME sender' = sender PROVE SameNumbers /\ SendersKept
  BY <1>4, Zenon DEF SameNumbers, SendersKept
<1>5. ASSUME SlotTypes, SlotsAndClients', OldOrNew, Onward, UNCHANGED <<sender, reached>>
      PROVE  ListenerInv'
  <2>1. server' \in [pc : DOMAIN Phase, i : Slots]
    BY <1>1, <1>5, ServerGoesOn
  <2> QED
    BY <1>1, <1>2, <1>4, <1>5, <2>1
<1>6. ASSUME SlotTypes, SlotsAndClients', OldOrNew, UNCHANGED <<server, sender, reached>>
      PROVE  ListenerInv'
  BY <1>1, <1>2, <1>4, <1>6
<1>7. ASSUME NEW c \in Clients, Connect(c) PROVE ListenerInv'
  <2> DEFINE new == [client[c] EXCEPT !.state = "waiting"]
  <2>1. /\ new \in Caller /\ new.got = client[c].got /\ new.since = client[c].since
        /\ new.state = "waiting" /\ client[c].state = "away"
    BY <1>1, <1>7 DEF Connect, Caller
  <2>2. client' = [client EXCEPT ![c] = new] /\ UNCHANGED <<slot, server, sender, reached>>
    BY <1>1, <1>7 DEF Connect
  <2>3. \A z \in Senders : client[c].since[z] <= sender[z].m
    BY <1>1 DEF SlotsAndClients
  <2> HIDE DEF new
  <2>4. SlotTypes /\ SlotsAndClients' /\ OldOrNew
    BY <1>1, <1>4, <2>1, <2>2, <2>3, CallerChanged
  <2> QED
    BY <1>6, <2>2, <2>4
<1>8. ASSUME NEW c \in Clients, HangUp(c) PROVE ListenerInv'
  <2> DEFINE new == [client[c] EXCEPT !.hung = TRUE]
  <2>1. /\ new \in Caller /\ new.got = client[c].got /\ new.since = client[c].since
        /\ new.state = client[c].state
    BY <1>1, <1>8 DEF Caller
  <2>2. client' = [client EXCEPT ![c] = new] /\ UNCHANGED <<slot, server, sender, reached>>
    BY <1>1, <1>8 DEF HangUp
  <2>3. \A z \in Senders : client[c].since[z] <= sender[z].m
    BY <1>1 DEF SlotsAndClients
  <2> HIDE DEF new
  <2>4. SlotTypes /\ SlotsAndClients' /\ OldOrNew
    BY <1>1, <1>4, <2>1, <2>2, <2>3, CallerChanged
  <2> QED
    BY <1>6, <2>2, <2>4
<1>9. CASE Accept
  <2>0. SameNumbers /\ Numbers /\ Onward /\ UNCHANGED <<sender, reached>>
    BY <1>1, <1>4, <1>9, NumbersGoOn DEF Accept
  <2>1. CASE Unchanged
    <3>1. SlotTypes /\ SlotsAndClients' /\ OldOrNew
      BY <1>1, <2>0, <2>1, SlotsUnchanged
    <3> QED
      BY <1>5, <2>0, <3>1
  <2>2. CASE Waiting # {} /\ FreeSlots # {} /\ Start(Min(FreeSlots), Min(Waiting))
    <3>1. Min(FreeSlots) \in FreeSlots /\ Min(Waiting) \in Waiting
      <4>1. FreeSlots \in SUBSET Nat /\ Waiting \in SUBSET Nat
        BY DEF FreeSlots, Waiting, Slots, Clients
      <4> QED
        BY <2>2, <4>1, MinIsMember
    <3>2. /\ Min(FreeSlots) \in Slots /\ ~IsConnected(Min(FreeSlots))
          /\ Min(Waiting) \in Clients /\ client[Min(Waiting)].state = "waiting"
      BY <3>1, Zenon DEF FreeSlots, Waiting
    <3>3. SlotTypes /\ SlotsAndClients' /\ OldOrNew
      BY <1>1, <2>0, <2>2, <3>2, SlotTaken
    <3> QED
      BY <1>5, <2>0, <3>3
  <2>3. CASE Waiting # {} /\ client' = [client EXCEPT ![Min(Waiting)] = NotOpen] /\ slot' = slot
    <3> DEFINE c == Min(Waiting)
    <3>1. c \in Clients /\ client[c].state = "waiting"
      <4>1. Waiting \in SUBSET Nat
        BY DEF Waiting, Clients
      <4>2. c \in Waiting
        BY <2>3, <4>1, MinIsMember
      <4> QED
        BY <4>2, Zenon DEF Waiting
    <3>2. client' = [client EXCEPT ![c] = NotOpen]
      BY <2>3
    <3> HIDE DEF c
    <3>3. NotOpen \in Caller /\ NotOpen.got = client[c].got /\ NotOpen.state = "closed"
      <4>1. << >> \in Seq(AllBytes) /\ client[c].got = << >>
        BY <1>1, <3>1 DEF SlotsAndClients
      <4> QED
        BY <4>1 DEF NotOpen, Caller
    <3>4. \A z \in Senders : NotOpen.since[z] <= sender[z].m
      BY <1>1 DEF NotOpen, Broadcast
    <3>5. SlotTypes /\ SlotsAndClients' /\ OldOrNew
      BY <1>1, <2>0, <2>3, <3>1, <3>2, <3>3, <3>4, CallerChanged
    <3> QED
      BY <1>5, <2>0, <3>5
  <2> QED
    BY <1>9, <2>1, <2>2, <2>3 DEF Accept
<1>10. ASSUME UNCHANGED sender PROVE SameNumbers /\ Numbers
  BY <1>1, <1>4, <1>10, NumbersGoOn
<1>11. CASE ReadClients
  <2>1. (CloseUnsafe(server.i) \/ Unchanged) /\ server.i \in Slots
    BY <1>1, <1>11 DEF ReadClients, Read
  <2>2. Onward /\ UNCHANGED <<sender, reached>>
    BY <1>11 DEF ReadClients
  <2>3. SlotTypes /\ SlotsAndClients' /\ OldOrNew
    BY <1>1, <1>10, <2>1, <2>2, SlotClosed, SlotsUnchanged
  <2> QED
    BY <1>5, <2>2, <2>3
<1>12. CASE WriteClients
  <2>1. SendBuffer(server.i) /\ server.i \in Slots
    BY <1>1, <1>12 DEF WriteClients
  <2>2. Onward /\ UNCHANGED <<sender, reached>>
    BY <1>12 DEF WriteClients
  <2>3. SlotTypes /\ SlotsAndClients' /\ OldOrNew
    BY <1>1, <1>10, <2>1, <2>2, SlotWritten
  <2> QED
    BY <1>5, <2>2, <2>3
<1>13. CASE CleanUp
  <2>1. (CloseUnsafe(server.i) \/ Unchanged) /\ server.i \in Slots
    BY <1>1, <1>13 DEF CleanUp
  <2>2. Onward /\ UNCHANGED <<sender, reached>>
    BY <1>13 DEF CleanUp
  <2>3. SlotTypes /\ SlotsAndClients' /\ OldOrNew
    BY <1>1, <1>10, <2>1, <2>2, SlotClosed, SlotsUnchanged
  <2> QED
    BY <1>5, <2>2, <2>3
\* The steps of a sender.
<1>14. ASSUME NEW z \in Senders PROVE sender[z] \in Broadcast
  BY <1>1
<1>15. ASSUME NEW z \in Senders, WentOn(z) PROVE SameNumbers
  BY <1>15, Zenon DEF WentOn, SameNumbers
<1>16. ASSUME NEW z \in Senders, SendAll(z) PROVE ListenerInv'
  BY <1>16, BroadcastBegins
<1>17. ASSUME NEW z \in Senders, CheckClient(z) PROVE ListenerInv'
  <2>1. sender[z].pc # "idle" /\ UNCHANGED <<client, slot, server>> /\ Unchanged
    BY <1>17 DEF CheckClient, Unchanged
  <2>2. CASE IsConnected(sender[z].i)
    <3> DEFINE new == [sender[z] EXCEPT !.pc = "send"]
    <3>1. sender' = [sender EXCEPT ![z] = new] /\ reached' = reached
      BY <1>1, <1>17, <2>2 DEF CheckClient
    <3>2. /\ new \in Broadcast /\ new.m = sender[z].m /\ new.i = sender[z].i
          /\ new.present = sender[z].present
      BY <1>14 DEF Broadcast
    <3> HIDE DEF new
    <3>3. sender' \in [Senders -> Broadcast] /\ SameNumbers /\ SendersKept
      BY <1>3, <2>1, <3>1, <3>2
    <3>4. SlotTypes /\ SlotsAndClients' /\ OldOrNew
      BY <1>1, <2>1, <3>3, NumbersGoOn, SlotsUnchanged
    <3> QED
      BY <1>1, <1>2, <2>1, <3>1, <3>3, <3>4
  <2>3. CASE ~IsConnected(sender[z].i)
    <3>1. NextSlot(z)
      BY <1>17, <2>3 DEF CheckClient
    <3>2. sender' \in [Senders -> Broadcast] /\ reached' \subseteq Reports /\ WentOn(z)
      BY <1>1, <3>1, NextSlotTypes
    <3>3. SlotTypes /\ SlotsAndClients'
      BY <1>1, <1>15, <2>1, <3>2, NumbersGoOn, SlotsUnchanged
    <3>4. Visited(z, sender[z].i)
      BY <2>1, <2>3, Zenon DEF Visited
    <3>5. StreamsWhole' /\ BroadcastsReach'
      BY <1>1, <2>1, <3>2, <3>4, BroadcastGoesOn
    <3>6. TypeOK'
      BY <1>1, <2>1, <3>2, <3>3, TypesKept, Zenon
    <3> QED
      BY <3>3, <3>5, <3>6 DEF ListenerInv
  <2> QED
    BY <2>2, <2>3
<1>18. ASSUME NEW z \in Senders, SendClient(z) PROVE ListenerInv'
  <2>1. sender[z].pc # "idle" /\ UNCHANGED <<client, server>> /\ NextSlot(z)
    BY <1>18 DEF SendClient
  <2>2. sender' \in [Senders -> Broadcast] /\ reached' \subseteq Reports /\ WentOn(z)
    BY <1>1, <2>1, NextSlotTypes
  <2>3. SlotTypes /\ SlotsAndClients' /\ Visited(z, sender[z].i)
    BY <1>1, <1>15, <1>18, <2>2, MessageAdded
  <2>4. StreamsWhole' /\ BroadcastsReach'
    BY <1>1, <2>1, <2>2, <2>3, BroadcastGoesOn
  <2>5. TypeOK'
    BY <1>1, <2>1, <2>2, <2>3, TypesKept, Zenon
  <2> QED
    BY <2>3, <2>4, <2>5 DEF ListenerInv
<1>19. ASSUME NEW z \in Senders, RefuseClient(z) PROVE ListenerInv'
  <2> DEFINE new == [sender[z] EXCEPT !.pc = "drop"]
  <2>1. /\ sender[z].pc # "idle" /\ UNCHANGED <<client, slot, server, reached>> /\ Unchanged
        /\ sender' = [sender EXCEPT ![z] = new]
    BY <1>1, <1>19 DEF RefuseClient, Unchanged
  <2>2. /\ new \in Broadcast /\ new.m = sender[z].m /\ new.i = sender[z].i
        /\ new.present = sender[z].present
    BY <1>14 DEF Broadcast
  <2> HIDE DEF new
  <2>3. sender' \in [Senders -> Broadcast] /\ SameNumbers /\ SendersKept
    BY <1>3, <2>1, <2>2
  <2>4. SlotTypes /\ SlotsAndClients' /\ OldOrNew
    BY <1>1, <2>1, <2>3, NumbersGoOn, SlotsUnchanged
  <2> QED
    BY <1>1, <1>2, <2>1, <2>3, <2>4
<1>20. ASSUME NEW z \in Senders, DropClient(z) PROVE ListenerInv'
  <2>1. /\ sender[z].pc # "idle" /\ CloseUnsafe(sender[z].i) /\ UNCHANGED <<server, reached>>
        /\ sender' = [sender EXCEPT ![z] = Finished(z)] /\ sender[z].i \in Slots
    BY <1>14, <1>20 DEF DropClient, Broadcast
  <2>2. Finished(z) \in Broadcast /\ Finished(z).m = sender[z].m /\ Finished(z).pc = "idle"
    BY <1>1, FinishedType
  <2>3. sender' \in [Senders -> Broadcast] /\ SameNumbers /\ SendersKept
    BY <1>3, <2>1, <2>2
  <2>4. SlotTypes /\ SlotsAndClients' /\ OldOrNew
    BY <1>1, <2>1, <2>3, SlotClosed
  <2> QED
    BY <1>1, <1>2, <2>1, <2>3, <2>4
<1>21. CASE UNCHANGED vars
  <2>1. UNCHANGED <<client, slot, server, sender, reached>> /\ Unchanged
    BY <1>21 DEF vars, Unchanged
  <2>2. SlotTypes /\ SlotsAndClients' /\ OldOrNew
    BY <1>1, <1>10, <2>1, SlotsUnchanged
  <2> QED
    BY <1>6, <2>1, <2>2
<1>22. CASE CallerStep
  BY <1>7, <1>8, <1>22 DEF CallerStep
<1>23. CASE Server
  BY <1>9, <1>11, <1>12, <1>13, <1>23 DEF Server
<1>24. CASE \E z \in Senders : Sender(z)
  BY <1>16, <1>17, <1>18, <1>19, <1>20, <1>24 DEF Sender
<1> QED
  BY <1>21, <1>22, <1>23, <1>24 DEF Next

(***************************************************************************)
(* The inductive invariant of the listener.                                 *)
(***************************************************************************)
THEOREM ListenerCorrect == Spec => []ListenerInv
<1>1. Init => ListenerInv
  BY InitialListener
<1>2. ListenerInv /\ [Next]_vars => ListenerInv'
  BY ListenerStep
<1> QED
  BY <1>1, <1>2, PTL DEF Spec

(***************************************************************************)
(* The stream of a client is that of its slot.                              *)
(***************************************************************************)
LEMMA StreamOfSlot ==
  ASSUME SlotsAndClients, NEW c \in Clients, NEW i \in Slots, slot[i].sock = c
  PROVE  Stream(c) = StreamAt(i) /\ \A j \in SlotsOf(c) : j = i
<1>1. IsConnected(i)
  BY DEF IsConnected, Clients, NoClient
<1>2. \A j \in SlotsOf(c) : j = i
  BY <1>1, Zenon DEF SlotsAndClients, SlotsOf
<1>3. i \in SlotsOf(c)
  BY Zenon DEF SlotsOf
<1>4. (CHOOSE j \in Slots : j \in SlotsOf(c)) = i
  BY <1>2, <1>3
<1> QED
  BY <1>2, <1>3, <1>4 DEF Stream, Backlog, StreamAt

(***************************************************************************)
(* The types of the listener, with the bound on what waits in a slot: the   *)
(* limit of Send is never passed.                                           *)
(***************************************************************************)
THEOREM TypeCorrect == Spec => []TypeOK
<1>1. ListenerInv => TypeOK
  BY DEF ListenerInv
<1> QED
  BY <1>1, ListenerCorrect, PTL

(***************************************************************************)
(* Every client receives whole messages, each once and those of a sender in *)
(* order, whoever had its slot before, however many senders broadcast at a   *)
(* time and whichever thread closed it.                                     *)
(***************************************************************************)
THEOREM StreamsStayIntact == Spec => []StreamIntact
<1>1. ListenerInv => StreamIntact
  <2> SUFFICES ASSUME ListenerInv, NEW c \in Clients
               PROVE  /\ \A i, j \in SlotsOf(c) : i = j
                      /\ Intact(Stream(c), client[c].since)
                      /\ client[c].state = "open" => Len(Stream(c)) % Size = 0
    BY Zenon DEF StreamIntact, Intact
  <2>1. SlotsAndClients /\ StreamsWhole
    BY DEF ListenerInv
  <2>2. CASE \E i \in Slots : slot[i].sock = c
    <3>1. PICK i \in Slots : slot[i].sock = c
      BY <2>2
    <3>2. IsConnected(i)
      BY <3>1 DEF IsConnected, Clients, NoClient
    <3>3. Stream(c) = StreamAt(i) /\ \A j \in SlotsOf(c) : j = i
      BY <2>1, <3>1, StreamOfSlot
    <3>4. Intact(StreamAt(i), client[c].since) /\ Len(StreamAt(i)) % Size = 0
      BY <2>1, <3>1, <3>2, Zenon DEF StreamsWhole
    <3> QED
      BY <3>3, <3>4, Zenon
  <2>3. CASE ~\E i \in Slots : slot[i].sock = c
    <3>1. SlotsOf(c) = {}
      BY <2>3, Zenon DEF SlotsOf
    <3>2. client[c].state # "open" /\ client[c].got = << >>
      BY <2>1, <2>3, Zenon DEF SlotsAndClients
    <3>3. Stream(c) = << >> \o << >>
      BY <3>1, <3>2, Zenon DEF Stream, Backlog
    <3>4. Stream(c) = << >> /\ 1 .. Len(<< >>) = {}
      BY <3>3
    <3> QED
      BY <3>1, <3>2, <3>4, Zenon DEF Intact
  <2> QED
    BY <2>2, <2>3
<1> QED
  BY <1>1, ListenerCorrect, PTL

(***************************************************************************)
(* A broadcast that SendAll did not give up reached everybody who was       *)
(* connected when it began and still is. Of those it gave up, which return   *)
(* false at the first client that has gone or does not read, nothing is said: *)
(* the slots after that client miss the message.                            *)
(***************************************************************************)
THEOREM BroadcastReachesAll == Spec => []NoMessageMissed
<1>1. ListenerInv => NoMessageMissed
  <2> SUFFICES ASSUME ListenerInv, NEW r \in reached, NEW c \in r.due,
                      client[c].state = "open"
               PROVE  <<r.by, r.m, 1>> \in ToSet(Stream(c))
    BY Zenon DEF NoMessageMissed
  <2>1. c \in Clients /\ SlotsAndClients /\ BroadcastsReach
    BY DEF ListenerInv, TypeOK
  <2>2. PICK i \in Slots : slot[i].sock = c
    BY <2>1, Zenon DEF SlotsAndClients
  <2>3. <<r.by, r.m, 1>> \in ToSet(StreamAt(i))
    BY <2>1, <2>2, Zenon DEF BroadcastsReach, Due
  <2>4. Stream(c) = StreamAt(i)
    BY <2>1, <2>2, StreamOfSlot
  <2> QED
    BY <2>3, <2>4, Zenon
<1> QED
  BY <1>1, ListenerCorrect, PTL
=============================================================================
