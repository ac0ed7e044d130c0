-------------------------- MODULE AisWorkerProofs --------------------------
(***************************************************************************)
(* Two parts of the AIS worker.  The assembler of multi-line messages, for  *)
(* any channels, talkers and fields of a sentence: what waits from a source *)
(* is the beginning of one message, and what is sent is complete.  The ship *)
(* database, for every number of vessels, ships and points: the list stays  *)
(* whole, the path shown of a vessel is its own, and the vessels that are   *)
(* kept are those heard last.                                               *)
(***************************************************************************)
EXTENDS NmeaAssembler, AisDatabase, TLAPS, WellFoundedInduction, SequenceTheorems

(***************************************************************************)
(* A set of numbers has a least one.                                        *)
(***************************************************************************)
Below == {ss \in Nat \X Nat : ss[1] < ss[2]}

LEMMA LeastNumber ==
  ASSUME NEW S \in SUBSET Nat, S # {}
  PROVE  \E x \in S : \A y \in S : x <= y
<1>1. OpToRel(<, Nat) = Below
  BY Zenon DEF OpToRel, Below
<1>2. PICK x \in S : \A y \in S : ~(<<y, x>> \in Below)
  BY <1>1, NatLessThanWellFounded, WFMin, Zenon
<1>3. ASSUME NEW y \in S PROVE x <= y
  <2>1. <<y, x>> \in Nat \X Nat /\ x \in Nat /\ y \in Nat
    OBVIOUS
  <2>2. ~(y < x)
    BY <1>2, <2>1 DEF Below
  <2> QED
    BY <2>1, <2>2
<1> QED
  BY <1>3

-----------------------------------------------------------------------------
(***************************************************************************)
(* The filter of a sequence.  IsKept(q, S, k): what is kept of the first n  *)
(* elements of q is k[n].                                                   *)
(***************************************************************************)
KeptNext(q, S, n, before) ==
  IF n = 0 THEN <<>> ELSE IF q[n] \in S THEN Append(before, q[n]) ELSE before

IsKept(q, S, m, k) == k = [n \in 0 .. m |-> KeptNext(q, S, n, k[n - 1])]

LEMMA KeptIsPossible ==
  ASSUME NEW q, NEW S, NEW m \in Nat
  PROVE  \E k : IsKept(q, S, m, k)
<1> DEFINE B == {n \in Nat : ~ \E k : IsKept(q, S, n, k)}
<1>1. B = {}
  <2> SUFFICES ASSUME B # {} PROVE FALSE
    OBVIOUS
  <2>1. B \in SUBSET Nat
    OBVIOUS
  <2>2. PICK x \in B : \A y \in B : x <= y
    <3> HIDE DEF B
    <3> QED
      BY <2>1, LeastNumber
  <2>3. x \in Nat /\ ~ \E k : IsKept(q, S, x, k)
    OBVIOUS
  <2>4. CASE x = 0
    <3> DEFINE k == [n \in 0 .. x |-> <<>>]
    <3>1. ASSUME NEW n \in 0 .. x PROVE k[n] = KeptNext(q, S, n, k[n - 1])
      <4>1. n = 0 /\ k[n] = <<>>
        BY <2>4
      <4> HIDE DEF k
      <4> QED
        BY <4>1, Zenon DEF KeptNext
    <3>2. k = [n \in 0 .. x |-> k[n]]
      OBVIOUS
    <3> HIDE DEF k
    <3>3. k = [n \in 0 .. x |-> KeptNext(q, S, n, k[n - 1])]
      BY <3>1, <3>2, Zenon
    <3> QED
      BY <2>3, <3>3, Zenon DEF IsKept
  <2>5. CASE x # 0
    <3>1. x - 1 \in Nat /\ ~(x <= x - 1)
      BY <2>3, <2>5
    <3>2. PICK f : IsKept(q, S, x - 1, f)
      BY <2>2, <3>1
    <3> DEFINE k == [n \in 0 .. x |-> KeptNext(q, S, n, f[n - 1])]
    <3>3. ASSUME NEW n \in 0 .. x PROVE KeptNext(q, S, n, k[n - 1]) = k[n]
      <4>1. k[n] = KeptNext(q, S, n, f[n - 1])
        BY Zenon
      <4>2. CASE n = 0
        BY <4>1, <4>2, Zenon DEF KeptNext
      <4>3. CASE n # 0
        <5>1. n - 1 \in 0 .. x /\ n - 1 \in 0 .. x - 1
          BY <4>3
        <5>2. k[n - 1] = KeptNext(q, S, n - 1, f[(n - 1) - 1])
          BY <5>1, Zenon
        <5>3. f[n - 1] = KeptNext(q, S, n - 1, f[(n - 1) - 1])
          BY <3>2, <5>1, Zenon DEF IsKept
        <5> QED
          BY <4>1, <5>2, <5>3, Zenon
      <4> QED
        BY <4>2, <4>3
    <3>4. k = [n \in 0 .. x |-> k[n]]
      OBVIOUS
    <3> HIDE DEF k
    <3>5. k = [n \in 0 .. x |-> KeptNext(q, S, n, k[n - 1])]
      BY <3>3, <3>4, Zenon
    <3> QED
      BY <2>3, <3>5, Zenon DEF IsKept
  <2> QED
    BY <2>4, <2>5
<1> QED
  BY <1>1

\* The first m steps of the filter.
Keeps(q, S, m, k) ==
  /\ k[0] = <<>>
  /\ \A n \in 1 .. m : k[n] = IF q[n] \in S THEN Append(k[n - 1], q[n]) ELSE k[n - 1]

LEMMA KeptKeeps ==
  ASSUME NEW q, NEW S, NEW m \in Nat, NEW k, IsKept(q, S, m, k)
  PROVE  Keeps(q, S, m, k)
<1>1. 0 \in 0 .. m
  OBVIOUS
<1>2. ASSUME NEW n \in 0 .. m PROVE k[n] = KeptNext(q, S, n, k[n - 1])
  BY Zenon DEF IsKept
<1>3. k[0] = <<>>
  BY <1>1, <1>2, Zenon DEF KeptNext
<1>4. ASSUME NEW n \in 1 .. m
      PROVE  k[n] = IF q[n] \in S THEN Append(k[n - 1], q[n]) ELSE k[n - 1]
  <2>1. n \in 0 .. m /\ n # 0
    OBVIOUS
  <2> QED
    BY <1>2, <2>1, Zenon DEF KeptNext
<1> QED
  BY <1>3, <1>4, Zenon DEF Keeps

\* What is kept of the first n elements.
Kept(q, S) == CHOOSE k : k = [n \in 0 .. Len(q) |->
                IF n = 0 THEN <<>>
                ELSE IF q[n] \in S THEN Append(k[n - 1], q[n]) ELSE k[n - 1]]

LEMMA SelectKeeps ==
  ASSUME NEW T, NEW q \in Seq(T), NEW S
  PROVE  \E k : Keeps(q, S, Len(q), k) /\ Select(q, S) = k[Len(q)]
<1>1. Len(q) \in Nat
  OBVIOUS
<1>2. PICK f : IsKept(q, S, Len(q), f)
  BY <1>1, KeptIsPossible, Zenon
<1>3. IsKept(q, S, Len(q), Kept(q, S))
  BY <1>2, Zenon DEF IsKept, KeptNext, Kept
<1>4. Select(q, S) = Kept(q, S)[Len(q)]
  BY Zenon DEF Select, Kept
<1>5. Keeps(q, S, Len(q), Kept(q, S))
  BY <1>1, <1>3, KeptKeeps, Zenon
<1> QED
  BY <1>4, <1>5, Zenon
\* What is kept of the first elements does not depend on the rest.
LEMMA SameKept ==
  ASSUME NEW q, NEW r, NEW S, NEW m \in Nat, NEW w \in Nat, NEW f, NEW g, NEW l \in Nat,
         Keeps(q, S, m, f), Keeps(r, S, w, g), l <= m, l <= w,
         \A i \in 1 .. l : q[i] = r[i]
  PROVE  f[l] = g[l]
<1> DEFINE B == {n \in 0 .. l : f[n] # g[n]}
<1>1. B = {}
  <2> SUFFICES ASSUME B # {} PROVE FALSE
    OBVIOUS
  <2>1. B \in SUBSET Nat
    OBVIOUS
  <2>2. PICK x \in B : \A y \in B : x <= y
    <3> HIDE DEF B
    <3> QED
      BY <2>1, LeastNumber
  <2>3. x \in 0 .. l /\ f[x] # g[x]
    OBVIOUS
  <2>4. /\ f[0] = <<>> /\ g[0] = <<>>
        /\ \A n \in 1 .. m : f[n] = IF q[n] \in S THEN Append(f[n - 1], q[n]) ELSE f[n - 1]
        /\ \A n \in 1 .. w : g[n] = IF r[n] \in S THEN Append(g[n - 1], r[n]) ELSE g[n - 1]
    BY Zenon DEF Keeps
  <2>5. x # 0
    BY <2>3, <2>4, Zenon
  <2>6. x - 1 \in 0 .. l /\ ~(x <= x - 1) /\ x \in 1 .. m /\ x \in 1 .. w /\ x \in 1 .. l
    BY <2>3, <2>5
  <2>7. f[x - 1] = g[x - 1]
    BY <2>2, <2>6
  <2> HIDE DEF B
  <2> QED
    BY <2>3, <2>4, <2>6, <2>7, Zenon
<1>2. l \in 0 .. l
  OBVIOUS
<1> QED
  BY <1>1, <1>2

(***************************************************************************)
(* The laws of Select.                                                      *)
(***************************************************************************)
LEMMA SelectEmpty ==
  ASSUME NEW S
  PROVE  Select(<<>>, S) = <<>>
<1>1. <<>> \in Seq({}) /\ Len(<<>>) = 0
  OBVIOUS
<1>2. PICK k : Keeps(<<>>, S, 0, k) /\ Select(<<>>, S) = k[0]
  BY <1>1, SelectKeeps, Zenon
<1> QED
  BY <1>2, Zenon DEF Keeps

LEMMA SelectAppend ==
  ASSUME NEW T, NEW q \in Seq(T), NEW a \in T, NEW S
  PROVE  Select(Append(q, a), S) = IF a \in S THEN Append(Select(q, S), a) ELSE Select(q, S)
<1> DEFINE r == Append(q, a)
           l == Len(q)
<1>1. /\ r \in Seq(T) /\ Len(r) = l + 1 /\ l \in Nat /\ l + 1 \in Nat /\ r[l + 1] = a
      /\ \A i \in 1 .. l : q[i] = r[i]
  OBVIOUS
<1>2. l <= l + 1 /\ l <= l /\ l + 1 \in 1 .. l + 1 /\ (l + 1) - 1 = l
  BY <1>1
<1> HIDE DEF r, l
<1>3. PICK f : Keeps(q, S, l, f) /\ Select(q, S) = f[l]
  BY SelectKeeps, Zenon DEF l
<1>4. PICK g : Keeps(r, S, l + 1, g) /\ Select(r, S) = g[l + 1]
  BY <1>1, SelectKeeps, Zenon
<1>5. f[l] = g[l]
  <2>1. Keeps(q, S, l, f) /\ Keeps(r, S, l + 1, g) /\ \A i \in 1 .. l : q[i] = r[i]
    BY <1>1, <1>3, <1>4, Zenon
  <2>2. l \in Nat /\ l + 1 \in Nat /\ l <= l /\ l <= l + 1
    BY <1>1, <1>2, Zenon
  <2> QED
    BY <2>1, <2>2, SameKept
<1>6. g[l + 1] = IF r[l + 1] \in S THEN Append(g[(l + 1) - 1], r[l + 1]) ELSE g[(l + 1) - 1]
  BY <1>2, <1>4, Zenon DEF Keeps
<1>7. Select(r, S) = IF a \in S THEN Append(Select(q, S), a) ELSE Select(q, S)
  BY <1>1, <1>2, <1>3, <1>4, <1>5, <1>6, Zenon
<1> QED
  BY <1>7 DEF r

LEMMA KeptType ==
  ASSUME NEW T, NEW q \in Seq(T), NEW S, NEW k, Keeps(q, S, Len(q), k),
         NEW n \in 0 .. Len(q)
  PROVE  k[n] \in Seq(T \cap S)
<1>1. Len(q) \in Nat /\ \A i \in 1 .. Len(q) : q[i] \in T
  OBVIOUS
<1> DEFINE B == {i \in 0 .. Len(q) : k[i] \notin Seq(T \cap S)}
<1>2. B = {}
  <2> SUFFICES ASSUME B # {} PROVE FALSE
    OBVIOUS
  <2>1. B \in SUBSET Nat
    OBVIOUS
  <2>2. PICK x \in B : \A y \in B : x <= y
    <3> HIDE DEF B
    <3> QED
      BY <2>1, LeastNumber
  <2>3. x \in 0 .. Len(q) /\ k[x] \notin Seq(T \cap S)
    OBVIOUS
  <2>4. CASE x = 0
    <3>1. k[x] = <<>>
      BY <2>4, Zenon DEF Keeps
    <3> QED
      BY <2>3, <3>1
  <2>5. CASE x # 0
    <3>1. x - 1 \in 0 .. Len(q) /\ ~(x <= x - 1) /\ x \in 1 .. Len(q)
      BY <1>1, <2>3, <2>5
    <3>2. k[x - 1] \in Seq(T \cap S)
      BY <2>2, <3>1
    <3>3. q[x] \in T
      BY <1>1, <3>1
    <3>4. q[x] \in S => Append(k[x - 1], q[x]) \in Seq(T \cap S)
      BY <3>2, <3>3
    <3> QED
      BY <2>3, <3>1, <3>2, <3>4, Zenon DEF Keeps
  <2> QED
    BY <2>4, <2>5
<1> QED
  BY <1>2

LEMMA SelectOnly ==
  ASSUME NEW T, NEW q \in Seq(T), NEW S
  PROVE  Select(q, S) \in Seq(T \cap S)
<1>1. Len(q) \in 0 .. Len(q)
  OBVIOUS
<1>2. PICK k : Keeps(q, S, Len(q), k) /\ Select(q, S) = k[Len(q)]
  BY SelectKeeps, Zenon
<1>3. k[Len(q)] \in Seq(T \cap S)
  BY <1>1, <1>2, KeptType, Zenon
<1> QED
  BY <1>2, <1>3, Zenon

LEMMA SelectType ==
  ASSUME NEW T, NEW q \in Seq(T), NEW S
  PROVE  Select(q, S) \in Seq(T)
<1>1. Select(q, S) \in Seq(T \cap S)
  BY SelectOnly, Zenon
<1> QED
  BY <1>1

(***************************************************************************)
(* To filter twice is to filter by both conditions.                         *)
(***************************************************************************)
LEMMA SelectTwice ==
  ASSUME NEW T, NEW q \in Seq(T), NEW S, NEW R
  PROVE  Select(Select(q, R), S) = Select(q, R \cap S)
<1> DEFINE l == Len(q)
           P(n) == SubSeq(q, 1, n)
<1>1. /\ l \in Nat /\ \A i \in 1 .. l : q[i] \in T
      /\ \A n \in 0 .. l : P(n) \in Seq(T) /\ Len(P(n)) = n
      /\ \A n \in 1 .. l : P(n) = Append(P(n - 1), q[n]) /\ n - 1 \in 0 .. l
      /\ P(0) = <<>> /\ P(l) = q
  OBVIOUS
<1> DEFINE B == {n \in 0 .. l : Select(Select(P(n), R), S) # Select(P(n), R \cap S)}
<1>2. B = {}
  <2> SUFFICES ASSUME B # {} PROVE FALSE
    OBVIOUS
  <2>1. B \in SUBSET Nat
    BY <1>1
  <2>2. PICK x \in B : \A y \in B : x <= y
    <3> HIDE DEF B
    <3> QED
      BY <2>1, LeastNumber
  <2>3. x \in 0 .. l /\ Select(Select(P(x), R), S) # Select(P(x), R \cap S)
    OBVIOUS
  <2>4. x # 0
    BY <1>1, <2>3, SelectEmpty
  <2>5. x - 1 \in 0 .. l /\ ~(x <= x - 1) /\ x \in 1 .. l
    BY <1>1, <2>3, <2>4
  <2> DEFINE p == P(x - 1)
             a == q[x]
  <2>6. Select(Select(p, R), S) = Select(p, R \cap S)
    BY <2>2, <2>5
  <2>7. P(x) = Append(p, a) /\ p \in Seq(T) /\ a \in T
    BY <1>1, <2>5
  <2> HIDE DEF B, P, p, a, l
  <2>8. Select(p, R) \in Seq(T)
    BY <2>7, SelectType, Zenon
  <2>9. Select(P(x), R) = IF a \in R THEN Append(Select(p, R), a) ELSE Select(p, R)
    BY <2>7, SelectAppend, Zenon
  <2> DEFINE RS == R \cap S
  <2> HIDE DEF RS
  <2>10. Select(P(x), RS) = IF a \in RS THEN Append(Select(p, RS), a) ELSE Select(p, RS)
    BY <2>7, SelectAppend, Zenon
  <2>12. a \in RS <=> a \in R /\ a \in S
    BY Zenon DEF RS
  <2>13. Select(Select(p, R), S) = Select(p, RS) /\ Select(Select(P(x), R), S) # Select(P(x), RS)
    BY <2>3, <2>6, Zenon DEF RS
  <2>11. Select(Append(Select(p, R), a), S)
           = IF a \in S THEN Append(Select(Select(p, R), S), a) ELSE Select(Select(p, R), S)
    BY <2>7, <2>8, SelectAppend, Zenon
  <2> QED
    BY <2>9, <2>10, <2>11, <2>12, <2>13, Zenon
<1>3. l \in 0 .. l
  BY <1>1
<1> QED
  BY <1>1, <1>2, <1>3

LEMMA SelectNothing ==
  ASSUME NEW T, NEW q \in Seq(T)
  PROVE  Select(q, {}) = <<>>
<1>1. Len(q) \in Nat
  OBVIOUS
<1>2. PICK k : Keeps(q, {}, Len(q), k) /\ Select(q, {}) = k[Len(q)]
  BY SelectKeeps, Zenon
<1>3. k[0] = <<>> /\ \A n \in 1 .. Len(q) : k[n] = k[n - 1]
  BY <1>2, Zenon DEF Keeps
<1> DEFINE B == {n \in 0 .. Len(q) : k[n] # <<>>}
<1>4. B = {}
  <2> SUFFICES ASSUME B # {} PROVE FALSE
    OBVIOUS
  <2>1. B \in SUBSET Nat
    OBVIOUS
  <2>2. PICK x \in B : \A y \in B : x <= y
    <3> HIDE DEF B
    <3> QED
      BY <2>1, LeastNumber
  <2>3. x \in 0 .. Len(q) /\ k[x] # <<>>
    OBVIOUS
  <2>4. x - 1 \in 0 .. Len(q) /\ ~(x <= x - 1) /\ x \in 1 .. Len(q)
    BY <1>1, <1>3, <2>3
  <2> QED
    BY <1>3, <2>2, <2>3, <2>4
<1>5. Len(q) \in 0 .. Len(q)
  BY <1>1
<1> QED
  BY <1>2, <1>4, <1>5

LEMMA AppendIsSome ==
  ASSUME NEW T, NEW q \in Seq(T), NEW a \in T
  PROVE  Append(q, a) # <<>>
<1>1. Len(Append(q, a)) = Len(q) + 1 /\ Len(q) \in Nat
  OBVIOUS
<1> QED
  BY <1>1

\* An element that is in S is kept.
LEMMA SelectSome ==
  ASSUME NEW T, NEW q \in Seq(T), NEW S, NEW i \in 1 .. Len(q), q[i] \in S
  PROVE  Select(q, S) # <<>>
<1>1. Len(q) \in Nat /\ i \in Nat /\ i <= Len(q)
  OBVIOUS
<1>2. PICK k : Keeps(q, S, Len(q), k) /\ Select(q, S) = k[Len(q)]
  BY SelectKeeps, Zenon
<1>3. \A n \in 1 .. Len(q) : k[n] = IF q[n] \in S THEN Append(k[n - 1], q[n]) ELSE k[n - 1]
  BY <1>2, Zenon DEF Keeps
<1>4. \A n \in 0 .. Len(q) : k[n] \in Seq(T \cap S)
  BY <1>2, KeptType, Zenon
<1> DEFINE B == {n \in i .. Len(q) : k[n] = <<>>}
<1>5. B = {}
  <2> SUFFICES ASSUME B # {} PROVE FALSE
    OBVIOUS
  <2>1. B \in SUBSET Nat
    OBVIOUS
  <2>2. PICK x \in B : \A y \in B : x <= y
    <3> HIDE DEF B
    <3> QED
      BY <2>1, LeastNumber
  <2>3. x \in i .. Len(q) /\ k[x] = <<>>
    OBVIOUS
  <2>4. x \in 1 .. Len(q) /\ x - 1 \in 0 .. Len(q) /\ q[x] \in T
    BY <1>1, <2>3
  <2>5. k[x - 1] \in Seq(T)
    BY <1>4, <2>4
  <2>6. Append(k[x - 1], q[x]) # <<>>
    BY <2>4, <2>5, AppendIsSome, Zenon
  <2>7. k[x] = k[x - 1] /\ q[x] \notin S
    BY <1>3, <2>3, <2>4, <2>6, Zenon
  <2>8. x # i
    BY <2>7
  <2>9. x - 1 \in i .. Len(q) /\ ~(x <= x - 1)
    BY <1>1, <2>3, <2>8
  <2> QED
    BY <2>2, <2>3, <2>7, <2>9
<1> QED
  BY <1>1, <1>2, <1>5
-----------------------------------------------------------------------------
(***************************************************************************)
(* What waits from a source is nothing, or the beginning of a message.      *)
(***************************************************************************)
Sources == Channels \X Talkers

IsPrefixOfMessage(parts) ==
  parts = <<>> \/ (InOrderFromOne(parts) /\ Last(parts).number # Last(parts).count)

PartsInv == \A s \in Sources : IsPrefixOfMessage(From(queue, s))

AssemblerInv == NmeaTypeOK /\ PartsInv /\ SentMessageIsComplete

LEMMA SourceType ==
  ASSUME NEW a \in Sentence
  PROVE  Source(a) \in Sources /\ a.number \in Int
BY NumbersAssumption DEF Sentence, Source, Sources

(***************************************************************************)
(* What the operations of the queue do to the parts of each source.         *)
(***************************************************************************)
LEMMA FromType ==
  ASSUME NEW q \in Seq(Sentence), NEW s
  PROVE  From(q, s) \in Seq(Sentence)
BY SelectType, Zenon DEF From

LEMMA FromAppend ==
  ASSUME NEW q \in Seq(Sentence), NEW a \in Sentence, NEW s
  PROVE  From(Append(q, a), s) = IF Source(a) = s THEN Append(From(q, s), a) ELSE From(q, s)
<1> DEFINE S == {b \in Sentence : IsFrom(b, s)}
<1>1. a \in S <=> Source(a) = s
  BY Zenon DEF IsFrom
<1>2. \A r : From(r, s) = Select(r, S)
  BY Zenon DEF From
<1> HIDE DEF S
<1>3. Select(Append(q, a), S) = IF a \in S THEN Append(Select(q, S), a) ELSE Select(q, S)
  BY SelectAppend, Zenon
<1> QED
  BY <1>1, <1>2, <1>3, Zenon

LEMMA CleanType ==
  ASSUME NEW q \in Seq(Sentence), NEW a
  PROVE  Clean(q, a) \in Seq(Sentence)
BY SelectType, Zenon DEF Clean

LEMMA FromClean ==
  ASSUME NEW q \in Seq(Sentence), NEW a \in Sentence, NEW s
  PROVE  From(Clean(q, a), s) = IF Source(a) = s THEN <<>> ELSE From(q, s)
<1> DEFINE S == {b \in Sentence : IsFrom(b, s)}
           R == {b \in Sentence : ~IsFrom(b, Source(a))}
<1>1. Source(a) = s => R \cap S = {}
  BY Zenon DEF IsFrom
<1>2. Source(a) # s => R \cap S = S
  BY DEF IsFrom
<1>3. From(Clean(q, a), s) = Select(Select(q, R), S) /\ From(q, s) = Select(q, S)
  BY Zenon DEF From, Clean
<1> HIDE DEF S, R
<1>4. Select(Select(q, R), S) = Select(q, R \cap S)
  BY SelectTwice, Zenon
<1>5. Select(q, {}) = <<>>
  BY SelectNothing, Zenon
<1> QED
  BY <1>1, <1>2, <1>3, <1>4, <1>5, Zenon

LEMMA FromChannel ==
  ASSUME NEW q \in Seq(Sentence), NEW a \in Sentence
  PROVE  From(OnChannel(q, a), Source(a)) = From(q, Source(a))
<1> DEFINE S == {b \in Sentence : IsFrom(b, Source(a))}
           R == {b \in Sentence : b.channel = a.channel}
<1>1. R \cap S = S
  BY DEF IsFrom, Source
<1>2. /\ From(OnChannel(q, a), Source(a)) = Select(Select(q, R), S)
      /\ From(q, Source(a)) = Select(q, S)
  BY Zenon DEF From, OnChannel
<1> HIDE DEF S, R
<1>3. Select(Select(q, R), S) = Select(q, R \cap S)
  BY SelectTwice, Zenon
<1> QED
  BY <1>1, <1>2, <1>3, Zenon

\* What waits from the source of a, after what a does not continue has been removed.
Before(a) == IF Continues(a) THEN From(queue, Source(a)) ELSE <<>>

LEMMA BeforeType ==
  ASSUME NmeaTypeOK, NEW a \in Sentence
  PROVE  Before(a) \in Seq(Sentence)
<1>1. From(queue, Source(a)) \in Seq(Sentence)
  BY FromType, Zenon DEF NmeaTypeOK
<1>2. <<>> \in Seq(Sentence)
  OBVIOUS
<1> QED
  BY <1>1, <1>2, Zenon DEF Before

LEMMA FromPushed ==
  ASSUME NmeaTypeOK, NEW a \in Sentence
  PROVE  /\ Pushed(a) \in Seq(Sentence)
         /\ \A s : From(Pushed(a), s) = IF Source(a) = s THEN Append(Before(a), a)
                                        ELSE From(queue, s)
<1> DEFINE q == IF Continues(a) THEN queue ELSE Clean(queue, a)
<1>1. queue \in Seq(Sentence) /\ Clean(queue, a) \in Seq(Sentence)
  BY CleanType, Zenon DEF NmeaTypeOK
<1>2. q \in Seq(Sentence) /\ Pushed(a) = Append(q, a)
  BY <1>1, Zenon DEF Pushed
<1>3. ASSUME NEW s
      PROVE  From(q, s) = IF Source(a) = s THEN Before(a) ELSE From(queue, s)
  <2>1. From(Clean(queue, a), s) = IF Source(a) = s THEN <<>> ELSE From(queue, s)
    BY <1>1, FromClean, Zenon
  <2>2. CASE Continues(a)
    BY <2>2, Zenon DEF Before
  <2>3. CASE ~Continues(a)
    BY <2>1, <2>3, Zenon DEF Before
  <2> QED
    BY <2>2, <2>3, Zenon
<1> HIDE DEF q
<1>4. Append(q, a) \in Seq(Sentence)
  BY <1>2
<1>5. ASSUME NEW s
      PROVE  From(Pushed(a), s) = IF Source(a) = s THEN Append(Before(a), a) ELSE From(queue, s)
  <2>1. From(Append(q, a), s) = IF Source(a) = s THEN Append(From(q, s), a) ELSE From(q, s)
    BY <1>2, FromAppend, Zenon
  <2> QED
    BY <1>2, <1>3, <2>1, Zenon
<1> QED
  BY <1>2, <1>4, <1>5, Zenon
(***************************************************************************)
(* A part that continues a message, or is its first, makes a longer         *)
(* beginning of it.                                                         *)
(***************************************************************************)
ContinuesParts(p, a) ==
  \/ p = <<>> /\ a.number = 1
  \/ /\ p # <<>> /\ InOrderFromOne(p)
     /\ a.number = Last(p).number + 1 /\ a.ID = Last(p).ID /\ a.count = Last(p).count

IsLonger(r, a) ==
  /\ r # <<>> /\ Last(r) = a /\ Len(r) = a.number
  /\ InOrderFromOne(r)

LEMMA LongerInOrder ==
  ASSUME NEW p \in Seq(Sentence), NEW a \in Sentence, ContinuesParts(p, a)
  PROVE  IsLonger(Append(p, a), a)
<1> DEFINE r == Append(p, a)
           l == Len(p)
<1>1. /\ l \in Nat /\ Len(r) = l + 1 /\ r[l + 1] = a /\ r # <<>>
      /\ \A i \in 1 .. l : r[i] = p[i]
  BY AppendIsSome
<1>2. Last(r) = a
  BY <1>1 DEF Last
<1>3. CASE p = <<>> /\ a.number = 1
  <2>1. l = 0
    BY <1>3
  <2> HIDE DEF r, l
  <2>2. InOrderFromOne(r)
    BY <1>1, <1>3, <2>1 DEF InOrderFromOne
  <2>3. Len(r) = a.number
    BY <1>1, <1>3, <2>1
  <2> QED
    BY <1>1, <1>2, <2>2, <2>3, Zenon DEF IsLonger, r
<1>4. CASE /\ p # <<>> /\ InOrderFromOne(p)
           /\ a.number = Last(p).number + 1 /\ a.ID = Last(p).ID /\ a.count = Last(p).count
  <2>1. l \in 1 .. l /\ 1 \in 1 .. l /\ Last(p) = p[l]
    BY <1>4 DEF Last
  <2> HIDE DEF l
  <2>2. \A i \in 1 .. l : p[i].number = i /\ p[i].ID = p[1].ID /\ p[i].count = p[1].count
    BY <1>4, Zenon DEF InOrderFromOne, l
  <2>3. a.number = l + 1 /\ a.ID = p[1].ID /\ a.count = p[1].count
    BY <1>4, <2>1, <2>2
  <2> HIDE DEF r
  <2>4. ASSUME NEW i \in 1 .. l + 1
        PROVE  r[i].number = i /\ r[i].ID = r[1].ID /\ r[i].count = r[1].count
    <3>1. r[1] = p[1]
      BY <1>1, <2>1
    <3>2. CASE i \in 1 .. l
      BY <1>1, <2>2, <3>1, <3>2, Zenon
    <3>3. CASE i = l + 1
      BY <1>1, <2>3, <3>1, <3>3, Zenon
    <3> QED
      BY <1>1, <3>2, <3>3
  <2>5. InOrderFromOne(r) /\ Len(r) = a.number
    BY <1>1, <2>3, <2>4, Zenon DEF InOrderFromOne
  <2> QED
    BY <1>1, <1>2, <2>5, Zenon DEF IsLonger, r
<1> QED
  BY <1>3, <1>4, Zenon DEF ContinuesParts

LEMMA AcceptedIsLonger ==
  ASSUME NmeaTypeOK, PartsInv, NEW a \in Sentence, Accepted(a)
  PROVE  IsLonger(Append(Before(a), a), a)
<1> DEFINE p == From(queue, Source(a))
<1>1. IsPrefixOfMessage(p) /\ p \in Seq(Sentence)
  BY SourceType, FromType, Zenon DEF PartsInv, NmeaTypeOK
<1>2. ContinuesParts(Before(a), a)
  <2>1. CASE ~Continues(a)
    BY <2>1, Zenon DEF Accepted, Before, ContinuesParts
  <2>2. CASE Continues(a)
    <3>1. Before(a) = p /\ Search(a) # -1 /\ a.number = Search(a) + 1
      BY <2>2, Zenon DEF Before, Continues
    <3>2. Search(a) = IF p = <<>> THEN 0
                      ELSE IF Last(p).count # a.count \/ Last(p).ID # a.ID THEN -1
                      ELSE Last(p).number
      BY Zenon DEF Search
    <3> HIDE DEF p
    <3>3. CASE p = <<>>
      <4>1. a.number = 1
        BY <3>1, <3>2, <3>3
      <4> QED
        BY <3>1, <3>3, <4>1, Zenon DEF ContinuesParts
    <3>4. CASE p # <<>>
      <4>1. Last(p).count = a.count /\ Last(p).ID = a.ID /\ Search(a) = Last(p).number
        BY <3>1, <3>2, <3>4, Zenon
      <4>2. InOrderFromOne(p)
        BY <1>1, <3>4, Zenon DEF IsPrefixOfMessage
      <4> QED
        BY <3>1, <3>4, <4>1, <4>2, Zenon DEF ContinuesParts
    <3> QED
      BY <3>3, <3>4
  <2> QED
    BY <2>1, <2>2
<1> QED
  BY <1>2, BeforeType, LongerInOrder, Zenon

-----------------------------------------------------------------------------
(***************************************************************************)
(* The inductive invariant: it holds at first, and each way out of          *)
(* submitAIS keeps it.                                                      *)
(***************************************************************************)
LEMMA InitAssembler == NmeaInit => AssemblerInv
<1> SUFFICES ASSUME NmeaInit PROVE AssemblerInv
  OBVIOUS
<1>1. queue = <<>> /\ out = <<>>
  BY DEF NmeaInit
<1>2. NmeaTypeOK
  BY <1>1 DEF NmeaTypeOK
<1>3. PartsInv
  BY <1>1, SelectEmpty, Zenon DEF PartsInv, IsPrefixOfMessage, From
<1>4. SentMessageIsComplete
  BY <1>1, Zenon DEF SentMessageIsComplete
<1> QED
  BY <1>2, <1>3, <1>4, Zenon DEF AssemblerInv

LEMMA BadChecksumKeeps ==
  ASSUME AssemblerInv, NEW a \in Sentence, SubmitBadChecksum(a)
  PROVE  AssemblerInv'
<1>1. queue' = queue /\ out' = <<>>
  BY DEF SubmitBadChecksum
<1>2. NmeaTypeOK'
  BY <1>1 DEF AssemblerInv, NmeaTypeOK
<1>3. PartsInv'
  BY <1>1, Zenon DEF AssemblerInv, PartsInv, IsPrefixOfMessage, From
<1>4. SentMessageIsComplete'
  BY <1>1, Zenon DEF SentMessageIsComplete
<1> QED
  BY <1>2, <1>3, <1>4, Zenon DEF AssemblerInv

LEMMA SingleKeeps ==
  ASSUME AssemblerInv, NEW a \in Sentence, NEW valid \in BOOLEAN, SubmitSingle(a, valid)
  PROVE  AssemblerInv'
<1>1. queue' = queue /\ (out' = <<a>> \/ out' = <<>>) /\ a.count = 1
  BY Zenon DEF SubmitSingle, Send
<1>2. NmeaTypeOK'
  <2>1. <<>> \in Seq(Sentence) /\ <<a>> \in Seq(Sentence)
    OBVIOUS
  <2> QED
    BY <1>1, <2>1, Zenon DEF AssemblerInv, NmeaTypeOK
<1>3. PartsInv'
  BY <1>1, Zenon DEF AssemblerInv, PartsInv, IsPrefixOfMessage, From
<1>4. Last(<<a>>) = a
  BY DEF Last
<1>5. SentMessageIsComplete'
  BY <1>1, <1>4, Zenon DEF SentMessageIsComplete
<1> QED
  BY <1>2, <1>3, <1>5, Zenon DEF AssemblerInv

LEMMA MissingKeeps ==
  ASSUME AssemblerInv, NEW a \in Sentence, SubmitMissing(a)
  PROVE  AssemblerInv'
<1>1. queue' = Clean(queue, a) /\ out' = <<>> /\ queue \in Seq(Sentence)
  BY Zenon DEF SubmitMissing, AssemblerInv, NmeaTypeOK
<1>2. NmeaTypeOK'
  <2>1. queue' \in Seq(Sentence)
    BY <1>1, CleanType, Zenon
  <2> QED
    BY <1>1, <2>1 DEF NmeaTypeOK
<1>3. ASSUME NEW s \in Sources PROVE IsPrefixOfMessage(From(queue', s))
  <2>1. From(queue', s) = IF Source(a) = s THEN <<>> ELSE From(queue, s)
    BY <1>1, FromClean, Zenon
  <2> QED
    BY <2>1, Zenon DEF AssemblerInv, PartsInv, IsPrefixOfMessage
<1>4. PartsInv'
  BY <1>3, Zenon DEF PartsInv, From
<1>5. SentMessageIsComplete'
  BY <1>1, Zenon DEF SentMessageIsComplete
<1> QED
  BY <1>2, <1>4, <1>5, Zenon DEF AssemblerInv

LEMMA PartKeeps ==
  ASSUME AssemblerInv, NEW a \in Sentence, SubmitPart(a)
  PROVE  AssemblerInv'
<1>1. queue' = Pushed(a) /\ out' = <<>> /\ Accepted(a) /\ a.number # a.count
  BY Zenon DEF SubmitPart
<1>2. NmeaTypeOK /\ PartsInv
  BY Zenon DEF AssemblerInv
<1>3. NmeaTypeOK'
  <2>1. queue' \in Seq(Sentence)
    BY <1>1, <1>2, FromPushed, Zenon
  <2> QED
    BY <1>1, <2>1 DEF NmeaTypeOK
<1>4. IsLonger(Append(Before(a), a), a)
  BY <1>1, <1>2, AcceptedIsLonger, Zenon
<1>5. IsPrefixOfMessage(Append(Before(a), a))
  BY <1>1, <1>4, Zenon DEF IsLonger, IsPrefixOfMessage
<1>6. ASSUME NEW s \in Sources PROVE IsPrefixOfMessage(From(queue', s))
  <2>1. From(queue', s) = IF Source(a) = s THEN Append(Before(a), a) ELSE From(queue, s)
    BY <1>1, <1>2, FromPushed, Zenon
  <2> QED
    BY <1>2, <1>5, <2>1, Zenon DEF PartsInv
<1>7. PartsInv'
  BY <1>6, Zenon DEF PartsInv, From
<1>8. SentMessageIsComplete'
  BY <1>1, Zenon DEF SentMessageIsComplete
<1> QED
  BY <1>3, <1>7, <1>8, Zenon DEF AssemblerInv
LEMMA LastOnChannel ==
  ASSUME NmeaTypeOK, NEW a \in Sentence
  PROVE  Last(OnChannel(Pushed(a), a)) = a /\ OnChannel(Pushed(a), a) \in Seq(Sentence)
<1> DEFINE q == IF Continues(a) THEN queue ELSE Clean(queue, a)
           R == {b \in Sentence : b.channel = a.channel}
<1>1. queue \in Seq(Sentence) /\ Clean(queue, a) \in Seq(Sentence)
  BY CleanType, Zenon DEF NmeaTypeOK
<1>2. q \in Seq(Sentence) /\ Pushed(a) = Append(q, a)
  BY <1>1, Zenon DEF Pushed
<1>3. OnChannel(Pushed(a), a) = Select(Append(q, a), R) /\ a \in R
  BY <1>2, Zenon DEF OnChannel
<1> HIDE DEF q, R
<1>4. Select(Append(q, a), R) = Append(Select(q, R), a)
  BY <1>2, <1>3, SelectAppend, Zenon
<1>5. Select(q, R) \in Seq(Sentence)
  BY <1>2, SelectType, Zenon
<1>6. \A r \in Seq(Sentence) : Last(Append(r, a)) = a /\ Append(r, a) \in Seq(Sentence)
  BY DEF Last
<1> QED
  BY <1>3, <1>4, <1>5, <1>6, Zenon

LEMMA LastKeeps ==
  ASSUME AssemblerInv, NEW a \in Sentence, NEW valid \in BOOLEAN, SubmitLast(a, valid)
  PROVE  AssemblerInv'
<1> DEFINE sent == OnChannel(Pushed(a), a)
<1>1. /\ Accepted(a) /\ a.number = a.count
      /\ queue' = Clean(Pushed(a), a) /\ (out' = sent \/ out' = <<>>)
  BY Zenon DEF SubmitLast, Send
<1>2. NmeaTypeOK /\ PartsInv
  BY Zenon DEF AssemblerInv
<1>3. Pushed(a) \in Seq(Sentence) /\ sent \in Seq(Sentence) /\ Last(sent) = a
  BY <1>2, FromPushed, LastOnChannel, Zenon
<1>4. NmeaTypeOK'
  <2>1. queue' \in Seq(Sentence)
    BY <1>1, <1>3, CleanType, Zenon
  <2>2. <<>> \in Seq(Sentence)
    OBVIOUS
  <2> QED
    BY <1>1, <1>3, <2>1, <2>2, Zenon DEF NmeaTypeOK
<1>5. ASSUME NEW s \in Sources PROVE IsPrefixOfMessage(From(queue', s))
  <2>1. From(queue', s) = IF Source(a) = s THEN <<>> ELSE From(Pushed(a), s)
    BY <1>1, <1>3, FromClean, Zenon
  <2>2. Source(a) # s => From(Pushed(a), s) = From(queue, s)
    BY <1>2, FromPushed, Zenon
  <2> QED
    BY <1>2, <2>1, <2>2, Zenon DEF PartsInv, IsPrefixOfMessage
<1>6. PartsInv'
  BY <1>5, Zenon DEF PartsInv, From
<1>7. From(sent, Source(a)) = Append(Before(a), a)
  <2>1. From(sent, Source(a)) = From(Pushed(a), Source(a))
    BY <1>3, FromChannel, Zenon
  <2> QED
    BY <1>2, <2>1, FromPushed, Zenon
<1>8. IsLonger(From(sent, Source(a)), a)
  BY <1>1, <1>2, <1>7, AcceptedIsLonger, Zenon
<1>9. InOrderFromOne(From(sent, Source(a))) /\ Len(From(sent, Source(a))) = a.count
  BY <1>1, <1>8, Zenon DEF IsLonger
<1> HIDE DEF sent
<1>10. SentMessageIsComplete'
  BY <1>1, <1>3, <1>9, Zenon DEF SentMessageIsComplete, From
<1> QED
  BY <1>4, <1>6, <1>10, Zenon DEF AssemblerInv

LEMMA StutterKeeps == AssemblerInv /\ UNCHANGED assembly => AssemblerInv'
<1> SUFFICES ASSUME AssemblerInv, UNCHANGED assembly PROVE AssemblerInv'
  OBVIOUS
<1>1. queue' = queue /\ out' = out
  BY DEF assembly
<1> QED
  BY <1>1, Zenon DEF AssemblerInv, NmeaTypeOK, PartsInv, SentMessageIsComplete,
     IsPrefixOfMessage, InOrderFromOne, From

LEMMA NextKeepsAssembler == AssemblerInv /\ [NmeaNext]_assembly => AssemblerInv'
<1> SUFFICES ASSUME AssemblerInv, [NmeaNext]_assembly PROVE AssemblerInv'
  OBVIOUS
<1>1. CASE UNCHANGED assembly
  BY <1>1, StutterKeeps, Zenon
<1>2. CASE NmeaNext
  <2> PICK a \in Sentence : \/ SubmitBadChecksum(a)
                            \/ \E valid \in BOOLEAN : SubmitSingle(a, valid)
                            \/ SubmitMissing(a)
                            \/ SubmitPart(a)
                            \/ \E valid \in BOOLEAN : SubmitLast(a, valid)
    BY <1>2, Zenon DEF NmeaNext
  <2>1. CASE SubmitBadChecksum(a)
    BY <2>1, BadChecksumKeeps, Zenon
  <2>2. CASE \E valid \in BOOLEAN : SubmitSingle(a, valid)
    BY <2>2, SingleKeeps, Zenon
  <2>3. CASE SubmitMissing(a)
    BY <2>3, MissingKeeps, Zenon
  <2>4. CASE SubmitPart(a)
    BY <2>4, PartKeeps, Zenon
  <2>5. CASE \E valid \in BOOLEAN : SubmitLast(a, valid)
    BY <2>5, LastKeeps, Zenon
  <2> QED
    BY <2>1, <2>2, <2>3, <2>4, <2>5
<1> QED
  BY <1>1, <1>2, Zenon

(***************************************************************************)
(* The inductive invariant of the assembler holds in every reachable state. *)
(***************************************************************************)
THEOREM AssemblerCorrect == NmeaSpec => []AssemblerInv
BY InitAssembler, NextKeepsAssembler, PTL DEF NmeaSpec

(***************************************************************************)
(* Type correctness of the assembler (submitAIS).                           *)
(***************************************************************************)
THEOREM AssemblerTypeCorrect == NmeaSpec => []NmeaTypeOK
<1>1. AssemblerInv => NmeaTypeOK
  BY DEF AssemblerInv
<1> QED
  BY <1>1, AssemblerCorrect, PTL

(***************************************************************************)
(* Whatever sentences submitAIS is given, what waits from one talker on one *)
(* channel is the beginning of one message, without a gap and without its   *)
(* last part.                                                               *)
(***************************************************************************)
THEOREM PartsWaitInOrder == NmeaSpec => []WaitingPartsAreAPrefix
<1>1. AssemblerInv => WaitingPartsAreAPrefix
  <2> SUFFICES ASSUME AssemblerInv, NEW i \in 1 .. Len(queue)
               PROVE  LET parts == From(queue, Source(queue[i]))
                      IN  InOrderFromOne(parts) /\ Last(parts).number # Last(parts).count
    BY Zenon DEF WaitingPartsAreAPrefix
  <2>1. queue \in Seq(Sentence) /\ PartsInv
    BY Zenon DEF AssemblerInv, NmeaTypeOK
  <2>2. queue[i] \in Sentence
    BY <2>1
  <2>3. IsPrefixOfMessage(From(queue, Source(queue[i])))
    BY <2>1, <2>2, SourceType, Zenon DEF PartsInv
  <2>4. queue[i] \in {b \in Sentence : IsFrom(b, Source(queue[i]))}
    BY <2>2, Zenon DEF IsFrom
  <2>5. From(queue, Source(queue[i])) # <<>>
    BY <2>1, <2>4, SelectSome, Zenon DEF From
  <2> QED
    BY <2>3, <2>5, Zenon DEF IsPrefixOfMessage
<1> QED
  BY <1>1, AssemblerCorrect, PTL

(***************************************************************************)
(* A message of several sentences that submitAIS sends has every part of    *)
(* the message its last sentence completes, once each and in order.         *)
(***************************************************************************)
THEOREM SentMessagesAreComplete == NmeaSpec => []SentMessageIsComplete
<1>1. AssemblerInv => SentMessageIsComplete
  BY DEF AssemblerInv
<1> QED
  BY <1>1, AssemblerCorrect, PTL

-----------------------------------------------------------------------------
(***************************************************************************)
(* What a message is sent with beyond its own parts are parts of other      *)
(* talkers, never of another channel.                                       *)
(***************************************************************************)
SentOnOneChannel == \A i \in 1 .. Len(out) : out[i].channel = Last(out).channel

LEMMA StepSendsOneChannel ==
  ASSUME NmeaTypeOK, SentOnOneChannel, [NmeaNext]_assembly
  PROVE  SentOnOneChannel'
<1>1. CASE out' = out
  BY <1>1, Zenon DEF SentOnOneChannel
<1>2. CASE out' = <<>>
  BY <1>2 DEF SentOnOneChannel
<1>3. ASSUME NEW a \in Sentence, out' = <<a>>
      PROVE  SentOnOneChannel'
  BY <1>3 DEF SentOnOneChannel, Last
<1>4. ASSUME NEW a \in Sentence, out' = OnChannel(Pushed(a), a)
      PROVE  SentOnOneChannel'
  <2> DEFINE R == {b \in Sentence : b.channel = a.channel}
  <2>1. Pushed(a) \in Seq(Sentence) /\ Last(out') = a
    BY <1>4, FromPushed, LastOnChannel, Zenon
  <2>2. out' = Select(Pushed(a), R)
    BY <1>4, Zenon DEF OnChannel
  <2>3. \A b \in Sentence \cap R : b.channel = a.channel
    BY Zenon
  <2> HIDE DEF R
  <2>4. out' \in Seq(Sentence \cap R)
    BY <2>1, <2>2, SelectOnly, Zenon
  <2>5. \A i \in 1 .. Len(out') : out'[i] \in Sentence \cap R
    BY <2>4
  <2> QED
    BY <2>1, <2>3, <2>5, Zenon DEF SentOnOneChannel
<1>5. CASE NmeaNext
  <2>1. \/ out' = <<>>
        \/ \E a \in Sentence : out' = <<a>>
        \/ \E a \in Sentence : out' = OnChannel(Pushed(a), a)
    BY <1>5, Zenon DEF NmeaNext, SubmitBadChecksum, SubmitSingle, SubmitMissing, SubmitPart,
       SubmitLast, Send
  <2> QED
    BY <1>2, <1>3, <1>4, <2>1, Zenon
<1> QED
  BY <1>1, <1>5, Zenon DEF assembly

(***************************************************************************)
(* Only parts on the same channel are put together (NMEA.cpp:109).          *)
(***************************************************************************)
THEOREM ChannelsAreApart == NmeaSpec => []SentOnOneChannel
<1>1. NmeaInit => SentOnOneChannel
  BY DEF NmeaInit, SentOnOneChannel
<1>2. NmeaTypeOK /\ SentOnOneChannel /\ [NmeaNext]_assembly => SentOnOneChannel'
  BY StepSendsOneChannel, Zenon
<1> QED
  BY <1>1, <1>2, AssemblerTypeCorrect, PTL DEF NmeaSpec

(***************************************************************************)
(* What the comment at NMEA.cpp:102 says of the payloads, that they are     *)
(* those of the message, is true of a receiver that hears one talker.       *)
(***************************************************************************)
THEOREM OneTalkerIsPure ==
  ASSUME \A t1, t2 \in Talkers : t1 = t2
  PROVE  NmeaSpec => []SentMessageIsPure
<1>1. NmeaTypeOK /\ SentOnOneChannel => SentMessageIsPure
  <2> SUFFICES ASSUME NmeaTypeOK, SentOnOneChannel, out # <<>>, NEW i \in 1 .. Len(out)
               PROVE  Source(out[i]) = Source(Last(out))
    BY Zenon DEF SentMessageIsPure
  <2>1. out[i] \in Sentence /\ Last(out) \in Sentence
    BY DEF NmeaTypeOK, Last
  <2>2. out[i].channel = Last(out).channel
    BY Zenon DEF SentOnOneChannel
  <2>3. out[i].talkerID \in Talkers /\ Last(out).talkerID \in Talkers
    BY <2>1 DEF Sentence
  <2> QED
    BY <2>2, <2>3, Zenon DEF Source
<1> QED
  BY <1>1, AssemblerTypeCorrect, ChannelsAreApart, PTL

-----------------------------------------------------------------------------
(***************************************************************************)
(* The assembler as one that keeps the parts of each source apart.          *)
(***************************************************************************)
LEMMA SameOrder == \A parts : Parts!InOrder(parts) <=> InOrderFromOne(parts)
BY Zenon DEF Parts!InOrder, InOrderFromOne

\* Beyond what waits, only a part that continues it is in order.
LEMMA InOrderContinues ==
  ASSUME NmeaTypeOK, PartsInv, NEW a \in Sentence,
         InOrderFromOne(Append(From(queue, Source(a)), a))
  PROVE  \/ From(queue, Source(a)) = <<>> /\ a.number = 1
         \/ From(queue, Source(a)) # <<>> /\ a.number # 1 /\ Continues(a)
<1> DEFINE p == From(queue, Source(a))
           r == Append(p, a)
           l == Len(p)
<1>1. IsPrefixOfMessage(p) /\ p \in Seq(Sentence)
  BY SourceType, FromType, Zenon DEF PartsInv, NmeaTypeOK
<1>2. Search(a) = IF p = <<>> THEN 0
                  ELSE IF Last(p).count # a.count \/ Last(p).ID # a.ID THEN -1
                  ELSE Last(p).number
  BY Zenon DEF Search
<1> HIDE DEF p
<1>3. /\ l \in Nat /\ Len(r) = l + 1 /\ r[l + 1] = a
      /\ \A i \in 1 .. l : r[i] = p[i]
  BY <1>1
<1>4. InOrderFromOne(r)
  BY Zenon DEF p
<1> HIDE DEF r
<1>5. \A i \in 1 .. l + 1 : r[i].number = i /\ r[i].ID = r[1].ID /\ r[i].count = r[1].count
  BY <1>3, <1>4, Zenon DEF InOrderFromOne
<1>6. l + 1 \in 1 .. l + 1
  BY <1>3
<1>7. a.number = l + 1 /\ a.ID = r[1].ID /\ a.count = r[1].count
  BY <1>3, <1>5, <1>6, Zenon
<1>8. CASE p = <<>>
  <2>1. l = 0
    BY <1>8
  <2>2. a.number = 1
    BY <1>7, <2>1
  <2> QED
    BY <1>8, <2>2, Zenon DEF p
<1>9. CASE p # <<>>
  <2>1. l \in 1 .. l /\ 1 \in 1 .. l /\ Last(p) = p[l]
    BY <1>1, <1>9 DEF Last
  <2>2. InOrderFromOne(p)
    BY <1>1, <1>9, Zenon DEF IsPrefixOfMessage
  <2>3. Last(p).number = l /\ Last(p).ID = p[1].ID /\ Last(p).count = p[1].count
    BY <2>1, <2>2, Zenon DEF InOrderFromOne
  <2>4. r[1] = p[1]
    BY <1>3, <2>1, Zenon
  <2>5. Search(a) = l
    BY <1>2, <1>7, <1>9, <2>3, <2>4, Zenon
  <2>6. Search(a) # -1 /\ a.number = Search(a) + 1 /\ a.number # 1
    BY <1>3, <1>7, <2>1, <2>5
  <2> QED
    BY <1>9, <2>6, Zenon DEF Continues, p
<1> QED
  BY <1>8, <1>9

LEMMA WaitingOf ==
  ASSUME NEW a \in Sentence
  PROVE  Waiting[Parts!Source(a)] = From(queue, Source(a)) /\ Parts!Source(a) = Source(a)
<1>1. Parts!Source(a) = Source(a)
  BY Zenon DEF Parts!Source, Source
<1>2. Source(a) \in Channels \X Talkers
  BY SourceType, Zenon DEF Sources
<1> QED
  BY <1>1, <1>2, Zenon DEF Waiting

LEMMA AssembledAccepted ==
  ASSUME NmeaTypeOK, PartsInv, NEW a \in Sentence, Accepted(a)
  PROVE  Parts!Assembled(a) = Append(Before(a), a)
<1> DEFINE p == From(queue, Source(a))
<1>1. Parts!Assembled(a) = IF InOrderFromOne(Append(p, a)) THEN Append(p, a) ELSE <<a>>
  BY WaitingOf, SameOrder, Zenon DEF Parts!Assembled
<1>2. CASE Continues(a)
  <2>1. Before(a) = p
    BY <1>2, Zenon DEF Before
  <2>2. InOrderFromOne(Append(Before(a), a))
    BY AcceptedIsLonger, Zenon DEF IsLonger
  <2> QED
    BY <1>1, <2>1, <2>2, Zenon
<1>3. CASE ~Continues(a)
  <2>1. Before(a) = <<>> /\ a.number = 1
    BY <1>3, Zenon DEF Before, Accepted
  <2>2. InOrderFromOne(Append(p, a)) => p = <<>>
    BY <1>3, InOrderContinues, Zenon
  <2>3. Append(<<>>, a) = <<a>>
    OBVIOUS
  <2> QED
    BY <1>1, <2>1, <2>2, <2>3, Zenon
<1> QED
  BY <1>2, <1>3

LEMMA AssembledMissing ==
  ASSUME NmeaTypeOK, PartsInv, NEW a \in Sentence, ~Continues(a), a.number # 1
  PROVE  ~Parts!InOrder(Parts!Assembled(a))
<1> DEFINE p == From(queue, Source(a))
<1>1. Parts!Assembled(a) = IF InOrderFromOne(Append(p, a)) THEN Append(p, a) ELSE <<a>>
  BY WaitingOf, SameOrder, Zenon DEF Parts!Assembled
<1>2. ~InOrderFromOne(Append(p, a))
  BY InOrderContinues, Zenon
<1>3. ~InOrderFromOne(<<a>>)
  BY DEF InOrderFromOne
<1> QED
  BY <1>1, <1>2, <1>3, SameOrder, Zenon

(***************************************************************************)
(* Each way out of submitAIS is a step of the abstract assembler.           *)
(***************************************************************************)
\* The parts that wait after the step: those of the source of a have become parts.
LEMMA WaitingNext ==
  ASSUME NEW a \in Sentence, NEW parts,
         \A s \in Sources : From(queue', s) = IF Source(a) = s THEN parts ELSE From(queue, s)
  PROVE  Waiting' = [Waiting EXCEPT ![Parts!Source(a)] = parts]
<1>1. Waiting' = [s \in Channels \X Talkers |-> From(queue', s)]
  BY Zenon DEF Waiting, From
<1>2. Waiting = [s \in Channels \X Talkers |-> From(queue, s)]
  BY Zenon DEF Waiting
<1>3. Parts!Source(a) = Source(a) /\ Source(a) \in Channels \X Talkers
  BY WaitingOf, SourceType, Zenon DEF Sources
<1>4. ASSUME NEW s \in Channels \X Talkers
      PROVE  From(queue', s) = IF Source(a) = s THEN parts ELSE From(queue, s)
  BY Zenon DEF Sources
<1> QED
  BY <1>1, <1>2, <1>3, <1>4

LEMMA BadChecksumIgnores ==
  ASSUME NEW a \in Sentence, SubmitBadChecksum(a)
  PROVE  Parts!Ignore
<1>1. CrcCheck /\ queue' = queue /\ out' = <<>>
  BY DEF SubmitBadChecksum
<1>2. Waiting' = Waiting
  BY <1>1, Zenon DEF Waiting, From
<1>3. Completed' = <<>>
  BY <1>1, Zenon DEF Completed
<1> QED
  BY <1>1, <1>2, <1>3, Zenon DEF Parts!Ignore

LEMMA SingleIsSingle ==
  ASSUME NEW a \in Sentence, NEW valid \in BOOLEAN, SubmitSingle(a, valid)
  PROVE  Parts!Single(a)
<1>1. queue' = queue /\ (out' = <<a>> \/ out' = <<>>) /\ a.count = 1
  BY Zenon DEF SubmitSingle, Send
<1>2. Waiting' = Waiting
  BY <1>1, Zenon DEF Waiting, From
<1>3. From(<<a>>, Source(a)) = <<a>>
  <2>1. <<>> \in Seq(Sentence) /\ Append(<<>>, a) = <<a>>
    OBVIOUS
  <2>2. From(Append(<<>>, a), Source(a)) = Append(From(<<>>, Source(a)), a)
    BY <2>1, FromAppend, Zenon
  <2>3. From(<<>>, Source(a)) = <<>>
    BY SelectEmpty, Zenon DEF From
  <2> QED
    BY <2>1, <2>2, <2>3, Zenon
<1>4. Last(<<a>>) = a /\ <<a>> # <<>>
  BY DEF Last
<1>5. Completed' = <<a>> \/ Completed' = <<>>
  BY <1>1, <1>3, <1>4, Zenon DEF Completed, From
<1> QED
  BY <1>1, <1>2, <1>5, Zenon DEF Parts!Single

LEMMA MissingDrops ==
  ASSUME AssemblerInv, NEW a \in Sentence, SubmitMissing(a)
  PROVE  Parts!Drop(a)
<1>1. /\ queue' = Clean(queue, a) /\ out' = <<>> /\ queue \in Seq(Sentence)
      /\ a.count # 1 /\ ~Continues(a) /\ a.number # 1
  BY Zenon DEF SubmitMissing, AssemblerInv, NmeaTypeOK
<1>2. \A s \in Sources : From(queue', s) = IF Source(a) = s THEN <<>> ELSE From(queue, s)
  BY <1>1, FromClean, Zenon
<1>3. Waiting' = [Waiting EXCEPT ![Parts!Source(a)] = <<>>]
  BY <1>2, WaitingNext, Zenon
<1>4. Completed' = <<>>
  BY <1>1, Zenon DEF Completed
<1>5. ~Parts!InOrder(Parts!Assembled(a))
  BY <1>1, AssembledMissing, Zenon DEF AssemblerInv
<1> QED
  BY <1>1, <1>3, <1>4, <1>5, Zenon DEF Parts!Drop

LEMMA PartIsStored ==
  ASSUME AssemblerInv, NEW a \in Sentence, SubmitPart(a)
  PROVE  Parts!Store(a)
<1>1. queue' = Pushed(a) /\ out' = <<>> /\ Accepted(a) /\ a.number # a.count /\ a.count # 1
  BY Zenon DEF SubmitPart, Accepted
<1>2. NmeaTypeOK /\ PartsInv
  BY Zenon DEF AssemblerInv
<1>3. Parts!Assembled(a) = Append(Before(a), a)
  BY <1>1, <1>2, AssembledAccepted, Zenon
<1>4. IsLonger(Append(Before(a), a), a)
  BY <1>1, <1>2, AcceptedIsLonger, Zenon
<1>5. Parts!InOrder(Parts!Assembled(a)) /\ Len(Parts!Assembled(a)) # a.count
  BY <1>1, <1>3, <1>4, SameOrder, Zenon DEF IsLonger
<1>6. \A s \in Sources : From(queue', s)
                           = IF Source(a) = s THEN Append(Before(a), a) ELSE From(queue, s)
  BY <1>1, <1>2, FromPushed, Zenon
<1>7. Waiting' = [Waiting EXCEPT ![Parts!Source(a)] = Parts!Assembled(a)]
  BY <1>3, <1>6, WaitingNext, Zenon
<1>8. Completed' = <<>>
  BY <1>1, Zenon DEF Completed
<1> QED
  BY <1>1, <1>5, <1>7, <1>8, Zenon DEF Parts!Store

LEMMA LastCompletes ==
  ASSUME AssemblerInv, NEW a \in Sentence, NEW valid \in BOOLEAN, SubmitLast(a, valid)
  PROVE  Parts!Complete(a)
<1> DEFINE sent == OnChannel(Pushed(a), a)
<1>1. /\ Accepted(a) /\ a.number = a.count /\ a.count # 1
      /\ queue' = Clean(Pushed(a), a) /\ (out' = sent \/ out' = <<>>)
  BY Zenon DEF SubmitLast, Send, Accepted
<1>2. NmeaTypeOK /\ PartsInv
  BY Zenon DEF AssemblerInv
<1>3. Pushed(a) \in Seq(Sentence) /\ Last(sent) = a
  BY <1>2, FromPushed, LastOnChannel, Zenon
<1>4. Parts!Assembled(a) = Append(Before(a), a)
  BY <1>1, <1>2, AssembledAccepted, Zenon
<1>5. IsLonger(Append(Before(a), a), a)
  BY <1>1, <1>2, AcceptedIsLonger, Zenon
<1>6. Parts!InOrder(Parts!Assembled(a)) /\ Len(Parts!Assembled(a)) = a.count
  BY <1>1, <1>4, <1>5, SameOrder, Zenon DEF IsLonger
<1>7. ASSUME NEW s \in Sources
      PROVE  From(queue', s) = IF Source(a) = s THEN <<>> ELSE From(queue, s)
  <2>1. From(queue', s) = IF Source(a) = s THEN <<>> ELSE From(Pushed(a), s)
    BY <1>1, <1>3, FromClean, Zenon
  <2>2. Source(a) # s => From(Pushed(a), s) = From(queue, s)
    BY <1>2, FromPushed, Zenon
  <2> QED
    BY <2>1, <2>2, Zenon
<1>8. Waiting' = [Waiting EXCEPT ![Parts!Source(a)] = <<>>]
  BY <1>7, WaitingNext, Zenon
<1>9. From(sent, Source(a)) = Parts!Assembled(a)
  <2>1. From(sent, Source(a)) = From(Pushed(a), Source(a))
    BY <1>3, FromChannel, Zenon
  <2> QED
    BY <1>2, <1>4, <2>1, FromPushed, Zenon
<1>10. Completed' = Parts!Assembled(a) \/ Completed' = <<>>
  <2> HIDE DEF sent
  <2> QED
    BY <1>1, <1>3, <1>9, Zenon DEF Completed, From
<1> QED
  BY <1>1, <1>6, <1>8, <1>10, Zenon DEF Parts!Complete

(***************************************************************************)
(* The vector of NMEA.cpp, which all talkers and channels share, implements *)
(* an assembler that keeps the parts of each source apart: no sentence      *)
(* disturbs what waits from another source, a part is lost only where it    *)
(* continues nothing, and what is sent of a source is its message, whole.   *)
(***************************************************************************)
THEOREM PartsImplemented == NmeaSpec => ImplementsParts
<1>1. NmeaInit => Parts!Init
  <2> SUFFICES ASSUME NmeaInit PROVE Parts!Init
    OBVIOUS
  <2>1. queue = <<>> /\ out = <<>>
    BY DEF NmeaInit
  <2>2. Waiting = [s \in Channels \X Talkers |-> <<>>]
    BY <2>1, SelectEmpty, Zenon DEF Waiting, From
  <2>3. Completed = <<>>
    BY <2>1, Zenon DEF Completed
  <2> QED
    BY <2>2, <2>3, Zenon DEF Parts!Init
<1>2. AssemblerInv /\ [NmeaNext]_assembly => [Parts!Next]_<<Waiting, Completed>>
  <2> SUFFICES ASSUME AssemblerInv, [NmeaNext]_assembly
               PROVE  [Parts!Next]_<<Waiting, Completed>>
    OBVIOUS
  <2>1. CASE NmeaNext
    <3>1. PICK a \in Sentence : \/ SubmitBadChecksum(a)
                                \/ \E valid \in BOOLEAN : SubmitSingle(a, valid)
                                \/ SubmitMissing(a)
                                \/ SubmitPart(a)
                                \/ \E valid \in BOOLEAN : SubmitLast(a, valid)
      BY <2>1, Zenon DEF NmeaNext
    <3>2. Parts!Ignore \/ Parts!Single(a) \/ Parts!Drop(a) \/ Parts!Store(a) \/ Parts!Complete(a)
      BY <3>1, BadChecksumIgnores, SingleIsSingle, MissingDrops, PartIsStored, LastCompletes,
         Zenon
    <3> QED
      BY <3>2, Zenon DEF Parts!Next
  <2>2. CASE UNCHANGED assembly
    <3>1. queue' = queue /\ out' = out
      BY <2>2 DEF assembly
    <3> QED
      BY <3>1, Zenon DEF Waiting, Completed, From
  <2> QED
    BY <2>1, <2>2
<1> QED
  BY <1>1, <1>2, AssemblerCorrect, PTL DEF NmeaSpec, ImplementsParts, Parts!Spec

-----------------------------------------------------------------------------
(***************************************************************************)
(* The ships in the order of the list, the vessel heard last first: each    *)
(* ship once, those in use in front, and no vessel twice.                   *)
(***************************************************************************)
IsList(f) ==
  /\ f \in [1 .. N -> Ship]
  /\ \A s \in Ship : \E i \in 1 .. N : f[i] = s
  /\ \A i \in 1 .. N : \A j \in 1 .. N : f[i] = f[j] => i = j
  /\ f[1] = first /\ prev[first] = -1
  /\ f[N] = last /\ next[last] = -1
  /\ \A i \in 1 .. N - 1 : next[f[i]] = f[i + 1] /\ prev[f[i + 1]] = f[i]

HoldsVessels(f) ==
  /\ \A i \in 1 .. N : mmsi[f[i]] # Unused <=> i <= count
  /\ \A i \in 1 .. count : \A j \in 1 .. count : mmsi[f[i]] = mmsi[f[j]] => i = j

ListInv == \E f \in [1 .. N -> Ship] : IsList(f) /\ HoldsVessels(f)

(***************************************************************************)
(* The life of a point is the number of points that are written before it   *)
(* is overwritten: the newer a point, the longer its life.  The points of a *)
(* vessel's present stay, which are not old, are newer than those of its    *)
(* former stays, and their counts rise.                                     *)
(***************************************************************************)
Points == [PathPoint -> [mmsi : Mmsi \cup {Unused}, count : Nat, next : PathPoint \cup {-1},
                         pos : Position \cup {NoPosition, 0}]]

Life(i, idx) == IF i >= idx THEN i - idx ELSE i - idx + M

Own(v, pts, old) == {i \in PathPoint : pts[i].mmsi = v /\ i \notin old}

\* What a link from a point of v of life a is to: to the point of v before it, or, when
\* there is none, to nothing that a reader of the path would go on to.
LeadsTo(q, a, v, pts, old, idx) ==
  \/ /\ q \in Own(v, pts, old) /\ Life(q, idx) < a
     /\ \A i \in Own(v, pts, old) : Life(i, idx) < a => Life(i, idx) <= Life(q, idx)
  \/ /\ \A i \in Own(v, pts, old) : Life(i, idx) >= a
     /\ q = -1 \/ (q \in PathPoint /\ (Life(q, idx) >= a \/ pts[q].mmsi # v))

PathInv(v, heardOf, start, pts, old, idx) ==
  /\ \A i \in Own(v, pts, old) : pts[i].count <= heardOf
  /\ \A i \in Own(v, pts, old) : \A j \in Own(v, pts, old) :
       Life(i, idx) < Life(j, idx) => pts[i].count < pts[j].count
  /\ \A i \in old : \A j \in Own(v, pts, old) : pts[i].mmsi = v => Life(i, idx) < Life(j, idx)
  /\ LeadsTo(start, M, v, pts, old, idx)
  /\ \A i \in Own(v, pts, old) : LeadsTo(pts[i].next, Life(i, idx), v, pts, old, idx)

PathsInv == \A s \in Ship : mmsi[s] # Unused =>
              PathInv(mmsi[s], heard[s], path_ptr[s], paths, former, path_idx)

DatabaseInv == TypeOK /\ ListInv /\ PathsInv

USE UnusedAssumption, SizesAssumption

-----------------------------------------------------------------------------
(***************************************************************************)
(* The list.  Nth is the order of the ships, if there is one: that order    *)
(* satisfies the recursion, and two functions that do are equal, since they *)
(* do not differ at a least place.                                          *)
(***************************************************************************)
FollowsNext(f) ==
  f = [i \in 1 .. N |-> IF i = 1 THEN first
                        ELSE IF f[i - 1] = -1 THEN -1 ELSE next[f[i - 1]]]

LEMMA OneOrder ==
  ASSUME NEW f, NEW g, FollowsNext(f), FollowsNext(g)
  PROVE  f = g
<1>1. /\ DOMAIN f = 1 .. N /\ DOMAIN g = 1 .. N
      /\ f = [i \in 1 .. N |-> f[i]] /\ g = [i \in 1 .. N |-> g[i]]
  BY Zenon DEF FollowsNext
<1>2. \A i \in 1 .. N : f[i] = IF i = 1 THEN first
                               ELSE IF f[i - 1] = -1 THEN -1 ELSE next[f[i - 1]]
  BY Zenon DEF FollowsNext
<1>3. \A i \in 1 .. N : g[i] = IF i = 1 THEN first
                               ELSE IF g[i - 1] = -1 THEN -1 ELSE next[g[i - 1]]
  BY Zenon DEF FollowsNext
<1> DEFINE S == {i \in 1 .. N : f[i] # g[i]}
<1>4. S = {}
  <2> SUFFICES ASSUME S # {} PROVE FALSE
    OBVIOUS
  <2>1. S \in SUBSET Nat
    OBVIOUS
  <2>2. PICK x \in S : \A y \in S : x <= y
    <3> HIDE DEF S
    <3> QED
      BY <2>1, LeastNumber
  <2>3. x \in 1 .. N /\ f[x] # g[x]
    OBVIOUS
  <2>4. x # 1
    BY <1>2, <1>3, <2>3
  <2>5. x - 1 \in 1 .. N /\ ~(x <= x - 1)
    BY <2>3, <2>4
  <2>6. f[x - 1] = g[x - 1]
    BY <2>2, <2>5
  <2> QED
    BY <1>2, <1>3, <2>3, <2>4, <2>6
<1> QED
  BY <1>1, <1>4

LEMMA NthIsTheOrder ==
  ASSUME NEW f, IsList(f)
  PROVE  Nth = f
<1>1. FollowsNext(f)
  <2>1. f = [i \in 1 .. N |-> f[i]]
    BY DEF IsList
  <2>2. ASSUME NEW i \in 1 .. N
        PROVE  f[i] = IF i = 1 THEN first
                      ELSE IF f[i - 1] = -1 THEN -1 ELSE next[f[i - 1]]
    <3>1. CASE i = 1
      BY <3>1, Zenon DEF IsList
    <3>2. CASE i # 1
      <4>1. i - 1 \in 1 .. N - 1 /\ i - 1 \in 1 .. N /\ (i - 1) + 1 = i
        BY <3>2
      <4>2. next[f[i - 1]] = f[i]
        BY <4>1 DEF IsList
      <4>3. f[i - 1] # -1
        BY <4>1 DEF IsList, Ship
      <4> QED
        BY <3>2, <4>2, <4>3, Zenon
    <3> QED
      BY <3>1, <3>2
  <2> QED
    BY <2>1, <2>2 DEF FollowsNext
<1>2. FollowsNext(Nth)
  BY <1>1, Zenon DEF FollowsNext, Nth
<1> QED
  BY <1>1, <1>2, OneOrder

(***************************************************************************)
(* moveShipToFront, of the k-th ship.                                       *)
(***************************************************************************)
Moved(f, k) == [i \in 1 .. N |-> IF i = 1 THEN f[k] ELSE IF i <= k THEN f[i - 1] ELSE f[i]]

LEMMA MovedToFront ==
  ASSUME next \in [Ship -> Ship \cup {-1}], prev \in [Ship -> Ship \cup {-1}],
         NEW f, IsList(f), NEW k \in 1 .. N, MoveShipToFront(f[k])
  PROVE  IsList(Moved(f, k))'
<1> DEFINE g == Moved(f, k)
<1>1. /\ f \in [1 .. N -> Ship] /\ N \in Nat /\ N > 0
      /\ \A s \in Ship : \E i \in 1 .. N : f[i] = s
      /\ \A i \in 1 .. N : \A j \in 1 .. N : f[i] = f[j] => i = j
      /\ f[1] = first /\ prev[first] = -1
      /\ f[N] = last /\ next[last] = -1
      /\ \A i \in 1 .. N - 1 : next[f[i]] = f[i + 1] /\ prev[f[i + 1]] = f[i]
  BY DEF IsList
<1>2. \A i \in 1 .. N : f[i] \in Ship /\ f[i] # -1
  BY <1>1 DEF Ship
<1>3. g = [i \in 1 .. N |-> IF i = 1 THEN f[k] ELSE IF i <= k THEN f[i - 1] ELSE f[i]]
  BY DEF Moved
<1> HIDE DEF g
<1>4. \A i \in 1 .. N : /\ i = 1 => g[i] = f[k]
                        /\ i # 1 /\ i <= k => g[i] = f[i - 1]
                        /\ i > k => g[i] = f[i]
  BY <1>3
<1>5. g \in [1 .. N -> Ship]
  <2>1. \A i \in 1 .. N : i # 1 => i - 1 \in 1 .. N
    OBVIOUS
  <2> QED
    BY <1>2, <1>3, <2>1
<1>6. \A s \in Ship : \E i \in 1 .. N : g[i] = s
  <2> SUFFICES ASSUME NEW s \in Ship PROVE \E i \in 1 .. N : g[i] = s
    OBVIOUS
  <2>1. PICK j \in 1 .. N : f[j] = s
    BY <1>1
  <2>2. CASE j = k
    BY <1>1, <1>4, <2>1, <2>2
  <2>3. CASE j < k
    <3>1. j + 1 \in 1 .. N /\ j + 1 # 1 /\ j + 1 <= k /\ (j + 1) - 1 = j
      BY <2>3
    <3> QED
      BY <1>4, <2>1, <3>1
  <2>4. CASE j > k
    BY <1>4, <2>1, <2>4
  <2> QED
    BY <2>2, <2>3, <2>4
<1>7. \A i \in 1 .. N : \A j \in 1 .. N : g[i] = g[j] => i = j
  <2> DEFINE at(i) == IF i = 1 THEN k ELSE IF i <= k THEN i - 1 ELSE i
  <2>1. \A i \in 1 .. N : at(i) \in 1 .. N /\ g[i] = f[at(i)]
    BY <1>4
  <2>2. \A i \in 1 .. N : \A j \in 1 .. N : at(i) = at(j) => i = j
    OBVIOUS
  <2> HIDE DEF at
  <2> SUFFICES ASSUME NEW i \in 1 .. N, NEW j \in 1 .. N, g[i] = g[j] PROVE i = j
    OBVIOUS
  <2>3. f[at(i)] = f[at(j)] /\ at(i) \in 1 .. N /\ at(j) \in 1 .. N
    BY <2>1
  <2>4. at(i) = at(j)
    BY <1>1, <2>3
  <2> QED
    BY <2>2, <2>4
<1>8. CASE k = 1
  <2>1. g = f
    BY <1>1, <1>3, <1>8
  <2>2. first' = first /\ last' = last /\ next' = next /\ prev' = prev
    BY <1>1, <1>8 DEF MoveShipToFront, list
  <2>3. IsList(f)'
    BY <2>2, Zenon DEF IsList
  <2> QED
    BY <2>1, <2>3, Zenon DEF g
<1>9. CASE k > 1
  <2> DEFINE ship == f[k]
  <2>1. ship # first /\ ship \in Ship /\ first \in Ship
    BY <1>1, <1>2, <1>9
  <2>2. /\ first' = ship
        /\ last' = IF next[ship] = -1 THEN prev[ship] ELSE last
        /\ next' = [next EXCEPT ![prev[ship]] = next[ship], ![ship] = first]
        /\ prev' = [s \in Ship |-> CASE s = ship -> -1
                                     [] s = first -> ship
                                     [] s = next[ship] /\ s # first -> prev[ship]
                                     [] OTHER -> prev[s]]
    BY <2>1, Zenon DEF MoveShipToFront
  <2>3. k - 1 \in 1 .. N - 1 /\ (k - 1) + 1 = k /\ k - 1 \in 1 .. N
    BY <1>9
  <2>4. prev[ship] = f[k - 1] /\ f[k - 1] \in Ship /\ f[k - 1] # ship
    BY <1>1, <1>2, <2>3
  <2>5. next[ship] = IF k = N THEN -1 ELSE f[k + 1]
    BY <1>1
  <2>6. \A s \in Ship : next'[s] = IF s = ship THEN first
                                   ELSE IF s = f[k - 1] THEN next[ship] ELSE next[s]
    BY <2>1, <2>2, <2>4
  <2>7. /\ prev'[ship] = -1 /\ prev'[first] = ship
        /\ \A s \in Ship : s # ship /\ s # first /\ s = next[ship] => prev'[s] = f[k - 1]
        /\ \A s \in Ship : s # ship /\ s # first /\ s # next[ship] => prev'[s] = prev[s]
    <3>6. next[ship] # ship
      <4>1. k # N => k + 1 \in 1 .. N /\ k # k + 1
        OBVIOUS
      <4> QED
        BY <1>1, <1>2, <2>5, <4>1
    <3> HIDE DEF ship
    <3>1. \A s \in Ship : prev'[s] = CASE s = ship -> -1
                                       [] s = first -> ship
                                       [] s = next[ship] /\ s # first -> prev[ship]
                                       [] OTHER -> prev[s]
      BY <2>2
    <3>2. prev'[ship] = -1
      BY <2>1, <3>1, <3>6
    <3>3. prev'[first] = ship
      BY <2>1, <3>1
    <3>4. \A s \in Ship : s # ship /\ s # first /\ s = next[ship] => prev'[s] = prev[ship]
      BY <2>1, <3>1
    <3>5. \A s \in Ship : s # ship /\ s # first /\ s # next[ship] => prev'[s] = prev[s]
      BY <2>1, <3>1
    <3> QED
      BY <2>4, <3>2, <3>3, <3>4, <3>5
  <2> HIDE DEF ship
  <2>8. g[1] = ship
    BY <1>1, <1>4 DEF ship
  <2>9. g[N] = last' /\ next'[last'] = -1
    <3>1. CASE k = N
      <4>1. last' = f[k - 1] /\ g[N] = f[k - 1]
        BY <1>1, <1>4, <1>9, <2>2, <2>4, <2>5, <3>1
      <4> QED
        BY <2>4, <2>5, <2>6, <3>1, <4>1
    <3>2. CASE k # N
      <4>1. k + 1 \in 1 .. N /\ k < N
        BY <3>2
      <4>2. last' = f[N] /\ g[N] = f[N]
        BY <1>1, <1>2, <1>4, <2>2, <2>5, <3>2, <4>1
      <4>3. f[N] # ship /\ f[N] # f[k - 1] /\ f[N] \in Ship
        BY <1>1, <1>2, <2>3, <4>1 DEF ship
      <4> QED
        BY <1>1, <2>6, <4>2, <4>3
    <3> QED
      BY <3>1, <3>2
  <2>10. ASSUME NEW i \in 1 .. N - 1 PROVE next'[g[i]] = g[i + 1] /\ prev'[g[i + 1]] = g[i]
    <3>1. CASE i = 1
      <4>1. g[1] = ship /\ g[2] = f[1]
        BY <1>4, <1>9, <2>8
      <4> QED
        BY <1>1, <2>1, <2>6, <2>7, <3>1, <4>1
    <3>2. CASE i # 1 /\ i < k
      <4>1. /\ i - 1 \in 1 .. N - 1 /\ i - 1 \in 1 .. N /\ (i - 1) + 1 = i /\ i \in 1 .. N
            /\ i + 1 \in 1 .. N /\ (i + 1) - 1 = i /\ i # 1
        BY <3>2
      <4>2. g[i] = f[i - 1] /\ g[i + 1] = f[i]
        BY <1>4, <3>2, <4>1
      <4>3. next[f[i - 1]] = f[i] /\ prev[f[i]] = f[i - 1]
        BY <1>1, <4>1
      <4>4. f[i - 1] # ship /\ f[i - 1] # f[k - 1] /\ f[i] # ship /\ f[i] # first
        BY <1>1, <2>3, <3>2, <4>1 DEF ship
      <4>5. f[i] # next[ship]
        <5>1. CASE k = N
          BY <1>2, <2>5, <4>1, <5>1
        <5>2. CASE k # N
          <6>1. k + 1 \in 1 .. N /\ i # k + 1
            BY <3>2, <5>2
          <6> QED
            BY <1>1, <2>5, <4>1, <5>2, <6>1
        <5> QED
          BY <5>1, <5>2
      <4> QED
        BY <1>2, <2>6, <2>7, <4>1, <4>2, <4>3, <4>4, <4>5
    <3>3. CASE i = k
      <4>1. i + 1 \in 1 .. N /\ i + 1 > k /\ k # N
        BY <3>3
      <4>2. g[i] = f[k - 1] /\ g[i + 1] = f[k + 1]
        BY <1>4, <1>9, <3>3, <4>1
      <4>3. f[k + 1] # ship /\ f[k + 1] # first /\ f[k + 1] \in Ship
        BY <1>1, <1>2, <1>9, <3>3, <4>1 DEF ship
      <4> QED
        BY <2>4, <2>5, <2>6, <2>7, <4>1, <4>2, <4>3
    <3>4. CASE i > k
      <4>1. i \in 1 .. N /\ i + 1 \in 1 .. N /\ i + 1 > k /\ k # N /\ k + 1 \in 1 .. N
            /\ i + 1 # k + 1
        BY <3>4
      <4>2. g[i] = f[i] /\ g[i + 1] = f[i + 1]
        BY <1>4, <3>4, <4>1
      <4>3. f[i] # ship /\ f[i] # f[k - 1]
        BY <1>1, <2>3, <3>4, <4>1 DEF ship
      <4>4. f[i + 1] # ship /\ f[i + 1] # first /\ f[i + 1] # f[k + 1]
        BY <1>1, <1>9, <3>4, <4>1 DEF ship
      <4> QED
        BY <1>1, <1>2, <2>5, <2>6, <2>7, <4>1, <4>2, <4>3, <4>4
    <3> QED
      BY <3>1, <3>2, <3>3, <3>4
  <2>11. first' = g[1] /\ prev'[first'] = -1
    BY <2>2, <2>7, <2>8 DEF ship
  <2> QED
    BY <1>5, <1>6, <1>7, <2>9, <2>10, <2>11, Zenon DEF IsList, g
<1> QED
  BY <1>8, <1>9

-----------------------------------------------------------------------------
(***************************************************************************)
(* findShip finds the ship of a vessel that is in use, and createShip takes *)
(* the last; both keep the vessels apart.                                   *)
(***************************************************************************)
LEMMA Types ==
  ASSUME TypeOK
  PROVE  /\ N \in Nat /\ N > 0 /\ M \in Nat /\ M > 0
         /\ first \in Ship /\ last \in Ship /\ count \in 0 .. N
         /\ next \in [Ship -> Ship \cup {-1}] /\ prev \in [Ship -> Ship \cup {-1}]
         /\ mmsi \in [Ship -> Mmsi \cup {Unused}] /\ heard \in [Ship -> Nat]
         /\ path_ptr \in [Ship -> PathPoint \cup {-1, 0}]
         /\ paths \in [PathPoint -> [mmsi : Mmsi \cup {Unused}, count : Nat,
                                     next : PathPoint \cup {-1},
                                     pos : Position \cup {NoPosition, 0}]]
         /\ path_idx \in PathPoint /\ former \subseteq PathPoint
BY DEF TypeOK

LEMMA FoundShip ==
  ASSUME TypeOK, NEW f, IsList(f), HoldsVessels(f), NEW m, Ranks(m) # {}
  PROVE  \E k \in 1 .. N : k <= count /\ FindShip(m) = f[k] /\ mmsi[f[k]] = m
<1>1. Nth = f
  BY NthIsTheOrder
<1>2. count \in 0 .. N /\ N \in Nat
  BY Types
<1> DEFINE S == Ranks(m)
<1>3. S = {i \in 1 .. count : mmsi[f[i]] = m}
  BY <1>1, Zenon DEF Ranks
<1>4. S \in SUBSET Nat
  BY <1>2, <1>3
<1>5. PICK x \in S : \A y \in S : x <= y
  <2> HIDE DEF S
  <2> QED
    BY <1>4, LeastNumber DEF S
<1> DEFINE k == CHOOSE i \in S : \A j \in S : i <= j
<1>6. k \in S
  BY <1>5, Zenon
<1>7. FindShip(m) = f[k]
  BY <1>1, Zenon DEF FindShip
<1> HIDE DEF k
<1> QED
  BY <1>2, <1>3, <1>6, <1>7

LEMMA VesselsAreApart ==
  ASSUME TypeOK, NEW f, IsList(f), HoldsVessels(f)
  PROVE  /\ \A s \in Ship : \A t \in Ship : mmsi[s] # Unused /\ mmsi[s] = mmsi[t] => s = t
         /\ \A m \in Mmsi : \A s \in Ship : mmsi[s] = m => Ranks(m) # {}
<1>1. count \in 0 .. N /\ N \in Nat /\ Nth = f
  BY Types, NthIsTheOrder
<1>2. ASSUME NEW s \in Ship, mmsi[s] # Unused PROVE \E i \in 1 .. count : f[i] = s
  BY <1>1, <1>2 DEF IsList, HoldsVessels
<1>3. ASSUME NEW s \in Ship, NEW t \in Ship, mmsi[s] # Unused, mmsi[s] = mmsi[t] PROVE s = t
  <2>1. PICK i \in 1 .. count : f[i] = s
    BY <1>2, <1>3
  <2>2. PICK j \in 1 .. count : f[j] = t
    BY <1>2, <1>3
  <2> QED
    BY <1>3, <2>1, <2>2 DEF HoldsVessels
<1>4. ASSUME NEW m \in Mmsi, NEW s \in Ship, mmsi[s] = m PROVE Ranks(m) # {}
  <2>1. PICK i \in 1 .. count : f[i] = s
    BY <1>2, <1>4
  <2>2. i \in Ranks(m)
    BY <1>1, <1>4, <2>1, Zenon DEF Ranks
  <2> QED
    BY <2>2
<1> QED
  BY <1>3, <1>4

\* The vessel m enters, or is moved to, the first ship of the list.
LEMMA VesselsStayApart ==
  ASSUME TypeOK, NEW f, IsList(f), HoldsVessels(f), NEW m \in Mmsi, NEW k \in 1 .. N,
         mmsi' = [mmsi EXCEPT ![f[k]] = m],
         \/ k <= count /\ mmsi[f[k]] = m /\ count' = count
         \/ k = N /\ Ranks(m) = {} /\ CreateShip
  PROVE  HoldsVessels(Moved(f, k))' /\ count' \in 0 .. N
<1> DEFINE g == Moved(f, k)
           at(i) == IF i = 1 THEN k ELSE IF i <= k THEN i - 1 ELSE i
<1>1. /\ f \in [1 .. N -> Ship] /\ count \in 0 .. N /\ N \in Nat /\ N > 0
      /\ \A i \in 1 .. N : \A j \in 1 .. N : f[i] = f[j] => i = j
      /\ \A i \in 1 .. N : mmsi[f[i]] # Unused <=> i <= count
      /\ \A i \in 1 .. count : \A j \in 1 .. count : mmsi[f[i]] = mmsi[f[j]] => i = j
      /\ m # Unused /\ mmsi \in [Ship -> Mmsi \cup {Unused}]
  BY Types DEF IsList, HoldsVessels
<1>2. /\ \A i \in 1 .. N : at(i) \in 1 .. N /\ g[i] = f[at(i)]
      /\ \A i \in 1 .. N : \A j \in 1 .. N : at(i) = at(j) => i = j
  BY DEF Moved
<1>3. \A i \in 1 .. N : mmsi'[f[i]] = IF i = k THEN m ELSE mmsi[f[i]]
  BY <1>1
<1>4. count' \in 0 .. N /\ count' = IF k <= count THEN count ELSE count + 1
  BY <1>1 DEF CreateShip
<1>5. \A i \in 1 .. N : i # k /\ i <= count => mmsi[f[i]] # m
  <2>1. CASE k <= count /\ mmsi[f[k]] = m
    BY <1>1, <2>1
  <2>2. CASE Ranks(m) = {}
    <3>1. Nth = f
      BY NthIsTheOrder
    <3> QED
      BY <1>1, <2>2, <3>1 DEF Ranks
  <2> QED
    BY <2>1, <2>2
<1>6. \A i \in 1 .. N : (at(i) = k \/ at(i) <= count) <=> i <= count'
  BY <1>1, <1>4
<1> HIDE DEF g, at
<1>7. \A i \in 1 .. N : mmsi'[g[i]] # Unused <=> i <= count'
  <2> SUFFICES ASSUME NEW i \in 1 .. N PROVE mmsi'[g[i]] # Unused <=> i <= count'
    OBVIOUS
  <2>1. at(i) \in 1 .. N /\ g[i] = f[at(i)]
    BY <1>2
  <2>2. mmsi'[g[i]] # Unused <=> (at(i) = k \/ at(i) <= count)
    BY <1>1, <1>3, <2>1
  <2> QED
    BY <1>6, <2>2
<1>8. \A i \in 1 .. count' : \A j \in 1 .. count' : mmsi'[g[i]] = mmsi'[g[j]] => i = j
  <2> SUFFICES ASSUME NEW i \in 1 .. count', NEW j \in 1 .. count', mmsi'[g[i]] = mmsi'[g[j]]
               PROVE  i = j
    OBVIOUS
  <2>1. /\ i \in 1 .. N /\ at(i) \in 1 .. N /\ g[i] = f[at(i)] /\ (at(i) = k \/ at(i) <= count)
        /\ j \in 1 .. N /\ at(j) \in 1 .. N /\ g[j] = f[at(j)] /\ (at(j) = k \/ at(j) <= count)
    BY <1>1, <1>2, <1>4, <1>6
  <2>2. at(i) = at(j)
    <3>1. CASE at(i) = k \/ at(j) = k
      BY <1>3, <1>5, <2>1, <3>1
    <3>2. CASE at(i) # k /\ at(j) # k
      BY <1>1, <1>3, <2>1, <3>2
    <3> QED
      BY <3>1, <3>2
  <2> QED
    BY <1>2, <2>1, <2>2
<1> QED
  BY <1>4, <1>7, <1>8 DEF HoldsVessels, g

-----------------------------------------------------------------------------
(***************************************************************************)
(* The lives of the points, before and after one is written.                *)
(***************************************************************************)
LEMMA Lives ==
  ASSUME NEW idx \in PathPoint
  PROVE  /\ \A i \in PathPoint : Life(i, idx) \in 0 .. M - 1
         /\ \A i \in PathPoint : \A j \in PathPoint : Life(i, idx) = Life(j, idx) => i = j
         /\ Life(idx, idx) = 0
BY DEF PathPoint, Life

LEMMA NextIndex ==
  ASSUME NEW idx \in PathPoint
  PROVE  (idx + 1) % M = IF idx = M - 1 THEN 0 ELSE idx + 1
<1>1. idx \in Nat /\ M \in Nat /\ idx < M /\ M > 0
  BY DEF PathPoint
<1>2. CASE idx = M - 1
  <2>1. M % M = 0
    BY <1>1
  <2> QED
    BY <1>1, <1>2, <2>1
<1>3. CASE idx # M - 1
  <2>1. idx + 1 \in 0 .. M - 1
    BY <1>1, <1>3
  <2> QED
    BY <1>1, <1>3, <2>1
<1> QED
  BY <1>2, <1>3

LEMMA LivesAfterWrite ==
  ASSUME NEW idx \in PathPoint, NEW after, after = (idx + 1) % M
  PROVE  /\ after \in PathPoint
         /\ Life(idx, after) = M - 1
         /\ \A i \in PathPoint : i # idx => Life(i, after) = Life(i, idx) - 1
<1>1. after = IF idx = M - 1 THEN 0 ELSE idx + 1
  BY NextIndex
<1> QED
  BY <1>1 DEF PathPoint, Life

-----------------------------------------------------------------------------
(***************************************************************************)
(* A path when its vessel is heard, when another vessel enters the database *)
(* and when its vessel does.                                                *)
(***************************************************************************)
LEMMA HeardAgain ==
  ASSUME NEW v, NEW c \in Nat, NEW s, NEW pts \in Points, NEW old, NEW idx,
         PathInv(v, c, s, pts, old, idx)
  PROVE  PathInv(v, c + 1, s, pts, old, idx)
<1>1. \A i \in Own(v, pts, old) : pts[i].count <= c /\ pts[i].count \in Nat
  BY Zenon DEF PathInv, Own, Points
<1>2. \A i \in Own(v, pts, old) : pts[i].count <= c + 1
  BY <1>1
<1> QED
  BY <1>2, Zenon DEF PathInv

LEMMA AnotherEnters ==
  ASSUME NEW v, NEW m, m # v, NEW c, NEW s, NEW pts, NEW old, NEW idx, NEW stale,
         stale = old \cup {i \in PathPoint : pts[i].mmsi = m},
         PathInv(v, c, s, pts, old, idx)
  PROVE  PathInv(v, c, s, pts, stale, idx)
<1>1. Own(v, pts, stale) = Own(v, pts, old)
  BY DEF Own
<1>2. \A i \in stale : pts[i].mmsi = v => i \in old
  OBVIOUS
<1> QED
  BY <1>1, <1>2, Zenon DEF PathInv, LeadsTo

LEMMA VesselEnters ==
  ASSUME NEW m, NEW pts, NEW old, NEW idx, NEW stale,
         stale = old \cup {i \in PathPoint : pts[i].mmsi = m}
  PROVE  PathInv(m, 0, -1, pts, stale, idx)
<1>1. Own(m, pts, stale) = {}
  BY DEF Own
<1> QED
  BY <1>1, Zenon DEF PathInv, LeadsTo
(***************************************************************************)
(* A path whose vessel stays near its last point, the newest of its own.    *)
(***************************************************************************)
LEMMA StaysOnItsPoint ==
  ASSUME NEW v, NEW c, NEW pts \in Points, NEW old \in SUBSET PathPoint, NEW idx \in PathPoint,
         NEW i, PathInv(v, c, i, pts, old, idx), i \in PathPoint, pts[i].mmsi = v
  PROVE  /\ i \in Own(v, pts, old)
         /\ \A j \in Own(v, pts, old) : Life(j, idx) <= Life(i, idx)
<1>1. \A j \in PathPoint : Life(j, idx) \in 0 .. M - 1
  BY Lives, Zenon
<1>2. LeadsTo(i, M, v, pts, old, idx)
  BY Zenon DEF PathInv
<1>3. \A j \in Own(v, pts, old) : j \in PathPoint
  BY DEF Own
<1>4. ~(Life(i, idx) >= M) /\ i # -1 /\ (\A j \in PathPoint : Life(j, idx) < M)
  BY <1>1 DEF PathPoint
<1> QED
  BY <1>2, <1>3, <1>4, Zenon DEF LeadsTo

PointMoved(pts, i, c, p, after) == after = [pts EXCEPT ![i].pos = p, ![i].count = c]

LEMMA PointMoves ==
  ASSUME NEW v, NEW m, NEW c \in Nat, NEW h \in Nat, NEW s, NEW i, NEW p,
         NEW pts \in Points, NEW old \in SUBSET PathPoint, NEW idx \in PathPoint,
         PathInv(v, h, s, pts, old, idx), i \in PathPoint, pts[i].mmsi = m,
         v = m => s = i /\ h = c,
         NEW after, PointMoved(pts, i, c + 1, p, after)
  PROVE  PathInv(v, IF v = m THEN c + 1 ELSE h, s, after, old, idx)
<1> DEFINE O == Own(v, pts, old)
           h2 == IF v = m THEN c + 1 ELSE h
<1>1. /\ \A j \in PathPoint : after[j].mmsi = pts[j].mmsi /\ after[j].next = pts[j].next
      /\ \A j \in PathPoint : after[j].count = IF j = i THEN c + 1 ELSE pts[j].count
      /\ \A j \in PathPoint : pts[j].count \in Nat /\ Life(j, idx) \in 0 .. M - 1
  <2>1. \A j \in PathPoint : Life(j, idx) \in 0 .. M - 1
    BY Lives, Zenon
  <2> QED
    BY <2>1 DEF Points, PointMoved
<1>2. Own(v, after, old) = O
  BY <1>1 DEF Own
<1>3. \A j \in O : j \in PathPoint /\ pts[j].mmsi = v
  BY DEF Own
<1>4. /\ \A j \in O : pts[j].count <= h
      /\ \A j \in O : \A k \in O : Life(j, idx) < Life(k, idx) => pts[j].count < pts[k].count
      /\ \A j \in old : \A k \in O : pts[j].mmsi = v => Life(j, idx) < Life(k, idx)
      /\ LeadsTo(s, M, v, pts, old, idx)
      /\ \A j \in O : LeadsTo(pts[j].next, Life(j, idx), v, pts, old, idx)
  BY Zenon DEF PathInv
<1>5. v = m => \A j \in O : Life(j, idx) <= Life(i, idx)
  BY StaysOnItsPoint, ZenonT(30)
<1> HIDE DEF O
<1>6. /\ \A j \in O : after[j].count <= h2
      /\ \A j \in O : \A k \in O :
           Life(j, idx) < Life(k, idx) => after[j].count < after[k].count
  <2>1. CASE v = m
    <3>1. \A j \in O : after[j].count = (IF j = i THEN c + 1 ELSE pts[j].count)
                       /\ pts[j].count \in Nat /\ Life(j, idx) \in 0 .. M - 1
      BY <1>1, <1>3, Zenon
    <3>2. Life(i, idx) \in 0 .. M - 1
      BY <1>1
    <3>3. h2 = c + 1 /\ \A j \in O : pts[j].count <= c
      BY <1>4, <2>1, Zenon
    <3> HIDE DEF h2
    <3>4. ASSUME NEW j \in O PROVE after[j].count <= h2
      <4>1. after[j].count = (IF j = i THEN c + 1 ELSE pts[j].count) /\ pts[j].count \in Nat
        BY <3>1, Zenon
      <4>2. h2 = c + 1 /\ pts[j].count <= c
        BY <3>3, Zenon
      <4> QED
        BY <4>1, <4>2
    <3>5. ASSUME NEW j \in O, NEW k \in O, Life(j, idx) < Life(k, idx)
          PROVE  after[j].count < after[k].count
      <4>1. j # i
        BY <1>5, <2>1, <3>1, <3>2, <3>5
      <4>2. pts[j].count < pts[k].count
        BY <1>4, <3>5, Zenon
      <4>3. /\ after[j].count = pts[j].count /\ pts[j].count \in Nat /\ pts[j].count <= c
            /\ after[k].count = (IF k = i THEN c + 1 ELSE pts[k].count)
        BY <3>1, <3>3, <4>1, Zenon
      <4> QED
        BY <4>2, <4>3
    <3> QED
      BY <3>4, <3>5, Zenon
  <2>2. CASE v # m
    <3>1. \A j \in O : after[j].count = pts[j].count
      BY <1>1, <1>3, <2>2, Zenon
    <3> QED
      BY <1>4, <2>2, <3>1, Zenon
  <2> QED
    BY <2>1, <2>2
<1>7. \A q, a : LeadsTo(q, a, v, pts, old, idx) => LeadsTo(q, a, v, after, old, idx)
  BY <1>1, <1>2, Zenon DEF LeadsTo, O
<1>8. \A j \in old : \A k \in O : after[j].mmsi = v => Life(j, idx) < Life(k, idx)
  BY <1>1, <1>4
<1>9. \A j \in O : LeadsTo(after[j].next, Life(j, idx), v, after, old, idx)
  BY <1>1, <1>3, <1>4, <1>7, Zenon
<1> HIDE DEF h2
<1>10. PathInv(v, h2, s, after, old, idx)
  BY <1>2, <1>4, <1>6, <1>7, <1>8, <1>9, Zenon DEF PathInv, O
<1> QED
  BY <1>10, Zenon DEF h2
(***************************************************************************)
(* A path when a point is written over the oldest of the ring.              *)
(***************************************************************************)
Written(pts, idx, point, after) ==
  /\ \A i \in PathPoint : i # idx => after[i] = pts[i]
  /\ after[idx] = point

LEMMA OwnAfterWrite ==
  ASSUME NEW v, NEW pts \in Points, NEW old \in SUBSET PathPoint, NEW idx \in PathPoint,
         NEW point, NEW after, Written(pts, idx, point, after)
  PROVE  /\ \A i \in PathPoint : i # idx =>
              (i \in Own(v, after, old \ {idx}) <=> i \in Own(v, pts, old))
         /\ idx \in Own(v, after, old \ {idx}) <=> point.mmsi = v
         /\ \A i \in Own(v, after, old \ {idx}) : i \in PathPoint
         /\ \A i \in Own(v, pts, old) : i \in PathPoint
BY DEF Own, Written

LEMMA LivesNow ==
  ASSUME NEW idx \in PathPoint
  PROVE  /\ \A i \in PathPoint : Life(i, idx) \in 0 .. M - 1
         /\ \A i \in PathPoint : i # idx => Life(i, idx) > 0
         /\ Life(idx, idx) = 0
         /\ Life(idx, (idx + 1) % M) = M - 1
         /\ \A i \in PathPoint : i # idx => Life(i, (idx + 1) % M) = Life(i, idx) - 1
         /\ (idx + 1) % M \in PathPoint
<1>1. /\ \A i \in PathPoint : Life(i, idx) \in 0 .. M - 1
      /\ \A i \in PathPoint : \A j \in PathPoint : Life(i, idx) = Life(j, idx) => i = j
      /\ Life(idx, idx) = 0
  BY Lives, Zenon
<1>2. /\ (idx + 1) % M \in PathPoint
      /\ Life(idx, (idx + 1) % M) = M - 1
      /\ \A i \in PathPoint : i # idx => Life(i, (idx + 1) % M) = Life(i, idx) - 1
  BY LivesAfterWrite, Zenon
<1>3. \A i \in PathPoint : i # idx => Life(i, idx) > 0
  BY <1>1
<1> QED
  BY <1>1, <1>2, <1>3, Zenon

LEMMA LinkLasts ==
  ASSUME NEW v, NEW pts \in Points, NEW old \in SUBSET PathPoint, NEW idx \in PathPoint,
         NEW point, NEW after, Written(pts, idx, point, after),
         NEW q, NEW a \in 1 .. M, LeadsTo(q, a, v, pts, old, idx)
  PROVE  LeadsTo(q, a - 1, v, after, old \ {idx}, (idx + 1) % M)
<1> DEFINE O == Own(v, pts, old)
           P == Own(v, after, old \ {idx})
           now(i) == Life(i, idx)
           then(i) == Life(i, (idx + 1) % M)
<1>1. /\ \A i \in PathPoint : now(i) \in 0 .. M - 1
      /\ \A i \in PathPoint : i # idx => now(i) > 0
      /\ now(idx) = 0 /\ then(idx) = M - 1
      /\ \A i \in PathPoint : i # idx => then(i) = now(i) - 1
  BY LivesNow, Zenon
<1>2. /\ \A i \in PathPoint : i # idx => (i \in P <=> i \in O)
      /\ \A i \in P : i \in PathPoint
      /\ \A i \in O : i \in PathPoint
  BY OwnAfterWrite, Zenon
<1>3. \A i \in PathPoint : i # idx => after[i].mmsi = pts[i].mmsi
  BY DEF Written
<1> SUFFICES LeadsTo(q, a - 1, v, after, old \ {idx}, (idx + 1) % M)
  OBVIOUS
<1> HIDE DEF O, P, now, then
<1>4. CASE /\ q \in O /\ now(q) < a
           /\ \A i \in O : now(i) < a => now(i) <= now(q)
  <2>1. CASE q # idx
    <3>1. q \in P /\ then(q) < a - 1
      BY <1>1, <1>2, <1>4, <2>1
    <3>2. ASSUME NEW i \in P, then(i) < a - 1 PROVE then(i) <= then(q)
      <4>1. i # idx
        BY <1>1, <3>2
      <4> QED
        BY <1>1, <1>2, <1>4, <2>1, <3>2, <4>1
    <3> QED
      BY <3>1, <3>2, Zenon DEF LeadsTo, P, then
  <2>2. CASE q = idx
    <3>1. ASSUME NEW i \in P PROVE then(i) >= a - 1
      BY <1>1, <1>2, <1>4, <2>2
    <3>2. q \in PathPoint /\ then(q) >= a - 1
      BY <1>1, <2>2
    <3> QED
      BY <3>1, <3>2, Zenon DEF LeadsTo, P, then
  <2> QED
    BY <2>1, <2>2
<1>5. CASE /\ \A i \in O : now(i) >= a
           /\ q = -1 \/ (q \in PathPoint /\ (now(q) >= a \/ pts[q].mmsi # v))
  <2>1. ASSUME NEW i \in P PROVE then(i) >= a - 1
    BY <1>1, <1>2, <1>5
  <2>2. q = -1 \/ (q \in PathPoint /\ (then(q) >= a - 1 \/ after[q].mmsi # v))
    BY <1>1, <1>3, <1>5
  <2> QED
    BY <2>1, <2>2, Zenon DEF LeadsTo, P, then
<1> QED
  BY <1>4, <1>5, Zenon DEF LeadsTo, O, now
LEMMA PointWritten ==
  ASSUME NEW v, NEW m, NEW c \in Nat, NEW h \in Nat, NEW s, NEW p,
         NEW pts \in Points, NEW old \in SUBSET PathPoint, NEW idx \in PathPoint,
         PathInv(v, h, s, pts, old, idx), v = m => h = c,
         NEW point, point.mmsi = m, point.count = c + 1, v = m => point.next = s,
         NEW after, Written(pts, idx, point, after)
  PROVE  PathInv(v, IF v = m THEN c + 1 ELSE h, IF v = m THEN idx ELSE s, after,
                 old \ {idx}, (idx + 1) % M)
<1> DEFINE O == Own(v, pts, old)
           P == Own(v, after, old \ {idx})
           now(i) == Life(i, idx)
           then(i) == Life(i, (idx + 1) % M)
           h2 == IF v = m THEN c + 1 ELSE h
           s2 == IF v = m THEN idx ELSE s
<1>1. /\ \A i \in PathPoint : now(i) \in 0 .. M - 1
      /\ \A i \in PathPoint : i # idx => now(i) > 0
      /\ now(idx) = 0 /\ then(idx) = M - 1
      /\ \A i \in PathPoint : i # idx => then(i) = now(i) - 1
  BY LivesNow, Zenon
<1>2. /\ \A i \in PathPoint : i # idx => (i \in P <=> i \in O)
      /\ idx \in P <=> v = m
      /\ \A i \in P : i \in PathPoint
      /\ \A i \in O : i \in PathPoint
  BY OwnAfterWrite, Zenon
<1>3. /\ \A i \in PathPoint : i # idx => after[i] = pts[i]
      /\ after[idx].mmsi = m /\ after[idx].count = c + 1 /\ (v = m => after[idx].next = s)
      /\ \A i \in PathPoint : pts[i].count \in Nat
  BY DEF Written, Points
<1>4. /\ \A i \in O : pts[i].count <= h
      /\ \A i \in O : \A j \in O : now(i) < now(j) => pts[i].count < pts[j].count
      /\ \A i \in old : \A j \in O : pts[i].mmsi = v => now(i) < now(j)
      /\ LeadsTo(s, M, v, pts, old, idx)
      /\ \A i \in O : LeadsTo(pts[i].next, now(i), v, pts, old, idx)
  BY Zenon DEF PathInv
<1>5. \A q : \A a \in 1 .. M :
        LeadsTo(q, a, v, pts, old, idx) =>
          LeadsTo(q, a - 1, v, after, old \ {idx}, (idx + 1) % M)
  BY LinkLasts, Zenon
<1>6. ASSUME NEW i \in P
      PROVE  LeadsTo(after[i].next, then(i), v, after, old \ {idx}, (idx + 1) % M)
  <2> HIDE DEF O, P, now, then
  <2>1. CASE i # idx
    <3>1. i \in O /\ now(i) \in 1 .. M /\ then(i) = now(i) - 1 /\ after[i] = pts[i]
      BY <1>1, <1>2, <1>3, <2>1
    <3> QED
      BY <1>4, <1>5, <3>1, Zenon
  <2>2. CASE i = idx
    <3>1. M \in 1 .. M /\ then(i) = M - 1 /\ after[i].next = s
      BY <1>1, <1>2, <1>3, <2>2
    <3> QED
      BY <1>4, <1>5, <3>1, Zenon
  <2> QED
    BY <2>1, <2>2
<1>7. LeadsTo(s2, M, v, after, old \ {idx}, (idx + 1) % M)
  <2> HIDE DEF O, P, now, then, s2
  <2>1. CASE v = m
    <3>1. s2 = idx /\ idx \in P
      BY <1>2, <2>1 DEF s2
    <3>2. then(idx) < M /\ \A i \in P : then(i) <= then(idx)
      BY <1>1, <1>2
    <3> QED
      BY <3>1, <3>2, Zenon DEF LeadsTo, P, then
  <2>2. CASE v # m
    <3>1. s2 = s /\ idx \notin P /\ (\A i \in P : i # idx /\ i \in O)
      BY <1>2, <2>2 DEF s2
    <3>2. CASE s \in O /\ \A i \in O : now(i) <= now(s)
      <4>1. CASE s # idx
        <5>1. s \in P /\ then(s) < M /\ \A i \in P : then(i) <= then(s)
          BY <1>1, <1>2, <3>1, <3>2, <4>1
        <5> QED
          BY <3>1, <5>1, Zenon DEF LeadsTo, P, then
      <4>2. CASE s = idx
        <5>1. \A i \in P : FALSE
          BY <1>1, <1>2, <3>1, <3>2, <4>2
        <5>2. s2 \in PathPoint /\ after[s2].mmsi # v
          BY <1>3, <2>2, <3>1, <4>2
        <5> QED
          BY <5>1, <5>2, Zenon DEF LeadsTo, P
      <4> QED
        BY <4>1, <4>2
    <3>3. CASE (\A i \in O : FALSE) /\ (s = -1 \/ (s \in PathPoint /\ pts[s].mmsi # v))
      <4>1. \A i \in P : FALSE
        BY <3>1, <3>3
      <4>2. s2 = -1 \/ (s2 \in PathPoint /\ after[s2].mmsi # v)
        BY <1>3, <2>2, <3>1, <3>3
      <4> QED
        BY <4>1, <4>2, Zenon DEF LeadsTo, P
    <3>4. \A i \in PathPoint : now(i) < M /\ ~(now(i) >= M)
      BY <1>1
    <3> QED
      BY <1>2, <1>4, <3>2, <3>3, <3>4, Zenon DEF LeadsTo, O, now
  <2> QED
    BY <2>1, <2>2
<1>8. \A i \in P : after[i].count <= h2
  <2> HIDE DEF O, P, now, then
  <2>1. CASE v = m
    BY <1>2, <1>3, <1>4, <2>1
  <2>2. CASE v # m
    BY <1>2, <1>3, <1>4, <2>2
  <2> QED
    BY <2>1, <2>2
<1>9. ASSUME NEW i \in P, NEW j \in P, then(i) < then(j) PROVE after[i].count < after[j].count
  <2> HIDE DEF O, P, now, then
  <2>1. i # idx /\ i \in O /\ i \in PathPoint /\ after[i] = pts[i]
    BY <1>1, <1>2, <1>3, <1>9
  <2>2. CASE j = idx
    <3>1. v = m /\ pts[i].count <= c /\ pts[i].count \in Nat
      BY <1>2, <1>3, <1>4, <2>1, <2>2
    <3>2. after[j].count = c + 1 /\ after[i].count = pts[i].count
      BY <1>3, <2>1, <2>2
    <3> QED
      BY <3>1, <3>2
  <2>3. CASE j # idx
    BY <1>1, <1>2, <1>3, <1>4, <1>9, <2>1, <2>3
  <2> QED
    BY <2>2, <2>3
<1>10. ASSUME NEW i \in old \ {idx}, NEW j \in P, after[i].mmsi = v PROVE then(i) < then(j)
  <2> HIDE DEF O, P, now, then
  <2>1. i \in PathPoint /\ i # idx /\ pts[i].mmsi = v /\ then(i) = now(i) - 1
        /\ now(i) \in 0 .. M - 1
    BY <1>1, <1>3, <1>10
  <2>2. CASE j = idx
    BY <1>1, <2>1, <2>2
  <2>3. CASE j # idx
    BY <1>1, <1>2, <1>4, <2>1, <2>3
  <2> QED
    BY <2>2, <2>3
<1> HIDE DEF h2, s2
<1>11. PathInv(v, h2, s2, after, old \ {idx}, (idx + 1) % M)
  BY <1>6, <1>7, <1>8, <1>9, <1>10, Zenon DEF PathInv
<1> QED
  BY <1>11, Zenon DEF h2, s2
-----------------------------------------------------------------------------
(***************************************************************************)
(* addToPath and updateShip, of a vessel whose path begins at i and that    *)
(* was heard c times.                                                       *)
(***************************************************************************)
LEMMA PathAddedTo ==
  ASSUME TypeOK, NEW ship \in Ship, NEW m \in Mmsi, NEW i \in PathPoint \cup {-1, 0},
         NEW c \in Nat, NEW p \in Position \cup {NoPosition, 0}, NEW stale \in SUBSET PathPoint,
         AddToPath(ship, i, m, c + 1, p, stale)
  PROVE  /\ path_ptr' \in [Ship -> PathPoint \cup {-1, 0}] /\ paths' \in Points
         /\ path_idx' \in PathPoint /\ former' \in SUBSET PathPoint
<1>1. /\ path_ptr \in [Ship -> PathPoint \cup {-1, 0}] /\ paths \in Points
      /\ path_idx \in PathPoint /\ M \in Nat /\ M > 0
  BY Types DEF Points
<1>2. CASE /\ Stays(i, m, c + 1, p)
           /\ paths' = [paths EXCEPT ![i].pos = p, ![i].count = c + 1]
           /\ path_ptr' = [path_ptr EXCEPT ![ship] = i] /\ former' = stale /\ path_idx' = path_idx
  <2>1. i \in PathPoint
    BY <1>1, <1>2 DEF Stays, IsNextPathPoint, PathPoint
  <2>2. [paths[i] EXCEPT !.pos = p, !.count = c + 1]
          \in [mmsi : Mmsi \cup {Unused}, count : Nat, next : PathPoint \cup {-1},
              pos : Position \cup {NoPosition, 0}]
    <3>1. paths[i] \in [mmsi : Mmsi \cup {Unused}, count : Nat, next : PathPoint \cup {-1},
                        pos : Position \cup {NoPosition, 0}]
      BY <1>1, <2>1, Zenon DEF Points
    <3>2. c + 1 \in Nat
      OBVIOUS
    <3> QED
      BY <3>1, <3>2
  <2>3. paths' = [paths EXCEPT ![i] = [paths[i] EXCEPT !.pos = p, !.count = c + 1]]
    BY <1>1, <1>2, <2>1 DEF Points
  <2>4. paths' \in Points
    BY <1>1, <2>2, <2>3 DEF Points
  <2> QED
    BY <1>1, <1>2, <2>4
<1>3. CASE /\ paths' = [paths EXCEPT ![path_idx] = [mmsi |-> m, count |-> c + 1, next |-> i,
                                                    pos |-> p]]
           /\ path_ptr' = [path_ptr EXCEPT ![ship] = path_idx]
           /\ former' = stale \ {path_idx} /\ path_idx' = (path_idx + 1) % M
  <2>1. i \in PathPoint \cup {-1}
    BY <1>1 DEF PathPoint
  <2>2. paths' \in Points
    BY <1>1, <1>3, <2>1 DEF Points
  <2>3. path_idx' \in PathPoint
    BY <1>1, <1>3, LivesNow, Zenon
  <2> QED
    BY <1>1, <1>3, <2>2, <2>3
<1> QED
  BY <1>2, <1>3, Zenon DEF AddToPath

LEMMA PathsAfterAddTo ==
  ASSUME TypeOK, NEW ship \in Ship, NEW m \in Mmsi, NEW i \in PathPoint \cup {-1, 0},
         NEW c \in Nat, NEW p, NEW stale \in SUBSET PathPoint,
         AddToPath(ship, i, m, c + 1, p, stale),
         NEW v, NEW h \in Nat, NEW s, v = m => h = c /\ s = i,
         PathInv(v, h, s, paths, stale, path_idx)
  PROVE  PathInv(v, IF v = m THEN c + 1 ELSE h, IF v = m THEN path_ptr'[ship] ELSE s,
                 paths', former', path_idx')
<1>1. /\ path_ptr \in [Ship -> PathPoint \cup {-1, 0}] /\ paths \in Points
      /\ path_idx \in PathPoint /\ M \in Nat /\ M > 0
  BY Types DEF Points
<1>2. CASE /\ Stays(i, m, c + 1, p)
           /\ paths' = [paths EXCEPT ![i].pos = p, ![i].count = c + 1]
           /\ path_ptr' = [path_ptr EXCEPT ![ship] = i] /\ former' = stale /\ path_idx' = path_idx
  <2>1. i \in PathPoint /\ paths[i].mmsi = m
    BY <1>1, <1>2 DEF Stays, IsNextPathPoint, PathPoint
  <2>2. path_ptr'[ship] = i
    BY <1>1, <1>2
  <2>3. PointMoved(paths, i, c + 1, p, paths')
    BY <1>2, Zenon DEF PointMoved
  <2>4. PathInv(v, IF v = m THEN c + 1 ELSE h, s, paths', stale, path_idx)
    BY <1>1, <2>1, <2>3, PointMoves, Zenon
  <2> QED
    BY <1>2, <2>2, <2>4, Zenon
<1>3. CASE /\ paths' = [paths EXCEPT ![path_idx] = [mmsi |-> m, count |-> c + 1, next |-> i,
                                                    pos |-> p]]
           /\ path_ptr' = [path_ptr EXCEPT ![ship] = path_idx]
           /\ former' = stale \ {path_idx} /\ path_idx' = (path_idx + 1) % M
  <2> DEFINE point == [mmsi |-> m, count |-> c + 1, next |-> i, pos |-> p]
  <2>1. path_ptr'[ship] = path_idx
    BY <1>1, <1>3
  <2>2. point.mmsi = m /\ point.count = c + 1 /\ point.next = i
    OBVIOUS
  <2> HIDE DEF point
  <2>3. Written(paths, path_idx, point, paths')
    BY <1>1, <1>3 DEF Written, Points, point
  <2>4. PathInv(v, IF v = m THEN c + 1 ELSE h, IF v = m THEN path_idx ELSE s, paths',
                stale \ {path_idx}, (path_idx + 1) % M)
    BY <1>1, <2>2, <2>3, PointWritten, Zenon
  <2> QED
    BY <1>3, <2>1, <2>4, Zenon
<1> QED
  BY <1>2, <1>3, Zenon DEF AddToPath

LEMMA UpdateTypes ==
  ASSUME TypeOK, NEW ship \in Ship, NEW m \in Mmsi, NEW i \in PathPoint \cup {-1, 0},
         NEW c \in Nat, NEW p \in Position \cup {NoPosition, 0}, NEW report \in Report,
         NEW stale \in SUBSET PathPoint,
         Update(ship, m, i, c, p, report[1], report[2], stale)
  PROVE  /\ vessel' \in Mmsi /\ mmsi' \in [Ship -> Mmsi \cup {Unused}]
         /\ heard' \in [Ship -> Nat] /\ pos' \in [Ship -> Position \cup {NoPosition, 0}]
         /\ path_ptr' \in [Ship -> PathPoint \cup {-1, 0}] /\ paths' \in Points
         /\ path_idx' \in PathPoint /\ former' \in SUBSET PathPoint
<1> DEFINE here == IF report[1] = Absent THEN p ELSE report[1]
<1>1. here \in Position \cup {NoPosition, 0}
  BY ReportAssumption
<1> HIDE DEF here
<1>2. /\ vessel' = m /\ mmsi' = [mmsi EXCEPT ![ship] = m] /\ heard' = [heard EXCEPT ![ship] = c + 1]
      /\ pos' = [pos EXCEPT ![ship] = here]
      /\ IF report[2]
           THEN AddToPath(ship, i, m, c + 1, here, stale)
           ELSE /\ path_ptr' = [path_ptr EXCEPT ![ship] = i]
                /\ former' = stale /\ paths' = paths /\ path_idx' = path_idx
  BY Zenon DEF Update, here
<1>3. /\ vessel' \in Mmsi /\ mmsi' \in [Ship -> Mmsi \cup {Unused}]
      /\ heard' \in [Ship -> Nat] /\ pos' \in [Ship -> Position \cup {NoPosition, 0}]
  BY <1>1, <1>2 DEF TypeOK
<1>4. CASE report[2]
  BY <1>1, <1>2, <1>3, <1>4, PathAddedTo, Zenon
<1>5. CASE ~report[2]
  <2>1. path_ptr' \in [Ship -> PathPoint \cup {-1, 0}]
    BY <1>2, <1>5 DEF TypeOK
  <2>2. paths' \in Points /\ path_idx' \in PathPoint /\ former' \in SUBSET PathPoint
    BY <1>2, <1>5, Zenon DEF TypeOK, Points
  <2> QED
    BY <1>3, <2>1, <2>2
<1> QED
  BY <1>4, <1>5

LEMMA UpdatedPaths ==
  ASSUME TypeOK, NEW ship \in Ship, NEW m \in Mmsi, NEW i \in PathPoint \cup {-1, 0},
         NEW c \in Nat, NEW p, NEW reported, NEW onPath, NEW stale \in SUBSET PathPoint,
         Update(ship, m, i, c, p, reported, onPath, stale),
         PathInv(m, c, i, paths, stale, path_idx),
         \A s \in Ship : s # ship /\ mmsi[s] # Unused =>
           mmsi[s] # m /\ PathInv(mmsi[s], heard[s], path_ptr[s], paths, stale, path_idx)
  PROVE  PathsInv'
<1> DEFINE here == IF reported = Absent THEN p ELSE reported
<1>1. /\ mmsi' = [mmsi EXCEPT ![ship] = m] /\ heard' = [heard EXCEPT ![ship] = c + 1]
      /\ IF onPath
           THEN AddToPath(ship, i, m, c + 1, here, stale)
           ELSE /\ path_ptr' = [path_ptr EXCEPT ![ship] = i]
                /\ former' = stale /\ paths' = paths /\ path_idx' = path_idx
  BY Zenon DEF Update, here
<1> HIDE DEF here
<1>2. /\ mmsi \in [Ship -> Mmsi \cup {Unused}] /\ heard \in [Ship -> Nat]
      /\ path_ptr \in [Ship -> PathPoint \cup {-1, 0}] /\ paths \in Points
  BY Types DEF Points
<1>3. /\ mmsi'[ship] = m /\ heard'[ship] = c + 1
      /\ \A s \in Ship : s # ship => mmsi'[s] = mmsi[s] /\ heard'[s] = heard[s]
  BY <1>1, <1>2
<1>4. \A s \in Ship : s # ship => path_ptr'[s] = path_ptr[s]
  BY <1>1, <1>2 DEF AddToPath
<1>5. PathInv(m, c + 1, path_ptr'[ship], paths', former', path_idx')
  <2>1. CASE onPath
    <3>1. AddToPath(ship, i, m, c + 1, here, stale)
      BY <1>1, <2>1
    <3>2. PathInv(m, IF m = m THEN c + 1 ELSE c, IF m = m THEN path_ptr'[ship] ELSE i,
                  paths', former', path_idx')
      BY <3>1, PathsAfterAddTo, Zenon
    <3> QED
      BY <3>2, Zenon
  <2>2. CASE ~onPath
    <3>1. path_ptr'[ship] = i /\ former' = stale /\ paths' = paths /\ path_idx' = path_idx
      BY <1>1, <1>2, <2>2
    <3>2. PathInv(m, c + 1, i, paths, stale, path_idx)
      BY <1>2, HeardAgain, Zenon
    <3> QED
      BY <3>1, <3>2, Zenon
  <2> QED
    BY <2>1, <2>2
<1>6. ASSUME NEW s \in Ship, s # ship, mmsi[s] # Unused
      PROVE  PathInv(mmsi[s], heard[s], path_ptr[s], paths', former', path_idx')
  <2> DEFINE v == mmsi[s]
             h == heard[s]
             q == path_ptr[s]
  <2>1. v # m /\ PathInv(v, h, q, paths, stale, path_idx) /\ h \in Nat
    BY <1>2, <1>6, Zenon
  <2> HIDE DEF v, h, q
  <2>2. CASE onPath
    <3>1. AddToPath(ship, i, m, c + 1, here, stale)
      BY <1>1, <2>2
    <3>2. PathInv(v, IF v = m THEN c + 1 ELSE h, IF v = m THEN path_ptr'[ship] ELSE q,
                  paths', former', path_idx')
      BY <2>1, <3>1, PathsAfterAddTo, Zenon
    <3>3. PathInv(v, h, q, paths', former', path_idx')
      BY <2>1, <3>2, Zenon
    <3> QED
      BY <3>3, Zenon DEF v, h, q
  <2>3. CASE ~onPath
    <3>1. former' = stale /\ paths' = paths /\ path_idx' = path_idx
      BY <1>1, <2>3
    <3>2. PathInv(v, h, q, paths', former', path_idx')
      BY <2>1, <3>1, Zenon
    <3> QED
      BY <3>2, Zenon DEF v, h, q
  <2> QED
    BY <2>2, <2>3
<1>7. ASSUME NEW s \in Ship, mmsi'[s] # Unused
      PROVE  PathInv(mmsi'[s], heard'[s], path_ptr'[s], paths', former', path_idx')
  <2>1. CASE s = ship
    BY <1>3, <1>5, <2>1, Zenon
  <2>2. CASE s # ship
    <3>1. mmsi'[s] = mmsi[s] /\ heard'[s] = heard[s] /\ path_ptr'[s] = path_ptr[s]
      BY <1>3, <1>4, <2>2, Zenon
    <3>2. mmsi[s] # Unused
      BY <1>7, <3>1, Zenon
    <3>3. PathInv(mmsi[s], heard[s], path_ptr[s], paths', former', path_idx')
      BY <1>6, <2>2, <3>2, Zenon
    <3> QED
      BY <3>1, <3>3, Zenon
  <2> QED
    BY <2>1, <2>2
<1> QED
  BY <1>7, Zenon DEF PathsInv
-----------------------------------------------------------------------------
(***************************************************************************)
(* Receive, for a vessel the database knows and for one it does not.        *)
(***************************************************************************)
LEMMA MoveTypes ==
  ASSUME TypeOK, NEW ship \in Ship, MoveShipToFront(ship)
  PROVE  /\ first' \in Ship /\ next' \in [Ship -> Ship \cup {-1}]
         /\ prev' \in [Ship -> Ship \cup {-1}]
<1>1. first \in Ship /\ next \in [Ship -> Ship \cup {-1}] /\ prev \in [Ship -> Ship \cup {-1}]
  BY Types
<1>2. CASE first' = first /\ next' = next /\ prev' = prev
  BY <1>1, <1>2
<1>3. CASE /\ first' = ship
           /\ next' = [next EXCEPT ![prev[ship]] = next[ship], ![ship] = first]
           /\ prev' = [s \in Ship |-> CASE s = ship -> -1
                                        [] s = first -> ship
                                        [] s = next[ship] /\ s # first -> prev[ship]
                                        [] OTHER -> prev[s]]
  <2>1. next' \in [Ship -> Ship \cup {-1}]
    BY <1>1, <1>3
  <2>2. prev' \in [Ship -> Ship \cup {-1}]
    <3>1. ASSUME NEW s \in Ship PROVE prev'[s] \in Ship \cup {-1}
      <4>1. CASE s = ship /\ s # first /\ ~(s = next[ship] /\ s # first)
        BY <1>1, <1>3, <4>1
      <4>2. CASE s = first /\ s # ship /\ ~(s = next[ship] /\ s # first)
        BY <1>1, <1>3, <4>2
      <4>3. CASE s = next[ship] /\ s # first /\ s # ship
        BY <1>1, <1>3, <4>3
      <4>4. CASE s # ship /\ s # first /\ ~(s = next[ship] /\ s # first)
        BY <1>1, <1>3, <4>4
      <4>5. CASE s = ship /\ (s = first \/ (s = next[ship] /\ s # first))
        BY <1>1, <1>3, <4>5
      <4> QED
        BY <4>1, <4>2, <4>3, <4>4, <4>5
    <3> QED
      BY <1>3, <3>1
  <2> QED
    BY <1>3, <2>1, <2>2
<1> QED
  BY <1>1, <1>2, <1>3, Zenon DEF MoveShipToFront, list

LEMMA KnownKeeps ==
  ASSUME DatabaseInv, received' \in 0 .. MaxMessages, NEW m \in Mmsi, NEW report \in Report,
         ReceiveKnown(m, report[1], report[2])
  PROVE  DatabaseInv'
<1> DEFINE ship == FindShip(m)
<1>1. PICK f \in [1 .. N -> Ship] : IsList(f) /\ HoldsVessels(f)
  BY DEF DatabaseInv, ListInv
<1>2. TypeOK /\ PathsInv
  BY DEF DatabaseInv
<1>3. /\ Ranks(m) # {} /\ MoveShipToFront(ship) /\ count' = count
      /\ Update(ship, m, path_ptr[ship], heard[ship], pos[ship], report[1], report[2], former)
  BY Zenon DEF ReceiveKnown
<1>4. PICK k \in 1 .. N : k <= count /\ ship = f[k] /\ mmsi[f[k]] = m
  BY <1>1, <1>2, <1>3, FoundShip, Zenon
<1> HIDE DEF ship
<1>5. ship \in Ship /\ mmsi[ship] = m /\ m # Unused
  BY <1>1, <1>4
<1> DEFINE i == path_ptr[ship]
           c == heard[ship]
           p == pos[ship]
<1>6. /\ i \in PathPoint \cup {-1, 0} /\ c \in Nat /\ p \in Position \cup {NoPosition, 0}
      /\ former \in SUBSET PathPoint
      /\ next \in [Ship -> Ship \cup {-1}] /\ prev \in [Ship -> Ship \cup {-1}]
  BY <1>2, <1>5 DEF TypeOK
<1>7. PathInv(m, c, i, paths, former, path_idx)
  BY <1>2, <1>5, Zenon DEF PathsInv
<1> HIDE DEF i, c, p
<1>8. Update(ship, m, i, c, p, report[1], report[2], former)
  BY <1>3, Zenon DEF i, c, p
<1>9. TypeOK'
  <2>1. /\ vessel' \in Mmsi /\ mmsi' \in [Ship -> Mmsi \cup {Unused}]
        /\ heard' \in [Ship -> Nat] /\ pos' \in [Ship -> Position \cup {NoPosition, 0}]
        /\ path_ptr' \in [Ship -> PathPoint \cup {-1, 0}] /\ paths' \in Points
        /\ path_idx' \in PathPoint /\ former' \in SUBSET PathPoint
    BY <1>2, <1>5, <1>6, <1>8, UpdateTypes, Zenon
  <2>2. first' \in Ship /\ next' \in [Ship -> Ship \cup {-1}] /\ prev' \in [Ship -> Ship \cup {-1}]
    BY <1>2, <1>3, <1>5, MoveTypes, Zenon
  <2>3. last' \in Ship
    <3>1. IsList(Moved(f, k))'
      BY <1>1, <1>3, <1>4, <1>6, MovedToFront, Zenon
    <3>2. N \in 1 .. N
      OBVIOUS
    <3> QED
      BY <3>1, <3>2 DEF IsList
  <2>4. count' \in 0 .. N
    BY <1>2, <1>3 DEF TypeOK
  <2> QED
    BY <2>1, <2>2, <2>3, <2>4 DEF TypeOK, Points
<1>10. ListInv'
  <2>1. IsList(Moved(f, k))'
    BY <1>1, <1>3, <1>4, <1>6, MovedToFront, Zenon
  <2>2. mmsi' = [mmsi EXCEPT ![f[k]] = m]
    BY <1>4, <1>8, Zenon DEF Update
  <2>3. HoldsVessels(Moved(f, k))'
    BY <1>1, <1>2, <1>3, <1>4, <2>2, VesselsStayApart, Zenon
  <2>4. Moved(f, k) \in [1 .. N -> Ship]
    BY <2>1, Zenon DEF IsList
  <2> QED
    BY <2>1, <2>3, <2>4, Zenon DEF ListInv
<1>11. PathsInv'
  <2>1. \A s \in Ship : s # ship /\ mmsi[s] # Unused => mmsi[s] # m
    BY <1>1, <1>2, <1>5, VesselsAreApart, Zenon
  <2>2. \A s \in Ship : s # ship /\ mmsi[s] # Unused =>
          mmsi[s] # m /\ PathInv(mmsi[s], heard[s], path_ptr[s], paths, former, path_idx)
    BY <1>2, <2>1, Zenon DEF PathsInv
  <2> QED
    BY <1>2, <1>5, <1>6, <1>7, <1>8, <2>2, UpdatedPaths, Zenon
<1> QED
  BY <1>9, <1>10, <1>11 DEF DatabaseInv

LEMMA NewKeeps ==
  ASSUME DatabaseInv, received' \in 0 .. MaxMessages, NEW m \in Mmsi, NEW report \in Report,
         ReceiveNew(m, report[1], report[2])
  PROVE  DatabaseInv'
<1> DEFINE stale == former \cup {i \in PathPoint : paths[i].mmsi = m}
<1>1. PICK f \in [1 .. N -> Ship] : IsList(f) /\ HoldsVessels(f)
  BY DEF DatabaseInv, ListInv
<1>2. TypeOK /\ PathsInv
  BY DEF DatabaseInv
<1>3. /\ Ranks(m) = {} /\ CreateShip /\ MoveShipToFront(last)
      /\ Update(last, m, -1, 0, NoPosition, report[1], report[2], stale)
  BY Zenon DEF ReceiveNew
<1>4. N \in 1 .. N /\ last = f[N] /\ last \in Ship
  BY <1>1 DEF IsList
<1>5. /\ stale \in SUBSET PathPoint
      /\ next \in [Ship -> Ship \cup {-1}] /\ prev \in [Ship -> Ship \cup {-1}]
  BY <1>2 DEF TypeOK
<1>6. PathInv(m, 0, -1, paths, stale, path_idx)
  BY VesselEnters, Zenon
<1> HIDE DEF stale
<1>7. IsList(Moved(f, N))'
  BY <1>1, <1>3, <1>4, <1>5, MovedToFront, Zenon
<1>8. mmsi' = [mmsi EXCEPT ![f[N]] = m]
  BY <1>3, <1>4, Zenon DEF Update
<1>9. HoldsVessels(Moved(f, N))' /\ count' \in 0 .. N
  BY <1>1, <1>2, <1>3, <1>4, <1>8, VesselsStayApart, Zenon
<1>10. -1 \in PathPoint \cup {-1, 0} /\ 0 \in Nat /\ NoPosition \in Position \cup {NoPosition, 0}
  OBVIOUS
<1>11. TypeOK'
  <2>1. /\ vessel' \in Mmsi /\ mmsi' \in [Ship -> Mmsi \cup {Unused}]
        /\ heard' \in [Ship -> Nat] /\ pos' \in [Ship -> Position \cup {NoPosition, 0}]
        /\ path_ptr' \in [Ship -> PathPoint \cup {-1, 0}] /\ paths' \in Points
        /\ path_idx' \in PathPoint /\ former' \in SUBSET PathPoint
    BY <1>2, <1>3, <1>4, <1>5, <1>10, UpdateTypes, Zenon
  <2>2. first' \in Ship /\ next' \in [Ship -> Ship \cup {-1}] /\ prev' \in [Ship -> Ship \cup {-1}]
    BY <1>2, <1>3, <1>4, MoveTypes, Zenon
  <2>3. last' \in Ship
    BY <1>4, <1>7 DEF IsList
  <2> QED
    BY <1>9, <2>1, <2>2, <2>3 DEF TypeOK, Points
<1>12. ListInv'
  <2>1. Moved(f, N) \in [1 .. N -> Ship]
    BY <1>7, Zenon DEF IsList
  <2> QED
    BY <1>7, <1>9, <2>1, Zenon DEF ListInv
<1>13. PathsInv'
  <2>1. \A s \in Ship : mmsi[s] # m
    BY <1>1, <1>2, <1>3, VesselsAreApart, Zenon
  <2>2. \A s \in Ship : s # last /\ mmsi[s] # Unused =>
          mmsi[s] # m /\ PathInv(mmsi[s], heard[s], path_ptr[s], paths, stale, path_idx)
    BY <1>2, <2>1, AnotherEnters, Zenon DEF PathsInv, stale
  <2> QED
    BY <1>2, <1>3, <1>4, <1>5, <1>6, <1>10, <2>2, UpdatedPaths, Zenon
<1> QED
  BY <1>11, <1>12, <1>13 DEF DatabaseInv
-----------------------------------------------------------------------------
(***************************************************************************)
(* At the start no ship is in use: the last of the array is the first of    *)
(* the list.                                                                *)
(***************************************************************************)
LEMMA FirstList ==
  ASSUME Init
  PROVE  ListInv
<1> DEFINE f == [i \in 1 .. N |-> N - i]
<1>1. /\ first = N - 1 /\ last = 0 /\ count = 0 /\ next = [s \in Ship |-> s - 1]
      /\ prev = [s \in Ship |-> IF s = N - 1 THEN -1 ELSE s + 1]
      /\ mmsi = [s \in Ship |-> Unused]
  BY Zenon DEF Init
<1>2. f \in [1 .. N -> Ship] /\ \A i \in 1 .. N : f[i] = N - i
  BY DEF Ship
<1>3. ASSUME NEW s \in Ship PROVE \E i \in 1 .. N : f[i] = s
  <2>1. N - s \in 1 .. N /\ N - (N - s) = s
    BY DEF Ship
  <2> QED
    BY <1>2, <2>1
<1> HIDE DEF f
<1>4. \A i \in 1 .. N : \A j \in 1 .. N : f[i] = f[j] => i = j
  BY <1>2
<1>5. f[1] = first /\ prev[first] = -1 /\ f[N] = last /\ next[last] = -1
  BY <1>1, <1>2 DEF Ship
<1>6. ASSUME NEW i \in 1 .. N - 1 PROVE next[f[i]] = f[i + 1] /\ prev[f[i + 1]] = f[i]
  <2>1. f[i] = N - i /\ f[i + 1] = N - i - 1 /\ N - i \in Ship /\ N - i - 1 \in Ship
    BY <1>2 DEF Ship
  <2> QED
    BY <1>1, <2>1
<1>7. IsList(f)
  BY <1>2, <1>3, <1>4, <1>5, <1>6, Zenon DEF IsList
<1>8. \A i \in 1 .. N : mmsi[f[i]] = Unused /\ ~(i <= count)
  BY <1>1, <1>2
<1>9. HoldsVessels(f)
  BY <1>1, <1>8 DEF HoldsVessels
<1> QED
  BY <1>2, <1>7, <1>9, Zenon DEF ListInv

LEMMA DatabaseInit ==
  ASSUME Init
  PROVE  DatabaseInv
<1>1. ListInv
  BY FirstList
<1>2. PathsInv
  BY DEF Init, PathsInv
<1>3. TypeOK
  <2>1. paths = [i \in PathPoint |-> [mmsi |-> Unused, count |-> 0, next |-> 0, pos |-> 0]]
    BY DEF Init
  <2>2. 0 \in PathPoint /\ 0 \in Ship /\ N - 1 \in Ship
    BY DEF PathPoint, Ship
  <2>3. paths \in [PathPoint -> [mmsi : Mmsi \cup {Unused}, count : Nat,
                                 next : PathPoint \cup {-1},
                                 pos : Position \cup {NoPosition, 0}]]
    BY <2>1, <2>2
  <2>4. /\ next \in [Ship -> Ship \cup {-1}] /\ prev \in [Ship -> Ship \cup {-1}]
    BY DEF Init, Ship
  <2>5. /\ mmsi \in [Ship -> Mmsi \cup {Unused}] /\ heard \in [Ship -> Nat]
        /\ pos \in [Ship -> Position \cup {NoPosition, 0}]
        /\ path_ptr \in [Ship -> PathPoint \cup {-1, 0}]
    BY DEF Init
  <2>6. first \in Ship /\ last \in Ship /\ count \in 0 .. N /\ path_idx \in PathPoint
        /\ former \subseteq PathPoint /\ vessel \in Mmsi \cup {Unused}
        /\ received \in 0 .. MaxMessages
    BY <2>2, MaxMessagesAssumption DEF Init
  <2> QED
    BY <2>3, <2>4, <2>5, <2>6 DEF TypeOK
<1> QED
  BY <1>1, <1>2, <1>3 DEF DatabaseInv

\* The list and the vessels it holds are what the loops of the database rely on.
LEMMA WholeList ==
  ASSUME DatabaseInv
  PROVE  ListIntact
<1>1. PICK f \in [1 .. N -> Ship] : IsList(f) /\ HoldsVessels(f)
  BY DEF DatabaseInv, ListInv
<1>2. Nth = f
  BY <1>1, NthIsTheOrder
<1>3. {f[i] : i \in 1 .. N} = Ship
  BY <1>1 DEF IsList
<1>4. ASSUME NEW i \in 2 .. N PROVE prev[f[i]] = f[i - 1]
  <2>1. i - 1 \in 1 .. N - 1 /\ (i - 1) + 1 = i
    OBVIOUS
  <2> QED
    BY <1>1, <2>1 DEF IsList
<1>5. /\ f[1] = first /\ prev[first] = -1 /\ f[N] = last /\ next[last] = -1
      /\ \A i \in 1 .. N : mmsi[f[i]] # Unused <=> i <= count
  BY <1>1, Zenon DEF IsList, HoldsVessels
<1> QED
  BY <1>2, <1>3, <1>4, <1>5, Zenon DEF ListIntact
-----------------------------------------------------------------------------
(***************************************************************************)
(* The walk along a path, as getSinglePathJSON makes it.  It is the value   *)
(* of a recursion, which a least length without one would contradict.       *)
(***************************************************************************)
PointAfter(ship, k, b) ==
  LET i == IF k = 1 THEN path_ptr[ship] ELSE IF b = -1 THEN -1 ELSE paths[b].next
      c == IF k = 1 THEN heard[ship] + 1 ELSE IF b = -1 THEN 0 ELSE paths[b].count
  IN  IF IsNextPathPoint(i, mmsi[ship], c) THEN i ELSE -1

IsWalk(ship, n, f) == f = [k \in 1 .. n |-> PointAfter(ship, k, f[k - 1])]

LEMMA WalkIsPossible ==
  ASSUME NEW ship
  PROVE  \E f : IsWalk(ship, M + 1, f)
<1> DEFINE S == {n \in 0 .. M + 1 : ~ \E f : IsWalk(ship, n, f)}
<1>1. S = {}
  <2> SUFFICES ASSUME S # {} PROVE FALSE
    OBVIOUS
  <2>1. S \in SUBSET Nat
    OBVIOUS
  <2>2. PICK x \in S : \A y \in S : x <= y
    <3> HIDE DEF S
    <3> QED
      BY <2>1, LeastNumber
  <2>3. x \in 0 .. M + 1 /\ ~ \E f : IsWalk(ship, x, f)
    OBVIOUS
  <2>4. CASE x = 0
    <3> DEFINE f == [k \in 1 .. 0 |-> -1]
    <3>1. 1 .. 0 = {}
      OBVIOUS
    <3>2. f = [k \in 1 .. 0 |-> PointAfter(ship, k, f[k - 1])]
      BY <3>1
    <3> HIDE DEF f
    <3> QED
      BY <2>3, <2>4, <3>2, Zenon DEF IsWalk
  <2>5. CASE x # 0
    <3>1. x - 1 \in 0 .. M + 1 /\ ~(x <= x - 1)
      BY <2>3, <2>5
    <3>2. PICK f : IsWalk(ship, x - 1, f)
      BY <2>2, <3>1
    <3> DEFINE g == [k \in 1 .. x |-> PointAfter(ship, k, f[k - 1])]
    <3>3. ASSUME NEW k \in 1 .. x PROVE PointAfter(ship, k, g[k - 1]) = g[k]
      <4>1. g[k] = PointAfter(ship, k, f[k - 1])
        BY Zenon
      <4>2. CASE k = 1
        BY <4>1, <4>2, Zenon DEF PointAfter
      <4>3. CASE k # 1
        <5>1. k - 1 \in 1 .. x /\ k - 1 \in 1 .. x - 1
          BY <4>3
        <5>2. g[k - 1] = PointAfter(ship, k - 1, f[(k - 1) - 1])
          BY <5>1, Zenon
        <5>3. f[k - 1] = PointAfter(ship, k - 1, f[(k - 1) - 1])
          BY <3>2, <5>1, Zenon DEF IsWalk
        <5> QED
          BY <4>1, <5>2, <5>3, Zenon
      <4> QED
        BY <4>2, <4>3
    <3>4. g = [k \in 1 .. x |-> g[k]]
      OBVIOUS
    <3> HIDE DEF g
    <3>5. g = [k \in 1 .. x |-> PointAfter(ship, k, g[k - 1])]
      BY <3>3, <3>4, Zenon
    <3> QED
      BY <2>3, <3>5, Zenon DEF IsWalk
  <2> QED
    BY <2>4, <2>5
<1>2. M + 1 \in 0 .. M + 1
  OBVIOUS
<1> QED
  BY <1>1, <1>2

LEMMA PathIsAWalk ==
  ASSUME NEW ship
  PROVE  IsWalk(ship, M + 1, PathOf(ship))
<1>1. PICK f : IsWalk(ship, M + 1, f)
  BY WalkIsPossible, Zenon
<1> QED
  BY <1>1, Zenon DEF IsWalk, PathOf, PointAfter
(***************************************************************************)
(* Up to its k-th point the walk has gone through the own points of the     *)
(* vessel from the newest on; it ends when there are no more.               *)
(***************************************************************************)
Met(f, k, i) == \E j \in 1 .. k - 1 : f[j] = i

WalkInv(O, f, k, idx) ==
  \/ f[k] = -1 /\ \A i \in O : Met(f, k, i)
  \/ /\ f[k] \in O /\ Life(f[k], idx) <= M - k
     /\ \A i \in O : Life(i, idx) > Life(f[k], idx) => Met(f, k, i)

LEMMA WalkStarts ==
  ASSUME TypeOK, NEW ship \in Ship, NEW f, IsWalk(ship, M + 1, f),
         PathInv(mmsi[ship], heard[ship], path_ptr[ship], paths, former, path_idx)
  PROVE  WalkInv(Own(mmsi[ship], paths, former), f, 1, path_idx)
<1> DEFINE v == mmsi[ship]
           O == Own(v, paths, former)
           i == path_ptr[ship]
           c == heard[ship]
           life(j) == Life(j, path_idx)
<1>1. /\ c \in Nat /\ paths \in Points /\ path_idx \in PathPoint
      /\ i \in PathPoint \cup {-1, 0} /\ 0 \in PathPoint
  BY Types DEF Points, PathPoint
<1>2. /\ LeadsTo(i, M, v, paths, former, path_idx)
      /\ \A j \in O : paths[j].count <= c
  BY Zenon DEF PathInv
<1>3. /\ \A j \in PathPoint : life(j) \in 0 .. M - 1 /\ paths[j].count \in Nat
      /\ \A j \in O : j \in PathPoint /\ paths[j].mmsi = v
  <2>1. \A j \in PathPoint : life(j) \in 0 .. M - 1
    BY <1>1, Lives, Zenon
  <2> QED
    BY <1>1, <2>1 DEF Points, Own
<1>4. f[1] = IF IsNextPathPoint(i, v, c + 1) THEN i ELSE -1
  <2>1. 1 \in 1 .. M + 1
    OBVIOUS
  <2>2. f[1] = PointAfter(ship, 1, f[1 - 1])
    BY <2>1, Zenon DEF IsWalk
  <2> QED
    BY <2>2, Zenon DEF PointAfter
<1> HIDE DEF v, O, i, c, life
<1>5. \A j \in PathPoint : life(j) < M /\ ~(life(j) >= M)
  BY <1>3
<1>6. CASE i \in O /\ \A j \in O : life(j) <= life(i)
  <2>1. i \in PathPoint /\ i # -1 /\ paths[i].mmsi = v /\ paths[i].count < c + 1
    BY <1>1, <1>2, <1>3, <1>6 DEF PathPoint
  <2>2. f[1] = i
    BY <1>4, <2>1, Zenon DEF IsNextPathPoint
  <2>3. life(i) <= M - 1 /\ \A j \in O : ~(life(j) > life(i))
    BY <1>3, <1>6
  <2> QED
    BY <1>6, <2>2, <2>3, Zenon DEF WalkInv, O, v, life
<1>7. CASE (\A j \in O : FALSE) /\ (i = -1 \/ paths[i].mmsi # v)
  <2>1. f[1] = -1
    BY <1>4, <1>7, Zenon DEF IsNextPathPoint
  <2> QED
    BY <1>7, <2>1, Zenon DEF WalkInv, O, v
<1> QED
  BY <1>2, <1>3, <1>5, <1>6, <1>7, Zenon DEF LeadsTo, O, v, life

LEMMA WalkGoesOn ==
  ASSUME TypeOK, NEW ship \in Ship, NEW f, IsWalk(ship, M + 1, f), NEW k \in 1 .. M,
         PathInv(mmsi[ship], heard[ship], path_ptr[ship], paths, former, path_idx),
         WalkInv(Own(mmsi[ship], paths, former), f, k, path_idx)
  PROVE  WalkInv(Own(mmsi[ship], paths, former), f, k + 1, path_idx)
<1> DEFINE v == mmsi[ship]
           O == Own(v, paths, former)
           b == f[k]
           i == IF b = -1 THEN -1 ELSE paths[b].next
           c == IF b = -1 THEN 0 ELSE paths[b].count
           life(j) == Life(j, path_idx)
<1>1. /\ paths \in Points /\ path_idx \in PathPoint /\ former \in SUBSET PathPoint
  BY Types DEF Points
<1>2. /\ \A j \in O : \A n \in O : life(j) < life(n) => paths[j].count < paths[n].count
      /\ \A j \in former : \A n \in O : paths[j].mmsi = v => life(j) < life(n)
      /\ \A j \in O : LeadsTo(paths[j].next, life(j), v, paths, former, path_idx)
  BY Zenon DEF PathInv
<1>3. /\ \A j \in PathPoint : life(j) \in 0 .. M - 1 /\ paths[j].count \in Nat
      /\ \A j \in O : j \in PathPoint /\ j # -1 /\ paths[j].mmsi = v
      /\ \A j \in PathPoint : paths[j].mmsi = v => j \in O \/ j \in former
      /\ \A j \in PathPoint : \A n \in PathPoint : life(j) = life(n) => j = n
  <2>1. /\ \A j \in PathPoint : life(j) \in 0 .. M - 1
        /\ \A j \in PathPoint : \A n \in PathPoint : life(j) = life(n) => j = n
    BY <1>1, Lives, Zenon
  <2>2. \A j \in PathPoint : j # -1 /\ paths[j].count \in Nat
    BY <1>1 DEF Points, PathPoint
  <2> QED
    BY <2>1, <2>2, Zenon DEF Own
<1>4. f[k + 1] = IF IsNextPathPoint(i, v, c) THEN i ELSE -1
  <2>1. k + 1 \in 1 .. M + 1 /\ k + 1 # 1 /\ (k + 1) - 1 = k
    OBVIOUS
  <2>2. f[k + 1] = PointAfter(ship, k + 1, f[(k + 1) - 1])
    BY <2>1, Zenon DEF IsWalk
  <2> QED
    BY <2>1, <2>2, Zenon DEF PointAfter
<1>5. Met(f, k + 1, b) /\ \A j : Met(f, k, j) => Met(f, k + 1, j)
  BY DEF Met
<1>6. CASE b = -1 /\ \A j \in O : Met(f, k, j)
  <2>1. f[k + 1] = -1
    BY <1>4, <1>6, Zenon DEF IsNextPathPoint
  <2> QED
    BY <1>5, <1>6, <2>1, Zenon DEF WalkInv, O, v
<1>7. CASE /\ b \in O /\ life(b) <= M - k
           /\ \A j \in O : life(j) > life(b) => Met(f, k, j)
  <2>1. i = paths[b].next /\ c = paths[b].count /\ b \in PathPoint
    BY <1>3, <1>7
  <2>2. LeadsTo(i, life(b), v, paths, former, path_idx)
    BY <1>2, <1>7, <2>1, Zenon
  <2> HIDE DEF v, O, b, i, c, life
  <2>3. CASE /\ i \in O /\ life(i) < life(b)
             /\ \A j \in O : life(j) < life(b) => life(j) <= life(i)
    <3>1. i \in PathPoint /\ i # -1 /\ paths[i].mmsi = v /\ paths[i].count < c
      BY <1>2, <1>3, <1>7, <2>1, <2>3
    <3>2. f[k + 1] = i
      BY <1>4, <3>1, Zenon DEF IsNextPathPoint
    <3>3. life(i) <= M - (k + 1)
      BY <1>3, <1>7, <2>1, <2>3, <3>1
    <3>4. ASSUME NEW j \in O, life(j) > life(i) PROVE Met(f, k + 1, j)
      <4>1. life(j) > life(b) \/ j = b
        BY <1>3, <2>1, <2>3, <3>1, <3>4
      <4> QED
        BY <1>5, <1>7, <4>1, Zenon
    <3> QED
      BY <2>3, <3>2, <3>3, <3>4, Zenon DEF WalkInv, O, v, life
  <2>4. CASE /\ \A j \in O : life(j) >= life(b)
             /\ i = -1 \/ (i \in PathPoint /\ (life(i) >= life(b) \/ paths[i].mmsi # v))
    <3>1. ~IsNextPathPoint(i, v, c)
      <4>1. SUFFICES ASSUME i # -1, paths[i].mmsi = v, paths[i].count < c PROVE FALSE
        BY Zenon DEF IsNextPathPoint
      <4>2. i \in PathPoint /\ life(i) >= life(b)
        BY <2>4, <4>1
      <4>3. i \in O
        BY <1>2, <1>3, <1>7, <2>1, <4>1, <4>2
      <4> QED
        BY <1>2, <1>3, <1>7, <2>1, <4>1, <4>2, <4>3
    <3>2. f[k + 1] = -1
      BY <1>4, <3>1, Zenon
    <3>3. ASSUME NEW j \in O PROVE Met(f, k + 1, j)
      <4>1. life(j) > life(b) \/ j = b
        BY <1>3, <1>7, <2>4
      <4> QED
        BY <1>5, <1>7, <4>1, Zenon
    <3> QED
      BY <3>2, <3>3, Zenon DEF WalkInv, O, v
  <2> QED
    BY <2>2, <2>3, <2>4, Zenon DEF LeadsTo, O, v, life
<1> QED
  BY <1>6, <1>7, Zenon DEF WalkInv, O, v, b, life
LEMMA WalkKeeps ==
  ASSUME TypeOK, NEW ship \in Ship, NEW f, IsWalk(ship, M + 1, f),
         PathInv(mmsi[ship], heard[ship], path_ptr[ship], paths, former, path_idx)
  PROVE  \A k \in 1 .. M + 1 : WalkInv(Own(mmsi[ship], paths, former), f, k, path_idx)
<1> DEFINE W(k) == WalkInv(Own(mmsi[ship], paths, former), f, k, path_idx)
           S == {k \in 1 .. M + 1 : ~W(k)}
<1>1. W(1)
  BY WalkStarts, Zenon
<1>2. \A k \in 1 .. M : W(k) => W(k + 1)
  BY WalkGoesOn, Zenon
<1> HIDE DEF W
<1>3. S = {}
  <2> SUFFICES ASSUME S # {} PROVE FALSE
    OBVIOUS
  <2>1. S \in SUBSET Nat
    OBVIOUS
  <2>2. PICK x \in S : \A y \in S : x <= y
    <3> HIDE DEF S
    <3> QED
      BY <2>1, LeastNumber
  <2>3. x \in 1 .. M + 1 /\ ~W(x) /\ x # 1
    BY <1>1
  <2>4. x - 1 \in 1 .. M /\ x - 1 \in 1 .. M + 1 /\ (x - 1) + 1 = x /\ ~(x <= x - 1)
    BY <2>3
  <2>5. W(x - 1)
    BY <2>2, <2>4
  <2> QED
    BY <1>2, <2>3, <2>4, <2>5, Zenon
<1> QED
  BY <1>3, Zenon DEF W

LEMMA PathShowsOwn ==
  ASSUME DatabaseInv, NEW ship \in Ship, mmsi[ship] # Unused
  PROVE  /\ {PathOf(ship)[k] : k \in 1 .. M} \ {-1} = Own(mmsi[ship], paths, former)
         /\ PathOf(ship)[M + 1] = -1
<1> DEFINE f == PathOf(ship)
           O == Own(mmsi[ship], paths, former)
<1>1. TypeOK /\ path_idx \in PathPoint
  BY Types DEF DatabaseInv
<1>2. PathInv(mmsi[ship], heard[ship], path_ptr[ship], paths, former, path_idx)
  BY Zenon DEF DatabaseInv, PathsInv
<1>3. IsWalk(ship, M + 1, f)
  BY PathIsAWalk, Zenon
<1> HIDE DEF f
<1>4. \A k \in 1 .. M + 1 : WalkInv(O, f, k, path_idx)
  BY <1>1, <1>2, <1>3, WalkKeeps, Zenon
<1>5. \A i \in O : i \in PathPoint /\ Life(i, path_idx) \in 0 .. M - 1 /\ i # -1
  <2>1. \A i \in PathPoint : Life(i, path_idx) \in 0 .. M - 1
    BY <1>1, Lives, Zenon
  <2> QED
    BY <2>1 DEF Own, PathPoint
<1> HIDE DEF O
<1>6. f[M + 1] = -1 /\ \A i \in O : Met(f, M + 1, i)
  <2>1. WalkInv(O, f, M + 1, path_idx)
    BY <1>4
  <2>2. \A i \in O : ~(Life(i, path_idx) <= M - (M + 1))
    BY <1>5
  <2> QED
    BY <2>1, <2>2, Zenon DEF WalkInv
<1>7. \A k \in 1 .. M : f[k] = -1 \/ f[k] \in O
  <2>1. \A k \in 1 .. M : k \in 1 .. M + 1
    OBVIOUS
  <2> QED
    BY <1>4, <2>1, Zenon DEF WalkInv
<1>8. ASSUME NEW i \in O PROVE \E k \in 1 .. M : f[k] = i
  <2>1. PICK j \in 1 .. (M + 1) - 1 : f[j] = i
    BY <1>6, Zenon DEF Met
  <2> QED
    BY <2>1
<1>9. {f[k] : k \in 1 .. M} \ {-1} = O
  BY <1>5, <1>7, <1>8
<1> QED
  BY <1>6, <1>9, Zenon DEF f, O

-----------------------------------------------------------------------------
LEMMA NextKeepsDatabase ==
  ASSUME DatabaseInv, [Next]_vars
  PROVE  DatabaseInv'
<1>1. CASE Next
  <2>1. received' \in 0 .. MaxMessages
    BY <1>1, MaxMessagesAssumption DEF DatabaseInv, TypeOK, Next
  <2>2. PICK m \in Mmsi, report \in Report : \/ ReceiveKnown(m, report[1], report[2])
                                             \/ ReceiveNew(m, report[1], report[2])
    BY <1>1, Zenon DEF Next
  <2> QED
    BY <2>1, <2>2, KnownKeeps, NewKeeps, Zenon
<1>2. CASE UNCHANGED vars
  <2>1. UNCHANGED <<first, last, next, prev, count, mmsi, heard, pos, path_ptr, paths, path_idx,
                    former, vessel, received>>
    BY <1>2 DEF vars, list
  <2>2. TypeOK'
    BY <2>1, Zenon DEF DatabaseInv, TypeOK
  <2>3. ListInv'
    <3>1. PICK f \in [1 .. N -> Ship] : IsList(f) /\ HoldsVessels(f)
      BY DEF DatabaseInv, ListInv
    <3>2. IsList(f)'
      BY <2>1, <3>1, Zenon DEF IsList
    <3>3. HoldsVessels(f)'
      BY <2>1, <3>1, Zenon DEF HoldsVessels
    <3> QED
      BY <3>2, <3>3, Zenon DEF ListInv
  <2>4. PathsInv'
    BY <2>1, Zenon DEF DatabaseInv, PathsInv
  <2> QED
    BY <2>2, <2>3, <2>4 DEF DatabaseInv
<1> QED
  BY <1>1, <1>2

(***************************************************************************)
(* The inductive invariant of the ship database.                            *)
(***************************************************************************)
THEOREM DatabaseCorrect == Spec => []DatabaseInv
<1>1. Init => DatabaseInv
  BY DatabaseInit
<1>2. DatabaseInv /\ [Next]_vars => DatabaseInv'
  BY NextKeepsDatabase
<1> QED
  BY <1>1, <1>2, PTL DEF Spec

(***************************************************************************)
(* Every field of the database keeps to the values of its type: the path    *)
(* pointers and the links stay inside the ring, whatever is overwritten.    *)
(***************************************************************************)
THEOREM TypeCorrect == Spec => []TypeOK
<1>1. DatabaseInv => TypeOK
  BY DEF DatabaseInv
<1> QED
  BY <1>1, DatabaseCorrect, PTL

(***************************************************************************)
(* moveShipToFront and createShip never break the list of ships, and the    *)
(* ships in use stay in front: see ListIntact.                              *)
(***************************************************************************)
THEOREM ListStaysIntact == Spec => []ListIntact
<1>1. DatabaseInv => ListIntact
  BY WholeList
<1> QED
  BY <1>1, DatabaseCorrect, PTL

(***************************************************************************)
(* The path shown of a vessel is all of its own points that are left and no *)
(* other, and the walk of getSinglePathJSON ends: see PathIsItsOwn.         *)
(***************************************************************************)
THEOREM PathsAreTheirOwn == Spec => []PathIsItsOwn
<1>1. DatabaseInv => PathIsItsOwn
  BY PathShowsOwn, Zenon DEF PathIsItsOwn, Own
<1> QED
  BY <1>1, DatabaseCorrect, PTL
-----------------------------------------------------------------------------
(***************************************************************************)
(* The vessels in use, as a sequence: one goes to its front, or one enters. *)
(***************************************************************************)
VesselList == [i \in 1 .. count |-> mmsi[Nth[i]]]

LEMMA VesselsOf ==
  ASSUME TypeOK, NEW f, IsList(f)
  PROVE  /\ VesselList \in Seq(Mmsi \cup {Unused}) /\ Len(VesselList) = count
         /\ \A i \in 1 .. count : VesselList[i] = mmsi[f[i]]
<1>1. Nth = f /\ count \in 0 .. N
  BY Types, NthIsTheOrder
<1>2. \A i \in 1 .. count : mmsi[f[i]] \in Mmsi \cup {Unused}
  <2>1. mmsi \in [Ship -> Mmsi \cup {Unused}]
    BY Types
  <2> QED
    BY <1>1, <2>1 DEF IsList
<1>3. VesselList = [i \in 1 .. count |-> mmsi[f[i]]]
  BY <1>1, Zenon DEF VesselList
<1> QED
  BY <1>1, <1>2, <1>3

LEMMA VesselsOfNext ==
  (\A f : TypeOK /\ IsList(f) =>
     /\ VesselList \in Seq(Mmsi \cup {Unused}) /\ Len(VesselList) = count
     /\ \A i \in 1 .. count : VesselList[i] = mmsi[f[i]])'
<1>1. \A f : TypeOK /\ IsList(f) =>
        /\ VesselList \in Seq(Mmsi \cup {Unused}) /\ Len(VesselList) = count
        /\ \A i \in 1 .. count : VesselList[i] = mmsi[f[i]]
  BY VesselsOf, Zenon
<1> QED
  BY <1>1, PTL

LEMMA ToTheFront ==
  ASSUME NEW S, NEW q \in Seq(S), NEW r \in Seq(S), NEW m \in S, NEW k \in 1 .. Len(q),
         Len(r) = Len(q), r[1] = m,
         \A i \in 2 .. Len(q) : r[i] = IF i <= k THEN q[i - 1] ELSE q[i]
  PROVE  r = <<m>> \o SubSeq(q, 1, k - 1) \o SubSeq(q, k + 1, Len(q))
<1> DEFINE a == <<m>>
           b == SubSeq(q, 1, k - 1)
           c == SubSeq(q, k + 1, Len(q))
           ab == a \o b
           abc == ab \o c
<1>1. a \in Seq(S) /\ Len(a) = 1 /\ a[1] = m
  OBVIOUS
<1>2. b \in Seq(S) /\ Len(b) = k - 1 /\ \A i \in 1 .. k - 1 : b[i] = q[i]
  OBVIOUS
<1>3. c \in Seq(S) /\ Len(c) = Len(q) - k /\ \A i \in 1 .. Len(q) - k : c[i] = q[k + i]
  OBVIOUS
<1> HIDE DEF a, b, c
<1>4. ab \in Seq(S) /\ Len(ab) = k
      /\ \A i \in 1 .. k : ab[i] = IF i = 1 THEN m ELSE q[i - 1]
  <2>1. ab \in Seq(S) /\ Len(ab) = Len(a) + Len(b)
        /\ \A i \in 1 .. Len(a) + Len(b) : ab[i] = IF i <= Len(a) THEN a[i] ELSE b[i - Len(a)]
    BY <1>1, <1>2, ConcatProperties, Zenon
  <2> HIDE DEF ab
  <2>2. Len(q) \in Nat /\ Len(a) + Len(b) = k
    BY <1>1, <1>2
  <2>3. ASSUME NEW i \in 1 .. k PROVE ab[i] = IF i = 1 THEN m ELSE q[i - 1]
    <3>1. ab[i] = IF i <= 1 THEN a[i] ELSE b[i - 1]
      BY <1>1, <2>1, <2>2
    <3>2. i # 1 => i - 1 \in 1 .. k - 1
      BY <2>2
    <3> QED
      BY <1>1, <1>2, <3>1, <3>2
  <2> QED
    BY <2>1, <2>2, <2>3
<1> HIDE DEF ab
<1>5. abc \in Seq(S) /\ Len(abc) = Len(q)
      /\ \A i \in 1 .. Len(q) : abc[i] = IF i <= k THEN ab[i] ELSE c[i - k]
  BY <1>3, <1>4
<1> HIDE DEF abc
<1>6. \A i \in 1 .. Len(q) : abc[i] = r[i]
  BY <1>3, <1>4, <1>5
<1>7. abc = r
  BY <1>5, <1>6
<1> QED
  BY <1>7, Zenon DEF abc, ab, a, b, c

LEMMA InFront ==
  ASSUME NEW S, NEW q \in Seq(S), NEW r \in Seq(S), NEW m \in S, NEW n \in Nat, n <= Len(q),
         Len(r) = n + 1, r[1] = m,
         \A i \in 2 .. n + 1 : r[i] = q[i - 1]
  PROVE  r = <<m>> \o SubSeq(q, 1, n)
<1> DEFINE a == <<m>>
           b == SubSeq(q, 1, n)
           ab == a \o b
<1>1. a \in Seq(S) /\ Len(a) = 1 /\ a[1] = m
  OBVIOUS
<1>2. b \in Seq(S) /\ Len(b) = n /\ \A i \in 1 .. n : b[i] = q[i]
  OBVIOUS
<1> HIDE DEF a, b
<1>3. ab \in Seq(S) /\ Len(ab) = n + 1
      /\ \A i \in 1 .. n + 1 : ab[i] = IF i = 1 THEN m ELSE q[i - 1]
  <2>1. ab \in Seq(S) /\ Len(ab) = Len(a) + Len(b)
        /\ \A i \in 1 .. Len(a) + Len(b) : ab[i] = IF i <= Len(a) THEN a[i] ELSE b[i - Len(a)]
    BY <1>1, <1>2, ConcatProperties, ZenonT(30)
  <2> HIDE DEF ab
  <2> QED
    BY <1>1, <1>2, <2>1
<1> HIDE DEF ab
<1>4. \A i \in 1 .. n + 1 : ab[i] = r[i]
  BY <1>3
<1>5. ab = r
  BY <1>3, <1>4
<1> QED
  BY <1>5, Zenon DEF ab, a, b
Shifted(q, r, m, n, k) ==
  /\ q \in Seq(Mmsi \cup {Unused}) /\ r \in Seq(Mmsi \cup {Unused}) /\ Len(q) = n /\ Len(r) = n
  /\ n \in Nat /\ k \in 1 .. n /\ q[k] = m /\ r[1] = m
  /\ \A i \in 2 .. n : r[i] = IF i <= k THEN q[i - 1] ELSE q[i]

LEMMA MovedVessels ==
  ASSUME NEW q, NEW r, NEW m \in Mmsi, NEW n, NEW k, Shifted(q, r, m, n, k)
  PROVE  \E i \in 1 .. Len(q) :
           q[i] = m /\ r = <<m>> \o SubSeq(q, 1, i - 1) \o SubSeq(q, i + 1, Len(q))
<1>1. /\ m \in Mmsi \cup {Unused} /\ k \in 1 .. Len(q) /\ Len(r) = Len(q) /\ r[1] = m
      /\ \A i \in 2 .. Len(q) : r[i] = IF i <= k THEN q[i - 1] ELSE q[i]
      /\ q \in Seq(Mmsi \cup {Unused}) /\ r \in Seq(Mmsi \cup {Unused}) /\ q[k] = m
  BY Zenon DEF Shifted
<1>2. r = <<m>> \o SubSeq(q, 1, k - 1) \o SubSeq(q, k + 1, Len(q))
  BY <1>1, ToTheFront, ZenonT(30)
<1> QED
  BY <1>1, <1>2, Zenon

LEMMA HeardKnown ==
  ASSUME DatabaseInv, DatabaseInv', NEW m \in Mmsi, NEW report \in Report,
         ReceiveKnown(m, report[1], report[2])
  PROVE  Recent!Heard(m)
<1> DEFINE ship == FindShip(m)
<1>1. PICK f \in [1 .. N -> Ship] : IsList(f) /\ HoldsVessels(f)
  BY DEF DatabaseInv, ListInv
<1>2. TypeOK /\ TypeOK' /\ count \in 0 .. N
  BY Types DEF DatabaseInv
<1>3. /\ Ranks(m) # {} /\ MoveShipToFront(ship) /\ count' = count
      /\ vessel' = m /\ mmsi' = [mmsi EXCEPT ![ship] = m]
  BY Zenon DEF ReceiveKnown, Update
<1>4. PICK k \in 1 .. N : k <= count /\ ship = f[k] /\ mmsi[f[k]] = m
  BY <1>1, <1>2, <1>3, FoundShip, Zenon
<1> HIDE DEF ship
<1>5. IsList(Moved(f, k))'
  <2>1. next \in [Ship -> Ship \cup {-1}] /\ prev \in [Ship -> Ship \cup {-1}]
    BY <1>2 DEF TypeOK
  <2> QED
    BY <1>1, <1>3, <1>4, <2>1, MovedToFront, Zenon
<1> DEFINE g == Moved(f, k)
           q == VesselList
           r == VesselList'
<1>6. /\ q \in Seq(Mmsi \cup {Unused}) /\ Len(q) = count
      /\ \A i \in 1 .. count : q[i] = mmsi[f[i]]
  BY <1>1, <1>2, VesselsOf, Zenon
<1>7. /\ r \in Seq(Mmsi \cup {Unused}) /\ Len(r) = count
      /\ \A i \in 1 .. count : r[i] = mmsi'[g[i]]
  BY <1>2, <1>3, <1>5, VesselsOfNext, Zenon
<1>8. \A i \in 1 .. N : mmsi'[f[i]] = mmsi[f[i]]
  BY <1>1, <1>2, <1>3, <1>4 DEF TypeOK
<1>9. r[1] = m /\ \A i \in 2 .. count : r[i] = IF i <= k THEN q[i - 1] ELSE q[i]
  <2>1. g[1] = f[k] /\ \A i \in 2 .. count : g[i] = IF i <= k THEN f[i - 1] ELSE f[i]
    BY <1>2 DEF Moved
  <2>2. 1 \in 1 .. count /\ \A i \in 2 .. count : i \in 1 .. N /\ i - 1 \in 1 .. N
                              /\ i \in 1 .. count /\ i - 1 \in 1 .. count
    BY <1>2, <1>4
  <2> HIDE DEF g, q, r
  <2> QED
    BY <1>4, <1>6, <1>7, <1>8, <2>1, <2>2
<1> HIDE DEF q, r
<1>10. count \in Nat /\ k \in 1 .. count /\ q[k] = m
  BY <1>2, <1>4, <1>6
<1>11. Shifted(q, r, m, count, k)
  BY <1>6, <1>7, <1>9, <1>10, Zenon DEF Shifted
<1>12. \E i \in 1 .. Len(q) :
         q[i] = m /\ r = <<m>> \o SubSeq(q, 1, i - 1) \o SubSeq(q, i + 1, Len(q))
  BY <1>11, MovedVessels, Zenon
<1> QED
  BY <1>3, <1>12, Zenon DEF Recent!Heard, q, r, VesselList
Entered(q, r, m, n) ==
  /\ q \in Seq(Mmsi \cup {Unused}) /\ r \in Seq(Mmsi \cup {Unused})
  /\ n \in Nat /\ n <= Len(q) /\ Len(r) = n + 1 /\ r[1] = m
  /\ \A i \in 2 .. n + 1 : r[i] = q[i - 1]

LEMMA HeardNew ==
  ASSUME DatabaseInv, DatabaseInv', NEW m \in Mmsi, NEW report \in Report,
         ReceiveNew(m, report[1], report[2])
  PROVE  Recent!Heard(m)
<1>1. PICK f \in [1 .. N -> Ship] : IsList(f) /\ HoldsVessels(f)
  BY DEF DatabaseInv, ListInv
<1>2. TypeOK /\ TypeOK' /\ count \in 0 .. N
  BY Types DEF DatabaseInv
<1>3. /\ Ranks(m) = {} /\ MoveShipToFront(last) /\ CreateShip
      /\ vessel' = m /\ mmsi' = [mmsi EXCEPT ![last] = m]
  BY Zenon DEF ReceiveNew, Update
<1>4. N \in 1 .. N /\ last = f[N] /\ last \in Ship /\ Nth = f
  BY <1>1, NthIsTheOrder DEF IsList
<1>5. IsList(Moved(f, N))'
  <2>1. next \in [Ship -> Ship \cup {-1}] /\ prev \in [Ship -> Ship \cup {-1}]
    BY <1>2 DEF TypeOK
  <2> QED
    BY <1>1, <1>3, <1>4, <2>1, MovedToFront, Zenon
<1> DEFINE g == Moved(f, N)
           q == VesselList
           r == VesselList'
           n == IF count < N THEN count ELSE N - 1
<1>6. /\ q \in Seq(Mmsi \cup {Unused}) /\ Len(q) = count
      /\ \A i \in 1 .. count : q[i] = mmsi[f[i]]
  BY <1>1, <1>2, VesselsOf, Zenon
<1>7. /\ r \in Seq(Mmsi \cup {Unused}) /\ Len(r) = count'
      /\ \A i \in 1 .. count' : r[i] = mmsi'[g[i]]
  BY <1>2, <1>5, VesselsOfNext, Zenon
<1>8. n \in Nat /\ n <= count /\ count' = n + 1 /\ n < N
  BY <1>2, <1>3 DEF CreateShip
<1>9. \A i \in 1 .. N : i # N => mmsi'[f[i]] = mmsi[f[i]]
  <2>1. \A i \in 1 .. N : i # N => f[i] # last
    BY <1>4 , <1>1 DEF IsList
  <2> QED
    BY <1>1, <1>2, <1>3, <2>1 DEF TypeOK
<1> HIDE DEF n
<1>10. r[1] = m /\ \A i \in 2 .. n + 1 : r[i] = q[i - 1]
  <2>1. g[1] = f[N] /\ \A i \in 2 .. n + 1 : g[i] = f[i - 1]
    BY <1>8 DEF Moved
  <2>2. 1 \in 1 .. count' /\ \A i \in 2 .. n + 1 : i \in 1 .. count' /\ i - 1 \in 1 .. N
                               /\ i - 1 # N /\ i - 1 \in 1 .. count
    BY <1>2, <1>8
  <2>3. mmsi'[f[N]] = m
    BY <1>2, <1>3, <1>4 DEF TypeOK
  <2> HIDE DEF g, q, r
  <2> QED
    BY <1>6, <1>7, <1>9, <2>1, <2>2, <2>3
<1> HIDE DEF q, r
<1>11. Entered(q, r, m, n)
  BY <1>6, <1>7, <1>8, <1>10, Zenon DEF Entered
<1>12. r = <<m>> \o SubSeq(q, 1, n)
  BY <1>11, InFront DEF Entered
<1>13. r = <<m>> \o (IF Len(q) < N THEN q ELSE SubSeq(q, 1, N - 1))
  <2>1. CASE count < N
    <3>1. SubSeq(q, 1, count) = q
      BY <1>2, <1>6
    <3> QED
      BY <1>6, <1>12, <2>1, <3>1, Zenon DEF n
  <2>2. CASE ~(count < N)
    BY <1>6, <1>12, <2>2, Zenon DEF n
  <2> QED
    BY <2>1, <2>2
<1>14. \A i \in 1 .. Len(q) : q[i] # m
  BY <1>3, <1>4, <1>6 DEF Ranks
<1> QED
  BY <1>3, <1>13, <1>14, Zenon DEF Recent!Heard, q, r, VesselList

(***************************************************************************)
(* The database implements its promise, RecentVessels: each message heard   *)
(* moves its vessel to the front, or lets it in at the cost of the vessel   *)
(* heard longest ago: see KeepsTheRecent.                                   *)
(***************************************************************************)
THEOREM RecentAreKept == Spec => KeepsTheRecent
<1>1. Init => Recent!Init
  <2> SUFFICES ASSUME Init PROVE Recent!Init
    OBVIOUS
  <2>1. vessel = Unused /\ count = 0
    BY Zenon DEF Init
  <2>2. [i \in 1 .. count |-> mmsi[Nth[i]]] = << >>
    BY <2>1
  <2> QED
    BY <2>1, <2>2, Zenon DEF Recent!Init
<1>2. DatabaseInv /\ DatabaseInv' /\ [Next]_vars
        => [\E m \in Mmsi : Recent!Heard(m)]_<<vessel, [i \in 1 .. count |-> mmsi[Nth[i]]]>>
  <2> SUFFICES ASSUME DatabaseInv, DatabaseInv', [Next]_vars
               PROVE  [\E m \in Mmsi : Recent!Heard(m)]_<<vessel,
                         [i \in 1 .. count |-> mmsi[Nth[i]]]>>
    OBVIOUS
  <2>1. CASE Next
    <3>1. PICK m \in Mmsi, report \in Report : \/ ReceiveKnown(m, report[1], report[2])
                                               \/ ReceiveNew(m, report[1], report[2])
      BY <2>1, Zenon DEF Next
    <3>2. Recent!Heard(m)
      BY <3>1, HeardKnown, HeardNew, Zenon
    <3> QED
      BY <3>2, Zenon
  <2>2. CASE UNCHANGED vars
    <3>1. UNCHANGED <<vessel, VesselList>>
      <4>1. PICK f \in [1 .. N -> Ship] : IsList(f)
        BY DEF DatabaseInv, ListInv
      <4>2. UNCHANGED <<first, last, next, prev, count, mmsi, vessel>>
        BY <2>2 DEF vars, list
      <4>3. IsList(f)' /\ TypeOK /\ TypeOK'
        BY <4>1, <4>2, Zenon DEF IsList, DatabaseInv
      <4> DEFINE q == VesselList
                 r == VesselList'
      <4>4. /\ q \in Seq(Mmsi \cup {Unused}) /\ Len(q) = count
            /\ \A i \in 1 .. count : q[i] = mmsi[f[i]]
        BY <4>1, <4>3, VesselsOf, Zenon
      <4>5. /\ r \in Seq(Mmsi \cup {Unused}) /\ Len(r) = count
            /\ \A i \in 1 .. count : r[i] = mmsi[f[i]]
        BY <4>2, <4>3, VesselsOfNext, Zenon
      <4> HIDE DEF q, r
      <4>6. q = r
        BY <4>4, <4>5
      <4> QED
        BY <4>2, <4>6, Zenon DEF q, r
    <3> QED
      BY <3>1, Zenon DEF VesselList
  <2> QED
    BY <2>1, <2>2
<1> QED
  BY <1>1, <1>2, DatabaseCorrect, PTL DEF Spec, KeepsTheRecent, Recent!Spec
=============================================================================
