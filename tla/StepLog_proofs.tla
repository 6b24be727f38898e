--------------------------- MODULE StepLog_proofs ---------------------------
(***************************************************************************)
(* Proofs about StepLog: the secrets in a step's output are masked, what   *)
(* is stored is in order and every lost byte is accounted for, and for a   *)
(* reader the stored chunks are a feed.                                    *)
(*                                                                         *)
(* FlattenSeq, FoldLeft and FoldFunction are recursive functions; what     *)
(* they compute is proved from the function that CHOOSE picks, by          *)
(* induction over sets of numbers.                                         *)
(***************************************************************************)
EXTENDS StepLog, FiniteSetTheorems, SequenceTheorems, WellFoundedInduction, TLAPS

----------------------------------------------------------------------------
(* Induction over the numbers, and over what is computed from sequences.   *)

\* A set of numbers that is not empty has a least element.
LEMMA NatLeast ==
  ASSUME NEW T, T \subseteq Nat, T # {}
  PROVE  \E x \in T : \A y \in T : x <= y
<1> DEFINE R == {ss \in Nat \X Nat : ss[1] < ss[2]}
<1>1. IsWellFoundedOn(R, Nat)
  BY NatLessThanWellFounded DEF OpToRel
<1>2. \E x \in T : \A y \in T : ~(<<y, x>> \in R)
  <2> HIDE DEF R
  <2>. QED BY <1>1, WFMin
<1>3. PICK x \in T : \A y \in T : ~(<<y, x>> \in R)
  BY <1>2
<1>4. ASSUME NEW y \in T
      PROVE  x <= y
  <2>1. x \in Nat /\ y \in Nat /\ ~(<<y, x>> \in R)
    BY <1>3
  <2>2. ~(y < x)
    BY <2>1, Zenon
  <2>. QED BY <2>1, <2>2
<1>. QED BY <1>3, <1>4

\* A set that has 0 and the successor of every number it has, has them all.
LEMMA NatSet ==
  ASSUME NEW S, 0 \in S, \A n \in Nat : n \in S => n + 1 \in S
  PROVE  \A n \in Nat : n \in S
<1> DEFINE T == {n \in Nat : n \notin S}
<1> SUFFICES ASSUME T # {} PROVE FALSE
  OBVIOUS
<1>1. PICK x \in T : \A y \in T : x <= y
  <2>1. T \subseteq Nat
    OBVIOUS
  <2> HIDE DEF T
  <2>. QED BY <2>1, NatLeast
<1>2. x # 0 /\ x - 1 \in Nat /\ x - 1 \in S
  BY <1>1
<1>. QED BY <1>1, <1>2

\* A set of numbers below a bound has a greatest element.
LEMMA NatMost ==
  ASSUME NEW T, T \subseteq Nat, T # {}, NEW k \in Nat, \A x \in T : x <= k
  PROVE  \E x \in T : \A y \in T : y <= x
<1> DEFINE U == {j \in Nat : j <= k /\ k - j \in T}
<1>1. U # {}
  <2>1. PICK x \in T : TRUE
    OBVIOUS
  <2>2. k - x \in Nat /\ k - x <= k /\ k - (k - x) = x
    BY <2>1
  <2>. QED BY <2>1, <2>2
<1>2. PICK j \in U : \A i \in U : j <= i
  <2>1. U \subseteq Nat
    OBVIOUS
  <2> HIDE DEF U
  <2>. QED BY <1>1, <2>1, NatLeast
<1>3. ASSUME NEW y \in T
      PROVE  y <= k - j
  <2>1. k - y \in Nat /\ k - y <= k /\ k - (k - y) = y
    BY <1>3
  <2>2. k - y \in U
    BY <2>1
  <2>3. j <= k - y /\ j \in Nat /\ y \in Nat
    BY <1>2, <2>2
  <2>. QED BY <2>3
<1>. QED BY <1>2, <1>3

\* One step of FlattenSeq.
Joined(seqs, v, i) == IF i = 1 THEN seqs[i] ELSE v \o seqs[i]
Joins(f, seqs, k) == f = [i \in 1 .. k |-> Joined(seqs, f[i - 1], i)]

\* What such a function is at a position.
LEMMA JoinsAt ==
  ASSUME NEW f, NEW seqs, NEW k \in Nat, Joins(f, seqs, k), NEW i \in 1 .. k
  PROVE  f[i] = Joined(seqs, f[i - 1], i)
BY DEF Joins

\* The function FlattenSeq computes with exists.
LEMMA FlattenFcn ==
  ASSUME NEW seqs, NEW m \in Nat
  PROVE  \E f : Joins(f, seqs, m)
<1> DEFINE S == {k \in Nat : \E f : Joins(f, seqs, k)}
<1>1. 0 \in S
  <2>1. Joins([i \in 1 .. 0 |-> <<>>], seqs, 0)
    BY DEF Joins
  <2>. QED BY <2>1
<1>2. ASSUME NEW k \in Nat, k \in S
      PROVE  k + 1 \in S
  <2>1. PICK f : Joins(f, seqs, k)
    BY <1>2
  <2> DEFINE g == [i \in 1 .. k + 1 |-> Joined(seqs, f[i - 1], i)]
  <2>2. ASSUME NEW i \in 1 .. k
        PROVE  g[i] = f[i]
    BY <2>1, JoinsAt
  <2>3. ASSUME NEW i \in 1 .. k + 1
        PROVE  Joined(seqs, f[i - 1], i) = Joined(seqs, g[i - 1], i)
    <3>1. CASE i = 1
      BY <3>1 DEF Joined
    <3>2. CASE i # 1
      <4>0. i - 1 \in 1 .. k
        BY <3>2
      <4>1. g[i - 1] = f[i - 1]
        BY <2>2, <4>0
      <4>. QED BY <4>1
    <3>. QED BY <3>1, <3>2
  <2>4. Joins(g, seqs, k + 1)
    BY <2>3 DEF Joins
  <2> HIDE DEF g
  <2>. QED BY <2>4
<1> HIDE DEF S
<1>3. m \in S
  BY <1>1, <1>2, NatSet
<1>. QED BY <1>3 DEF S

\* FlattenSeq computes with such a function.
LEMMA FlattenIs ==
  ASSUME NEW seqs
  PROVE  FlattenSeq(seqs) = IF Len(seqs) = 0 THEN seqs ELSE
           (CHOOSE f : Joins(f, seqs, Len(seqs)))[Len(seqs)]
BY DEF FlattenSeq, Joins, Joined

\* FlattenSeq of a longer sequence adds its last element.
LEMMA FlattenAppend ==
  ASSUME NEW E, NEW s \in Seq(Seq(E)), NEW t \in Seq(E)
  PROVE  FlattenSeq(Append(s, t)) = FlattenSeq(s) \o t
<1> DEFINE n == Len(s)
           u == Append(s, t)
           f == CHOOSE h : Joins(h, s, n)
           g == CHOOSE h : Joins(h, u, n + 1)
<1>1. n \in Nat /\ Len(u) = n + 1 /\ u[n + 1] = t /\ \A i \in 1 .. n : u[i] = s[i]
  OBVIOUS
<1>2. Joins(f, s, n) /\ Joins(g, u, n + 1)
  <2> HIDE DEF n, u
  <2>1. n + 1 \in Nat
    BY <1>1
  <2>2. (\E h : Joins(h, s, n)) /\ \E h : Joins(h, u, n + 1)
    BY <1>1, <2>1, FlattenFcn, Zenon
  <2>. QED BY <2>2
<1>4. FlattenSeq(s) = (IF n = 0 THEN s ELSE f[n]) /\ FlattenSeq(u) = g[n + 1]
  <2>1. FlattenSeq(s) = (IF n = 0 THEN s ELSE f[n])
    BY FlattenIs
  <2>2. FlattenSeq(u) = IF Len(u) = 0 THEN u ELSE (CHOOSE h : Joins(h, u, Len(u)))[Len(u)]
    BY FlattenIs
  <2>. QED BY <1>1, <2>1, <2>2
<1> HIDE DEF f, g, u
<1>5. ASSUME NEW i \in 1 .. n
      PROVE  f[i] = g[i]
  <2> DEFINE S == {k \in Nat : k \in 1 .. n => f[k] = g[k]}
  <2>1. 0 \in S
    OBVIOUS
  <2>2. ASSUME NEW k \in Nat, k \in S
        PROVE  k + 1 \in S
    <3> SUFFICES ASSUME k + 1 \in 1 .. n PROVE f[k + 1] = g[k + 1]
      OBVIOUS
    <3>1. f[k + 1] = Joined(s, f[k], k + 1)
      BY <1>1, <1>2, JoinsAt
    <3>2. g[k + 1] = Joined(u, g[k], k + 1)
      BY <1>1, <1>2, JoinsAt
    <3>3. k + 1 # 1 => f[k] = g[k]
      BY <2>2
    <3>. QED BY <1>1, <3>1, <3>2, <3>3 DEF Joined
  <2> HIDE DEF S
  <2>3. \A k \in Nat : k \in S
    BY <2>1, <2>2, NatSet
  <2>. QED BY <1>1, <2>3 DEF S
<1>6. g[n + 1] = Joined(u, g[n], n + 1)
  BY <1>1, <1>2, JoinsAt
<1>7. CASE n = 0
  <2>1. s = <<>> /\ <<>> \o t = t
    BY <1>7
  <2>. QED BY <1>1, <1>4, <1>6, <1>7, <2>1 DEF Joined, u
<1>8. CASE n # 0
  <2>1. f[n] = g[n]
    BY <1>1, <1>5, <1>8
  <2>. QED BY <1>1, <1>4, <1>6, <1>8, <2>1 DEF Joined, u
<1>. QED BY <1>1, <1>7, <1>8

\* FlattenSeq gives a sequence of elements.
LEMMA FlattenType ==
  ASSUME NEW E, NEW s \in Seq(Seq(E))
  PROVE  FlattenSeq(s) \in Seq(E)
<1> DEFINE S == {k \in Nat : \A q \in Seq(Seq(E)) : Len(q) = k => FlattenSeq(q) \in Seq(E)}
<1>1. 0 \in S
  BY DEF FlattenSeq
<1>2. ASSUME NEW k \in Nat, k \in S
      PROVE  k + 1 \in S
  <2> SUFFICES ASSUME NEW q \in Seq(Seq(E)), Len(q) = k + 1
               PROVE  FlattenSeq(q) \in Seq(E)
    OBVIOUS
  <2> DEFINE p == SubSeq(q, 1, k)
             t == q[k + 1]
  <2>1. p \in Seq(Seq(E)) /\ Len(p) = k /\ t \in Seq(E) /\ q = Append(p, t)
    OBVIOUS
  <2>2. FlattenSeq(p) \in Seq(E)
    BY <1>2, <2>1
  <2> HIDE DEF p, t
  <2>3. FlattenSeq(q) = FlattenSeq(p) \o t
    BY <2>1, FlattenAppend
  <2>. QED BY <2>1, <2>2, <2>3
<1> HIDE DEF S
<1>3. \A k \in Nat : k \in S
  BY <1>1, <1>2, NatSet
<1>. QED BY <1>3 DEF S

\* FlattenSeq of two sequences one after the other.
LEMMA FlattenConcat ==
  ASSUME NEW E, NEW s \in Seq(Seq(E)), NEW t \in Seq(Seq(E))
  PROVE  FlattenSeq(s \o t) = FlattenSeq(s) \o FlattenSeq(t)
<1> DEFINE S == {k \in Nat : \A q \in Seq(Seq(E)) :
                   Len(q) = k => FlattenSeq(s \o q) = FlattenSeq(s) \o FlattenSeq(q)}
<1>0. FlattenSeq(s) \in Seq(E)
  BY FlattenType
<1>1. 0 \in S
  <2> SUFFICES ASSUME NEW q \in Seq(Seq(E)), Len(q) = 0
               PROVE  FlattenSeq(s \o q) = FlattenSeq(s) \o FlattenSeq(q)
    OBVIOUS
  <2>1. q = <<>> /\ s \o q = s
    OBVIOUS
  <2>2. FlattenSeq(q) = <<>>
    BY <2>1 DEF FlattenSeq
  <2>. QED BY <1>0, <2>1, <2>2
<1>2. ASSUME NEW k \in Nat, k \in S
      PROVE  k + 1 \in S
  <2> SUFFICES ASSUME NEW q \in Seq(Seq(E)), Len(q) = k + 1
               PROVE  FlattenSeq(s \o q) = FlattenSeq(s) \o FlattenSeq(q)
    OBVIOUS
  <2> DEFINE p == SubSeq(q, 1, k)
             x == q[k + 1]
  <2>1. p \in Seq(Seq(E)) /\ Len(p) = k /\ x \in Seq(E) /\ q = Append(p, x)
    OBVIOUS
  <2>2. FlattenSeq(s \o p) = FlattenSeq(s) \o FlattenSeq(p)
    BY <1>2, <2>1
  <2> HIDE DEF p, x
  <2>3. FlattenSeq(q) = FlattenSeq(p) \o x /\ FlattenSeq(p) \in Seq(E)
    BY <2>1, FlattenAppend, FlattenType
  <2>4. s \o q = Append(s \o p, x) /\ s \o p \in Seq(Seq(E))
    BY <2>1
  <2>5. FlattenSeq(s \o q) = FlattenSeq(s \o p) \o x
    BY <2>1, <2>4, FlattenAppend
  <2> DEFINE u == FlattenSeq(s)
             v == FlattenSeq(p)
  <2>6. u \in Seq(E) /\ v \in Seq(E) /\ x \in Seq(E)
    BY <1>0, <2>1, <2>3
  <2>7. (u \o v) \o x = u \o (v \o x)
    <3> HIDE DEF u, v
    <3>. QED BY <2>6
  <2>. QED BY <2>2, <2>3, <2>5, <2>7
<1> HIDE DEF S
<1>3. \A k \in Nat : k \in S
  BY <1>1, <1>2, NatSet
<1>. QED BY <1>3 DEF S

\* Max of a set of numbers.
LEMMA MaxIn ==
  ASSUME NEW k \in Nat, NEW u \in SUBSET (1 .. k), u # {}
  PROVE  Max(u) \in u /\ Max(u) \in 1 .. k /\ u \ {Max(u)} \in SUBSET (1 .. (k - 1))
<1>1. u \subseteq Nat /\ \A x \in u : x <= k
  OBVIOUS
<1>2. \E x \in u : \A y \in u : y <= x
  BY <1>1, NatMost
<1>3. \E x \in u : \A y \in u : x >= y
  BY <1>1, <1>2
<1>4. Max(u) \in u /\ \A y \in u : Max(u) >= y
  <2> DEFINE m == CHOOSE x \in u : \A y \in u : x >= y
  <2>1. m \in u /\ \A y \in u : m >= y
    BY <1>3
  <2>. QED BY <2>1 DEF Max
<1> DEFINE m == Max(u)
<1>5. m \in u /\ m \in 1 .. k /\ \A y \in u : m >= y
  BY <1>4
<1> HIDE DEF m
<1>6. u \ {m} \in SUBSET (1 .. (k - 1))
  <2>1. ASSUME NEW y \in u, y # m
        PROVE  y \in 1 .. (k - 1)
    BY <1>5, <2>1
  <2>. QED BY <2>1
<1>. QED BY <1>5, <1>6 DEF m

\* The folds of Redact and StepLog by name, so that one induction serves them.
FoldStep(kind, v, x) ==
  IF kind = "noted" THEN v + x.noted
  ELSE IF kind = "stripped"
  THEN [state |-> AnsiState(v.state, x), text |-> v.text \o AnsiText(v.state, x)]
  ELSE LET next == AppendByte(v.stream, x)
       IN  [stream |-> next.stream, text |-> v.text \o next.text]

Folded(kind, base, s) == FoldLeft(LAMBDA v, x : FoldStep(kind, v, x), base, s)

\* Stripped, AppendBytes and Noted are folds with such a step.
LEMMA StrippedFolds ==
  ASSUME NEW bytes
  PROVE  Stripped(bytes) = Folded("stripped", [state |-> "text", text |-> <<>>], bytes).text
BY DEF Stripped, Folded, FoldStep, FoldLeft, MapThenFoldSet

\* AppendBytes is a fold.
LEMMA AppendBytesFolds ==
  ASSUME NEW stream, NEW bytes
  PROVE  AppendBytes(stream, bytes) = Folded("masked", [stream |-> stream, text |-> <<>>], bytes)
BY DEF AppendBytes, Folded, FoldStep, FoldLeft, MapThenFoldSet

\* Noted is a fold.
LEMMA NotedFolds ==
  ASSUME NEW rows
  PROVE  Noted(rows) = Folded("noted", 0, rows)
BY DEF Noted, Folded, FoldStep, FoldLeft, MapThenFoldSet

\* One step of a fold, and the function it computes with.
FoldAt(f, kind, base, s, u) ==
  IF u = {} THEN base ELSE FoldStep(kind, f[u \ {Max(u)}], s[Max(u)])
Folds(f, kind, base, s, k) == f = [u \in SUBSET (1 .. k) |-> FoldAt(f, kind, base, s, u)]

\* What such a function is at a set of positions.
LEMMA FoldsAt ==
  ASSUME NEW f, NEW kind, NEW base, NEW s, NEW k, Folds(f, kind, base, s, k),
         NEW u \in SUBSET (1 .. k)
  PROVE  f[u] = FoldAt(f, kind, base, s, u)
BY DEF Folds

\* A fold computes with such a function.
LEMMA FoldedIs ==
  ASSUME NEW kind, NEW base, NEW s, NEW n, DOMAIN s = 1 .. n
  PROVE  Folded(kind, base, s) = (CHOOSE f : Folds(f, kind, base, s, n))[1 .. n]
BY DEF Folded, FoldLeft, MapThenFoldSet, Folds, FoldAt

\* The function a fold computes with exists.
LEMMA FoldFcn ==
  ASSUME NEW kind, NEW base, NEW s, NEW n \in Nat
  PROVE  \E f : Folds(f, kind, base, s, n)
<1> DEFINE S == {k \in Nat : \E f : Folds(f, kind, base, s, k)}
<1>1. 0 \in S
  <2>1. \A u \in SUBSET (1 .. 0) : u = {}
    OBVIOUS
  <2>2. Folds([u \in SUBSET (1 .. 0) |-> base], kind, base, s, 0)
    BY <2>1 DEF Folds, FoldAt
  <2>. QED BY <2>2
<1>2. ASSUME NEW k \in Nat, k \in S
      PROVE  k + 1 \in S
  <2>1. PICK f : Folds(f, kind, base, s, k)
    BY <1>2
  <2> DEFINE g == [u \in SUBSET (1 .. k + 1) |-> FoldAt(f, kind, base, s, u)]
  <2>2. ASSUME NEW u \in SUBSET (1 .. k)
        PROVE  g[u] = f[u]
    <3>1. u \in SUBSET (1 .. k + 1)
      OBVIOUS
    <3>. QED BY <2>1, <3>1, FoldsAt
  <2>3. ASSUME NEW u \in SUBSET (1 .. k + 1)
        PROVE  FoldAt(f, kind, base, s, u) = FoldAt(g, kind, base, s, u)
    <3>1. CASE u = {}
      BY <3>1 DEF FoldAt
    <3>2. CASE u # {}
      <4>1. u \ {Max(u)} \in SUBSET (1 .. (k + 1 - 1))
        BY <3>2, MaxIn
      <4>2. u \ {Max(u)} \in SUBSET (1 .. k)
        BY <4>1
      <4>3. f[u \ {Max(u)}] = g[u \ {Max(u)}]
        BY <2>2, <4>2
      <4> HIDE DEF g
      <4>. QED BY <3>2, <4>3 DEF FoldAt
    <3>. QED BY <3>1, <3>2
  <2>4. Folds(g, kind, base, s, k + 1)
    BY <2>3 DEF Folds
  <2> HIDE DEF g
  <2>. QED BY <2>4
<1> HIDE DEF S
<1>3. n \in S
  BY <1>1, <1>2, NatSet
<1>. QED BY <1>3 DEF S

\* A fold over a longer sequence takes one more step.
LEMMA FoldAppend ==
  ASSUME NEW kind, NEW base, NEW E, NEW s \in Seq(E), NEW x \in E
  PROVE  Folded(kind, base, Append(s, x)) = FoldStep(kind, Folded(kind, base, s), x)
<1> DEFINE n == Len(s)
           t == Append(s, x)
           f == CHOOSE h : Folds(h, kind, base, s, n)
           g == CHOOSE h : Folds(h, kind, base, t, n + 1)
<1>1. /\ n \in Nat /\ n + 1 \in Nat /\ DOMAIN s = 1 .. n /\ DOMAIN t = 1 .. n + 1
      /\ t[n + 1] = x /\ \A i \in 1 .. n : t[i] = s[i]
  OBVIOUS
<1>2. Folds(f, kind, base, s, n) /\ Folds(g, kind, base, t, n + 1)
  <2> HIDE DEF n, t
  <2>1. (\E h : Folds(h, kind, base, s, n)) /\ \E h : Folds(h, kind, base, t, n + 1)
    BY <1>1, FoldFcn, Zenon
  <2>. QED BY <2>1
<1>3. Folded(kind, base, s) = f[1 .. n] /\ Folded(kind, base, t) = g[1 .. n + 1]
  <2>1. Folded(kind, base, s) = f[1 .. n]
    BY <1>1, FoldedIs
  <2>2. Folded(kind, base, t) = g[1 .. n + 1]
    <3> HIDE DEF n, t
    <3>. QED BY <1>1, FoldedIs
  <2>. QED BY <2>1, <2>2
<1> HIDE DEF f, g, t
<1>4. ASSUME NEW u \in SUBSET (1 .. n)
      PROVE  f[u] = g[u]
  <2> DEFINE S == {k \in Nat : k <= n => \A v \in SUBSET (1 .. k) : f[v] = g[v]}
  <2>0. \A v \in SUBSET (1 .. n) :
          /\ f[v] = FoldAt(f, kind, base, s, v)
          /\ g[v] = FoldAt(g, kind, base, t, v)
    <3> TAKE v \in SUBSET (1 .. n)
    <3>1. v \in SUBSET (1 .. n + 1)
      BY <1>1
    <3>. QED BY <1>2, <3>1, FoldsAt
  <2>1. 0 \in S
    <3>1. \A v \in SUBSET (1 .. 0) : v = {} /\ v \in SUBSET (1 .. n)
      OBVIOUS
    <3>. QED BY <2>0, <3>1 DEF FoldAt
  <2>2. ASSUME NEW k \in Nat, k \in S
        PROVE  k + 1 \in S
    <3>0. ASSUME k + 1 <= n, NEW v \in SUBSET (1 .. k + 1)
          PROVE  f[v] = g[v]
      <4>1. v \in SUBSET (1 .. n)
        BY <1>1, <3>0
      <4>2. CASE v = {}
        BY <2>0, <4>1, <4>2 DEF FoldAt
      <4>3. CASE v # {}
        <5>1. Max(v) \in 1 .. k + 1 /\ v \ {Max(v)} \in SUBSET (1 .. (k + 1 - 1))
          BY <4>3, MaxIn
        <5>2. Max(v) \in 1 .. n /\ v \ {Max(v)} \in SUBSET (1 .. k) /\ k <= n
          BY <1>1, <3>0, <5>1
        <5>3. f[v \ {Max(v)}] = g[v \ {Max(v)}] /\ t[Max(v)] = s[Max(v)]
          BY <1>1, <2>2, <5>2
        <5>. QED BY <2>0, <4>1, <4>3, <5>3 DEF FoldAt
      <4>. QED BY <4>2, <4>3
    <3>. QED BY <3>0
  <2> HIDE DEF S
  <2>3. n \in S
    BY <1>1, <2>1, <2>2, NatSet
  <2>. QED BY <1>1, <2>3 DEF S
<1>5. Max(1 .. n + 1) = n + 1 /\ (1 .. n + 1) \ {n + 1} = 1 .. n /\ 1 .. n + 1 # {}
  <2> DEFINE u == 1 .. n + 1
             m == CHOOSE y \in u : \A z \in u : y >= z
  <2>1. n + 1 \in u /\ \A z \in u : n + 1 >= z
    BY <1>1
  <2>2. m \in u /\ \A z \in u : m >= z
    BY <2>1
  <2>3. m = n + 1
    BY <1>1, <2>1, <2>2
  <2>. QED BY <1>1, <2>3 DEF Max
<1>6. g[1 .. n + 1] = FoldAt(g, kind, base, t, 1 .. n + 1)
  BY <1>2, FoldsAt
<1>7. f[1 .. n] = g[1 .. n]
  BY <1>4
<1> HIDE DEF n
<1>. QED BY <1>1, <1>3, <1>5, <1>6, <1>7 DEF FoldAt, t

\* A fold of nothing is its base.
LEMMA FoldEmpty ==
  ASSUME NEW kind, NEW base
  PROVE  Folded(kind, base, <<>>) = base
<1>1. DOMAIN <<>> = 1 .. 0 /\ 1 .. 0 = {}
  OBVIOUS
<1> DEFINE f == CHOOSE h : Folds(h, kind, base, <<>>, 0)
<1>2. Folds(f, kind, base, <<>>, 0)
  <2>1. \E h : Folds(h, kind, base, <<>>, 0)
    BY FoldFcn
  <2>. QED BY <2>1
<1>3. Folded(kind, base, <<>>) = f[1 .. 0]
  BY <1>1, FoldedIs
<1> HIDE DEF f
<1>4. f[1 .. 0] = FoldAt(f, kind, base, <<>>, 1 .. 0)
  BY <1>2, FoldsAt
<1>. QED BY <1>1, <1>3, <1>4 DEF FoldAt

----------------------------------------------------------------------------
(* The matcher.                                                            *)

\* Bytes after the escape filter.
Byte == Bytes \cup {"ESC"}

\* Longest gives a longest text, if there is a bound on their length.
LEMMA LongestIn ==
  ASSUME NEW E, NEW X, X \subseteq Seq(E), X # {}, NEW k \in Nat, \A t \in X : Len(t) <= k
  PROVE  Longest(X) \in X /\ \A t \in X : Len(t) <= Len(Longest(X))
<1> DEFINE L == {j \in Nat : \E t \in X : Len(t) = j}
<1>1. \A t \in X : Len(t) \in Nat
  OBVIOUS
<1>2. L # {} /\ L \subseteq Nat /\ \A j \in L : j <= k
  BY <1>1
<1>3. PICK j \in L : \A i \in L : i <= j
  <2> HIDE DEF L
  <2>. QED BY <1>2, NatMost
<1>4. PICK t \in X : Len(t) = j
  OBVIOUS
<1>5. \A u \in X : Len(u) <= Len(t)
  BY <1>1, <1>3, <1>4
<1> DEFINE m == CHOOSE v \in X : \A u \in X : Len(u) <= Len(v)
<1>6. m \in X /\ \A u \in X : Len(u) <= Len(m)
  BY <1>5
<1>. QED BY <1>6 DEF Longest

\* s is what t ends with.
Ends(s, t) ==
  /\ Len(s) <= Len(t)
  /\ \A i \in 1 .. Len(s) : s[i] = t[Len(t) - Len(s) + i]

\* IsSuffix is defined with Reverse; this is what it means.
LEMMA SuffixEnds ==
  ASSUME NEW E, NEW s \in Seq(E), NEW t \in Seq(E)
  PROVE  IsSuffix(s, t) <=> Ends(s, t)
<1> DEFINE m == Len(s)
           n == Len(t)
           a == Reverse(s)
           b == Reverse(t)
<1>1. m \in Nat /\ n \in Nat
  OBVIOUS
<1>2. /\ a \in Seq(E) /\ Len(a) = m /\ \A i \in 1 .. m : a[i] = s[m - i + 1]
      /\ b \in Seq(E) /\ Len(b) = n /\ \A i \in 1 .. n : b[i] = t[n - i + 1]
  BY DEF Reverse
<1> HIDE DEF a, b
<1>3. ASSUME m <= n
      PROVE  SubSeq(a, 1, m) = SubSeq(b, 1, m) <=> \A i \in 1 .. m : a[i] = b[i]
  <2>1. /\ SubSeq(a, 1, m) \in Seq(E) /\ Len(SubSeq(a, 1, m)) = m
        /\ \A i \in 1 .. m : SubSeq(a, 1, m)[i] = a[i]
    BY <1>1, <1>2
  <2>2. /\ SubSeq(b, 1, m) \in Seq(E) /\ Len(SubSeq(b, 1, m)) = m
        /\ \A i \in 1 .. m : SubSeq(b, 1, m)[i] = b[i]
    BY <1>1, <1>2, <1>3
  <2>. QED BY <2>1, <2>2, SeqEqual
<1>4. ASSUME m <= n
      PROVE  (\A i \in 1 .. m : a[i] = b[i]) <=> \A i \in 1 .. m : s[i] = t[n - m + i]
  <2>1. ASSUME \A i \in 1 .. m : a[i] = b[i], NEW i \in 1 .. m
        PROVE  s[i] = t[n - m + i]
    <3>1. m - i + 1 \in 1 .. m /\ m - i + 1 \in 1 .. n
      BY <1>1, <1>4
    <3>2. a[m - i + 1] = s[m - (m - i + 1) + 1] /\ b[m - i + 1] = t[n - (m - i + 1) + 1]
      BY <1>2, <3>1
    <3>3. m - (m - i + 1) + 1 = i /\ n - (m - i + 1) + 1 = n - m + i
      BY <1>1
    <3>. QED BY <2>1, <3>1, <3>2, <3>3
  <2>2. ASSUME \A i \in 1 .. m : s[i] = t[n - m + i], NEW i \in 1 .. m
        PROVE  a[i] = b[i]
    <3>1. i \in 1 .. n /\ m - i + 1 \in 1 .. m /\ n - m + (m - i + 1) = n - i + 1
      BY <1>1, <1>4
    <3>. QED BY <1>2, <2>2, <3>1
  <2>. QED BY <2>1, <2>2
<1>. QED BY <1>2, <1>3, <1>4 DEF IsSuffix, IsPrefix, Ends, a, b

\* What a sequence begins with.
LEMMA Cut ==
  ASSUME NEW E, NEW s \in Seq(E), NEW j \in 0 .. Len(s)
  PROVE  /\ SubSeq(s, 1, j) \in Seq(E) /\ Len(SubSeq(s, 1, j)) = j
         /\ \A i \in 1 .. j : SubSeq(s, 1, j)[i] = s[i]
OBVIOUS

\* Secrets are nodes, and so is whatever a node begins with.
LEMMA NodesAre ==
  /\ Secrets \subseteq Seq(Bytes) /\ Nodes \subseteq Seq(Byte)
  /\ <<>> \in Nodes /\ Secrets \subseteq Nodes
  /\ \A n \in Nodes : \A k \in 0 .. Len(n) : SubSeq(n, 1, k) \in Nodes
<1>1. Secrets \subseteq Seq(Bytes)
  BY StepLogConstantsOK
<1>2. \A s \in Secrets : s \in Seq(Byte)
  BY <1>1 DEF Byte
<1>3. \A n : (n \in Nodes) <=>
         (n = <<>> \/ (\E s \in Secrets : \E l \in 0 .. Len(s) : n = SubSeq(s, 1, l)))
  BY DEF Nodes, Prefixes
<1>4. ASSUME NEW n \in Nodes
      PROVE  n \in Seq(Byte)
  <2>1. CASE n = <<>>
    BY <2>1
  <2>2. CASE n # <<>>
    <3>1. PICK s \in Secrets : \E l \in 0 .. Len(s) : n = SubSeq(s, 1, l)
      BY <1>3, <2>2
    <3>2. PICK l \in 0 .. Len(s) : n = SubSeq(s, 1, l)
      BY <3>1
    <3>3. s \in Seq(Byte)
      BY <1>2
    <3>. QED BY <3>2, <3>3
  <2>. QED BY <2>1, <2>2
<1>5. ASSUME NEW s \in Secrets
      PROVE  s \in Nodes
  <2>1. s = SubSeq(s, 1, Len(s)) /\ Len(s) \in 0 .. Len(s)
    BY <1>2
  <2>. QED BY <1>3, <2>1
<1>6. ASSUME NEW n \in Nodes, NEW k \in 0 .. Len(n)
      PROVE  SubSeq(n, 1, k) \in Nodes
  <2>1. CASE n = <<>>
    <3>1. SubSeq(n, 1, k) = <<>>
      BY <2>1
    <3>. QED BY <1>3, <3>1
  <2>2. CASE n # <<>>
    <3>1. PICK s \in Secrets : \E l \in 0 .. Len(s) : n = SubSeq(s, 1, l)
      BY <1>3, <2>2
    <3>2. PICK l \in 0 .. Len(s) : n = SubSeq(s, 1, l)
      BY <3>1
    <3>3. s \in Seq(Byte) /\ Len(n) = l
      BY <1>2, <3>2
    <3>4. SubSeq(n, 1, k) = SubSeq(s, 1, k) /\ k \in 0 .. Len(s)
      BY <3>2, <3>3
    <3>. QED BY <1>3, <3>4
  <2>. QED BY <2>1, <2>2
<1>. QED BY <1>1, <1>3, <1>4, <1>5, <1>6

\* node is the longest node that the text ends with.
Reached(node, text) ==
  /\ node \in Nodes /\ Ends(node, text)
  /\ \A n \in Nodes : Ends(n, text) => Len(n) <= Len(node)

\* Step finds the node of the longer text from the node alone.
LEMMA StepReaches ==
  ASSUME NEW text \in Seq(Byte), NEW node, Reached(node, text), NEW b \in Byte
  PROVE  Reached(Step(node, b), Append(text, b)) /\ Len(Step(node, b)) <= Len(node) + 1
<1> DEFINE m == Len(text)
           d == Len(node)
           long == Append(text, b)
           near == Append(node, b)
           X == {n \in Nodes : IsSuffix(n, near)}
<1>1. node \in Seq(Byte) /\ node \in Nodes /\ d \in Nat /\ m \in Nat /\ d <= m
  BY NodesAre DEF Reached, Ends
<1>2. /\ long \in Seq(Byte) /\ Len(long) = m + 1 /\ long[m + 1] = b
      /\ \A i \in 1 .. m : long[i] = text[i]
      /\ near \in Seq(Byte) /\ Len(near) = d + 1 /\ near[d + 1] = b
      /\ \A i \in 1 .. d : near[i] = node[i]
  BY <1>1
<1>3. \A i \in 1 .. d : node[i] = text[m - d + i]
  BY DEF Reached, Ends
<1>4. \A i \in 1 .. d + 1 : near[i] = long[m - d + i]
  <2> TAKE i \in 1 .. d + 1
  <2>1. CASE i = d + 1
    BY <1>1, <1>2, <2>1
  <2>2. CASE i # d + 1
    <3>1. i \in 1 .. d /\ m - d + i \in 1 .. m
      BY <1>1, <2>2
    <3>. QED BY <1>2, <1>3, <3>1
  <2>. QED BY <2>1, <2>2
<1> HIDE DEF long, near
<1>5. ASSUME NEW n \in Nodes
      PROVE  Ends(n, long) <=> Ends(n, near)
  <2>1. n \in Seq(Byte) /\ Len(n) \in Nat
    BY NodesAre
  <2>2. ASSUME Ends(n, near)
        PROVE  Ends(n, long)
    <3>1. Len(n) <= d + 1 /\ Len(n) <= m + 1
      BY <1>1, <1>2, <2>2 DEF Ends
    <3>2. ASSUME NEW i \in 1 .. Len(n)
          PROVE  n[i] = long[m + 1 - Len(n) + i]
      <4>1. n[i] = near[d + 1 - Len(n) + i]
        BY <1>2, <2>2 DEF Ends
      <4>2. d + 1 - Len(n) + i \in 1 .. d + 1
        BY <1>1, <2>1, <3>1
      <4>3. near[d + 1 - Len(n) + i] = long[m - d + (d + 1 - Len(n) + i)]
        BY <1>4, <4>2
      <4>4. m - d + (d + 1 - Len(n) + i) = m + 1 - Len(n) + i
        BY <1>1, <2>1
      <4>. QED BY <4>1, <4>3, <4>4
    <3>. QED BY <1>2, <3>1, <3>2 DEF Ends
  <2>3. ASSUME Ends(n, long)
        PROVE  Ends(n, near)
    <3> DEFINE k == Len(n)
               p == SubSeq(n, 1, k - 1)
    <3>1. k <= m + 1 /\ \A i \in 1 .. k : n[i] = long[m + 1 - k + i]
      BY <1>2, <2>3 DEF Ends
    <3>2. CASE k = 0
      BY <1>1, <1>2, <3>2 DEF Ends
    <3>3. CASE k # 0
      <4>1. /\ p \in Nodes /\ p \in Seq(Byte) /\ Len(p) = k - 1 /\ k - 1 <= m
            /\ \A i \in 1 .. k - 1 : p[i] = n[i]
        <5>1. k - 1 \in 0 .. k
          BY <2>1, <3>3
        <5>2. p \in Nodes
          BY <5>1, NodesAre
        <5>3. k - 1 <= m
          BY <1>1, <2>1, <3>1
        <5>4. p \in Seq(Byte) /\ Len(p) = k - 1 /\ \A i \in 1 .. k - 1 : p[i] = n[i]
          BY <2>1, <5>1, Cut
        <5>. QED BY <5>2, <5>3, <5>4
      <4>2. ASSUME NEW i \in 1 .. k - 1
            PROVE  p[i] = text[m - (k - 1) + i]
        <5>1. i \in 1 .. k /\ m - (k - 1) + i = m + 1 - k + i /\ m + 1 - k + i \in 1 .. m
          BY <1>1, <2>1, <3>1
        <5>. QED BY <1>2, <3>1, <4>1, <5>1
      <4>3. Ends(p, text)
        BY <4>1, <4>2 DEF Ends
      <4>4. k - 1 <= d
        BY <4>1, <4>3 DEF Reached
      <4>5. ASSUME NEW i \in 1 .. k
            PROVE  n[i] = near[d + 1 - k + i]
        <5>1. d + 1 - k + i \in 1 .. d + 1 /\ m - d + (d + 1 - k + i) = m + 1 - k + i
          BY <1>1, <2>1, <4>4
        <5>. QED BY <1>4, <3>1, <5>1
      <4>. QED BY <1>1, <1>2, <2>1, <4>4, <4>5 DEF Ends
    <3>. QED BY <3>2, <3>3
  <2>. QED BY <2>2, <2>3
<1>6. X = {n \in Nodes : Ends(n, near)}
  BY <1>2, NodesAre, SuffixEnds
<1>7. /\ X \subseteq Seq(Byte) /\ <<>> \in X /\ d + 1 \in Nat
      /\ \A n \in X : Len(n) <= d + 1
  BY <1>1, <1>2, <1>6, NodesAre DEF Ends
<1>8. Longest(X) \in X /\ \A n \in X : Len(n) <= Len(Longest(X))
  <2> HIDE DEF X
  <2>. QED BY <1>7, LongestIn
<1>9. Step(node, b) = Longest(X)
  BY DEF Step, near
<1>. QED BY <1>5, <1>6, <1>7, <1>8, <1>9 DEF Reached, long

\* Match finds the longest secret that ends here.
LEMMA MatchFinds ==
  ASSUME NEW text \in Seq(Byte), NEW node, Reached(node, text)
  PROVE  /\ Match(node) \in 0 .. Len(node)
         /\ Match(node) # 0 => \E s \in Secrets : Ends(s, text) /\ Len(s) = Match(node)
         /\ \A s \in Secrets : Ends(s, text) => Len(s) <= Match(node)
<1> DEFINE d == Len(node)
           m == Len(text)
           Y == {<<>>} \cup {s \in Secrets : IsSuffix(s, node)}
<1>1. node \in Seq(Byte) /\ d \in Nat /\ m \in Nat /\ d <= m /\ Ends(node, text)
  BY NodesAre DEF Reached, Ends
<1>2. \A s \in Secrets : s \in Seq(Byte) /\ Len(s) \in Nat
  BY NodesAre
<1>3. ASSUME NEW s \in Secrets, Ends(s, node)
      PROVE  Ends(s, text)
  <2>1. Len(s) <= d /\ \A i \in 1 .. Len(s) : s[i] = node[d - Len(s) + i]
    BY <1>3 DEF Ends
  <2>2. ASSUME NEW i \in 1 .. Len(s)
        PROVE  s[i] = text[m - Len(s) + i]
    <3>1. d - Len(s) + i \in 1 .. d /\ m - d + (d - Len(s) + i) = m - Len(s) + i
      BY <1>1, <1>2, <2>1
    <3>2. node[d - Len(s) + i] = text[m - d + (d - Len(s) + i)]
      BY <1>1, <3>1 DEF Ends
    <3>. QED BY <2>1, <3>1, <3>2
  <2>. QED BY <1>1, <1>2, <2>1, <2>2 DEF Ends
<1>4. ASSUME NEW s \in Secrets, Ends(s, text)
      PROVE  Ends(s, node)
  <2>1. Len(s) <= d
    BY <1>4, NodesAre DEF Reached
  <2>2. ASSUME NEW i \in 1 .. Len(s)
        PROVE  s[i] = node[d - Len(s) + i]
    <3>1. d - Len(s) + i \in 1 .. d /\ m - d + (d - Len(s) + i) = m - Len(s) + i
      BY <1>1, <1>2, <2>1
    <3>2. node[d - Len(s) + i] = text[m - d + (d - Len(s) + i)]
      BY <1>1, <3>1 DEF Ends
    <3>. QED BY <1>4, <3>1, <3>2 DEF Ends
  <2>. QED BY <2>1, <2>2 DEF Ends
<1>5. Y = {<<>>} \cup {s \in Secrets : Ends(s, text)}
  BY <1>1, <1>2, <1>3, <1>4, SuffixEnds
<1>6. Y \subseteq Seq(Byte) /\ Y # {} /\ \A t \in Y : Len(t) <= d
  <2>1. \A s \in Secrets : Ends(s, text) => Len(s) <= d
    BY NodesAre DEF Reached
  <2>2. ASSUME NEW t \in Y
        PROVE  t \in Seq(Byte) /\ Len(t) <= d
    <3>1. CASE t = <<>>
      BY <1>1, <3>1
    <3>2. CASE t # <<>>
      BY <1>2, <1>5, <2>1, <3>2
    <3>. QED BY <3>1, <3>2
  <2>. QED BY <2>2
<1>7. Longest(Y) \in Y /\ \A t \in Y : Len(t) <= Len(Longest(Y))
  <2> HIDE DEF Y
  <2>. QED BY <1>1, <1>6, LongestIn
<1>8. Match(node) = Len(Longest(Y))
  BY DEF Match
<1> HIDE DEF Y
<1>9. Len(Longest(Y)) \in Nat
  BY <1>6, <1>7
<1>10. Longest(Y) = <<>> \/ (Longest(Y) \in Secrets /\ Ends(Longest(Y), text))
  BY <1>5, <1>7
<1> DEFINE l == Longest(Y)
<1>11. Len(<<>>) = 0 /\ l \in Y /\ \A s \in Secrets : Ends(s, text) => s \in Y
  BY <1>5, <1>7
<1> HIDE DEF l
<1>12. Match(node) = Len(l) /\ Len(l) \in Nat /\ Len(l) <= d /\ \A t \in Y : Len(t) <= Len(l)
  BY <1>6, <1>7, <1>8, <1>9 DEF l
<1>13. Match(node) # 0 => l \in Secrets /\ Ends(l, text)
  BY <1>10, <1>11, <1>12 DEF l
<1>. QED BY <1>1, <1>11, <1>12, <1>13

\* The bytes in secrets, once a byte is added.
LEMMA InSecretGrows ==
  ASSUME NEW text \in Seq(Byte), NEW b \in Byte, NEW node, Reached(node, Append(text, b)),
         NEW i \in 1 .. Len(text) + 1
  PROVE  InSecret(Append(text, b), i) <=> InSecret(text, i) \/ i > Len(text) + 1 - Match(node)
<1> DEFINE m == Len(text)
           long == Append(text, b)
           At(s, t, j) == /\ i < j + Len(s) /\ j + Len(s) - 1 <= Len(t)
                          /\ SubSeq(t, j, j + Len(s) - 1) = s
<1>1. /\ m \in Nat /\ long \in Seq(Byte) /\ Len(long) = m + 1
      /\ \A k \in 1 .. m : long[k] = text[k]
  OBVIOUS
<1>2. \A s \in Secrets : s \in Seq(Byte) /\ Len(s) \in Nat /\ Len(s) # 0
  BY NodesAre, SecretsOK
<1>3. ASSUME NEW t \in Seq(Byte), NEW s \in Seq(Byte), NEW j \in Nat \ {0}, j + Len(s) - 1 <= Len(t)
      PROVE  SubSeq(t, j, j + Len(s) - 1) = s <=> \A k \in 1 .. Len(s) : t[j + k - 1] = s[k]
  <2> DEFINE c == SubSeq(t, j, j + Len(s) - 1)
  <2>1. Len(s) \in Nat /\ Len(t) \in Nat
    OBVIOUS
  <2>2. c \in Seq(Byte) /\ Len(c) = Len(s) /\ \A k \in 1 .. Len(s) : c[k] = t[j + k - 1]
    <3>1. \A k \in j .. j + Len(s) - 1 : t[k] \in Byte
      BY <1>3, <2>1
    <3>. QED BY <1>3, <2>1, <3>1, SubSeqProperties
  <2> HIDE DEF c
  <2>3. c = s <=> \A k \in 1 .. Len(s) : c[k] = s[k]
    BY <2>2, SeqEqual
  <2>. QED BY <2>2, <2>3 DEF c
<1>4. InSecret(text, i) <=> \E s \in Secrets : \E j \in 1 .. i : At(s, text, j)
  BY DEF InSecret
<1>5. InSecret(long, i) <=> \E s \in Secrets : \E j \in 1 .. i : At(s, long, j)
  BY DEF InSecret
<1> HIDE DEF long
<1>6. ASSUME NEW s \in Secrets, NEW j \in 1 .. i, j + Len(s) - 1 <= m
      PROVE  At(s, long, j) <=> At(s, text, j)
  <2>1. \A k \in 1 .. Len(s) : long[j + k - 1] = text[j + k - 1]
    <3> TAKE k \in 1 .. Len(s)
    <3>1. j + k - 1 \in 1 .. m
      BY <1>1, <1>2, <1>6
    <3>. QED BY <1>1, <3>1
  <2>2. j \in Nat \ {0} /\ j + Len(s) - 1 <= Len(long)
    BY <1>1, <1>2, <1>6
  <2>3. s \in Seq(Byte) /\ j + Len(s) - 1 <= Len(text)
    BY <1>2, <1>6
  <2>4. SubSeq(long, j, j + Len(s) - 1) = s <=> \A k \in 1 .. Len(s) : long[j + k - 1] = s[k]
    BY <1>1, <1>3, <2>2, <2>3
  <2>5. SubSeq(text, j, j + Len(s) - 1) = s <=> \A k \in 1 .. Len(s) : text[j + k - 1] = s[k]
    BY <1>3, <2>2, <2>3
  <2>. QED BY <2>1, <2>2, <2>3, <2>4, <2>5
<1>7. ASSUME NEW s \in Secrets, NEW j \in 1 .. i, j + Len(s) - 1 = m + 1
      PROVE  At(s, long, j) <=> Ends(s, long)
  <2>1. j \in Nat \ {0} /\ i < j + Len(s) /\ Len(s) <= Len(long) /\ Len(long) - Len(s) = j - 1
    BY <1>1, <1>2, <1>7
  <2>2. \A k \in 1 .. Len(s) : Len(long) - Len(s) + k = j + k - 1
    BY <1>2, <2>1
  <2>3. s \in Seq(Byte) /\ j + Len(s) - 1 <= Len(long)
    BY <1>1, <1>2, <1>7
  <2>4. SubSeq(long, j, j + Len(s) - 1) = s <=> \A k \in 1 .. Len(s) : long[j + k - 1] = s[k]
    BY <1>1, <1>3, <2>1, <2>3
  <2>5. (\A k \in 1 .. Len(s) : long[j + k - 1] = s[k]) <=> Ends(s, long)
    BY <2>1, <2>2 DEF Ends
  <2>. QED BY <2>1, <2>3, <2>4, <2>5
<1>8. /\ Match(node) \in Nat
      /\ Match(node) # 0 => \E s \in Secrets : Ends(s, long) /\ Len(s) = Match(node)
      /\ \A s \in Secrets : Ends(s, long) => Len(s) <= Match(node)
  <2>1. Reached(node, long)
    BY DEF long
  <2>2. node \in Seq(Byte)
    BY NodesAre DEF Reached
  <2>. QED BY <1>1, <2>1, <2>2, MatchFinds
<1>9. ASSUME InSecret(text, i)
      PROVE  InSecret(long, i)
  <2>1. PICK s \in Secrets : \E j \in 1 .. i : At(s, text, j)
    BY <1>4, <1>9
  <2>2. PICK j \in 1 .. i : At(s, text, j)
    BY <2>1
  <2>3. At(s, long, j)
    BY <1>6, <2>2
  <2>. QED BY <1>5, <2>3
<1>10. ASSUME i > m + 1 - Match(node)
       PROVE  InSecret(long, i)
  <2>1. PICK s \in Secrets : Ends(s, long) /\ Len(s) = Match(node)
    BY <1>1, <1>8, <1>10
  <2> DEFINE j == m + 2 - Len(s)
  <2>2. j \in 1 .. i /\ j + Len(s) - 1 = m + 1
    BY <1>1, <1>2, <1>10, <2>1 DEF Ends
  <2> HIDE DEF j
  <2>3. At(s, long, j)
    BY <1>7, <2>1, <2>2
  <2>. QED BY <1>5, <2>2, <2>3
<1>11. ASSUME InSecret(long, i)
       PROVE  InSecret(text, i) \/ i > m + 1 - Match(node)
  <2>1. PICK s \in Secrets : \E j \in 1 .. i : At(s, long, j)
    BY <1>5, <1>11
  <2>2. PICK j \in 1 .. i : At(s, long, j)
    BY <2>1
  <2>3. CASE j + Len(s) - 1 <= m
    BY <1>4, <1>6, <2>2, <2>3
  <2>4. CASE j + Len(s) - 1 = m + 1
    <3>1. Len(s) <= Match(node)
      BY <1>7, <1>8, <2>2, <2>4
    <3>2. i < j + Len(s)
      BY <2>2
    <3> HIDE DEF At
    <3>. QED BY <1>1, <1>2, <1>8, <2>4, <3>1, <3>2
  <2>5. j + Len(s) - 1 <= m + 1
    BY <1>1, <2>2
  <2>. QED BY <1>1, <1>2, <2>3, <2>4, <2>5
<1>. QED BY <1>9, <1>10, <1>11 DEF long

----------------------------------------------------------------------------
(* The stream.                                                             *)

Char == Bytes \cup {"ESC", Mask}

\* The bytes a stream holds, and its state.
HeldByte == [byte : Byte, masked : BOOLEAN]
Streams == [node : Nodes, held : Seq(HeldByte), masking : BOOLEAN]

\* What position i of the text gives, and what the first k positions give.
Piece(text, i) ==
  IF ~InSecret(text, i) THEN <<text[i]>>
  ELSE IF i > 1 /\ InSecret(text, i - 1) THEN <<>> ELSE <<Mask>>
Given(text, k) == FlattenSeq([i \in 1 .. k |-> Piece(text, i)])

\* What is given out is output.
LEMMA GivenType ==
  ASSUME NEW text \in Seq(Byte), NEW k \in 0 .. Len(text)
  PROVE  [i \in 1 .. k |-> Piece(text, i)] \in Seq(Seq(Char)) /\ Given(text, k) \in Seq(Char)
<1>1. ASSUME NEW i \in 1 .. k
      PROVE  Piece(text, i) \in Seq(Char)
  <2>1. text[i] \in Char /\ Mask \in Char
    BY DEF Byte, Char
  <2>. QED BY <2>1 DEF Piece
<1>2. [i \in 1 .. k |-> Piece(text, i)] \in Seq(Seq(Char))
  BY <1>1
<1>. QED BY <1>2, FlattenType DEF Given

\* The marked bytes are the text after its first a bytes.
Holds(held, masking, text, a) ==
  /\ a \in Nat /\ a + Len(held) = Len(text)
  /\ held \in Seq(HeldByte) /\ masking \in BOOLEAN
  /\ \A j \in 1 .. Len(held) : /\ held[j].byte = text[a + j]
                               /\ held[j].masked <=> InSecret(text, a + j)
  /\ masking <=> a > 0 /\ InSecret(text, a)

\* Emitted continues what was given out.
LEMMA EmittedGoesOn ==
  ASSUME NEW text \in Seq(Byte), NEW held, NEW masking, NEW a, Holds(held, masking, text, a),
         NEW n \in 0 .. Len(held)
  PROVE  /\ Emitted(held, masking, n) \in Seq(Char)
         /\ Given(text, a) \o Emitted(held, masking, n) = Given(text, a + n)
<1> DEFINE p == [i \in 1 .. a |-> Piece(text, i)]
           q == [i \in 1 .. n |-> Piece(text, a + i)]
           r == [i \in 1 .. a + n |-> Piece(text, i)]
           before(i) == IF i = 1 THEN masking ELSE held[i - 1].masked
           e == [i \in 1 .. n |-> IF ~held[i].masked THEN <<held[i].byte>>
                                  ELSE IF before(i) THEN <<>> ELSE <<Mask>>]
<1>1. /\ a \in Nat /\ n \in Nat /\ Len(text) \in Nat /\ a + n <= Len(text)
      /\ held \in Seq(HeldByte)
  BY DEF Holds
<1>2. ASSUME NEW i \in 1 .. n
      PROVE  e[i] = Piece(text, a + i)
  <2>1. i \in 1 .. Len(held) /\ a + i > 0 /\ a + i - 1 = a + (i - 1)
    BY <1>1
  <2>2. held[i].byte = text[a + i] /\ (held[i].masked <=> InSecret(text, a + i))
    BY <2>1 DEF Holds
  <2>3. before(i) <=> a + i > 1 /\ InSecret(text, a + i - 1)
    <3>1. CASE i = 1
      BY <1>1, <3>1 DEF Holds
    <3>2. CASE i # 1
      <4>1. i - 1 \in 1 .. Len(held) /\ a + i > 1
        BY <1>1, <2>1, <3>2
      <4>2. held[i - 1].masked <=> InSecret(text, a + (i - 1))
        BY <4>1 DEF Holds
      <4>. QED BY <2>1, <3>2, <4>1, <4>2
    <3>. QED BY <3>1, <3>2
  <2>4. e[i] = IF ~held[i].masked THEN <<held[i].byte>>
               ELSE IF before(i) THEN <<>> ELSE <<Mask>>
    OBVIOUS
  <2> HIDE DEF before, e
  <2>5. CASE ~held[i].masked
    BY <2>2, <2>4, <2>5 DEF Piece
  <2>6. CASE held[i].masked /\ before(i)
    <3>1. Piece(text, a + i) = <<>>
      BY <1>1, <2>1, <2>2, <2>3, <2>6 DEF Piece
    <3>. QED BY <2>4, <2>6, <3>1
  <2>7. CASE held[i].masked /\ ~before(i)
    <3>1. Piece(text, a + i) = <<Mask>>
      BY <1>1, <2>1, <2>2, <2>3, <2>7 DEF Piece
    <3>. QED BY <2>4, <2>7, <3>1
  <2>. QED BY <2>5, <2>6, <2>7
<1>3. e = q
  <2> HIDE DEF before
  <2>. QED BY <1>2
<1>4. Emitted(held, masking, n) = FlattenSeq(e)
  BY DEF Emitted
<1>5. p \in Seq(Seq(Char)) /\ r \in Seq(Seq(Char))
  BY <1>1, GivenType
<1>6. q \in Seq(Seq(Char)) /\ r = p \o q
  <2>1. ASSUME NEW i \in 1 .. n
        PROVE  Piece(text, a + i) = r[a + i] /\ r[a + i] \in Seq(Char)
    BY <1>1, <1>5
  <2>2. q \in Seq(Seq(Char))
    <3>1. \A i \in 1 .. n : q[i] \in Seq(Char)
      BY <2>1
    <3>. QED BY <1>1, <3>1
  <2>3. p \o q \in Seq(Seq(Char)) /\ Len(p \o q) = a + n /\ Len(r) = a + n
    BY <1>1, <1>5, <2>2
  <2>4. ASSUME NEW i \in 1 .. a + n
        PROVE  r[i] = (p \o q)[i]
    <3>1. CASE i <= a
      BY <1>1, <1>5, <2>2, <3>1
    <3>2. CASE i > a
      <4>1. i - a \in 1 .. n /\ a + (i - a) = i
        BY <1>1, <3>2
      <4>2. (p \o q)[i] = q[i - a]
        BY <1>1, <1>5, <2>2, <3>2
      <4>. QED BY <4>1, <4>2
    <3>. QED BY <1>1, <3>1, <3>2
  <2> HIDE DEF p, q, r
  <2>. QED BY <1>5, <2>2, <2>3, <2>4, SeqEqual
<1> HIDE DEF p, q, r, e
<1>7. FlattenSeq(r) = FlattenSeq(p) \o FlattenSeq(q)
  BY <1>5, <1>6, FlattenConcat
<1>8. FlattenSeq(q) \in Seq(Char)
  BY <1>6, FlattenType
<1>. QED BY <1>3, <1>4, <1>7, <1>8 DEF Given, p, q, r

\* No position after the end is in a secret.
LEMMA InSecretWithin ==
  ASSUME NEW text \in Seq(Byte), NEW i \in Nat, InSecret(text, i)
  PROVE  i <= Len(text)
<1>1. PICK s \in Secrets : \E j \in 1 .. i : i < j + Len(s) /\ j + Len(s) - 1 <= Len(text)
  BY DEF InSecret
<1>2. PICK j \in 1 .. i : i < j + Len(s) /\ j + Len(s) - 1 <= Len(text)
  BY <1>1
<1>3. Len(s) \in Nat /\ Len(text) \in Nat
  BY NodesAre
<1>. QED BY <1>2, <1>3

\* Emit gives out the first n held bytes and holds the others.
LEMMA EmitGoesOn ==
  ASSUME NEW text \in Seq(Byte), NEW stream, NEW a,
         stream \in Streams, Holds(stream.held, stream.masking, text, a),
         NEW n \in 0 .. Len(stream.held)
  PROVE  LET r == Emit(stream, n)
         IN  /\ r.stream \in Streams
             /\ r.stream.node = stream.node /\ Len(r.stream.held) = Len(stream.held) - n
             /\ Holds(r.stream.held, r.stream.masking, text, a + n)
             /\ r.text \in Seq(Char)
             /\ Given(text, a) \o r.text = Given(text, a + n)
<1> DEFINE held == stream.held
           rest == SubSeq(held, n + 1, Len(held))
           mask == IF n = 0 THEN stream.masking ELSE held[n].masked
<1>1. /\ a \in Nat /\ n \in Nat /\ Len(text) \in Nat /\ Len(held) \in Nat /\ n <= Len(held)
      /\ a + Len(held) = Len(text) /\ held \in Seq(HeldByte) /\ stream.masking \in BOOLEAN
      /\ \A k \in 1 .. Len(held) : held[k] \in HeldByte /\ held[k].masked \in BOOLEAN
  <2>1. /\ a \in Nat /\ n \in Nat /\ Len(text) \in Nat /\ Len(held) \in Nat /\ n <= Len(held)
        /\ a + Len(held) = Len(text) /\ held \in Seq(HeldByte) /\ stream.masking \in BOOLEAN
    BY DEF Holds
  <2>2. \A k \in 1 .. Len(held) : held[k] \in HeldByte
    <3> HIDE DEF held
    <3>. QED BY <2>1
  <2>. QED BY <2>1, <2>2 DEF HeldByte
<1> HIDE DEF held
<1>2. rest \in Seq(HeldByte) /\ Len(rest) = Len(held) - n
      /\ \A i \in 1 .. Len(rest) : rest[i] = held[n + i]
  <2>1. \A k \in n + 1 .. Len(held) : k \in 1 .. Len(held) /\ held[k] \in HeldByte
    BY <1>1
  <2>. QED BY <1>1, <2>1, SubSeqProperties
<1>3. mask \in BOOLEAN
  <2>1. n # 0 => n \in 1 .. Len(held)
    BY <1>1
  <2>. QED BY <1>1, <2>1
<1> DEFINE r == Emit(stream, n)
<1>4. r.stream = [stream EXCEPT !.held = rest, !.masking = mask]
      /\ r.text = Emitted(held, stream.masking, n)
  BY DEF Emit, held
<1> HIDE DEF rest, mask, r
<1>5. /\ r.stream \in Streams
      /\ r.stream.node = stream.node /\ r.stream.held = rest /\ r.stream.masking = mask
  BY <1>2, <1>3, <1>4 DEF Streams
<1>6. Holds(rest, mask, text, a + n)
  <2>1. a + n \in Nat /\ a + n + Len(rest) = Len(text)
    <3>1. Len(rest) = Len(held) - n
      BY <1>2
    <3> DEFINE l == Len(held)
               k == Len(rest)
               m == Len(text)
    <3>2. a \in Nat /\ n \in Nat /\ l \in Nat /\ m \in Nat /\ a + l = m /\ k = l - n
      BY <1>1, <3>1
    <3> HIDE DEF l, k, m
    <3>3. a + n \in Nat /\ a + n + k = m
      BY <3>2
    <3>. QED BY <3>3 DEF k, m
  <2>2. ASSUME NEW j \in 1 .. Len(rest)
        PROVE  rest[j].byte = text[a + n + j] /\ (rest[j].masked <=> InSecret(text, a + n + j))
    <3>1. n + j \in 1 .. Len(held) /\ a + (n + j) = a + n + j /\ rest[j] = held[n + j]
      BY <1>1, <1>2
    <3>2. held[n + j].byte = text[a + (n + j)]
          /\ (held[n + j].masked <=> InSecret(text, a + (n + j)))
      BY <3>1 DEF Holds, held
    <3>. QED BY <3>1, <3>2
  <2>3. mask <=> a + n > 0 /\ InSecret(text, a + n)
    <3>1. CASE n = 0
      BY <1>1, <3>1 DEF mask, Holds
    <3>2. CASE n # 0
      <4>1. n \in 1 .. Len(held) /\ a + n > 0
        BY <1>1, <3>2
      <4>2. held[n].masked <=> InSecret(text, a + n)
        BY <4>1 DEF Holds, held
      <4>. QED BY <3>2, <4>1, <4>2 DEF mask
    <3>. QED BY <3>1, <3>2
  <2>. QED BY <1>2, <1>3, <2>1, <2>2, <2>3 DEF Holds, HeldByte
<1>7. /\ Emitted(held, stream.masking, n) \in Seq(Char)
      /\ Given(text, a) \o Emitted(held, stream.masking, n) = Given(text, a + n)
  BY EmittedGoesOn DEF held
<1>. QED BY <1>2, <1>4, <1>5, <1>6, <1>7 DEF r, held, HeldByte

\* The stream after the text: what it holds, and that no more input changes
\* what it gave out.
Tracks(stream, text) ==
  /\ stream \in Streams
  /\ Reached(stream.node, text)
  /\ Len(stream.held) <= Len(text)
  /\ Holds(stream.held, stream.masking, text, Len(text) - Len(stream.held))
  /\ \A i \in 1 .. Len(text) - Len(stream.held) :
       InSecret(text, i) \/ i <= Len(text) - Len(stream.node)

\* What the stream has given out of the text.
GivenOut(stream, text) == Given(text, Len(text) - Len(stream.held))

\* What was given out of a text is given out of a longer one, if no byte of it
\* became part of a secret.
LEMMA GivenStays ==
  ASSUME NEW text \in Seq(Byte), NEW b \in Byte, NEW k \in 0 .. Len(text),
         \A i \in 1 .. k : InSecret(Append(text, b), i) <=> InSecret(text, i)
  PROVE  Given(Append(text, b), k) = Given(text, k)
<1> DEFINE long == Append(text, b)
<1>1. \A i \in 1 .. k : i \in Nat /\ long[i] = text[i] /\ (i > 1 => i - 1 \in 1 .. k)
  OBVIOUS
<1> HIDE DEF long
<1>2. ASSUME NEW i \in 1 .. k
      PROVE  Piece(long, i) = Piece(text, i)
  <2>1. InSecret(long, i) <=> InSecret(text, i)
    BY DEF long
  <2>2. i > 1 => (InSecret(long, i - 1) <=> InSecret(text, i - 1))
    BY <1>1 DEF long
  <2>3. CASE ~InSecret(text, i)
    BY <1>1, <2>1, <2>3 DEF Piece
  <2>4. CASE InSecret(text, i) /\ i > 1 /\ InSecret(text, i - 1)
    BY <1>1, <2>1, <2>2, <2>4 DEF Piece
  <2>5. CASE InSecret(text, i) /\ ~(i > 1 /\ InSecret(text, i - 1))
    BY <1>1, <2>1, <2>2, <2>5 DEF Piece
  <2>. QED BY <2>3, <2>4, <2>5
<1>3. [i \in 1 .. k |-> Piece(long, i)] = [i \in 1 .. k |-> Piece(text, i)]
  BY <1>2
<1>. QED BY <1>3 DEF Given, long

\* The held bytes of AppendByte.
Marks(marks, b, c) ==
  LET all == Append(marks, [byte |-> b, masked |-> FALSE])
  IN  [i \in DOMAIN all |-> [all[i] EXCEPT !.masked = @ \/ i > Len(all) - c]]

\* AppendByte holds one byte more, and marks the last c bytes.
LEMMA MarksGrow ==
  ASSUME NEW marks \in Seq(HeldByte), NEW b \in Byte, NEW c \in Nat
  PROVE  LET held == Marks(marks, b, c)
             h    == Len(marks)
         IN  /\ held \in Seq(HeldByte) /\ Len(held) = h + 1
             /\ \A i \in 1 .. h : /\ held[i].byte = marks[i].byte
                                  /\ held[i].masked <=> marks[i].masked \/ i > h + 1 - c
             /\ held[h + 1].byte = b
             /\ held[h + 1].masked <=> c > 0
<1> DEFINE new == [byte |-> b, masked |-> FALSE]
           all == Append(marks, new)
           h == Len(marks)
           held == Marks(marks, b, c)
<1>1. new \in HeldByte /\ new.byte = b /\ new.masked = FALSE /\ h \in Nat
  BY DEF HeldByte
<1>2. /\ Len(all) = h + 1 /\ DOMAIN all = 1 .. h + 1 /\ all[h + 1] = new
      /\ \A i \in 1 .. h : all[i] = marks[i] /\ marks[i] \in HeldByte
  <2> HIDE DEF new
  <2>. QED BY <1>1
<1>3. \A i \in 1 .. h + 1 : all[i] \in HeldByte
  <2> HIDE DEF new, all, h
  <2> TAKE i \in 1 .. h + 1
  <2>1. i = h + 1 \/ i \in 1 .. h
    BY <1>1
  <2>. QED BY <1>1, <1>2, <2>1
<1>4. /\ held = [i \in DOMAIN all |-> [all[i] EXCEPT !.masked = @ \/ i > Len(all) - c]]
      /\ DOMAIN held = 1 .. h + 1
  <2>1. held = [i \in DOMAIN all |-> [all[i] EXCEPT !.masked = @ \/ i > Len(all) - c]]
    BY DEF Marks
  <2> HIDE DEF all, h, held
  <2>. QED BY <1>2, <2>1
<1> HIDE DEF all, h, held, new
<1>5. ASSUME NEW i \in 1 .. h + 1
      PROVE  /\ held[i] \in HeldByte /\ held[i].byte = all[i].byte
             /\ held[i].masked <=> all[i].masked \/ i > h + 1 - c
  <2>1. i \in DOMAIN all /\ Len(all) = h + 1
    BY <1>2
  <2>2. held[i] = [all[i] EXCEPT !.masked = @ \/ i > Len(all) - c]
    BY <1>4, <2>1
  <2>3. /\ held[i] \in HeldByte /\ held[i].byte = all[i].byte
        /\ held[i].masked <=> all[i].masked \/ i > Len(all) - c
    BY <1>3, <2>2 DEF HeldByte
  <2>. QED BY <1>1, <2>1, <2>3
<1>6. held \in Seq(HeldByte) /\ Len(held) = h + 1
  <2>1. held \in [1 .. h + 1 -> HeldByte]
    <3>1. held = [i \in 1 .. h + 1 |-> held[i]]
      BY <1>4
    <3>. QED BY <1>5, <3>1
  <2>. QED BY <1>1, <2>1
<1>7. ASSUME NEW i \in 1 .. h
      PROVE  /\ held[i].byte = marks[i].byte
             /\ held[i].masked <=> marks[i].masked \/ i > h + 1 - c
  <2>1. i \in 1 .. h + 1
    BY <1>1
  <2>. QED BY <1>2, <1>5, <2>1
<1>8. held[h + 1].byte = b /\ (held[h + 1].masked <=> c > 0)
  <2>1. h + 1 \in 1 .. h + 1 /\ (h + 1 > h + 1 - c <=> c > 0)
    BY <1>1
  <2>. QED BY <1>1, <1>2, <1>5, <2>1
<1>. QED BY <1>6, <1>7, <1>8 DEF held, all, new, h, HeldByte

\* AppendByte gives out what the longer text is known to give.
LEMMA AppendByteKeeps ==
  ASSUME NEW text \in Seq(Byte), NEW stream, Tracks(stream, text), NEW b \in Byte
  PROVE  LET r == AppendByte(stream, b)
         IN  /\ Tracks(r.stream, Append(text, b))
             /\ r.text \in Seq(Char)
             /\ GivenOut(stream, text) \o r.text = GivenOut(r.stream, Append(text, b))
<1> DEFINE m == Len(text)
           h == Len(stream.held)
           d == Len(stream.node)
           a == m - h
           long == Append(text, b)
           node == Step(stream.node, b)
           e == Len(node)
           c == Match(node)
           held == Marks(stream.held, b, c)
           low == IF e >= Len(held) THEN 0 ELSE Len(held) - e
           Goes(k) == /\ \A i \in low + 1 .. k : held[i].masked
                      /\ k < Len(held) => ~held[k + 1].masked
           n == CHOOSE k \in low .. Len(held) : Goes(k)
           next == [node |-> node, held |-> held, masking |-> stream.masking]
<1>1. AppendByte(stream, b) = Emit(next, n)
  BY DEF AppendByte, Marks
<1>2. /\ stream.held \in Seq(HeldByte) /\ stream.node \in Seq(Byte) /\ stream.masking \in BOOLEAN
      /\ m \in Nat /\ h \in Nat /\ d \in Nat /\ a \in Nat /\ h <= m /\ a + h = m
      /\ Reached(stream.node, text) /\ Holds(stream.held, stream.masking, text, a)
      /\ \A i \in 1 .. a : InSecret(text, i) \/ i <= m - d
  <2>1. stream.node \in Seq(Byte)
    BY NodesAre DEF Tracks, Streams
  <2>. QED BY <2>1 DEF Tracks, Streams
<1> HIDE DEF h, d, a
<1>3. /\ long \in Seq(Byte) /\ Len(long) = m + 1 /\ long[m + 1] = b
      /\ \A i \in 1 .. m : long[i] = text[i]
  OBVIOUS
<1>4. /\ Reached(node, long) /\ node \in Nodes /\ e \in Nat /\ e <= d + 1
      /\ c \in Nat /\ c <= e
  <2>1. Reached(node, long) /\ e <= d + 1
    BY <1>2, StepReaches DEF d
  <2>2. node \in Nodes /\ node \in Seq(Byte)
    BY <2>1, NodesAre DEF Reached
  <2>3. c \in 0 .. e
    <3> HIDE DEF node, long
    <3>. QED BY <1>3, <2>1, MatchFinds
  <2> HIDE DEF c, node
  <2>. QED BY <2>1, <2>2, <2>3
<1>5. \A i \in 1 .. m + 1 : InSecret(long, i) <=> InSecret(text, i) \/ i > m + 1 - c
  <2> HIDE DEF node
  <2>. QED BY <1>4, InSecretGrows
<1>6. ~InSecret(text, m + 1)
  BY <1>2, InSecretWithin
<1>7. /\ held \in Seq(HeldByte) /\ Len(held) = h + 1
      /\ \A i \in 1 .. h : /\ held[i].byte = stream.held[i].byte
                           /\ held[i].masked <=> stream.held[i].masked \/ i > h + 1 - c
      /\ held[h + 1].byte = b
      /\ held[h + 1].masked <=> c > 0
  <2> HIDE DEF c
  <2>. QED BY <1>2, <1>4, MarksGrow DEF h
<1> HIDE DEF held, long, node, c, m, e
<1>9. \A i \in 1 .. a : InSecret(long, i) <=> InSecret(text, i)
  <2> TAKE i \in 1 .. a
  <2>1. i \in 1 .. m + 1
    BY <1>2
  <2>2. InSecret(text, i) \/ ~(i > m + 1 - c)
    <3>1. CASE i <= m - d
      BY <1>2, <1>4, <3>1
    <3>. QED BY <1>2, <3>1
  <2>. QED BY <1>5, <2>1, <2>2
<1>10. Holds(held, stream.masking, long, a)
  <2>1. a \in Nat /\ a + Len(held) = Len(long)
    BY <1>2, <1>3, <1>7
  <2>2. ASSUME NEW j \in 1 .. Len(held)
        PROVE  held[j].byte = long[a + j] /\ (held[j].masked <=> InSecret(long, a + j))
    <3>1. j \in 1 .. h + 1 /\ a + j \in 1 .. m + 1 /\ (j > h + 1 - c <=> a + j > m + 1 - c)
      BY <1>2, <1>4, <1>7
    <3>2. InSecret(long, a + j) <=> InSecret(text, a + j) \/ j > h + 1 - c
      BY <1>5, <3>1
    <3>3. CASE j = h + 1
      <4>1. a + j = m + 1 /\ (j > h + 1 - c <=> c > 0)
        BY <1>2, <1>4, <3>3
      <4>. QED BY <1>3, <1>6, <1>7, <3>2, <3>3, <4>1
    <3>4. CASE j # h + 1
      <4>1. j \in 1 .. h /\ a + j \in 1 .. m
        BY <1>2, <3>1, <3>4
      <4>2. stream.held[j].byte = text[a + j] /\ (stream.held[j].masked <=> InSecret(text, a + j))
        BY <1>2, <4>1 DEF Holds, h
      <4>. QED BY <1>3, <1>7, <3>2, <4>1, <4>2
    <3>. QED BY <3>3, <3>4
  <2>3. stream.masking <=> a > 0 /\ InSecret(long, a)
    <3>1. stream.masking <=> a > 0 /\ InSecret(text, a)
      BY <1>2 DEF Holds
    <3>2. a > 0 => a \in 1 .. a
      BY <1>2
    <3>. QED BY <1>9, <3>1, <3>2
  <2>. QED BY <1>2, <1>7, <2>1, <2>2, <2>3 DEF Holds, HeldByte
<1>11. low \in Nat /\ low <= h + 1 /\ (low # 0 => low = h + 1 - e)
  BY <1>2, <1>4, <1>7
<1> HIDE DEF low
<1>12. n \in low .. h + 1 /\ \A i \in low + 1 .. n : held[i].masked
  <2> DEFINE K == {k \in low .. h + 1 : k = h + 1 \/ ~held[k + 1].masked}
  <2>1. h + 1 \in K /\ K \subseteq Nat
    BY <1>2, <1>11
  <2>2. PICK k \in K : \A i \in K : k <= i
    <3> HIDE DEF K
    <3>. QED BY <2>1, NatLeast
  <2>3. ASSUME NEW i \in low + 1 .. k
        PROVE  held[i].masked
    <3>1. i - 1 \in low .. h + 1 /\ i - 1 < k /\ i - 1 # h + 1 /\ i - 1 + 1 = i
      BY <1>2, <1>11, <2>2
    <3>2. i - 1 \notin K
      <4>1. i - 1 \in Nat /\ k \in Nat /\ ~(k <= i - 1)
        BY <1>2, <1>11, <3>1
      <4> HIDE DEF K
      <4>. QED BY <2>2, <4>1
    <3>. QED BY <3>1, <3>2
  <2>4. k \in low .. Len(held) /\ Goes(k)
    <3>1. k \in low .. Len(held)
      BY <1>7
    <3>2. k < Len(held) => ~held[k + 1].masked
      BY <1>2, <1>7
    <3>. QED BY <2>3, <3>1, <3>2
  <2> HIDE DEF Goes
  <2>5. \E j \in low .. Len(held) : Goes(j)
    BY <2>4
  <2>6. n \in low .. Len(held) /\ Goes(n)
    BY <2>5
  <2>. QED BY <1>7, <2>6 DEF Goes
<1> HIDE DEF n
<1>13. /\ next \in Streams
       /\ next.held = held /\ next.masking = stream.masking /\ next.node = node
       /\ n \in 0 .. Len(next.held)
  <2>1. n \in 0 .. Len(held)
    BY <1>2, <1>7, <1>11, <1>12
  <2>. QED BY <1>2, <1>4, <1>7, <2>1 DEF Streams
<1> DEFINE r == Emit(next, n)
<1> HIDE DEF next
<1>14. /\ r.stream \in Streams
       /\ r.stream.node = node /\ Len(r.stream.held) = h + 1 - n
       /\ Holds(r.stream.held, r.stream.masking, long, a + n)
       /\ r.text \in Seq(Char)
       /\ Given(long, a) \o r.text = Given(long, a + n)
  <2>1. /\ next \in Streams /\ Holds(next.held, next.masking, long, a)
        /\ n \in 0 .. Len(next.held) /\ long \in Seq(Byte)
    BY <1>3, <1>10, <1>13
  <2>2. /\ r.stream \in Streams
        /\ r.stream.node = next.node /\ Len(r.stream.held) = Len(next.held) - n
        /\ Holds(r.stream.held, r.stream.masking, long, a + n)
        /\ r.text \in Seq(Char)
        /\ Given(long, a) \o r.text = Given(long, a + n)
    BY <2>1, EmitGoesOn
  <2> HIDE DEF r
  <2>3. Len(next.held) = h + 1 /\ next.node = node
    BY <1>7, <1>13
  <2>4. h \in Nat /\ n \in Nat /\ a \in Nat
    BY <1>2, <1>11, <1>12
  <2>. QED BY <2>2, <2>3, <2>4
<1> HIDE DEF r
<1>15. Given(long, a) = Given(text, a)
  <2>1. a \in 0 .. Len(text)
    BY <1>2 DEF m
  <2>. QED BY <1>9, <2>1, GivenStays DEF long
<1>16. Len(long) - Len(r.stream.held) = a + n /\ Len(r.stream.held) <= Len(long)
  <2> DEFINE u == Len(r.stream.held)
             v == Len(long)
  <2>1. n \in Nat /\ n <= h + 1
    BY <1>2, <1>11, <1>12
  <2>2. v = m + 1 /\ u = h + 1 - n /\ m \in Nat /\ h \in Nat /\ a \in Nat /\ a + h = m
    BY <1>2, <1>3, <1>14
  <2> HIDE DEF u, v
  <2>3. v - u = a + n /\ u <= v
    BY <2>1, <2>2
  <2>. QED BY <2>3 DEF u, v
<1>17. ASSUME NEW i \in 1 .. a + n
       PROVE  InSecret(long, i) \/ i <= m + 1 - e
  <2>1. n \in Nat /\ n <= h + 1
    BY <1>2, <1>11, <1>12
  <2>2. CASE i <= a
    <3>1. i \in 1 .. a
      BY <1>2, <2>1, <2>2
    <3>2. CASE InSecret(text, i)
      BY <1>9, <3>1, <3>2
    <3>3. CASE i <= m - d
      BY <1>2, <1>4, <3>3
    <3>. QED BY <1>2, <3>1, <3>2, <3>3
  <2>3. CASE i > a
    <3> DEFINE j == i - a
    <3>1. j \in 1 .. n /\ j \in 1 .. h + 1 /\ a + j = i
      <4>1. i \in Nat /\ i <= a + n
        BY <1>2, <2>1
      <4>2. j \in Nat /\ 1 <= j /\ j <= n /\ a + j = i
        BY <1>2, <2>1, <2>3, <4>1
      <4>. QED BY <1>2, <2>1, <4>2
    <3> HIDE DEF j
    <3>2. CASE j <= low
      BY <1>2, <1>4, <1>11, <3>1, <3>2
    <3>3. CASE j > low
      <4>1. j \in low + 1 .. n
        BY <1>11, <3>1, <3>3
      <4>2. held[j].masked
        BY <1>12, <4>1
      <4>3. j \in 1 .. Len(held)
        BY <1>7, <3>1
      <4>. QED BY <1>10, <3>1, <4>2, <4>3 DEF Holds
    <3>. QED BY <1>11, <3>1, <3>2, <3>3
  <2>. QED BY <1>2, <2>2, <2>3
<1>18. Tracks(r.stream, long)
  <2> DEFINE s == r.stream
  <2>1. /\ s \in Streams /\ s.node = node /\ Holds(s.held, s.masking, long, a + n)
        /\ Len(long) - Len(s.held) = a + n /\ Len(s.held) <= Len(long) /\ Len(long) = m + 1
    BY <1>3, <1>14, <1>16
  <2> HIDE DEF s
  <2>2. ASSUME NEW i \in 1 .. Len(long) - Len(s.held)
        PROVE  InSecret(long, i) \/ i <= Len(long) - Len(s.node)
    <3>1. Len(s.node) = e /\ 1 .. Len(long) - Len(s.held) = 1 .. a + n /\ Len(long) = m + 1
      BY <2>1 DEF e
    <3>2. m \in Nat /\ e \in Nat
      BY <1>2, <1>4
    <3>3. InSecret(long, i) \/ i <= m + 1 - e
      BY <1>17, <3>1
    <3>. QED BY <3>1, <3>2, <3>3
  <2>3. Tracks(s, long)
    BY <1>4, <2>1, <2>2 DEF Tracks
  <2>. QED BY <2>3 DEF s
<1>19. GivenOut(stream, text) \o r.text = GivenOut(r.stream, long)
  BY <1>14, <1>15, <1>16 DEF GivenOut, a, h, m
<1>. QED BY <1>1, <1>14, <1>18, <1>19 DEF r, long

\* AppendBytes gives out what the longer text is known to give.
LEMMA AppendBytesKeeps ==
  ASSUME NEW text \in Seq(Byte), NEW stream, Tracks(stream, text), NEW bytes \in Seq(Byte)
  PROVE  LET r == AppendBytes(stream, bytes)
         IN  /\ Tracks(r.stream, text \o bytes)
             /\ r.text \in Seq(Char)
             /\ GivenOut(stream, text) \o r.text = GivenOut(r.stream, text \o bytes)
<1> DEFINE base == [stream |-> stream, text |-> <<>>]
           Good(q) == LET r == Folded("masked", base, q)
                      IN  /\ Tracks(r.stream, text \o q)
                          /\ r.text \in Seq(Char)
                          /\ GivenOut(stream, text) \o r.text = GivenOut(r.stream, text \o q)
           S == {k \in Nat : \A q \in Seq(Byte) : Len(q) = k => Good(q)}
<1>0. GivenOut(stream, text) \in Seq(Char)
  <2>1. Len(text) - Len(stream.held) \in 0 .. Len(text)
    BY DEF Tracks, Streams
  <2>. QED BY <2>1, GivenType DEF GivenOut
<1>1. 0 \in S
  <2>1. ASSUME NEW q \in Seq(Byte), Len(q) = 0
        PROVE  Good(q)
    <3>1. q = <<>> /\ text \o q = text
      BY <2>1
    <3>2. Folded("masked", base, q) = base
      BY <3>1, FoldEmpty
    <3>3. base.stream = stream /\ base.text = <<>>
      OBVIOUS
    <3> HIDE DEF base
    <3>4. GivenOut(stream, text) \o <<>> = GivenOut(stream, text) /\ <<>> \in Seq(Char)
      BY <1>0
    <3>. QED BY <3>1, <3>2, <3>3, <3>4
  <2> HIDE DEF Good
  <2>. QED BY <2>1
<1>2. ASSUME NEW k \in Nat, k \in S
      PROVE  k + 1 \in S
  <2>1. ASSUME NEW q \in Seq(Byte), Len(q) = k + 1
        PROVE  Good(q)
    <3> DEFINE p == SubSeq(q, 1, k)
               b == q[k + 1]
    <3>1. p \in Seq(Byte) /\ Len(p) = k /\ b \in Byte /\ q = Append(p, b)
      BY <2>1
    <3> HIDE DEF p, b
    <3>2. Good(p)
      <4> HIDE DEF Good
      <4>. QED BY <1>2, <3>1
    <3> HIDE DEF base
    <3> DEFINE r == Folded("masked", base, p)
               n == AppendByte(r.stream, b)
               t == text \o p
               g == GivenOut(stream, text)
    <3>3. Tracks(r.stream, t) /\ r.text \in Seq(Char) /\ g \o r.text = GivenOut(r.stream, t)
      BY <3>2
    <3>4. Folded("masked", base, q) = [stream |-> n.stream, text |-> r.text \o n.text]
      <4>1. Folded("masked", base, q) = FoldStep("masked", r, b)
        BY <3>1, FoldAppend
      <4> HIDE DEF r
      <4>. QED BY <4>1 DEF FoldStep
    <3>5. t \in Seq(Byte) /\ text \o q = Append(t, b)
      BY <3>1
    <3> HIDE DEF r, t, n, g
    <3>6. /\ Tracks(n.stream, Append(t, b)) /\ n.text \in Seq(Char)
          /\ GivenOut(r.stream, t) \o n.text = GivenOut(n.stream, Append(t, b))
      BY <3>1, <3>3, <3>5, AppendByteKeeps DEF n
    <3> DEFINE u == r.text
               v == n.text
    <3>7. g \in Seq(Char) /\ u \in Seq(Char) /\ v \in Seq(Char)
      BY <1>0, <3>3, <3>6 DEF g
    <3>8. (g \o u) \o v = g \o (u \o v) /\ u \o v \in Seq(Char)
      <4> HIDE DEF u, v
      <4>. QED BY <3>7
    <3> DEFINE w == Folded("masked", base, q)
    <3>9. w.stream = n.stream /\ w.text = u \o v
      <4> HIDE DEF u, v, w
      <4>1. w = [stream |-> n.stream, text |-> u \o v]
        BY <3>4 DEF u, v, w
      <4>. QED BY <4>1
    <3> HIDE DEF w, u, v
    <3>10. Tracks(w.stream, text \o q) /\ w.text \in Seq(Char)
      BY <3>5, <3>6, <3>8, <3>9
    <3>11. g \o w.text = GivenOut(w.stream, text \o q)
      BY <3>3, <3>5, <3>6, <3>8, <3>9 DEF u, v
    <3>. QED BY <3>10, <3>11 DEF g, w
  <2> HIDE DEF Good
  <2>. QED BY <2>1
<1> HIDE DEF S
<1>3. \A k \in Nat : k \in S
  BY <1>1, <1>2, NatSet
<1>4. Good(bytes)
  <2> HIDE DEF Good
  <2>. QED BY <1>3 DEF S
<1>. QED BY <1>4, AppendBytesFolds

\* The ansi filter, byte by byte: its state and what it lets through.
Strip(bytes) == Folded("stripped", [state |-> "text", text |-> <<>>], bytes)

\* No bytes leave the filter in its first state.
LEMMA StripEmpty == Strip(<<>>) = [state |-> "text", text |-> <<>>]
BY FoldEmpty DEF Strip

\* The filter takes one byte more.
LEMMA StripAppend ==
  ASSUME NEW bytes \in Seq(Bytes), NEW b \in Bytes
  PROVE  /\ Strip(Append(bytes, b)).state = AnsiState(Strip(bytes).state, b)
         /\ Strip(Append(bytes, b)).text = Strip(bytes).text \o AnsiText(Strip(bytes).state, b)
<1> DEFINE r == Strip(bytes)
<1>1. Strip(Append(bytes, b)) = FoldStep("stripped", r, b)
  BY FoldAppend DEF Strip
<1> HIDE DEF r
<1>2. FoldStep("stripped", r, b)
        = [state |-> AnsiState(r.state, b), text |-> r.text \o AnsiText(r.state, b)]
  BY DEF FoldStep
<1> DEFINE l == Strip(Append(bytes, b))
<1>3. l.state = AnsiState(r.state, b) /\ l.text = r.text \o AnsiText(r.state, b)
  <2>1. l = [state |-> AnsiState(r.state, b), text |-> r.text \o AnsiText(r.state, b)]
    BY <1>1, <1>2
  <2> HIDE DEF l
  <2>. QED BY <2>1
<1>. QED BY <1>3 DEF r

\* What a byte lets through is bytes.
LEMMA AnsiTextType ==
  ASSUME NEW state \in AnsiStates, NEW b \in Bytes
  PROVE  AnsiText(state, b) \in Seq(Byte) /\ AnsiState(state, b) \in AnsiStates
<1>1. b \in Byte /\ "ESC" \in Byte
  BY DEF Byte
<1>2. <<>> \in Seq(Byte) /\ <<b>> \in Seq(Byte) /\ <<"ESC", b>> \in Seq(Byte)
  BY <1>1
<1>3. AnsiText(state, b) \in {<<>>, <<b>>, <<"ESC", b>>}
  BY DEF AnsiText, AnsiStates
<1>4. AnsiState(state, b) \in AnsiStates
  BY DEF AnsiState, AnsiStates
<1>. QED BY <1>2, <1>3, <1>4

\* What the stream gave out and what Final gives are the mask of the text.
LEMMA FinalGives ==
  ASSUME NEW text \in Seq(Byte), NEW stream, Tracks(stream, text)
  PROVE  /\ GivenOut(stream, text) \in Seq(Char) /\ Final(stream) \in Seq(Char)
         /\ GivenOut(stream, text) \o Final(stream) = Masked(text)
<1> DEFINE a == Len(text) - Len(stream.held)
           n == Len(stream.held)
           r == Emit(stream, n)
<1>1. /\ n \in Nat /\ a \in 0 .. Len(text) /\ a + n = Len(text) /\ stream \in Streams
      /\ Holds(stream.held, stream.masking, text, a) /\ n \in 0 .. Len(stream.held)
  BY DEF Tracks, Streams
<1>2. r.text \in Seq(Char) /\ Given(text, a) \o r.text = Given(text, a + n)
  <2> HIDE DEF a, n
  <2>1. /\ stream \in Streams /\ Holds(stream.held, stream.masking, text, a)
        /\ n \in 0 .. Len(stream.held)
    BY <1>1
  <2>. QED BY <2>1, EmitGoesOn
<1>3. Given(text, a) \in Seq(Char)
  BY <1>1, GivenType
<1>4. Masked(text) = Given(text, Len(text))
  BY DEF Masked, Given, Piece
<1>. QED BY <1>1, <1>2, <1>3, <1>4 DEF Final, GivenOut

\* A sequence begins with its first part.
LEMMA PrefixOfConcat ==
  ASSUME NEW E, NEW s \in Seq(E), NEW t \in Seq(E)
  PROVE  IsPrefix(s, s \o t)
<1>1. /\ Len(s) \in Nat /\ Len(t) \in Nat /\ Len(s \o t) = Len(s) + Len(t) /\ s \o t \in Seq(E)
      /\ \A i \in 1 .. Len(s) : (s \o t)[i] = s[i]
  OBVIOUS
<1> DEFINE u == s \o t
<1>2. Len(s) \in 0 .. Len(u) /\ Len(s) <= Len(u)
  BY <1>1
<1> HIDE DEF u
<1>3. /\ SubSeq(u, 1, Len(s)) \in Seq(E) /\ Len(SubSeq(u, 1, Len(s))) = Len(s)
      /\ \A i \in 1 .. Len(s) : SubSeq(u, 1, Len(s))[i] = u[i]
  BY <1>1, <1>2, Cut DEF u
<1>4. SubSeq(u, 1, Len(s)) = s /\ SubSeq(s, 1, Len(s)) = s
  <2>1. \A i \in 1 .. Len(s) : SubSeq(u, 1, Len(s))[i] = s[i]
    BY <1>1, <1>3 DEF u
  <2>2. SubSeq(u, 1, Len(s)) = s
    BY <1>3, <2>1, SeqEqual
  <2>. QED BY <2>2
<1>. QED BY <1>2, <1>4 DEF IsPrefix, u

----------------------------------------------------------------------------
(* The stream and the writer: nothing but the mask of the output.          *)

\* While the writer is open, its filters are at the end of what was written
\* and gave out what they may; when it closes, the rest.
MaskInv ==
  /\ written \in Seq(Bytes)
  /\ phase \in {"open", "flushing", "closed"}
  /\ phase = "open" =>
       /\ ansi = Strip(written).state /\ ansi \in AnsiStates
       /\ Strip(written).text \in Seq(Byte)
       /\ Tracks(redactor, Strip(written).text)
       /\ emitted = GivenOut(redactor, Strip(written).text)
  /\ phase # "open" => emitted = Masked(Strip(written).text)

\* A new writer has given out nothing.
LEMMA MaskInvInit == LogInit => MaskInv
<1> SUFFICES ASSUME LogInit PROVE MaskInv
  OBVIOUS
<1>1. /\ written = <<>> /\ emitted = <<>> /\ ansi = "text" /\ redactor = NewStream
      /\ phase = "open" /\ <<>> \in Seq(Byte) /\ <<>> \in Seq(Bytes) /\ Len(<<>>) = 0
  BY DEF LogInit
<1>2. Strip(written).state = "text" /\ Strip(written).text = <<>>
  BY <1>1, StripEmpty
<1>3. /\ redactor.node = <<>> /\ redactor.held = <<>> /\ redactor.masking = FALSE
      /\ redactor \in Streams
  BY <1>1, NodesAre DEF NewStream, Streams
<1>4. Reached(<<>>, <<>>)
  BY NodesAre DEF Reached, Ends
<1>5. Holds(<<>>, FALSE, <<>>, 0)
  BY DEF Holds
<1>6. Tracks(redactor, <<>>)
  <2>1. Len(<<>>) - Len(redactor.held) = 0 /\ Len(redactor.held) <= Len(<<>>)
    BY <1>1, <1>3
  <2>2. Reached(redactor.node, <<>>) /\ Holds(redactor.held, redactor.masking, <<>>, 0)
    BY <1>3, <1>4, <1>5
  <2>3. \A i \in 1 .. 0 : FALSE
    OBVIOUS
  <2>. QED BY <1>3, <2>1, <2>2, <2>3 DEF Tracks
<1>7. GivenOut(redactor, <<>>) = <<>>
  <2>1. Given(<<>>, 0) = FlattenSeq([i \in 1 .. 0 |-> Piece(<<>>, i)])
    BY DEF Given
  <2>2. [i \in 1 .. 0 |-> Piece(<<>>, i)] = <<>>
    OBVIOUS
  <2>3. FlattenSeq(<<>>) = <<>>
    BY DEF FlattenSeq
  <2>. QED BY <1>3, <2>1, <2>2, <2>3 DEF GivenOut
<1>. QED BY <1>1, <1>2, <1>6, <1>7 DEF MaskInv, AnsiStates

\* Every step of the writer keeps what is given out masked.
LEMMA MaskInvStep == MaskInv /\ [LogNext]_logVars => MaskInv'
<1> SUFFICES ASSUME MaskInv, [LogNext]_logVars PROVE MaskInv'
  OBVIOUS
<1>1. ASSUME NEW w \in Writers, NEW b \in Bytes, Write(w, b)
      PROVE  MaskInv'
  <2> DEFINE s == Strip(written)
             t == AnsiText(ansi, b)
             out == AppendBytes(redactor, t)
  <2>1. /\ phase = "open" /\ phase' = phase /\ written' = Append(written, b)
        /\ ansi' = AnsiState(ansi, b) /\ redactor' = out.stream /\ emitted' = emitted \o out.text
    BY <1>1 DEF Write
  <2>2. /\ written \in Seq(Bytes) /\ ansi = s.state /\ ansi \in AnsiStates /\ s.text \in Seq(Byte)
        /\ Tracks(redactor, s.text) /\ emitted = GivenOut(redactor, s.text)
    BY <2>1 DEF MaskInv
  <2>3. t \in Seq(Byte) /\ ansi' \in AnsiStates
    BY <2>1, <2>2, AnsiTextType
  <2>4. Strip(written').state = ansi' /\ Strip(written').text = s.text \o t
    BY <2>1, <2>2, StripAppend
  <2> HIDE DEF s, t
  <2>5. /\ Tracks(out.stream, s.text \o t)
        /\ GivenOut(redactor, s.text) \o out.text = GivenOut(out.stream, s.text \o t)
    BY <2>2, <2>3, AppendBytesKeeps
  <2> HIDE DEF out
  <2>6. s.text \o t \in Seq(Byte)
    <3> DEFINE u == s.text
    <3>1. u \in Seq(Byte)
      BY <2>2
    <3> HIDE DEF u
    <3>2. u \o t \in Seq(Byte)
      BY <2>3, <3>1
    <3>. QED BY <3>2 DEF u
  <2>7. written' \in Seq(Bytes)
    BY <2>1, <2>2
  <2>. QED BY <2>1, <2>2, <2>3, <2>4, <2>5, <2>6, <2>7 DEF MaskInv
<1>2. ASSUME Close
      PROVE  MaskInv'
  <2> DEFINE t == Strip(written).text
  <2>1. /\ phase = "open" /\ phase' \in {"flushing", "closed"} /\ written' = written
        /\ emitted' = emitted \o Final(redactor)
    BY <1>2 DEF Close
  <2>2. written \in Seq(Bytes) /\ t \in Seq(Byte) /\ Tracks(redactor, t)
        /\ emitted = GivenOut(redactor, t)
    BY <2>1 DEF MaskInv
  <2>3. emitted' = Masked(t)
    <3> HIDE DEF t
    <3>. QED BY <2>1, <2>2, FinalGives
  <2>. QED BY <2>1, <2>2, <2>3 DEF MaskInv
<1>3. ASSUME UNCHANGED <<written, emitted, ansi, redactor>>,
             phase' = phase \/ (phase # "open" /\ phase' \in {"flushing", "closed"})
      PROVE  MaskInv'
  BY <1>3 DEF MaskInv
<1>4. CASE \E w \in Writers : Wake(w) \/ GiveUp(w)
  BY <1>3, <1>4 DEF Wake, GiveUp
<1>5. CASE Flush
  BY <1>3, <1>5 DEF Flush
<1>6. CASE FlushStored
  <2>1. phase' = phase \/ (phase # "open" /\ phase' \in {"flushing", "closed"})
    BY <1>6 DEF FlushStored
  <2>. QED BY <1>3, <1>6, <2>1 DEF FlushStored
<1>7. CASE FlushFails
  <2>1. phase' = phase \/ (phase # "open" /\ phase' \in {"flushing", "closed"})
    BY <1>7 DEF FlushFails
  <2>. QED BY <1>3, <1>7, <2>1 DEF FlushFails
<1>8. CASE \E a \in late : LateCommit(a)
  BY <1>3, <1>8 DEF LateCommit
<1>9. CASE CloseTimeout \/ RunLost
  BY <1>3, <1>9 DEF CloseTimeout, RunLost
<1>10. CASE UNCHANGED logVars
  BY <1>3, <1>10 DEF logVars
<1>. QED BY <1>1, <1>2, <1>4, <1>5, <1>6, <1>7, <1>8, <1>9, <1>10 DEF LogNext

\* Every secret in a step's output is masked before it is stored, however
\* docker's writes cut it and whatever escapes are inside it (redact.Stream,
\* ansiStripper, logWriter.Write and Close): for all secrets, bytes and writes.
THEOREM MaskedAlways == LogSpec => []SecretsMasked
<1>1. MaskInv => SecretsMasked
  <2> SUFFICES ASSUME MaskInv PROVE SecretsMasked
    OBVIOUS
  <2> DEFINE t == Strip(written).text
  <2>1. Stripped(written) = t
    BY StrippedFolds DEF Strip
  <2>2. CASE phase = "open"
    <3>1. t \in Seq(Byte) /\ Tracks(redactor, t) /\ emitted = GivenOut(redactor, t)
      BY <2>2 DEF MaskInv
    <3> HIDE DEF t
    <3>2. /\ emitted \in Seq(Char) /\ Final(redactor) \in Seq(Char)
          /\ emitted \o Final(redactor) = Masked(t)
      BY <3>1, FinalGives
    <3>3. IsPrefix(emitted, Masked(t))
      BY <3>2, PrefixOfConcat
    <3>. QED BY <2>1, <2>2, <3>3 DEF SecretsMasked
  <2>3. CASE phase # "open"
    <3>1. emitted = Masked(t)
      BY <2>3 DEF MaskInv
    <3> HIDE DEF t
    <3>2. IsPrefix(emitted, emitted)
      BY DEF IsPrefix
    <3>. QED BY <2>1, <2>3, <3>1, <3>2 DEF SecretsMasked
  <2>. QED BY <2>2, <2>3
<1>. QED BY MaskInvInit, MaskInvStep, <1>1, PTL DEF LogSpec

----------------------------------------------------------------------------
(* What waits for room, over all writers.                                  *)

\* One step of the sum, and the function it is computed with.
Waiting(bl) == FoldFunction(LAMBDA t, n : Len(t) + n, 0, bl)
WaitAt(f, bl, u) ==
  IF u = {} THEN 0 ELSE LET w == CHOOSE x \in u : TRUE IN Len(bl[w]) + f[u \ {w}]
Sums(f, bl) == f = [u \in SUBSET Writers |-> WaitAt(f, bl, u)]

\* The pieces that wait, one for each writer.
Waiters == [Writers -> Seq(Char)]

\* What waits is computed with such a function.
LEMMA WaitingIs ==
  ASSUME NEW bl \in Waiters
  PROVE  Waiting(bl) = (CHOOSE f : Sums(f, bl))[Writers]
<1>1. DOMAIN bl = Writers
  BY DEF Waiters
<1>. QED BY <1>1 DEF Waiting, FoldFunction, FoldFunctionOnSet, MapThenFoldSet, Sums, WaitAt

\* What such a function is at a set of writers.
LEMMA SumsAt ==
  ASSUME NEW f, NEW bl, Sums(f, bl), NEW u \in SUBSET Writers
  PROVE  f[u] = WaitAt(f, bl, u)
BY DEF Sums

\* Sets of writers are finite, and taking one out leaves one less.
LEMMA WriterSets ==
  ASSUME NEW u \in SUBSET Writers
  PROVE  /\ IsFiniteSet(u) /\ Cardinality(u) \in Nat
         /\ Cardinality(u) = 0 <=> u = {}
         /\ \A w \in u : u \ {w} \in SUBSET Writers /\ Cardinality(u \ {w}) = Cardinality(u) - 1
<1>1. IsFiniteSet(u)
  BY StepLogConstantsOK, FS_Subset
<1>2. Cardinality(u) \in Nat /\ (Cardinality(u) = 0 <=> u = {})
  BY <1>1, FS_CardinalityType, FS_EmptySet
<1>3. \A w \in u : u \ {w} \in SUBSET Writers /\ Cardinality(u \ {w}) = Cardinality(u) - 1
  BY <1>1, FS_RemoveElement
<1>. QED BY <1>1, <1>2, <1>3

\* The function what waits is computed with exists.
LEMMA SumFcn ==
  ASSUME NEW bl
  PROVE  \E f : Sums(f, bl)
<1> DEFINE Upto(f, k) == \A u \in SUBSET Writers : Cardinality(u) <= k => f[u] = WaitAt(f, bl, u)
           S == {k \in Nat : \E f : Upto(f, k)}
<1>1. 0 \in S
  <2>1. Upto([u \in SUBSET Writers |-> 0], 0)
    <3> TAKE u \in SUBSET Writers
    <3>1. Cardinality(u) <= 0 => u = {}
      BY WriterSets
    <3>. QED BY <3>1 DEF WaitAt
  <2>. QED BY <2>1
<1>2. ASSUME NEW k \in Nat, k \in S
      PROVE  k + 1 \in S
  <2>1. PICK f : Upto(f, k)
    BY <1>2
  <2> DEFINE g == [u \in SUBSET Writers |-> WaitAt(f, bl, u)]
  <2>2. ASSUME NEW u \in SUBSET Writers, Cardinality(u) <= k
        PROVE  g[u] = f[u]
    BY <2>1, <2>2
  <2>3. ASSUME NEW u \in SUBSET Writers, Cardinality(u) <= k + 1
        PROVE  WaitAt(f, bl, u) = WaitAt(g, bl, u)
    <3>1. CASE u = {}
      BY <3>1 DEF WaitAt
    <3>2. CASE u # {}
      <4> DEFINE w == CHOOSE x \in u : TRUE
      <4>1. w \in u
        BY <3>2
      <4> HIDE DEF w
      <4>2. u \ {w} \in SUBSET Writers /\ Cardinality(u \ {w}) <= k
        BY <2>3, <4>1, WriterSets
      <4>3. f[u \ {w}] = g[u \ {w}]
        <5> HIDE DEF g
        <5>. QED BY <2>2, <4>2
      <4> HIDE DEF g
      <4>. QED BY <3>2, <4>3 DEF WaitAt, w
    <3>. QED BY <3>1, <3>2
  <2>4. Upto(g, k + 1)
    <3> TAKE u \in SUBSET Writers
    <3>1. g[u] = WaitAt(f, bl, u)
      OBVIOUS
    <3> HIDE DEF g
    <3>. QED BY <2>3, <3>1
  <2> HIDE DEF g
  <2>. QED BY <2>4
<1> HIDE DEF S
<1>3. \A k \in Nat : k \in S
  BY <1>1, <1>2, NatSet
<1>4. PICK f : Upto(f, Cardinality(Writers))
  <2>1. Cardinality(Writers) \in Nat
    BY WriterSets
  <2>. QED BY <1>3, <2>1 DEF S
<1>5. \A u \in SUBSET Writers : Cardinality(u) <= Cardinality(Writers)
  BY StepLogConstantsOK, FS_Subset
<1> DEFINE g == [u \in SUBSET Writers |-> f[u]]
<1>6. ASSUME NEW u \in SUBSET Writers
      PROVE  g[u] = WaitAt(g, bl, u)
  <2>1. g[u] = WaitAt(f, bl, u)
    BY <1>4, <1>5
  <2>2. CASE u = {}
    BY <2>1, <2>2 DEF WaitAt
  <2>3. CASE u # {}
    <3> DEFINE w == CHOOSE x \in u : TRUE
    <3>1. w \in u
      BY <2>3
    <3> HIDE DEF w
    <3>2. f[u \ {w}] = g[u \ {w}]
      BY <3>1
    <3> HIDE DEF g
    <3>. QED BY <2>1, <2>3, <3>2 DEF WaitAt, w
  <2>. QED BY <2>2, <2>3
<1>7. Sums(g, bl)
  <2>1. g = [u \in SUBSET Writers |-> g[u]]
    OBVIOUS
  <2> HIDE DEF g
  <2>. QED BY <1>6, <2>1 DEF Sums
<1>. QED BY <1>7

\* The sum is a number, whichever writer is taken out first.
Takes(f, bl, u) == f[u] \in Nat /\ \A w \in u : f[u] = Len(bl[w]) + f[u \ {w}]

\* The sum over a set of writers is that of any one of them and the rest.
LEMMA SumTakes ==
  ASSUME NEW bl \in Waiters, NEW f, Sums(f, bl), NEW set \in SUBSET Writers
  PROVE  Takes(f, bl, set)
<1> DEFINE Good(u) == f[u] \in Nat /\ \A w \in u : f[u] = Len(bl[w]) + f[u \ {w}]
           S == {k \in Nat : \A u \in SUBSET Writers : Cardinality(u) <= k => Good(u)}
<1>0. \A w \in Writers : Len(bl[w]) \in Nat
  <2>1. \A w \in Writers : bl[w] \in Seq(Char)
    BY DEF Waiters
  <2>. QED BY <2>1
<1>1. 0 \in S
  <2>1. ASSUME NEW u \in SUBSET Writers, Cardinality(u) <= 0
        PROVE  Good(u)
    <3>1. u = {}
      BY <2>1, WriterSets
    <3>2. f[u] = WaitAt(f, bl, u)
      BY SumsAt
    <3>3. f[u] = 0
      BY <3>1, <3>2 DEF WaitAt
    <3>. QED BY <3>1, <3>3
  <2> HIDE DEF Good
  <2>. QED BY <2>1
<1>2. ASSUME NEW k \in Nat, k \in S
      PROVE  k + 1 \in S
  <2>1. \A u \in SUBSET Writers : Cardinality(u) <= k => Good(u)
    BY <1>2
  <2>2. ASSUME NEW u \in SUBSET Writers, Cardinality(u) <= k + 1
        PROVE  Good(u)
    <3>1. CASE u = {}
      <4>1. Cardinality(u) <= k
        BY <3>1, FS_EmptySet
      <4> HIDE DEF Good
      <4>. QED BY <2>1, <4>1
    <3>2. CASE u # {}
      <4> DEFINE c == CHOOSE x \in u : TRUE
      <4>1. c \in u
        BY <3>2
      <4>2. f[u] = Len(bl[c]) + f[u \ {c}]
        BY <3>2, SumsAt DEF WaitAt
      <4> HIDE DEF c
      <4>3. ASSUME NEW w \in u
            PROVE  u \ {w} \in SUBSET Writers /\ Good(u \ {w})
        <5>1. u \ {w} \in SUBSET Writers /\ Cardinality(u \ {w}) <= k
          BY <2>2, WriterSets
        <5> HIDE DEF Good
        <5>. QED BY <2>1, <5>1
      <4>4. f[u] \in Nat
        <5>1. f[u \ {c}] \in Nat /\ Len(bl[c]) \in Nat
          BY <1>0, <4>1, <4>3
        <5>. QED BY <4>2, <5>1
      <4>5. ASSUME NEW w \in u
            PROVE  f[u] = Len(bl[w]) + f[u \ {w}]
        <5>1. CASE w = c
          BY <4>2, <5>1
        <5>2. CASE w # c
          <6> DEFINE v == (u \ {c}) \ {w}
          <6>1. f[u \ {c}] = Len(bl[w]) + f[v]
            BY <4>1, <4>3, <5>2
          <6>2. f[u \ {w}] = Len(bl[c]) + f[v]
            <7>1. c \in u \ {w} /\ (u \ {w}) \ {c} = v
              BY <4>1, <5>2
            <7>2. Good(u \ {w})
              BY <4>3
            <7> HIDE DEF v
            <7>. QED BY <7>1, <7>2
          <6>3. f[v] \in Nat
            <7>1. v \in SUBSET Writers /\ Cardinality(v) <= k
              <8>1. u \ {c} \in SUBSET Writers /\ Cardinality(u \ {c}) = Cardinality(u) - 1
                    /\ Cardinality(u) \in Nat /\ w \in u \ {c}
                BY <4>1, <5>2, WriterSets
              <8>2. v \in SUBSET Writers /\ Cardinality(v) = Cardinality(u \ {c}) - 1
                BY <8>1, WriterSets
              <8>. QED BY <2>2, <8>1, <8>2
            <7> HIDE DEF v
            <7>. QED BY <2>1, <7>1
          <6> HIDE DEF v
          <6>. QED BY <1>0, <4>1, <4>2, <6>1, <6>2, <6>3
        <5>. QED BY <5>1, <5>2
      <4>. QED BY <4>4, <4>5
    <3>. QED BY <3>1, <3>2
  <2> HIDE DEF Good
  <2>. QED BY <2>2
<1> HIDE DEF S
<1>3. \A k \in Nat : k \in S
  BY <1>1, <1>2, NatSet
<1>4. ASSUME NEW u \in SUBSET Writers
      PROVE  Good(u)
  <2>1. Cardinality(u) \in Nat /\ Cardinality(u) <= Cardinality(u)
    BY WriterSets
  <2>2. Cardinality(u) \in S
    BY <1>3, <2>1
  <2> HIDE DEF Good
  <2>. QED BY <2>1, <2>2 DEF S
<1>. QED BY <1>4 DEF Takes

\* Writers that have the same pieces have the same sum.
LEMMA SumSame ==
  ASSUME NEW bl \in Waiters, NEW nl \in Waiters, NEW f, Sums(f, bl), NEW g, Sums(g, nl),
         NEW w \in Writers, \A v \in Writers : v # w => nl[v] = bl[v]
  PROVE  \A u \in SUBSET Writers : w \notin u => g[u] = f[u]
<1> DEFINE S == {k \in Nat : \A u \in SUBSET Writers :
                   Cardinality(u) <= k /\ w \notin u => g[u] = f[u]}
<1>1. 0 \in S
  <2>1. ASSUME NEW u \in SUBSET Writers, Cardinality(u) <= 0
        PROVE  g[u] = f[u]
    <3>1. u = {}
      BY <2>1, WriterSets
    <3>. QED BY <3>1, SumsAt DEF WaitAt
  <2>. QED BY <2>1
<1>2. ASSUME NEW k \in Nat, k \in S
      PROVE  k + 1 \in S
  <2>1. ASSUME NEW u \in SUBSET Writers, Cardinality(u) <= k + 1, w \notin u
        PROVE  g[u] = f[u]
    <3>1. CASE u = {}
      BY <3>1, SumsAt DEF WaitAt
    <3>2. CASE u # {}
      <4>1. PICK x \in u : TRUE
        BY <3>2
      <4>2. u \ {x} \in SUBSET Writers /\ Cardinality(u \ {x}) <= k /\ w \notin u \ {x}
        BY <2>1, WriterSets
      <4>3. g[u \ {x}] = f[u \ {x}] /\ nl[x] = bl[x]
        BY <1>2, <2>1, <4>2
      <4>4. f[u] = Len(bl[x]) + f[u \ {x}] /\ g[u] = Len(nl[x]) + g[u \ {x}]
        <5>1. Takes(f, bl, u) /\ Takes(g, nl, u)
          BY SumTakes
        <5>. QED BY <5>1 DEF Takes
      <4>. QED BY <4>3, <4>4
    <3>. QED BY <3>1, <3>2
  <2>. QED BY <2>1
<1> HIDE DEF S
<1>3. \A k \in Nat : k \in S
  BY <1>1, <1>2, NatSet
<1>4. ASSUME NEW u \in SUBSET Writers, w \notin u
      PROVE  g[u] = f[u]
  <2>1. Cardinality(u) \in Nat /\ Cardinality(u) <= Cardinality(u)
    BY WriterSets
  <2>2. Cardinality(u) \in S
    BY <1>3, <2>1
  <2>. QED BY <1>4, <2>1, <2>2 DEF S
<1>. QED BY <1>4

\* What waits is such a sum: a number, 0 if nothing waits, and it follows each
\* writer's piece.
LEMMA WaitingSums ==
  ASSUME NEW bl \in Waiters
  PROVE  \E f : Sums(f, bl) /\ Waiting(bl) = f[Writers]
<1> DEFINE f == CHOOSE h : Sums(h, bl)
<1>1. Sums(f, bl)
  BY SumFcn
<1>2. Waiting(bl) = f[Writers]
  BY WaitingIs
<1>. QED BY <1>1, <1>2

\* What waits is a number.
LEMMA WaitingNat ==
  ASSUME NEW bl \in Waiters
  PROVE  Waiting(bl) \in Nat
<1>1. PICK f : Sums(f, bl) /\ Waiting(bl) = f[Writers]
  BY WaitingSums
<1>2. Writers \in SUBSET Writers
  OBVIOUS
<1>3. Takes(f, bl, Writers)
  BY <1>1, <1>2, SumTakes
<1>. QED BY <1>1, <1>3 DEF Takes

\* One writer's piece changes what waits by its length.
LEMMA WaitingChanges ==
  ASSUME NEW bl \in Waiters, NEW w \in Writers, NEW t \in Seq(Char)
  PROVE  /\ [bl EXCEPT ![w] = t] \in Waiters
         /\ Waiting([bl EXCEPT ![w] = t]) = Waiting(bl) - Len(bl[w]) + Len(t)
<1> DEFINE nl == [bl EXCEPT ![w] = t]
<1>1. nl \in Waiters /\ nl[w] = t /\ \A v \in Writers : v # w => nl[v] = bl[v]
  BY DEF Waiters
<1> HIDE DEF nl
<1>2. PICK f : Sums(f, bl) /\ Waiting(bl) = f[Writers]
  BY WaitingSums
<1>3. PICK g : Sums(g, nl) /\ Waiting(nl) = g[Writers]
  BY <1>1, WaitingSums
<1> DEFINE u == Writers \ {w}
<1>4. u \in SUBSET Writers /\ w \notin u
  OBVIOUS
<1>5. f[Writers] = Len(bl[w]) + f[u] /\ g[Writers] = Len(nl[w]) + g[u] /\ f[u] \in Nat
  <2>1. Writers \in SUBSET Writers
    OBVIOUS
  <2>2. Takes(f, bl, Writers) /\ Takes(f, bl, u) /\ Takes(g, nl, Writers)
    <3> HIDE DEF u
    <3>. QED BY <1>1, <1>2, <1>3, <1>4, <2>1, SumTakes
  <2>. QED BY <2>2 DEF Takes
<1>6. g[u] = f[u]
  <2> HIDE DEF u
  <2>. QED BY <1>1, <1>2, <1>3, <1>4, SumSame
<1>7. Len(bl[w]) \in Nat /\ Len(t) \in Nat
  <2>1. bl[w] \in Seq(Char)
    BY DEF Waiters
  <2>. QED BY <2>1
<1>. QED BY <1>1, <1>2, <1>3, <1>5, <1>6, <1>7 DEF nl

\* Nothing waits if no writer waits.
LEMMA WaitingNone ==
  ASSUME NEW bl \in Waiters, \A w \in Writers : bl[w] = <<>>
  PROVE  Waiting(bl) = 0
<1>1. PICK f : Sums(f, bl) /\ Waiting(bl) = f[Writers]
  BY WaitingSums
<1> DEFINE S == {k \in Nat : \A u \in SUBSET Writers : Cardinality(u) <= k => f[u] = 0}
<1>3. 0 \in S
  <2>1. ASSUME NEW u \in SUBSET Writers, Cardinality(u) <= 0
        PROVE  f[u] = 0
    <3>1. u = {}
      BY <2>1, WriterSets
    <3>. QED BY <1>1, <3>1, SumsAt DEF WaitAt
  <2>. QED BY <2>1
<1>4. ASSUME NEW k \in Nat, k \in S
      PROVE  k + 1 \in S
  <2>1. ASSUME NEW u \in SUBSET Writers, Cardinality(u) <= k + 1
        PROVE  f[u] = 0
    <3>1. CASE u = {}
      BY <1>1, <3>1, SumsAt DEF WaitAt
    <3>2. CASE u # {}
      <4>1. PICK x \in u : TRUE
        BY <3>2
      <4>2. u \ {x} \in SUBSET Writers /\ Cardinality(u \ {x}) <= k
        BY <2>1, WriterSets
      <4>3. f[u \ {x}] = 0 /\ Len(bl[x]) = 0
        BY <1>4, <4>2
      <4>4. f[u] = Len(bl[x]) + f[u \ {x}]
        <5>1. Takes(f, bl, u)
          BY <1>1, SumTakes
        <5>. QED BY <5>1 DEF Takes
      <4>. QED BY <4>3, <4>4
    <3>. QED BY <3>1, <3>2
  <2>. QED BY <2>1
<1> HIDE DEF S
<1>5. \A k \in Nat : k \in S
  BY <1>3, <1>4, NatSet
<1>6. Cardinality(Writers) \in Nat
  BY WriterSets
<1>7. f[Writers] = 0
  BY <1>5, <1>6 DEF S
<1>. QED BY <1>1, <1>7

----------------------------------------------------------------------------
(* The stored chunks.                                                      *)

\* How many rows there are, the first k of them, their numbers, and one more.
Count(rows) == Cardinality(DOMAIN rows)
First(rows, k) == [i \in 1 .. k |-> rows[i - 1]]
Numbers(k) == 0 .. k - 1
WithNext(rows, k, c) == [i \in DOMAIN rows \cup {k} |-> IF i = k THEN c ELSE rows[i]]

\* How many numbers there are below k.
LEMMA CountIs ==
  ASSUME NEW k \in Nat
  PROVE  IsFiniteSet(Numbers(k)) /\ Cardinality(Numbers(k)) = k
<1>1. k - 1 \in Int /\ 0 \in Int
  OBVIOUS
<1>2. IsFiniteSet(0 .. k - 1) /\ Cardinality(0 .. k - 1) = IF 0 > k - 1 THEN 0 ELSE k - 1 - 0 + 1
  BY <1>1, FS_Interval
<1>. QED BY <1>2 DEF Numbers

\* The text of one more chunk.
LEMMA TextAppend ==
  ASSUME NEW rows \in Seq(Chunk), NEW c \in Chunk
  PROVE  /\ Text(rows) \in Seq(Char)
         /\ Text(Append(rows, c)) = Text(rows) \o c.text
<1> DEFINE t == [i \in 1 .. Len(rows) |-> rows[i].text]
           u == [i \in 1 .. Len(Append(rows, c)) |-> Append(rows, c)[i].text]
           more == Append(rows, c)
<1>1. Len(rows) \in Nat /\ Len(more) = Len(rows) + 1 /\ more[Len(rows) + 1] = c
      /\ \A i \in 1 .. Len(rows) : more[i] = rows[i] /\ rows[i] \in Chunk
  OBVIOUS
<1>2. \A x \in Chunk : x.text \in Seq(Char)
  BY DEF Chunk, Pieces, Char
<1>3. t \in Seq(Seq(Char)) /\ Len(t) = Len(rows)
  <2>1. \A i \in 1 .. Len(rows) : t[i] \in Seq(Char)
    BY <1>1, <1>2
  <2>. QED BY <1>1, <2>1
<1>4. u = Append(t, c.text)
  <2> HIDE DEF more
  <2>1. u = [i \in 1 .. Len(rows) + 1 |-> more[i].text]
    BY <1>1 DEF more
  <2>2. c.text \in Seq(Char)
    BY <1>2
  <2>3. Append(t, c.text) \in Seq(Seq(Char)) /\ Len(Append(t, c.text)) = Len(rows) + 1
    BY <1>1, <1>3, <2>2
  <2>4. ASSUME NEW i \in 1 .. Len(rows) + 1
        PROVE  u[i] = Append(t, c.text)[i] /\ u[i] \in Seq(Char)
    <3>1. CASE i = Len(rows) + 1
      BY <1>1, <1>3, <2>1, <2>2, <3>1
    <3>2. CASE i # Len(rows) + 1
      <4>1. i \in 1 .. Len(rows)
        BY <1>1, <3>2
      <4>2. u[i] = rows[i].text /\ t[i] = rows[i].text /\ Append(t, c.text)[i] = t[i]
        BY <1>1, <1>3, <2>1, <2>2, <4>1
      <4>. QED BY <1>1, <1>2, <4>1, <4>2
    <3>. QED BY <3>1, <3>2
  <2>5. u \in Seq(Seq(Char)) /\ Len(u) = Len(rows) + 1
    <3> HIDE DEF u
    <3>1. u \in [1 .. Len(rows) + 1 -> Seq(Char)]
      BY <2>1, <2>4
    <3>. QED BY <1>1, <3>1
  <2> HIDE DEF u, t
  <2>. QED BY <2>3, <2>4, <2>5, SeqEqual
<1> HIDE DEF t, u
<1>5. FlattenSeq(u) = FlattenSeq(t) \o c.text /\ FlattenSeq(t) \in Seq(Char)
  BY <1>2, <1>3, <1>4, FlattenAppend, FlattenType
<1>. QED BY <1>5 DEF Text, t, u

\* No chunks have no text.
LEMMA TextNone == Text(<<>>) = <<>>
<1>1. [i \in 1 .. 0 |-> <<>>[i].text] = <<>>
  OBVIOUS
<1>2. Len(<<>>) = 0 /\ FlattenSeq(<<>>) = <<>>
  BY DEF FlattenSeq
<1>. QED BY <1>1, <1>2 DEF Text

\* The notes of one more chunk.
LEMMA NotedAppend ==
  ASSUME NEW rows \in Seq(Chunk), NEW c \in Chunk
  PROVE  Noted(Append(rows, c)) = Noted(rows) + c.noted
<1> DEFINE v == Folded("noted", 0, rows)
<1>1. Folded("noted", 0, Append(rows, c)) = FoldStep("noted", v, c)
  BY FoldAppend
<1> HIDE DEF v
<1>2. FoldStep("noted", v, c) = v + c.noted
  BY DEF FoldStep
<1>. QED BY <1>1, <1>2, NotedFolds DEF v

\* No chunks have no notes.
LEMMA NotedNone == Noted(<<>>) = 0
BY NotedFolds, FoldEmpty

\* What notes count is a number.
LEMMA NotedNat ==
  ASSUME NEW rows \in Seq(Chunk)
  PROVE  Noted(rows) \in Nat
<1> DEFINE S == {k \in Nat : \A s \in Seq(Chunk) : Len(s) <= k => Noted(s) \in Nat}
<1>1. 0 \in S
  <2>1. ASSUME NEW s \in Seq(Chunk), Len(s) <= 0
        PROVE  Noted(s) \in Nat
    <3>1. s = <<>>
      BY <2>1
    <3>. QED BY <3>1, NotedNone
  <2>. QED BY <2>1
<1>2. ASSUME NEW k \in Nat, k \in S
      PROVE  k + 1 \in S
  <2>1. ASSUME NEW s \in Seq(Chunk), Len(s) <= k + 1
        PROVE  Noted(s) \in Nat
    <3>1. CASE s = <<>>
      BY <3>1, NotedNone
    <3>2. CASE s # <<>>
      <4>1. PICK t \in Seq(Chunk), c \in Chunk : s = Append(t, c) /\ Len(s) = Len(t) + 1
        <5>1. PICK t \in Seq(Chunk), c \in Chunk : s = Append(t, c)
          BY <3>2, SequenceEmptyOrAppend
        <5>. QED BY <5>1
      <4>2. Len(t) <= k /\ c.noted \in Nat
        BY <2>1, <4>1 DEF Chunk
      <4>3. Noted(t) \in Nat
        BY <1>2, <4>2
      <4>. QED BY <4>1, <4>2, <4>3, NotedAppend
    <3>. QED BY <3>1, <3>2
  <2>. QED BY <2>1
<1> HIDE DEF S
<1>3. \A k \in Nat : k \in S
  BY <1>1, <1>2, NatSet
<1>4. Len(rows) \in Nat /\ Len(rows) <= Len(rows)
  OBVIOUS
<1>. QED BY <1>3, <1>4 DEF S

----------------------------------------------------------------------------
(* The buffer.                                                             *)

\* A chunk and the buffer keep within their limits.
Limits(bf) ==
  /\ Len(bf.unsent.text) <= ChunkSize
  /\ Len(bf.unsent.text) + Len(bf.pending) <= MaxUnstored

\* The two buffers differ at most in what is pending, dropped and truncated.
SameChunk(bf, new) ==
  /\ new.unsent = bf.unsent /\ new.sequence = bf.sequence
  /\ new.stored = bf.stored /\ new.failing = bf.failing /\ new.failed = bf.failed

\* The fields of the buffer.
LEMMA BufferIs ==
  ASSUME NEW bf \in Buffer
  PROVE  /\ bf.pending \in Seq(Char) /\ bf.unsent \in Chunk /\ bf.unsent.text \in Seq(Char)
         /\ bf.unsent.noted \in Nat /\ bf.sequence \in Nat /\ bf.stored \in Nat
         /\ bf.dropped \in Nat
         /\ bf.failing \in BOOLEAN /\ bf.truncated \in BOOLEAN /\ bf.failed \in BOOLEAN
         /\ Len(bf.pending) \in Nat /\ Len(bf.unsent.text) \in Nat
<1>1. bf.pending \in Seq(Char) /\ bf.unsent \in Chunk
  BY DEF Buffer, Pieces, Char
<1>2. bf.unsent.text \in Seq(Char) /\ bf.unsent.noted \in Nat
  BY <1>1 DEF Chunk, Pieces, Char
<1>3. Len(bf.pending) \in Nat /\ Len(bf.unsent.text) \in Nat
  BY <1>1, <1>2
<1>. QED BY <1>1, <1>2, <1>3 DEF Buffer

\* Take keeps the types and the limits; while it does not pass the cap, it
\* takes all of the text.
LEMMA TakeKeeps ==
  ASSUME buffer \in Buffer, accepted \in Pieces, Limits(buffer), NEW text \in Seq(Char),
         Take(text), buffer.truncated \/ OverCap(text) \/ Room(text)
  PROVE  /\ buffer' \in Buffer /\ accepted' \in Pieces /\ Limits(buffer')
         /\ SameChunk(buffer, buffer') /\ buffer'.dropped = buffer.dropped
         /\ \E t \in Seq(Char) : /\ buffer'.pending = buffer.pending \o t
                                 /\ accepted' = accepted \o t
                                 /\ ~buffer'.truncated => t = text
         /\ buffer.truncated => buffer'.truncated
<1>1. /\ buffer.pending \in Seq(Char) /\ accepted \in Seq(Char) /\ <<>> \in Seq(Char)
      /\ Len(buffer.pending) \in Nat /\ Len(buffer.unsent.text) \in Nat /\ Len(text) \in Nat
      /\ MaxUnstored \in Nat
  BY BufferIs, StepLogConstantsOK DEF Pieces, Char
<1>2. buffer.pending \o <<>> = buffer.pending /\ accepted \o <<>> = accepted
  BY <1>1
<1>3. CASE buffer.truncated
  <2>1. buffer' = buffer /\ accepted' = accepted
    BY <1>3 DEF Take
  <2>. QED BY <1>1, <1>2, <1>3, <2>1 DEF SameChunk, Limits
<1>4. CASE ~buffer.truncated /\ OverCap(text)
  <2>1. buffer' = [buffer EXCEPT !.truncated = TRUE] /\ accepted' = accepted
    BY <1>4 DEF Take
  <2>2. buffer' \in Buffer /\ SameChunk(buffer, buffer') /\ buffer'.pending = buffer.pending
        /\ buffer'.dropped = buffer.dropped /\ buffer'.truncated = TRUE
    BY <2>1 DEF Buffer, SameChunk
  <2>3. Limits(buffer')
    BY <2>2 DEF Limits, SameChunk
  <2>. QED BY <1>1, <1>2, <2>1, <2>2, <2>3
<1>5. CASE ~buffer.truncated /\ ~OverCap(text)
  <2>1. /\ buffer' = [buffer EXCEPT !.pending = @ \o text] /\ accepted' = accepted \o text
        /\ Room(text)
    BY <1>5 DEF Take
  <2>2. buffer.pending \o text \in Seq(Char) /\ accepted \o text \in Seq(Char)
        /\ Len(buffer.pending \o text) = Len(buffer.pending) + Len(text)
    <3> DEFINE p == buffer.pending
    <3>1. p \in Seq(Char)
      BY <1>1
    <3> HIDE DEF p
    <3>2. p \o text \in Seq(Char) /\ accepted \o text \in Seq(Char)
          /\ Len(p \o text) = Len(p) + Len(text)
      BY <1>1, <3>1
    <3>. QED BY <3>2 DEF p
  <2>3. buffer' \in Buffer /\ SameChunk(buffer, buffer')
        /\ buffer'.pending = buffer.pending \o text
        /\ buffer'.dropped = buffer.dropped /\ buffer'.truncated = buffer.truncated
    BY <2>1, <2>2 DEF Buffer, SameChunk, Pieces, Char
  <2>4. Len(text) <= MaxUnstored - (Len(buffer.unsent.text) + Len(buffer.pending))
    BY <2>1 DEF Room, Unstored
  <2>5. Limits(buffer')
    <3>1. Len(buffer'.pending) = Len(buffer.pending) + Len(text) /\ buffer'.unsent = buffer.unsent
      BY <2>2, <2>3 DEF SameChunk
    <3>2. Len(buffer.unsent.text) <= ChunkSize
      BY DEF Limits
    <3>3. Len(buffer.unsent.text) + (Len(buffer.pending) + Len(text)) <= MaxUnstored
      <4> DEFINE u == Len(buffer.unsent.text)
                 v == Len(buffer.pending)
                 w == Len(text)
      <4>1. u \in Nat /\ v \in Nat /\ w \in Nat /\ MaxUnstored \in Nat /\ w <= MaxUnstored - (u + v)
        BY <1>1, <2>4
      <4> HIDE DEF u, v, w
      <4>2. u + (v + w) <= MaxUnstored
        BY <4>1
      <4>. QED BY <4>2 DEF u, v, w
    <3>. QED BY <3>1, <3>2, <3>3 DEF Limits
  <2>. QED BY <1>1, <1>5, <2>1, <2>2, <2>3, <2>5 DEF Pieces, Char
<1>. QED BY <1>3, <1>4, <1>5

\* Drop counts what it loses.
LEMMA DropKeeps ==
  ASSUME buffer \in Buffer, accepted \in Pieces, Limits(buffer), NEW text \in Seq(Char), Drop(text)
  PROVE  /\ buffer' \in Buffer /\ accepted' = accepted /\ Limits(buffer')
         /\ SameChunk(buffer, buffer') /\ buffer'.dropped = buffer.dropped + Len(text)
         /\ buffer'.pending = buffer.pending /\ buffer'.truncated = buffer.truncated
<1>1. /\ buffer' = [buffer EXCEPT !.dropped = @ + Len(text)] /\ accepted' = accepted
      /\ buffer.dropped + Len(text) \in Nat
  BY BufferIs DEF Drop
<1>2. /\ buffer' \in Buffer /\ SameChunk(buffer, buffer')
      /\ buffer'.dropped = buffer.dropped + Len(text)
      /\ buffer'.pending = buffer.pending /\ buffer'.truncated = buffer.truncated
  BY <1>1 DEF Buffer, SameChunk
<1>3. Limits(buffer')
  BY <1>2 DEF Limits, SameChunk
<1>. QED BY <1>1, <1>2, <1>3

\* A sequence is its beginning and its end.
LEMMA CutJoins ==
  ASSUME NEW p \in Seq(Char), NEW n \in 0 .. Len(p)
  PROVE  SubSeq(p, 1, n) \o SubSeq(p, n + 1, Len(p)) = p
<1>1. /\ 1 \in 1 .. Len(p) + 1 /\ n \in 1 - 1 .. Len(p) /\ Len(p) \in n .. Len(p)
  OBVIOUS
<1>2. SubSeq(p, 1, n) \o SubSeq(p, n + 1, Len(p)) = SubSeq(p, 1, Len(p))
  BY <1>1, ConcatAdjacentSubSeq, Zenon
<1>3. SubSeq(p, 1, Len(p)) = p
  BY SubSeqFull, Zenon
<1>. QED BY <1>2, <1>3, Zenon

\* fillUnsentLocked moves output from the buffer to the chunk and loses none.
LEMMA FilledKeeps ==
  ASSUME NEW bf \in Buffer, Limits(bf)
  PROVE  LET new == Filled(bf)
         IN  /\ new \in Buffer /\ Limits(new) /\ new.sequence = bf.sequence
             /\ new.stored = bf.stored /\ new.truncated = bf.truncated /\ new.failing = bf.failing
             /\ bf.unsent # NoChunk => new = bf
             /\ new.unsent.text \o new.pending = bf.unsent.text \o bf.pending
             /\ new.unsent.noted + new.dropped = bf.unsent.noted + bf.dropped
<1> DEFINE p == bf.pending
           n == IF Len(p) <= ChunkSize THEN Len(p) ELSE ChunkSize
           head == SubSeq(p, 1, n)
           tail == SubSeq(p, n + 1, Len(p))
           new == Filled(bf)
<1>1. /\ p \in Seq(Char) /\ Len(p) \in Nat /\ ChunkSize \in Nat /\ MaxUnstored \in Nat
      /\ bf.dropped \in Nat /\ bf.unsent \in Chunk
      /\ ChunkSize <= MaxUnstored /\ bf.unsent.text \in Seq(Char) /\ bf.unsent.noted \in Nat
  BY BufferIs, StepLogConstantsOK
<1> HIDE DEF p
<1>2. CASE bf.unsent # NoChunk
  <2>1. Filled(bf) = bf
    BY <1>2 DEF Filled
  <2>. QED BY <2>1
<1>3. CASE bf.unsent = NoChunk
  <2>1. n \in Nat /\ n <= Len(p) /\ n <= ChunkSize
    BY <1>1
  <2>2. new = [bf EXCEPT !.unsent = [noted |-> bf.dropped, text |-> head],
                         !.dropped = 0, !.pending = tail]
    BY <1>3 DEF Filled, p
  <2> HIDE DEF n
  <2>3. /\ head \in Seq(Char) /\ Len(head) = n /\ \A i \in 1 .. n : head[i] = p[i]
    BY <1>1, <2>1, Cut
  <2>4. /\ tail \in Seq(Char) /\ Len(tail) = Len(p) - n
        /\ \A i \in 1 .. Len(p) - n : tail[i] = p[n + i]
    <3>1. \A k \in n + 1 .. Len(p) : k \in 1 .. Len(p) /\ p[k] \in Char
      BY <1>1, <2>1
    <3>. QED BY <1>1, <2>1, <3>1, SubSeqProperties
  <2> HIDE DEF head, tail
  <2>5. head \o tail = p
    <3>1. n \in 0 .. Len(p)
      BY <1>1, <2>1
    <3>. QED BY <1>1, <3>1, CutJoins DEF head, tail
  <2> HIDE DEF new
  <2>6. [noted |-> bf.dropped, text |-> head] \in Chunk
    BY <1>1, <2>3 DEF Chunk, Pieces, Char
  <2>7. /\ new \in Buffer /\ new.sequence = bf.sequence /\ new.stored = bf.stored
        /\ new.truncated = bf.truncated /\ new.failing = bf.failing
        /\ new.unsent = [noted |-> bf.dropped, text |-> head] /\ new.dropped = 0
        /\ new.pending = tail
    BY <2>2, <2>4, <2>6 DEF Buffer, Pieces, Char
  <2>8. new.unsent.text = head /\ new.unsent.noted = bf.dropped
    BY <2>7
  <2>9. bf.unsent.text = <<>> /\ bf.unsent.noted = 0 /\ <<>> \o p = p /\ Len(<<>>) = 0
    BY <1>1, <1>3 DEF NoChunk
  <2>10. Limits(new)
    <3>1. n + (Len(p) - n) = Len(p) /\ Len(p) <= MaxUnstored
      BY <1>1, <2>1, <2>9 DEF Limits, p
    <3>. QED BY <2>1, <2>3, <2>4, <2>7, <2>8, <3>1 DEF Limits
  <2>11. new.unsent.text \o new.pending = bf.unsent.text \o bf.pending
    BY <2>5, <2>7, <2>8, <2>9 DEF p
  <2>12. new.unsent.noted + new.dropped = bf.unsent.noted + bf.dropped
    BY <1>1, <2>7, <2>8, <2>9
  <2>. QED BY <1>3, <2>7, <2>10, <2>11, <2>12 DEF new
<1>. QED BY <1>2, <1>3

----------------------------------------------------------------------------
(* Types.                                                                  *)

\* What the flusher is storing is the chunk of the buffer.
Current == [sequence |-> buffer.sequence, content |-> buffer.unsent]

\* The type invariant in the terms of this module.
LEMMA TypeMeans ==
  LogTypeOK <=>
    /\ written \in Seq(Bytes) /\ emitted \in Seq(Char) /\ accepted \in Seq(Char)
    /\ ansi \in AnsiStates
    /\ redactor.node \in Nodes /\ redactor.masking \in BOOLEAN /\ redactor.held \in Seq(HeldByte)
    /\ buffer \in Buffer /\ Limits(buffer)
    /\ blocked \in Waiters
    /\ sending = {} \/ sending = {Current}
    /\ phase \in {"open", "flushing", "closed"}
    /\ \A i \in DOMAIN chunks : i \in Nat /\ chunks[i] \in Chunk
    /\ \A a \in late : a \in Attempt
    /\ running \in BOOLEAN
    /\ faults \in 0 .. MaxFaults
BY DEF LogTypeOK, Current, Limits, Waiters, Pieces, Char, HeldByte, Byte

\* What Write and Close give out is a piece.
LEMMA WriteGives ==
  ASSUME MaskInv, NEW w \in Writers, NEW b \in Bytes, Write(w, b)
  PROVE  LET text == AppendBytes(redactor, AnsiText(ansi, b)).text
         IN  /\ text \in Seq(Char) /\ emitted' = emitted \o text
             /\ written' \in Seq(Bytes) /\ redactor' \in Streams /\ ansi' \in AnsiStates
             /\ phase = "open" /\ blocked[w] = <<>>
             /\ \/ ~Waits(text) /\ Take(text) /\ blocked' = blocked
                \/ Waits(text) /\ Drop(text) /\ blocked' = blocked
                \/ /\ Waits(text) /\ blocked' = [blocked EXCEPT ![w] = text]
                   /\ buffer' = buffer /\ accepted' = accepted
<1> DEFINE t == AnsiText(ansi, b)
           out == AppendBytes(redactor, t)
<1>1. /\ phase = "open" /\ written' = Append(written, b) /\ ansi' = AnsiState(ansi, b)
      /\ redactor' = out.stream /\ emitted' = emitted \o out.text /\ blocked[w] = <<>>
  BY DEF Write
<1>2. /\ \/ ~Waits(out.text) /\ Take(out.text) /\ blocked' = blocked
         \/ Waits(out.text) /\ Drop(out.text) /\ blocked' = blocked
         \/ /\ Waits(out.text) /\ blocked' = [blocked EXCEPT ![w] = out.text]
            /\ buffer' = buffer /\ accepted' = accepted
  <2> DEFINE x == out.text
  <2>1. IF ~Waits(x) THEN Take(x) /\ UNCHANGED blocked
        ELSE IF buffer.failing THEN Drop(x) /\ UNCHANGED blocked
        ELSE blocked' = [blocked EXCEPT ![w] = x] /\ UNCHANGED <<buffer, accepted>>
    BY DEF Write
  <2> HIDE DEF x
  <2>2. \/ ~Waits(x) /\ Take(x) /\ blocked' = blocked
        \/ Waits(x) /\ Drop(x) /\ blocked' = blocked
        \/ /\ Waits(x) /\ blocked' = [blocked EXCEPT ![w] = x]
           /\ buffer' = buffer /\ accepted' = accepted
    BY <2>1
  <2>. QED BY <2>2 DEF x
<1>3. /\ written \in Seq(Bytes) /\ ansi \in AnsiStates /\ Strip(written).text \in Seq(Byte)
      /\ Tracks(redactor, Strip(written).text)
  BY <1>1 DEF MaskInv
<1>4. t \in Seq(Byte) /\ ansi' \in AnsiStates
  BY <1>1, <1>3, AnsiTextType
<1>5. out.text \in Seq(Char) /\ Tracks(out.stream, Strip(written).text \o t)
  <2> HIDE DEF t
  <2>. QED BY <1>3, <1>4, AppendBytesKeeps
<1> HIDE DEF out
<1>6. redactor' \in Streams
  BY <1>1, <1>5 DEF Tracks
<1>7. written' \in Seq(Bytes)
  BY <1>1, <1>3
<1>. QED BY <1>1, <1>2, <1>4, <1>5, <1>6, <1>7 DEF out

\* What Close gives out is a piece.
LEMMA CloseGives ==
  ASSUME MaskInv, Close
  PROVE  LET text == Final(redactor)
         IN  /\ text \in Seq(Char) /\ emitted' = emitted \o text /\ redactor' \in Streams
             /\ phase = "open" /\ phase' \in {"flushing", "closed"}
             /\ \/ ~Waits(text) /\ Take(text)
                \/ Waits(text) /\ Drop(text)
<1>1. /\ phase = "open" /\ phase' \in {"flushing", "closed"} /\ redactor' = NewStream
      /\ emitted' = emitted \o Final(redactor)
      /\ IF Waits(Final(redactor)) THEN Drop(Final(redactor)) ELSE Take(Final(redactor))
  BY DEF Close
<1>2. Strip(written).text \in Seq(Byte) /\ Tracks(redactor, Strip(written).text)
  BY <1>1 DEF MaskInv
<1>3. Final(redactor) \in Seq(Char)
  BY <1>2, FinalGives
<1>4. NewStream \in Streams
  BY NodesAre DEF NewStream, Streams
<1>. QED BY <1>1, <1>3, <1>4

\* What a piece that does not wait, waits or is dropped does to the buffer.
Adds(text) ==
  /\ buffer' \in Buffer /\ accepted' \in Seq(Char) /\ Limits(buffer') /\ SameChunk(buffer, buffer')
  /\ \E t \in Seq(Char) : /\ buffer'.pending = buffer.pending \o t
                          /\ accepted' = accepted \o t
                          /\ ~buffer'.truncated =>
                               /\ ~buffer.truncated
                               /\ Len(t) + (buffer'.dropped - buffer.dropped) = Len(text)

\* A piece that finds room, or that the cap cuts off, is added.
LEMMA TakeAdds ==
  ASSUME LogTypeOK, NEW text \in Seq(Char), Take(text), ~Waits(text) \/ Room(text)
  PROVE  Adds(text)
<1>1. buffer \in Buffer /\ accepted \in Pieces /\ Limits(buffer)
  BY TypeMeans DEF Pieces, Char
<1>2. buffer.truncated \/ OverCap(text) \/ Room(text)
  BY DEF Waits
<1>3. /\ buffer' \in Buffer /\ accepted' \in Pieces /\ Limits(buffer')
      /\ SameChunk(buffer, buffer') /\ buffer'.dropped = buffer.dropped
      /\ buffer.truncated => buffer'.truncated
  BY <1>1, <1>2, TakeKeeps
<1>4. PICK t \in Seq(Char) : /\ buffer'.pending = buffer.pending \o t
                             /\ accepted' = accepted \o t
                             /\ ~buffer'.truncated => t = text
  BY <1>1, <1>2, TakeKeeps
<1>5. ~buffer'.truncated =>
        ~buffer.truncated /\ Len(t) + (buffer'.dropped - buffer.dropped) = Len(text)
  <2>1. Len(text) \in Nat /\ buffer.dropped \in Nat
    BY <1>1, BufferIs
  <2>. QED BY <1>3, <1>4, <2>1
<1>. QED BY <1>3, <1>4, <1>5 DEF Adds, Pieces, Char

\* A piece that is dropped is added as its number of bytes.
LEMMA DropAdds ==
  ASSUME LogTypeOK, NEW text \in Seq(Char), Drop(text)
  PROVE  Adds(text)
<1>1. buffer \in Buffer /\ accepted \in Pieces /\ Limits(buffer) /\ accepted \in Seq(Char)
  BY TypeMeans DEF Pieces, Char
<1>2. /\ buffer' \in Buffer /\ accepted' = accepted /\ Limits(buffer')
      /\ SameChunk(buffer, buffer') /\ buffer'.dropped = buffer.dropped + Len(text)
      /\ buffer'.pending = buffer.pending /\ buffer'.truncated = buffer.truncated
  BY <1>1, DropKeeps
<1>3. /\ <<>> \in Seq(Char) /\ buffer.pending \o <<>> = buffer.pending
      /\ accepted \o <<>> = accepted /\ Len(<<>>) = 0
  <2>1. buffer.pending \in Seq(Char)
    BY <1>1, BufferIs
  <2>. QED BY <1>1, <2>1
<1>4. Len(<<>>) + (buffer'.dropped - buffer.dropped) = Len(text)
  <2>1. Len(text) \in Nat /\ buffer.dropped \in Nat
    BY <1>1, BufferIs
  <2>. QED BY <1>2, <1>3, <2>1
<1>. QED BY <1>1, <1>2, <1>3, <1>4 DEF Adds

\* The redactor's type.
Typed(stream) ==
  stream.node \in Nodes /\ stream.masking \in BOOLEAN /\ stream.held \in Seq(HeldByte)

\* What has to be known of the next state for its type.
LEMMA TypeNext ==
  ASSUME written' \in Seq(Bytes), emitted' \in Seq(Char), accepted' \in Seq(Char),
         ansi' \in AnsiStates, Typed(redactor'), buffer' \in Buffer, Limits(buffer'),
         blocked' \in Waiters,
         sending' = {} \/ sending' = {[sequence |-> buffer'.sequence, content |-> buffer'.unsent]},
         phase' \in {"open", "flushing", "closed"},
         \A i \in DOMAIN chunks' : i \in Nat /\ chunks'[i] \in Chunk,
         \A a \in late' : a \in Attempt,
         running' \in BOOLEAN, faults' \in 0 .. MaxFaults
  PROVE  LogTypeOK'
BY DEF LogTypeOK, Typed, Limits, Waiters, Pieces, Char, HeldByte, Byte

\* A chunk that is inserted is one that was tried.
LEMMA InsertedType ==
  ASSUME \A i \in DOMAIN chunks : i \in Nat /\ chunks[i] \in Chunk,
         NEW a \in Attempt, chunks' = Inserted(a, chunks)
  PROVE  \A i \in DOMAIN chunks' : i \in Nat /\ chunks'[i] \in Chunk
<1>1. a.sequence \in Nat /\ a.content \in Chunk
  BY DEF Attempt
<1>2. CASE chunks' = chunks
  BY <1>2
<1>3. CASE chunks' # chunks
  <2> DEFINE n == a.sequence
             c == a.content
  <2>1. chunks' = [i \in DOMAIN chunks \cup {n} |-> IF i = n THEN c ELSE chunks[i]]
    BY <1>3 DEF Inserted
  <2> HIDE DEF n, c
  <2>2. n \in Nat /\ c \in Chunk
    BY <1>1 DEF n, c
  <2>3. ASSUME NEW i \in DOMAIN chunks'
        PROVE  i \in Nat /\ chunks'[i] \in Chunk
    <3>1. CASE i = n
      BY <2>1, <2>2, <3>1
    <3>2. CASE i # n
      BY <2>1, <2>2, <3>2
    <3>. QED BY <3>1, <3>2
  <2>. QED BY <2>3
<1>. QED BY <1>2, <1>3

\* Faults stay within their bound.
LEMMA FaultType ==
  ASSUME faults \in 0 .. MaxFaults, Fault
  PROVE  faults' \in 0 .. MaxFaults
BY StepLogConstantsOK DEF Fault

\* A step that adds output, and what it does to the writers that wait.
Grows(text) ==
  /\ Adds(text)
  /\ emitted' \in Seq(Char) /\ blocked' \in Waiters
  /\ Len(emitted') + Waiting(blocked) = Len(emitted) + Waiting(blocked') + Len(text)
  /\ sending' = sending /\ chunks' = chunks /\ late' = late /\ running' = running

\* Write adds output.
LEMMA WriteGrows ==
  ASSUME LogTypeOK, MaskInv, NEW w \in Writers, NEW b \in Bytes, Write(w, b)
  PROVE  \E text \in Seq(Char) : Grows(text)
<1> DEFINE x == AppendBytes(redactor, AnsiText(ansi, b)).text
<1>1. /\ x \in Seq(Char) /\ emitted' = emitted \o x /\ blocked[w] = <<>>
      /\ \/ ~Waits(x) /\ Take(x) /\ blocked' = blocked
         \/ Waits(x) /\ Drop(x) /\ blocked' = blocked
         \/ /\ Waits(x) /\ blocked' = [blocked EXCEPT ![w] = x]
            /\ buffer' = buffer /\ accepted' = accepted
  BY WriteGives
<1> HIDE DEF x
<1>2. /\ emitted \in Seq(Char) /\ blocked \in Waiters /\ accepted \in Seq(Char)
      /\ buffer \in Buffer /\ Limits(buffer)
  BY TypeMeans
<1>3. sending' = sending /\ chunks' = chunks /\ late' = late /\ running' = running
  BY DEF Write
<1>4. /\ emitted' \in Seq(Char) /\ Len(emitted') = Len(emitted) + Len(x)
      /\ Len(emitted) \in Nat /\ Len(x) \in Nat
  BY <1>1, <1>2
<1>5. Waiting(blocked) \in Nat
  BY <1>2, WaitingNat
<1>6. CASE blocked' = blocked /\ ((~Waits(x) /\ Take(x)) \/ Drop(x))
  <2>1. Adds(x)
    BY <1>1, <1>6, TakeAdds, DropAdds
  <2>2. Len(emitted') + Waiting(blocked) = Len(emitted) + Waiting(blocked') + Len(x)
    BY <1>4, <1>5, <1>6
  <2>. QED BY <1>1, <1>2, <1>3, <1>4, <1>6, <2>1, <2>2 DEF Grows
<1>7. CASE /\ blocked' = [blocked EXCEPT ![w] = x]
           /\ buffer' = buffer /\ accepted' = accepted
  <2>1. /\ blocked' \in Waiters
        /\ Waiting(blocked') = Waiting(blocked) - Len(blocked[w]) + Len(x)
    BY <1>1, <1>2, <1>7, WaitingChanges
  <2>2. Len(blocked[w]) = 0 /\ <<>> \in Seq(Char) /\ Len(<<>>) = 0
    BY <1>1
  <2>3. Adds(<<>>)
    <3>1. buffer.pending \in Seq(Char) /\ buffer.dropped \in Nat
      BY <1>2, BufferIs
    <3>2. /\ buffer'.pending = buffer.pending \o <<>> /\ accepted' = accepted \o <<>>
          /\ Len(<<>>) + (buffer'.dropped - buffer.dropped) = Len(<<>>)
      BY <1>2, <1>7, <3>1
    <3>3. SameChunk(buffer, buffer')
      BY <1>7 DEF SameChunk
    <3>. QED BY <1>2, <1>7, <2>2, <3>2, <3>3 DEF Adds
  <2>4. Len(emitted') + Waiting(blocked) = Len(emitted) + Waiting(blocked') + Len(<<>>)
    BY <1>4, <1>5, <2>1, <2>2
  <2>. QED BY <1>3, <1>4, <2>1, <2>2, <2>3, <2>4 DEF Grows
<1>. QED BY <1>1, <1>6, <1>7

\* A writer that waited adds its piece.
LEMMA WakeGrows ==
  ASSUME LogTypeOK, NEW w \in Writers, Wake(w) \/ GiveUp(w)
  PROVE  \E text \in Seq(Char) : Grows(text)
<1> DEFINE x == blocked[w]
<1>1. /\ (Room(x) /\ Take(x)) \/ Drop(x)
      /\ blocked' = [blocked EXCEPT ![w] = <<>>] /\ emitted' = emitted
      /\ sending' = sending /\ chunks' = chunks /\ late' = late /\ running' = running
  BY DEF Wake, GiveUp
<1>2. emitted \in Seq(Char) /\ blocked \in Waiters
  BY TypeMeans
<1>3. x \in Seq(Char) /\ <<>> \in Seq(Char) /\ Len(<<>>) = 0
  BY <1>2 DEF Waiters
<1>4. blocked' \in Waiters /\ Waiting(blocked') = Waiting(blocked) - Len(x) + Len(<<>>)
  BY <1>1, <1>2, <1>3, WaitingChanges
<1>5. Waiting(blocked) \in Nat
  BY <1>2, WaitingNat
<1> HIDE DEF x
<1>6. Adds(x)
  BY <1>1, <1>3, TakeAdds, DropAdds
<1>7. Len(emitted') + Waiting(blocked) = Len(emitted) + Waiting(blocked') + Len(x)
  <2>1. Len(x) \in Nat /\ Len(emitted) \in Nat
    BY <1>2, <1>3
  <2>. QED BY <1>1, <1>3, <1>4, <1>5, <2>1
<1>. QED BY <1>1, <1>2, <1>3, <1>4, <1>6, <1>7 DEF Grows

\* Close adds the redactor's last piece.
LEMMA CloseGrows ==
  ASSUME LogTypeOK, MaskInv, Close
  PROVE  \E text \in Seq(Char) : Grows(text)
<1> DEFINE x == Final(redactor)
<1>1. /\ x \in Seq(Char) /\ emitted' = emitted \o x
      /\ \/ ~Waits(x) /\ Take(x)
         \/ Waits(x) /\ Drop(x)
  BY CloseGives
<1>2. emitted \in Seq(Char) /\ blocked \in Waiters
  BY TypeMeans
<1>3. /\ blocked' = blocked
      /\ sending' = sending /\ chunks' = chunks /\ late' = late /\ running' = running
  BY DEF Close
<1> HIDE DEF x
<1>4. Adds(x)
  BY <1>1, TakeAdds, DropAdds
<1>5. /\ emitted' \in Seq(Char) /\ Len(emitted') = Len(emitted) + Len(x)
      /\ Len(emitted) \in Nat /\ Len(x) \in Nat /\ Waiting(blocked) \in Nat
  BY <1>1, <1>2, WaitingNat
<1>6. Len(emitted') + Waiting(blocked) = Len(emitted) + Waiting(blocked') + Len(x)
  BY <1>3, <1>5
<1>. QED BY <1>1, <1>2, <1>3, <1>4, <1>5, <1>6 DEF Grows

\* What the flusher is storing is an attempt at the chunk of the buffer.
LEMMA SendingIs ==
  ASSUME LogTypeOK, NEW a \in sending
  PROVE  a = Current /\ a \in Attempt
<1>1. sending = {Current} /\ buffer \in Buffer
  BY TypeMeans
<1>2. buffer.sequence \in Nat /\ buffer.unsent \in Chunk
  BY <1>1, BufferIs
<1>. QED BY <1>1, <1>2 DEF Current, Attempt

\* Once a chunk is stored the next one has the next number.
LEMMA StoredKeeps ==
  ASSUME NEW bf \in Buffer, Limits(bf), NEW n \in Nat
  PROVE  LET new == [bf EXCEPT !.unsent = NoChunk, !.sequence = @ + 1, !.failing = FALSE,
                               !.stored = @ + n]
         IN  /\ new \in Buffer /\ Limits(new) /\ new.unsent = NoChunk
             /\ new.sequence = bf.sequence + 1 /\ new.pending = bf.pending
             /\ new.dropped = bf.dropped /\ new.truncated = bf.truncated
<1> DEFINE q == bf.sequence + 1
           m == bf.stored + n
           new == [bf EXCEPT !.unsent = NoChunk, !.sequence = q, !.failing = FALSE, !.stored = m]
<1>1. q \in Nat /\ m \in Nat
  BY BufferIs
<1> HIDE DEF q, m
<1>2. NoChunk \in Chunk /\ Len(NoChunk.text) = 0
  BY DEF NoChunk, Chunk, Pieces
<1>3. /\ new \in Buffer /\ new.unsent = NoChunk /\ new.sequence = q
      /\ new.pending = bf.pending /\ new.dropped = bf.dropped /\ new.truncated = bf.truncated
  BY <1>1, <1>2 DEF Buffer
<1>4. /\ ChunkSize \in Nat /\ MaxUnstored \in Nat /\ Len(bf.pending) \in Nat
      /\ Len(bf.unsent.text) \in Nat
  BY BufferIs, StepLogConstantsOK
<1> HIDE DEF new
<1>5. Limits(new)
  <2> DEFINE v == Len(bf.pending)
             u == Len(bf.unsent.text)
  <2>1. u \in Nat /\ v \in Nat /\ u + v <= MaxUnstored /\ ChunkSize \in Nat /\ MaxUnstored \in Nat
    BY <1>4 DEF Limits
  <2>2. Len(new.pending) = v /\ Len(new.unsent.text) = 0
    BY <1>2, <1>3
  <2> HIDE DEF u, v
  <2>3. 0 <= ChunkSize /\ 0 + v <= MaxUnstored
    BY <2>1
  <2>. QED BY <2>2, <2>3 DEF Limits
<1>. QED BY <1>3, <1>5 DEF new, q, m

\* Every step keeps the types and the limits of the buffer.
LEMMA TypeStep == LogTypeOK /\ MaskInv /\ [LogNext]_logVars => LogTypeOK'
<1> SUFFICES ASSUME LogTypeOK, MaskInv, [LogNext]_logVars
             PROVE  LogTypeOK'
  OBVIOUS
<1>0. /\ written \in Seq(Bytes) /\ emitted \in Seq(Char) /\ accepted \in Seq(Char)
      /\ ansi \in AnsiStates
      /\ redactor.node \in Nodes /\ redactor.masking \in BOOLEAN /\ redactor.held \in Seq(HeldByte)
      /\ buffer \in Buffer /\ Limits(buffer)
      /\ blocked \in Waiters
      /\ sending = {} \/ sending = {Current}
      /\ phase \in {"open", "flushing", "closed"}
      /\ \A i \in DOMAIN chunks : i \in Nat /\ chunks[i] \in Chunk
      /\ \A a \in late : a \in Attempt
      /\ running \in BOOLEAN
      /\ faults \in 0 .. MaxFaults
  BY TypeMeans
<1>1. ASSUME NEW text \in Seq(Char), Grows(text), written' \in Seq(Bytes), ansi' \in AnsiStates,
             Typed(redactor'), phase' \in {"open", "flushing", "closed"},
             faults' \in 0 .. MaxFaults
      PROVE  LogTypeOK'
  <2>1. /\ buffer' \in Buffer /\ accepted' \in Seq(Char) /\ Limits(buffer')
        /\ buffer'.unsent = buffer.unsent /\ buffer'.sequence = buffer.sequence
        /\ emitted' \in Seq(Char) /\ blocked' \in Waiters
        /\ sending' = sending /\ chunks' = chunks /\ late' = late /\ running' = running
    BY <1>1 DEF Grows, Adds, SameChunk
  <2>2. sending' = {} \/ sending' = {[sequence |-> buffer'.sequence, content |-> buffer'.unsent]}
    BY <1>0, <2>1 DEF Current
  <2>. QED BY <1>0, <1>1, <2>1, <2>2, TypeNext
<1>2. Typed(redactor) /\ \A r \in Streams : Typed(r)
  BY <1>0 DEF Typed, Streams
<1>3. ASSUME NEW w \in Writers, NEW b \in Bytes, Write(w, b)
      PROVE  LogTypeOK'
  <2>1. written' \in Seq(Bytes) /\ Typed(redactor') /\ ansi' \in AnsiStates
    BY <1>2, <1>3, WriteGives
  <2>2. phase' = phase /\ faults' = faults
    BY <1>3 DEF Write
  <2>3. PICK text \in Seq(Char) : Grows(text)
    BY <1>3, WriteGrows
  <2>. QED BY <1>0, <1>1, <2>1, <2>2, <2>3
<1>4. ASSUME NEW w \in Writers, Wake(w) \/ GiveUp(w)
      PROVE  LogTypeOK'
  <2>1. written' = written /\ redactor' = redactor /\ ansi' = ansi /\ phase' = phase
        /\ (faults' = faults \/ Fault)
    BY <1>4 DEF Wake, GiveUp
  <2>2. faults' \in 0 .. MaxFaults
    BY <1>0, <2>1, FaultType
  <2>3. PICK text \in Seq(Char) : Grows(text)
    BY <1>4, WakeGrows
  <2>. QED BY <1>0, <1>1, <1>2, <2>1, <2>2, <2>3
<1>5. CASE Close
  <2>1. Typed(redactor') /\ phase' \in {"open", "flushing", "closed"}
    BY <1>2, <1>5, CloseGives
  <2>2. written' = written /\ ansi' = ansi /\ faults' = faults
    BY <1>5 DEF Close
  <2>3. PICK text \in Seq(Char) : Grows(text)
    BY <1>5, CloseGrows
  <2>. QED BY <1>0, <1>1, <2>1, <2>2, <2>3
<1>6. CASE Flush
  <2>1. /\ buffer' = Filled(buffer)
        /\ sending' = {[sequence |-> buffer.sequence, content |-> Filled(buffer).unsent]}
        /\ written' = written /\ emitted' = emitted /\ accepted' = accepted /\ ansi' = ansi
        /\ redactor' = redactor /\ blocked' = blocked /\ phase' = phase /\ chunks' = chunks
        /\ late' = late /\ running' = running /\ faults' = faults
    BY <1>6 DEF Flush
  <2>2. buffer' \in Buffer /\ Limits(buffer') /\ buffer'.sequence = buffer.sequence
    BY <1>0, <2>1, FilledKeeps
  <2>3. sending' = {[sequence |-> buffer'.sequence, content |-> buffer'.unsent]}
    BY <2>1, <2>2
  <2>. QED BY <1>0, <1>2, <2>1, <2>2, <2>3, TypeNext
<1>7. CASE FlushStored
  <2>1. PICK a \in sending :
          /\ chunks' = Inserted(a, chunks)
          /\ buffer' = [buffer EXCEPT !.unsent = NoChunk, !.sequence = @ + 1, !.failing = FALSE,
                                      !.stored = @ + Len(a.content.text)]
          /\ sending' = {}
          /\ phase' = IF phase = "flushing" /\ ~More(buffer) THEN "closed" ELSE phase
          /\ written' = written /\ emitted' = emitted /\ accepted' = accepted /\ ansi' = ansi
          /\ redactor' = redactor /\ blocked' = blocked /\ late' = late
          /\ running' = running /\ faults' = faults
    BY <1>7 DEF FlushStored
  <2>2. a \in Attempt
    BY SendingIs
  <2>3. \A i \in DOMAIN chunks' : i \in Nat /\ chunks'[i] \in Chunk
    BY <1>0, <2>1, <2>2, InsertedType
  <2>4. Len(a.content.text) \in Nat
    BY <2>2 DEF Attempt, Chunk, Pieces
  <2>5. buffer' \in Buffer /\ Limits(buffer')
    BY <1>0, <2>1, <2>4, StoredKeeps
  <2>6. phase' \in {"open", "flushing", "closed"}
    BY <1>0, <2>1
  <2>. QED BY <1>0, <1>2, <2>1, <2>3, <2>5, <2>6, TypeNext
<1>8. CASE FlushFails
  <2>1. PICK a \in sending :
          /\ \/ chunks' = chunks /\ late' = late
             \/ chunks' = Inserted(a, chunks) /\ late' = late
             \/ late' = late \cup {a} /\ chunks' = chunks
          /\ buffer' = [buffer EXCEPT !.failing = TRUE, !.failed = TRUE]
          /\ sending' = {}
          /\ phase' = IF phase = "flushing" THEN "closed" ELSE phase
          /\ written' = written /\ emitted' = emitted /\ accepted' = accepted /\ ansi' = ansi
          /\ redactor' = redactor /\ blocked' = blocked /\ running' = running
    BY <1>8 DEF FlushFails
  <2>2. a \in Attempt
    BY SendingIs
  <2>3. \A i \in DOMAIN chunks' : i \in Nat /\ chunks'[i] \in Chunk
    BY <1>0, <2>1, <2>2, InsertedType
  <2>4. \A x \in late' : x \in Attempt
    BY <1>0, <2>1, <2>2
  <2>5. buffer' \in Buffer /\ Limits(buffer')
    BY <1>0, <2>1 DEF Buffer, Limits
  <2>6. phase' \in {"open", "flushing", "closed"}
    BY <1>0, <2>1
  <2>7. faults' \in 0 .. MaxFaults
    BY <1>0, <1>8, FaultType DEF FlushFails
  <2>. QED BY <1>0, <1>2, <2>1, <2>3, <2>4, <2>5, <2>6, <2>7, TypeNext
<1>9. ASSUME NEW a \in late, LateCommit(a)
      PROVE  LogTypeOK'
  <2>1. /\ chunks' = Inserted(a, chunks) /\ late' = late \ {a}
        /\ written' = written /\ emitted' = emitted /\ accepted' = accepted /\ ansi' = ansi
        /\ redactor' = redactor /\ buffer' = buffer /\ blocked' = blocked /\ sending' = sending
        /\ phase' = phase /\ running' = running /\ faults' = faults
    BY <1>9 DEF LateCommit
  <2>2. \A i \in DOMAIN chunks' : i \in Nat /\ chunks'[i] \in Chunk
    BY <1>0, <2>1, InsertedType
  <2>3. \A x \in late' : x \in Attempt
    BY <1>0, <2>1
  <2>4. sending' = {} \/ sending' = {[sequence |-> buffer'.sequence, content |-> buffer'.unsent]}
    BY <1>0, <2>1 DEF Current
  <2>. QED BY <1>0, <1>2, <2>1, <2>2, <2>3, <2>4, TypeNext
<1>10. CASE CloseTimeout \/ RunLost \/ UNCHANGED logVars
  <2>1. /\ buffer' = [buffer EXCEPT !.failed = TRUE] \/ buffer' = buffer
        /\ phase' = "closed" \/ phase' = phase
        /\ running' = FALSE \/ running' = running
        /\ Fault \/ faults' = faults
        /\ written' = written /\ emitted' = emitted /\ accepted' = accepted /\ ansi' = ansi
        /\ redactor' = redactor /\ blocked' = blocked /\ sending' = sending /\ chunks' = chunks
        /\ late' = late
    BY <1>10 DEF CloseTimeout, RunLost, logVars
  <2>2. /\ buffer' \in Buffer /\ Limits(buffer')
        /\ buffer'.unsent = buffer.unsent /\ buffer'.sequence = buffer.sequence
    BY <1>0, <2>1 DEF Buffer, Limits
  <2>3. faults' \in 0 .. MaxFaults
    BY <1>0, <2>1, FaultType
  <2>4. sending' = {} \/ sending' = {[sequence |-> buffer'.sequence, content |-> buffer'.unsent]}
    BY <1>0, <2>1, <2>2 DEF Current
  <2>. QED BY <1>0, <1>2, <2>1, <2>2, <2>3, <2>4, TypeNext
<1>. QED BY <1>3, <1>4, <1>5, <1>6, <1>7, <1>8, <1>9, <1>10 DEF LogNext

\* The types hold at first.
LEMMA TypeInit == LogInit => LogTypeOK
<1> SUFFICES ASSUME LogInit
             PROVE  LogTypeOK
  OBVIOUS
<1>1. /\ written = <<>> /\ emitted = <<>> /\ accepted = <<>>
      /\ ansi = "text" /\ redactor = NewStream
      /\ blocked = [w \in Writers |-> <<>>]
      /\ sending = {} /\ phase = "open" /\ chunks = <<>> /\ late = {}
      /\ running = TRUE /\ faults = 0
      /\ buffer = [pending |-> <<>>, unsent |-> NoChunk, sequence |-> 0, stored |-> 0,
                   dropped |-> 0, failing |-> FALSE, truncated |-> FALSE, failed |-> FALSE]
  BY DEF LogInit
<1>2. <<>> \in Seq(Bytes) /\ <<>> \in Seq(Char) /\ Len(<<>>) = 0 /\ <<>> \in Seq(HeldByte)
  OBVIOUS
<1>3. NoChunk \in Chunk /\ NoChunk.text = <<>>
  BY DEF NoChunk, Chunk, Pieces
<1>4. buffer \in Buffer /\ buffer.unsent = NoChunk /\ buffer.pending = <<>>
  BY <1>1, <1>3 DEF Buffer, Pieces
<1>5. Limits(buffer)
  BY <1>2, <1>3, <1>4, StepLogConstantsOK DEF Limits
<1>6. redactor.node \in Nodes /\ redactor.masking \in BOOLEAN /\ redactor.held \in Seq(HeldByte)
  BY <1>1, <1>2, NodesAre DEF NewStream
<1>7. blocked \in Waiters /\ ansi \in AnsiStates /\ faults \in 0 .. MaxFaults
  BY <1>1, <1>2, StepLogConstantsOK DEF Waiters, AnsiStates
<1>8. DOMAIN chunks = {}
  BY <1>1
<1>. QED BY <1>1, <1>2, <1>4, <1>5, <1>6, <1>7, <1>8, TypeMeans

----------------------------------------------------------------------------
(* Chunks are numbered without gaps.                                       *)

\* The first rows of a table without gaps, and one more.
LEMMA FirstNext ==
  ASSUME NEW k \in Nat, NEW rows, \A i \in Numbers(k + 1) : rows[i] \in Chunk
  PROVE  /\ First(rows, k) \in Seq(Chunk)
         /\ First(rows, k + 1) = Append(First(rows, k), rows[k])
<1>1. \A i \in 1 .. k + 1 : i - 1 \in Numbers(k + 1) /\ rows[i - 1] \in Chunk
  BY DEF Numbers
<1>2. (k + 1) - 1 = k /\ k + 1 \in 1 .. k + 1 /\ 1 .. k \subseteq 1 .. k + 1
  OBVIOUS
<1>3. First(rows, k) \in Seq(Chunk) /\ Len(First(rows, k)) = k
      /\ \A i \in 1 .. k : First(rows, k)[i] = rows[i - 1]
  BY <1>1, <1>2 DEF First
<1>4. First(rows, k + 1) \in Seq(Chunk) /\ Len(First(rows, k + 1)) = k + 1
      /\ \A i \in 1 .. k + 1 : First(rows, k + 1)[i] = rows[i - 1]
  BY <1>1, <1>2 DEF First
<1>5. rows[k] \in Chunk
  BY <1>1, <1>2
<1> DEFINE s == First(rows, k)
           t == First(rows, k + 1)
           c == rows[k]
<1>6. /\ s \in Seq(Chunk) /\ Len(s) = k /\ t \in Seq(Chunk) /\ Len(t) = k + 1 /\ c \in Chunk
      /\ t[k + 1] = c /\ \A i \in 1 .. k : t[i] = s[i]
  BY <1>2, <1>3, <1>4, <1>5
<1> HIDE DEF s, t, c
<1>7. t = Append(s, c)
  <2>1. Append(s, c) \in Seq(Chunk) /\ Len(Append(s, c)) = k + 1
    BY <1>6
  <2>2. \A i \in 1 .. k + 1 : t[i] = Append(s, c)[i]
    BY <1>6
  <2>. QED BY <1>6, <2>1, <2>2, SeqEqual
<1>. QED BY <1>6, <1>7 DEF s, t, c

\* A new row changes none that is there.
LEMMA NextRow ==
  ASSUME NEW k \in Nat, NEW rows, NEW c \in Chunk, DOMAIN rows = Numbers(k),
         \A i \in DOMAIN rows : rows[i] \in Chunk
  PROVE  LET new == WithNext(rows, k, c)
         IN  /\ DOMAIN new = Numbers(k + 1) /\ Count(new) = k + 1 /\ Count(rows) = k
             /\ new[k] = c /\ First(new, k) = First(rows, k)
             /\ First(new, k + 1) = Append(First(rows, k), c)
<1> DEFINE new == WithNext(rows, k, c)
<1>1. Numbers(k) \cup {k} = Numbers(k + 1) /\ k \notin Numbers(k)
  BY DEF Numbers
<1>2. DOMAIN new = Numbers(k + 1) /\ new[k] = c /\ \A i \in Numbers(k) : new[i] = rows[i]
  BY <1>1 DEF WithNext
<1> HIDE DEF new
<1>3. Count(new) = k + 1 /\ Count(rows) = k
  <2>1. k + 1 \in Nat
    OBVIOUS
  <2>. QED BY <1>2, <2>1, CountIs DEF Count
<1>4. First(new, k) = First(rows, k)
  <2>1. \A i \in 1 .. k : i - 1 \in Numbers(k)
    BY DEF Numbers
  <2>. QED BY <1>2, <2>1 DEF First
<1>5. \A i \in Numbers(k + 1) : new[i] \in Chunk
  BY <1>1, <1>2
<1>6. First(new, k + 1) = Append(First(new, k), new[k])
  BY <1>5, FirstNext
<1>. QED BY <1>2, <1>3, <1>4, <1>6 DEF new

\* The numbers follow each other, the flusher's is that of the next chunk or
\* of the last one stored, which is then the one it tries again; so is every
\* late attempt that could still store something.
FeedInv ==
  /\ Count(chunks) \in Nat /\ DOMAIN chunks = Numbers(Count(chunks))
  /\ Count(chunks) <= buffer.sequence + 1
  /\ running => buffer.sequence <= Count(chunks)
  /\ Count(chunks) = buffer.sequence + 1 =>
       chunks[buffer.sequence] = buffer.unsent /\ buffer.unsent # NoChunk
  /\ sending # {} => buffer.unsent # NoChunk
  /\ \A a \in late :
       /\ a.sequence <= buffer.sequence
       /\ a.sequence = buffer.sequence => a.content = buffer.unsent /\ buffer.unsent # NoChunk

\* What a step does to what is stored and buffered: the chunk of the buffer is
\* stored as the next one; or nothing but that; or the flusher learns of it.
StoresNext ==
  /\ running /\ running' = running
  /\ Count(chunks) = buffer.sequence /\ buffer.unsent # NoChunk
  /\ chunks' = WithNext(chunks, buffer.sequence, buffer.unsent)

Tries ==
  /\ buffer'.unsent = buffer.unsent /\ buffer'.sequence = buffer.sequence
  /\ buffer'.pending = buffer.pending /\ buffer'.dropped = buffer.dropped
  /\ buffer'.truncated = buffer.truncated
  /\ accepted' = accepted /\ emitted' = emitted /\ blocked' = blocked
  /\ sending' = {} \/ sending' = sending
  /\ chunks' = chunks \/ StoresNext
  /\ running' = running \/ (running /\ running' = FALSE /\ chunks' = chunks)
  /\ \A a \in late' : a \in late \/ a \in sending

Sends ==
  /\ accepted' = accepted /\ emitted' = emitted /\ blocked' = blocked
  /\ chunks' = chunks /\ late' = late /\ running' = running
  /\ sending = {} /\ buffer' = Filled(buffer) /\ buffer'.unsent # NoChunk

Learns ==
  /\ accepted' = accepted /\ emitted' = emitted /\ blocked' = blocked
  /\ late' = late /\ running' = running /\ sending # {} /\ sending' = {}
  /\ buffer'.unsent = NoChunk /\ buffer'.sequence = buffer.sequence + 1
  /\ buffer'.pending = buffer.pending /\ buffer'.dropped = buffer.dropped
  /\ buffer'.truncated = buffer.truncated
  /\ \/ chunks' = chunks /\ (running => Count(chunks) = buffer.sequence + 1)
     \/ StoresNext

\* An attempt at the chunk of the buffer, or at one before it, stores that
\* chunk as the next one or nothing.
LEMMA InsertIs ==
  ASSUME LogTypeOK, FeedInv, NEW a \in Attempt, a.sequence <= buffer.sequence,
         a.sequence = buffer.sequence => a.content = buffer.unsent /\ buffer.unsent # NoChunk,
         chunks' = Inserted(a, chunks), running' = running
  PROVE  \/ /\ chunks' = chunks
            /\ running /\ a.sequence = buffer.sequence => Count(chunks) = buffer.sequence + 1
         \/ StoresNext
<1> DEFINE q == buffer.sequence
           n == a.sequence
           m == Count(chunks)
<1>1. q \in Nat /\ n \in Nat /\ m \in Nat /\ DOMAIN chunks = Numbers(m) /\ m <= q + 1
      /\ (running => q <= m) /\ n <= q
  BY TypeMeans, BufferIs DEF FeedInv, Attempt
<1>2. CASE ~running \/ n \in DOMAIN chunks
  <2>1. chunks' = chunks
    BY <1>2 DEF Inserted
  <2>2. ASSUME running, n = q
        PROVE  m = q + 1
    <3>1. q \in Numbers(m) /\ q <= m
      BY <1>1, <1>2, <2>2
    <3> HIDE DEF q, n, m
    <3>2. q < m
      BY <1>1, <3>1 DEF Numbers
    <3>. QED BY <1>1, <3>2
  <2>. QED BY <2>1, <2>2
<1>3. CASE running /\ n \notin DOMAIN chunks
  <2>1. chunks' = WithNext(chunks, n, a.content)
    BY <1>3 DEF Inserted, WithNext
  <2>2. n = q /\ m = q
    <3>1. n \notin Numbers(m) /\ q <= m
      BY <1>1, <1>3
    <3> HIDE DEF q, n, m
    <3>2. m <= n
      BY <1>1, <3>1 DEF Numbers
    <3>. QED BY <1>1, <3>1, <3>2
  <2>. QED BY <1>3, <2>1, <2>2 DEF StoresNext
<1>. QED BY <1>2, <1>3

\* Every step is one of these.
LEMMA LogSteps ==
  ASSUME LogTypeOK, MaskInv, FeedInv, [LogNext]_logVars
  PROVE  (\E text \in Seq(Char) : Grows(text)) \/ Sends \/ Tries \/ Learns
<1>1. buffer \in Buffer /\ \A a \in late : a \in Attempt
  BY TypeMeans
<1>2. ASSUME NEW w \in Writers, NEW b \in Bytes, Write(w, b)
      PROVE  \E text \in Seq(Char) : Grows(text)
  BY <1>2, WriteGrows
<1>3. ASSUME NEW w \in Writers, Wake(w) \/ GiveUp(w)
      PROVE  \E text \in Seq(Char) : Grows(text)
  BY <1>3, WakeGrows
<1>4. CASE Close
  BY <1>4, CloseGrows
<1>5. CASE Flush
  <2>1. Sends
    BY <1>5 DEF Flush, Sends
  <2>. QED BY <2>1
<1>6. CASE FlushStored
  <2>1. PICK a \in sending :
          /\ chunks' = Inserted(a, chunks)
          /\ buffer' = [buffer EXCEPT !.unsent = NoChunk, !.sequence = @ + 1, !.failing = FALSE,
                                      !.stored = @ + Len(a.content.text)]
          /\ sending' = {}
          /\ emitted' = emitted /\ accepted' = accepted
          /\ blocked' = blocked /\ late' = late /\ running' = running
    BY <1>6 DEF FlushStored
  <2>2. a = Current /\ a \in Attempt
    BY SendingIs
  <2>3. a.sequence = buffer.sequence /\ a.content = buffer.unsent /\ buffer.unsent # NoChunk
        /\ a.sequence <= buffer.sequence
    BY <1>1, <2>1, <2>2, BufferIs DEF Current, FeedInv
  <2>4. \/ chunks' = chunks /\ (running => Count(chunks) = buffer.sequence + 1)
        \/ StoresNext
    BY <2>1, <2>2, <2>3, InsertIs
  <2>5. Len(a.content.text) \in Nat /\ Limits(buffer)
    BY <2>2, TypeMeans DEF Attempt, Chunk, Pieces
  <2>6. /\ buffer'.unsent = NoChunk /\ buffer'.sequence = buffer.sequence + 1
        /\ buffer'.pending = buffer.pending /\ buffer'.dropped = buffer.dropped
        /\ buffer'.truncated = buffer.truncated
    BY <1>1, <2>1, <2>5, StoredKeeps
  <2>7. Learns
    BY <2>1, <2>4, <2>6 DEF Learns
  <2>. QED BY <2>7
<1>7. CASE FlushFails
  <2>1. PICK a \in sending :
          /\ \/ chunks' = chunks /\ late' = late
             \/ chunks' = Inserted(a, chunks) /\ late' = late
             \/ late' = late \cup {a} /\ chunks' = chunks
          /\ buffer' = [buffer EXCEPT !.failing = TRUE, !.failed = TRUE]
          /\ sending' = {}
          /\ emitted' = emitted /\ accepted' = accepted /\ blocked' = blocked /\ running' = running
    BY <1>7 DEF FlushFails
  <2>2. a = Current /\ a \in Attempt
    BY SendingIs
  <2>3. a.sequence = buffer.sequence /\ a.content = buffer.unsent /\ buffer.unsent # NoChunk
        /\ a.sequence <= buffer.sequence
    BY <1>1, <2>1, <2>2, BufferIs DEF Current, FeedInv
  <2>4. chunks' = chunks \/ StoresNext
    BY <2>1, <2>2, <2>3, InsertIs
  <2>5. /\ buffer'.unsent = buffer.unsent /\ buffer'.sequence = buffer.sequence
        /\ buffer'.pending = buffer.pending /\ buffer'.dropped = buffer.dropped
        /\ buffer'.truncated = buffer.truncated
    BY <1>1, <2>1 DEF Buffer
  <2>6. \A x \in late' : x \in late \/ x \in sending
    BY <2>1
  <2>7. Tries
    BY <2>1, <2>4, <2>5, <2>6 DEF Tries
  <2>. QED BY <2>7
<1>8. ASSUME NEW a \in late, LateCommit(a)
      PROVE  Tries
  <2>1. /\ chunks' = Inserted(a, chunks) /\ late' = late \ {a}
        /\ emitted' = emitted /\ accepted' = accepted /\ buffer' = buffer /\ blocked' = blocked
        /\ sending' = sending /\ running' = running
    BY <1>8 DEF LateCommit
  <2>2. chunks' = chunks \/ StoresNext
    BY <1>1, <2>1, InsertIs DEF FeedInv
  <2>. QED BY <2>1, <2>2 DEF Tries
<1>9. CASE CloseTimeout \/ RunLost \/ UNCHANGED logVars
  <2>1. /\ buffer' = [buffer EXCEPT !.failed = TRUE] \/ buffer' = buffer
        /\ running' = running \/ (running /\ running' = FALSE)
        /\ emitted' = emitted /\ accepted' = accepted /\ blocked' = blocked /\ sending' = sending
        /\ chunks' = chunks /\ late' = late
    BY <1>9 DEF CloseTimeout, RunLost, logVars
  <2>2. /\ buffer'.unsent = buffer.unsent /\ buffer'.sequence = buffer.sequence
        /\ buffer'.pending = buffer.pending /\ buffer'.dropped = buffer.dropped
        /\ buffer'.truncated = buffer.truncated
    BY <1>1, <2>1 DEF Buffer
  <2>3. Tries
    BY <2>1, <2>2 DEF Tries
  <2>. QED BY <2>3
<1>. QED BY <1>2, <1>3, <1>4, <1>5, <1>6, <1>7, <1>8, <1>9 DEF LogNext


\* What no step of the writers changes for the flusher.
LEMMA SameFeed ==
  ASSUME FeedInv, sending' = sending \/ sending' = {}, chunks' = chunks,
         running' = running \/ running' = FALSE,
         buffer'.unsent = buffer.unsent, buffer'.sequence = buffer.sequence,
         \A a \in late' : a \in late \/ a \in sending, LogTypeOK
  PROVE  FeedInv'
<1>1. ASSUME NEW a \in late'
      PROVE  /\ a.sequence <= buffer.sequence
             /\ a.sequence = buffer.sequence => a.content = buffer.unsent /\ buffer.unsent # NoChunk
  <2>1. CASE a \in late
    BY <2>1 DEF FeedInv
  <2>2. CASE a \in sending
    <3>1. a = Current /\ buffer.sequence \in Nat
      BY <2>2, SendingIs, TypeMeans, BufferIs
    <3>. QED BY <2>2, <3>1 DEF Current, FeedInv
  <2>. QED BY <1>1, <2>1, <2>2
<1>. QED BY <1>1 DEF FeedInv

\* Every step keeps the numbers of the chunks.
LEMMA FeedStep ==
  ASSUME LogTypeOK, MaskInv, FeedInv, [LogNext]_logVars
  PROVE  FeedInv'
<1> DEFINE q == buffer.sequence
           m == Count(chunks)
<1>1. /\ q \in Nat /\ m \in Nat /\ DOMAIN chunks = Numbers(m) /\ m <= q + 1
      /\ (running => q <= m) /\ buffer \in Buffer /\ Limits(buffer) /\ buffer.unsent \in Chunk
      /\ \A i \in DOMAIN chunks : chunks[i] \in Chunk
      /\ \A a \in late : a.sequence \in Nat
  BY TypeMeans, BufferIs DEF FeedInv, Attempt
<1>2. ASSUME StoresNext
      PROVE  /\ DOMAIN chunks' = Numbers(q + 1) /\ Count(chunks') = q + 1
             /\ chunks'[q] = buffer.unsent /\ buffer.unsent # NoChunk
  <2>1. /\ m = q /\ chunks' = WithNext(chunks, q, buffer.unsent) /\ buffer.unsent # NoChunk
    BY <1>2 DEF StoresNext
  <2> HIDE DEF q
  <2>. QED BY <1>1, <2>1, NextRow
<1>3. ASSUME NEW text \in Seq(Char), Grows(text)
      PROVE  FeedInv'
  BY <1>3, SameFeed DEF Grows, Adds, SameChunk
<1>4. CASE Sends
  <2>1. /\ chunks' = chunks /\ late' = late /\ running' = running
        /\ buffer'.sequence = q /\ buffer'.unsent # NoChunk
        /\ buffer.unsent # NoChunk => buffer'.unsent = buffer.unsent
    BY <1>1, <1>4, FilledKeeps DEF Sends
  <2>. QED BY <2>1 DEF FeedInv
<1>5. CASE Tries
  <2>1. CASE chunks' = chunks
    BY <1>5, <2>1, SameFeed DEF Tries
  <2>2. CASE StoresNext
    <3>1. /\ buffer'.unsent = buffer.unsent /\ buffer'.sequence = q
      BY <1>5 DEF Tries
    <3>2. ASSUME NEW a \in late'
          PROVE  /\ a.sequence <= q
                 /\ a.sequence = q => a.content = buffer.unsent /\ buffer.unsent # NoChunk
      <4>1. CASE a \in late
        BY <4>1 DEF FeedInv
      <4>2. CASE a \in sending
        <5>1. a = Current
          BY <4>2, SendingIs
        <5>. QED BY <1>1, <4>2, <5>1 DEF Current, FeedInv
      <4>. QED BY <1>5, <3>2, <4>1, <4>2 DEF Tries
    <3> HIDE DEF q
    <3>3. q <= q + 1 /\ q + 1 \in Nat
      BY <1>1
    <3>. QED BY <1>2, <2>2, <3>1, <3>2, <3>3 DEF FeedInv, q
  <2>. QED BY <1>5, <2>1, <2>2 DEF Tries
<1>6. CASE Learns
  <2>1. /\ buffer'.unsent = NoChunk /\ buffer'.sequence = q + 1 /\ sending' = {}
        /\ running' = running /\ late' = late
        /\ \/ chunks' = chunks /\ (running => m = q + 1)
           \/ StoresNext
    BY <1>6 DEF Learns
  <2>2. /\ Count(chunks') \in Nat /\ DOMAIN chunks' = Numbers(Count(chunks'))
        /\ Count(chunks') <= q + 1 /\ (running => Count(chunks') = q + 1)
    <3>1. q + 1 \in Nat /\ q + 1 <= q + 1
      BY <1>1
    <3>. QED BY <1>1, <1>2, <2>1, <3>1
  <2>3. \A a \in late' : a.sequence <= q /\ a.sequence \in Nat
    BY <1>1, <2>1 DEF FeedInv
  <2> HIDE DEF q
  <2>4. /\ \A a \in late' : a.sequence <= q + 1 /\ a.sequence # q + 1
        /\ \A c \in Nat : c <= q + 1 => c <= (q + 1) + 1 /\ c # (q + 1) + 1
        /\ q + 1 \in Nat
    BY <1>1, <2>3
  <2>5. /\ Count(chunks') <= buffer'.sequence + 1 /\ Count(chunks') # buffer'.sequence + 1
        /\ (running' => buffer'.sequence <= Count(chunks'))
    BY <2>1, <2>2, <2>4
  <2>. QED BY <2>1, <2>2, <2>4, <2>5 DEF FeedInv
<1>. QED BY <1>3, <1>4, <1>5, <1>6, LogSteps

\* The chunks and the buffer hold all of the output while the run lasts, and
\* the chunks the beginning of it ever after.
OrderInv ==
  /\ running =>
       Text(First(chunks, buffer.sequence)) \o (buffer.unsent.text \o buffer.pending) = accepted
  /\ \E rest \in Seq(Char) : accepted = Text(First(chunks, Count(chunks))) \o rest

\* Until the cap, output that is not in the log is counted.
DropInv ==
  running /\ ~buffer.truncated =>
    Len(emitted) = Len(accepted) + Noted(First(chunks, buffer.sequence)) + buffer.unsent.noted
                   + buffer.dropped + Waiting(blocked)

\* While the run lasts, the rows before the flusher's number are all there.
LEMMA StoredRows ==
  ASSUME LogTypeOK, FeedInv
  PROVE  /\ buffer.sequence \in Nat /\ Count(chunks) \in Nat
         /\ First(chunks, Count(chunks)) \in Seq(Chunk)
         /\ Text(First(chunks, Count(chunks))) \in Seq(Char)
         /\ running => /\ First(chunks, buffer.sequence) \in Seq(Chunk)
                       /\ Text(First(chunks, buffer.sequence)) \in Seq(Char)
                       /\ Noted(First(chunks, buffer.sequence)) \in Nat
         /\ Count(chunks) = buffer.sequence + 1 =>
              First(chunks, Count(chunks)) = Append(First(chunks, buffer.sequence), buffer.unsent)
         /\ StoresNext =>
              /\ Count(chunks') = buffer.sequence + 1
              /\ First(chunks', buffer.sequence) = First(chunks, buffer.sequence)
              /\ First(chunks', buffer.sequence + 1)
                   = Append(First(chunks, buffer.sequence), buffer.unsent)
<1> DEFINE q == buffer.sequence
           m == Count(chunks)
<1>1. /\ q \in Nat /\ m \in Nat /\ DOMAIN chunks = Numbers(m) /\ (running => q <= m)
      /\ buffer.unsent \in Chunk /\ \A i \in DOMAIN chunks : chunks[i] \in Chunk
  BY TypeMeans, BufferIs DEF FeedInv
<1>2. ASSUME NEW k \in Nat, k <= m
      PROVE  /\ First(chunks, k) \in Seq(Chunk) /\ Text(First(chunks, k)) \in Seq(Char)
             /\ Noted(First(chunks, k)) \in Nat
  <2> HIDE DEF m
  <2>1. \A i \in 1 .. k : i - 1 \in Numbers(m)
    BY <1>1, <1>2 DEF Numbers
  <2>2. First(chunks, k) \in Seq(Chunk)
    BY <1>1, <1>2, <2>1 DEF First
  <2>. QED BY <1>1, <2>2, TextAppend, NotedNat
<1>3. m <= m
  BY <1>1
<1>4. ASSUME m = q + 1
      PROVE  First(chunks, m) = Append(First(chunks, q), buffer.unsent)
  <2>1. chunks[q] = buffer.unsent
    BY <1>4 DEF FeedInv
  <2> HIDE DEF q
  <2>2. First(chunks, q + 1) = Append(First(chunks, q), chunks[q])
    BY <1>1, <1>4, FirstNext
  <2>. QED BY <1>4, <2>1, <2>2
<1>5. ASSUME StoresNext
      PROVE  /\ Count(chunks') = q + 1 /\ First(chunks', q) = First(chunks, q)
             /\ First(chunks', q + 1) = Append(First(chunks, q), buffer.unsent)
  <2>1. m = q /\ chunks' = WithNext(chunks, q, buffer.unsent)
    BY <1>5 DEF StoresNext
  <2> HIDE DEF q
  <2>. QED BY <1>1, <2>1, NextRow
<1>. QED BY <1>1, <1>2, <1>3, <1>4, <1>5


\* Joining pieces is associative.
LEMMA Associates ==
  ASSUME NEW a \in Seq(Char), NEW b \in Seq(Char), NEW c \in Seq(Char)
  PROVE  (a \o b) \o c = a \o (b \o c) /\ a \o b \in Seq(Char)
OBVIOUS

\* Of four pieces.
Regrouped(a, b, c, t) == (a \o (b \o c)) \o t = a \o (b \o (c \o t))

\* And so with one piece more.
LEMMA Regroups ==
  ASSUME NEW a \in Seq(Char), NEW b \in Seq(Char), NEW c \in Seq(Char), NEW t \in Seq(Char)
  PROVE  Regrouped(a, b, c, t)
BY DEF Regrouped

\* Every step keeps the log in order.
LEMMA OrderStep ==
  ASSUME LogTypeOK, MaskInv, FeedInv, OrderInv, [LogNext]_logVars
  PROVE  OrderInv'
<1> DEFINE q == buffer.sequence
           m == Count(chunks)
           x == buffer.unsent.text
           y == buffer.pending
           d == Text(First(chunks, q))
           e == Text(First(chunks, m))
<1>1. /\ x \in Seq(Char) /\ y \in Seq(Char) /\ accepted \in Seq(Char) /\ q \in Nat
      /\ buffer \in Buffer /\ Limits(buffer) /\ buffer.unsent \in Chunk
  BY TypeMeans, BufferIs
<1>2. /\ (running => d \in Seq(Char)) /\ e \in Seq(Char)
      /\ (running => First(chunks, q) \in Seq(Chunk))
  BY StoredRows
<1>3. PICK rest \in Seq(Char) : accepted = e \o rest
  BY DEF OrderInv
<1>4. running => d \o (x \o y) = accepted
  BY DEF OrderInv
<1>5. running => Text(Append(First(chunks, q), buffer.unsent)) = d \o x
  BY <1>1, <1>2, TextAppend
<1>6. ASSUME running
      PROVE  (d \o x) \o y = accepted
  <2>1. d \in Seq(Char) /\ x \in Seq(Char) /\ y \in Seq(Char)
    BY <1>1, <1>2, <1>6
  <2>2. d \o (x \o y) = accepted
    BY <1>4, <1>6
  <2> HIDE DEF d, x, y
  <2>3. (d \o x) \o y = d \o (x \o y)
    BY <2>1, Associates
  <2>. QED BY <2>2, <2>3, Zenon
<1>7. ASSUME NEW text \in Seq(Char), Grows(text)
      PROVE  OrderInv'
  <2>1. /\ chunks' = chunks /\ running' = running
        /\ buffer'.unsent = buffer.unsent /\ buffer'.sequence = q
    BY <1>7 DEF Grows, Adds, SameChunk
  <2>2. PICK t \in Seq(Char) : buffer'.pending = y \o t /\ accepted' = accepted \o t
    BY <1>7 DEF Grows, Adds
  <2> HIDE DEF q, m, x, y, d, e
  <2>3. ASSUME running
        PROVE  d \o (x \o (y \o t)) = accepted \o t
    <3>1. x \in Seq(Char) /\ y \in Seq(Char) /\ d \in Seq(Char) /\ t \in Seq(Char)
      BY <1>1, <1>2, <2>3
    <3>2. Regrouped(d, x, y, t)
      BY <3>1, Regroups
    <3>3. (d \o (x \o y)) \o t = d \o (x \o (y \o t))
      BY <3>2, Zenon DEF Regrouped
    <3>4. d \o (x \o y) = accepted
      BY <1>4, <2>3
    <3>. QED BY <3>3, <3>4, Zenon
  <2>4. accepted \o t = e \o (rest \o t) /\ rest \o t \in Seq(Char)
    BY <1>2, <1>3
  <2>. QED BY <2>1, <2>2, <2>3, <2>4 DEF OrderInv, q, m, x, y, d, e
<1>8. CASE Sends
  <2>1. /\ chunks' = chunks /\ running' = running /\ accepted' = accepted
        /\ buffer' = Filled(buffer)
    BY <1>8 DEF Sends
  <2>2. buffer'.sequence = q /\ buffer'.unsent.text \o buffer'.pending = x \o y
    BY <1>1, <2>1, FilledKeeps
  <2> HIDE DEF x, y
  <2>3. running => Text(First(chunks', buffer'.sequence))
                     \o (buffer'.unsent.text \o buffer'.pending) = accepted'
    BY <1>4, <2>1, <2>2
  <2>4. accepted' = Text(First(chunks', Count(chunks'))) \o rest
    BY <1>3, <2>1
  <2>. QED BY <2>1, <2>3, <2>4 DEF OrderInv
<1>9. ASSUME StoresNext
      PROVE  /\ Count(chunks') = q + 1 /\ Text(First(chunks', q)) = d
             /\ Text(First(chunks', q + 1)) = d \o x /\ running
  BY <1>5, <1>9, StoredRows DEF StoresNext
<1>10. ASSUME m = q + 1, running
       PROVE  Text(First(chunks, q + 1)) = d \o x
  BY <1>5, <1>10, StoredRows
<1>11. CASE Tries
  <2>1. /\ buffer'.unsent.text = x /\ buffer'.sequence = q /\ buffer'.pending = y
        /\ accepted' = accepted
        /\ running' => running
        /\ chunks' = chunks \/ StoresNext
    BY <1>11 DEF Tries
  <2> HIDE DEF q, m, x, y, d, e
  <2>2. CASE chunks' = chunks
    <3>1. running' => Text(First(chunks', buffer'.sequence))
                        \o (buffer'.unsent.text \o buffer'.pending) = accepted'
      BY <1>4, <2>1, <2>2, Zenon DEF d
    <3>2. accepted' = Text(First(chunks', Count(chunks'))) \o rest
      BY <1>3, <2>1, <2>2, Zenon DEF e, m
    <3>. QED BY <3>1, <3>2 DEF OrderInv
  <2>3. CASE StoresNext
    <3> DEFINE dn == Text(First(chunks', q))
               en == Text(First(chunks', q + 1))
    <3>0. dn = d /\ en = d \o x /\ running /\ Count(chunks') = q + 1
      BY <1>9, <2>3
    <3>1. accepted' = Text(First(chunks', Count(chunks'))) \o y
      <4> HIDE DEF en
      <4>1. accepted' = en \o y
        BY <1>6, <2>1, <3>0, Zenon
      <4>. QED BY <3>0, <4>1, Zenon DEF en
    <3>2. running' => Text(First(chunks', buffer'.sequence))
                        \o (buffer'.unsent.text \o buffer'.pending) = accepted'
      <4>1. d \o (x \o y) = accepted
        BY <1>4, <3>0
      <4> HIDE DEF dn
      <4>2. dn \o (x \o y) = accepted'
        BY <2>1, <3>0, <4>1, Zenon
      <4>. QED BY <2>1, <4>2, Zenon DEF dn
    <3>. QED BY <1>1, <3>1, <3>2 DEF OrderInv
  <2>. QED BY <2>1, <2>2, <2>3
<1>12. CASE Learns
  <2>1. /\ buffer'.unsent = NoChunk /\ buffer'.sequence = q + 1 /\ buffer'.pending = y
        /\ accepted' = accepted /\ running' = running
        /\ \/ chunks' = chunks /\ (running => m = q + 1)
           \/ StoresNext
    BY <1>12 DEF Learns
  <2>2. <<>> \o y = y /\ buffer'.unsent.text = <<>>
    BY <1>1, <2>1 DEF NoChunk
  <2> HIDE DEF q, m, x, y, d, e
  <2>3. running => Text(First(chunks', q + 1)) = d \o x
    BY <1>9, <1>10, <2>1
  <2>4. running' => Text(First(chunks', q + 1)) \o (<<>> \o y) = accepted
    BY <1>6, <2>1, <2>2, <2>3
  <2>5. \E r \in Seq(Char) : accepted = Text(First(chunks', Count(chunks'))) \o r
    <3>1. CASE chunks' = chunks
      BY <1>3, <3>1 DEF m, e
    <3>2. CASE StoresNext
      BY <1>1, <1>6, <1>9, <3>2
    <3>. QED BY <2>1, <3>1, <3>2
  <2>. QED BY <2>1, <2>2, <2>4, <2>5 DEF OrderInv
<1>. QED BY <1>7, <1>8, <1>11, <1>12, LogSteps

\* Every step accounts for the bytes it drops.
LEMMA DropStep ==
  ASSUME LogTypeOK, MaskInv, FeedInv, DropInv, [LogNext]_logVars
  PROVE  DropInv'
<1> DEFINE q == buffer.sequence
           u == buffer.unsent.noted
           d == buffer.dropped
           n == Noted(First(chunks, q))
           w == Waiting(blocked)
           l == Len(accepted)
           e == Len(emitted)
<1>1. /\ u \in Nat /\ d \in Nat /\ q \in Nat /\ l \in Nat /\ e \in Nat /\ w \in Nat
      /\ buffer \in Buffer /\ Limits(buffer) /\ buffer.unsent \in Chunk
      /\ accepted \in Seq(Char)
  <2>1. emitted \in Seq(Char) /\ accepted \in Seq(Char) /\ blocked \in Waiters
        /\ buffer \in Buffer /\ Limits(buffer)
    BY TypeMeans
  <2>. QED BY <2>1, BufferIs, WaitingNat
<1>2. running => n \in Nat /\ First(chunks, q) \in Seq(Chunk)
  BY StoredRows
<1>3. running /\ ~buffer.truncated => e = l + n + u + d + w
  BY DEF DropInv
<1>4. ASSUME NEW text \in Seq(Char), Grows(text)
      PROVE  DropInv'
  <2>1. /\ chunks' = chunks /\ running' = running
        /\ buffer'.unsent = buffer.unsent /\ buffer'.sequence = q
        /\ buffer' \in Buffer /\ emitted' \in Seq(Char) /\ blocked' \in Waiters
        /\ Len(emitted') + w = e + Waiting(blocked') + Len(text)
    BY <1>4 DEF Grows, Adds, SameChunk
  <2>2. PICK t \in Seq(Char) :
          /\ accepted' = accepted \o t
          /\ ~buffer'.truncated => ~buffer.truncated /\ Len(t) + (buffer'.dropped - d) = Len(text)
    BY <1>4 DEF Grows, Adds
  <2>3. Len(accepted') = l + Len(t)
    BY <1>1, <2>2
  <2>4. Len(t) \in Nat /\ Len(text) \in Nat /\ buffer'.dropped \in Nat /\ Len(emitted') \in Nat
        /\ Waiting(blocked') \in Nat
    BY <1>4, <2>1, <2>2, BufferIs, WaitingNat
  <2> DEFINE lt == Len(t)
             lx == Len(text)
             dn == buffer'.dropped
             en == Len(emitted')
             wn == Waiting(blocked')
             ln == Len(accepted')
  <2>5. ASSUME running', ~buffer'.truncated
        PROVE  en = ln + n + u + dn + wn
    <3>1. running /\ e = l + n + u + d + w /\ lt + (dn - d) = lx /\ en + w = e + wn + lx
          /\ ln = l + lt
      BY <1>3, <2>1, <2>2, <2>3, <2>5
    <3>2. lt \in Nat /\ lx \in Nat /\ dn \in Nat /\ en \in Nat /\ wn \in Nat /\ n \in Nat
      BY <1>2, <2>4, <3>1
    <3> HIDE DEF u, d, n, w, l, e, lt, lx, dn, en, wn, ln
    <3>. QED BY <1>1, <3>1, <3>2
  <2> HIDE DEF q, u, d, w, l, e
  <2>. QED BY <2>1, <2>5 DEF DropInv, q, u
<1>5. CASE Sends
  <2>1. /\ chunks' = chunks /\ running' = running /\ accepted' = accepted /\ emitted' = emitted
        /\ blocked' = blocked /\ buffer' = Filled(buffer)
    BY <1>5 DEF Sends
  <2>2. /\ buffer'.sequence = q /\ buffer'.unsent.noted + buffer'.dropped = u + d
        /\ buffer'.truncated = buffer.truncated /\ buffer' \in Buffer
    BY <1>1, <2>1, FilledKeeps
  <2>3. buffer'.unsent.noted \in Nat /\ buffer'.dropped \in Nat
    BY <2>2, BufferIs
  <2>4. ASSUME running, ~buffer.truncated
        PROVE  e = l + n + buffer'.unsent.noted + buffer'.dropped + w
    <3> DEFINE un == buffer'.unsent.noted
               dn == buffer'.dropped
    <3>1. e = l + n + u + d + w /\ n \in Nat /\ un \in Nat /\ dn \in Nat /\ un + dn = u + d
      BY <1>2, <1>3, <2>2, <2>3, <2>4
    <3> HIDE DEF u, d, n, w, l, e, un, dn
    <3>2. e = l + n + un + dn + w
      BY <1>1, <3>1
    <3>. QED BY <3>2 DEF un, dn
  <2>. QED BY <2>1, <2>2, <2>4 DEF DropInv
<1>6. ASSUME StoresNext
      PROVE  /\ Noted(First(chunks', q)) = n /\ Noted(First(chunks', q + 1)) = n + u
  <2>1. running
    BY <1>6 DEF StoresNext
  <2>. QED BY <1>1, <1>2, <1>6, <2>1, StoredRows, NotedAppend
<1>7. CASE Tries
  <2>1. /\ buffer'.unsent.noted = u /\ buffer'.sequence = q /\ buffer'.dropped = d
        /\ buffer'.truncated = buffer.truncated
        /\ accepted' = accepted /\ emitted' = emitted /\ blocked' = blocked
        /\ running' => running
        /\ chunks' = chunks \/ StoresNext
    BY <1>7 DEF Tries
  <2>2. Noted(First(chunks', q)) = n
    BY <1>6, <2>1
  <2>. QED BY <1>3, <2>1, <2>2 DEF DropInv
<1>8. CASE Learns
  <2>1. /\ buffer'.unsent = NoChunk /\ buffer'.sequence = q + 1 /\ buffer'.dropped = d
        /\ buffer'.truncated = buffer.truncated
        /\ accepted' = accepted /\ emitted' = emitted /\ blocked' = blocked
        /\ running' = running
        /\ \/ chunks' = chunks /\ (running => Count(chunks) = q + 1)
           \/ StoresNext
    BY <1>8 DEF Learns
  <2>2. buffer'.unsent.noted = 0
    BY <2>1 DEF NoChunk
  <2>3. running => Noted(First(chunks', q + 1)) = n + u
    <3>1. CASE chunks' = chunks /\ (running => Count(chunks) = q + 1)
      BY <1>1, <1>2, <3>1, StoredRows, NotedAppend
    <3>2. CASE StoresNext
      BY <1>6, <3>2
    <3>. QED BY <2>1, <3>1, <3>2
  <2>4. ASSUME running, ~buffer.truncated
        PROVE  e = l + Noted(First(chunks', q + 1)) + 0 + d + w
    <3> HIDE DEF u, d, n, w, l, e
    <3>1. e = l + n + u + d + w /\ n \in Nat /\ Noted(First(chunks', q + 1)) = n + u
      BY <1>2, <1>3, <2>3, <2>4
    <3>. QED BY <1>1, <3>1
  <2> HIDE DEF q, d, w, l, e
  <2>. QED BY <2>1, <2>2, <2>4 DEF DropInv, q, d, w, l, e
<1>. QED BY <1>4, <1>5, <1>7, <1>8, LogSteps


\* At first nothing is stored, buffered or lost.
LEMMA StoredInit ==
  ASSUME LogInit
  PROVE  FeedInv /\ OrderInv /\ DropInv
<1>1. /\ emitted = <<>> /\ accepted = <<>> /\ blocked = [w \in Writers |-> <<>>]
      /\ sending = {} /\ chunks = <<>> /\ late = {} /\ running = TRUE
      /\ buffer.pending = <<>> /\ buffer.unsent = NoChunk /\ buffer.sequence = 0
      /\ buffer.dropped = 0
  BY DEF LogInit
<1>2. 0 \in Nat /\ DOMAIN chunks = {} /\ Numbers(0) = {}
  BY <1>1 DEF Numbers
<1>3. Count(chunks) = 0
  BY <1>2, CountIs DEF Count
<1>4. First(chunks, 0) = <<>>
  BY <1>1 DEF First
<1>5. FeedInv
  BY <1>1, <1>2, <1>3 DEF FeedInv
<1>6. NoChunk.text = <<>> /\ NoChunk.noted = 0 /\ <<>> \in Seq(Char) /\ <<>> \o <<>> = <<>>
      /\ <<>> \o (<<>> \o <<>>) = <<>> /\ Len(<<>>) = 0
  BY DEF NoChunk
<1>7. Text(First(chunks, 0)) = <<>>
  BY <1>4, TextNone
<1>8. OrderInv
  <2>1. Text(First(chunks, buffer.sequence)) \o (buffer.unsent.text \o buffer.pending) = accepted
    BY <1>1, <1>6, <1>7
  <2>2. accepted = Text(First(chunks, Count(chunks))) \o <<>>
    BY <1>1, <1>3, <1>6, <1>7
  <2>. QED BY <1>6, <2>1, <2>2 DEF OrderInv
<1>9. Noted(First(chunks, 0)) = 0
  BY <1>4, NotedNone
<1>10. Waiting(blocked) = 0
  <2>1. blocked \in Waiters /\ \A w \in Writers : blocked[w] = <<>>
    BY <1>1, <1>6 DEF Waiters
  <2>. QED BY <2>1, WaitingNone
<1>11. DropInv
  BY <1>1, <1>6, <1>9, <1>10 DEF DropInv
<1>. QED BY <1>5, <1>8, <1>11

\* What is inductive about the log as it is stored.
LogInv == LogTypeOK /\ MaskInv /\ FeedInv /\ OrderInv /\ DropInv

\* It holds in every state.
LEMMA LogInvariant == LogSpec => []LogInv
<1>1. LogInit => LogInv
  BY TypeInit, MaskInvInit, StoredInit DEF LogInv
<1>2. LogInv /\ [LogNext]_logVars => LogInv'
  BY TypeStep, MaskInvStep, FeedStep, OrderStep, DropStep DEF LogInv
<1>. QED BY <1>1, <1>2, PTL DEF LogSpec

\* The log is the rows that are there.
LEMMA LogIsFirst == StoredLog = First(chunks, Count(chunks))
BY DEF StoredLog, First, Count

\* The beginning of the first rows.
LEMMA FirstCut ==
  ASSUME NEW rows, NEW m \in Nat, NEW k \in Nat, k <= m, First(rows, m) \in Seq(Chunk)
  PROVE  SubSeq(First(rows, m), 1, k) = First(rows, k) /\ Len(First(rows, m)) = m
<1> DEFINE s == First(rows, m)
<1>1. Len(s) = m /\ \A i \in 1 .. m : s[i] = rows[i - 1]
  BY DEF First
<1>2. \A i \in 1 .. k : i \in 1 .. m
  OBVIOUS
<1>3. k \in 0 .. Len(s)
  BY <1>1
<1> HIDE DEF s
<1>4. /\ SubSeq(s, 1, k) \in Seq(Chunk) /\ Len(SubSeq(s, 1, k)) = k
      /\ \A i \in 1 .. k : SubSeq(s, 1, k)[i] = s[i]
  BY <1>3, Cut DEF s
<1>5. SubSeq(s, 1, k) = [i \in 1 .. k |-> SubSeq(s, 1, k)[i]]
  BY <1>4
<1>6. SubSeq(s, 1, k) = First(rows, k)
  BY <1>1, <1>2, <1>4, <1>5 DEF First
<1>. QED BY <1>1, <1>6 DEF s

\* The order of the log follows from the invariant,
LEMMA OrderMeans ==
  ASSUME LogInv
  PROVE  StoredInOrder
<1> DEFINE q == buffer.sequence
           m == Count(chunks)
           x == buffer.unsent.text
           y == buffer.pending
           d == Text(First(chunks, q))
           e == Text(First(chunks, m))
<1>1. /\ x \in Seq(Char) /\ y \in Seq(Char) /\ q \in Nat
  BY TypeMeans, BufferIs DEF LogInv
<1>2. /\ (running => d \in Seq(Char)) /\ e \in Seq(Char) /\ m \in Nat
      /\ (running => q <= m) /\ First(chunks, m) \in Seq(Chunk)
  BY StoredRows DEF LogInv, FeedInv
<1>3. Gapless
  BY DEF Gapless, LogInv, FeedInv, Count, Numbers
<1>4. IsPrefix(Text(StoredLog), accepted)
  <2>1. PICK rest \in Seq(Char) : accepted = e \o rest
    BY DEF LogInv, OrderInv
  <2> HIDE DEF e
  <2>2. IsPrefix(e, e \o rest)
    BY <1>2, PrefixOfConcat
  <2>3. IsPrefix(e, accepted)
    BY <2>1, <2>2, Zenon
  <2>. QED BY <2>3, LogIsFirst DEF e
<1>5. ASSUME running
      PROVE  (Text(SubSeq(StoredLog, 1, q)) \o x) \o y = accepted
  <2>1. d \in Seq(Char) /\ x \in Seq(Char) /\ y \in Seq(Char)
    BY <1>1, <1>2, <1>5
  <2>2. d \o (x \o y) = accepted
    BY <1>5 DEF LogInv, OrderInv
  <2>3. SubSeq(StoredLog, 1, q) = First(chunks, q)
    <3>1. q <= m /\ q \in Nat
      BY <1>1, <1>2, <1>5
    <3> HIDE DEF q, m
    <3>2. SubSeq(First(chunks, m), 1, q) = First(chunks, q)
      BY <1>2, <3>1, FirstCut
    <3>. QED BY <3>2, LogIsFirst DEF m
  <2> HIDE DEF x, y, d
  <2>4. (d \o x) \o y = d \o (x \o y)
    BY <2>1, Associates
  <2>5. (d \o x) \o y = accepted
    BY <2>2, <2>4, Zenon
  <2>. QED BY <2>3, <2>5, Zenon DEF d
<1>. QED BY <1>3, <1>4, <1>5 DEF StoredInOrder

\* and so does the account of what was dropped.
LEMMA DropMeans ==
  ASSUME LogInv
  PROVE  DropsAccounted
<1> SUFFICES ASSUME running, ~buffer.truncated
             PROVE  LET done == SubSeq(StoredLog, 1, buffer.sequence) \o <<buffer.unsent>>
                    IN  Len(emitted) = Len(Text(done)) + Noted(done) + Len(buffer.pending)
                                       + buffer.dropped + Waiting(blocked)
  BY DEF DropsAccounted, Waiting
<1> DEFINE q == buffer.sequence
           m == Count(chunks)
           c == buffer.unsent
           r == First(chunks, q)
           x == buffer.unsent.text
           y == buffer.pending
           done == SubSeq(StoredLog, 1, q) \o <<c>>
<1>1. /\ x \in Seq(Char) /\ y \in Seq(Char) /\ q \in Nat /\ c \in Chunk /\ c.noted \in Nat
      /\ buffer.dropped \in Nat /\ blocked \in Waiters
      /\ Text(r) \in Seq(Char) /\ r \in Seq(Chunk) /\ m \in Nat /\ q <= m
      /\ First(chunks, m) \in Seq(Chunk) /\ Noted(r) \in Nat
  BY TypeMeans, BufferIs, StoredRows DEF LogInv, FeedInv
<1>2. done = Append(r, c)
  <2>1. SubSeq(StoredLog, 1, q) = r
    <3> HIDE DEF q, m
    <3>1. SubSeq(First(chunks, m), 1, q) = First(chunks, q)
      BY <1>1, FirstCut
    <3>. QED BY <3>1, LogIsFirst DEF m
  <2> HIDE DEF r, c
  <2>2. r \o <<c>> = Append(r, c)
    BY <1>1
  <2>. QED BY <2>1, <2>2
<1>3. Text(done) = Text(r) \o x /\ Noted(done) = Noted(r) + c.noted
  <2> HIDE DEF r
  <2>. QED BY <1>1, <1>2, TextAppend, NotedAppend
<1>4. Text(r) \o (x \o y) = accepted
  BY DEF LogInv, OrderInv
<1>5. Len(accepted) = Len(Text(done)) + Len(y) /\ Len(Text(done)) \in Nat /\ Len(y) \in Nat
      /\ Len(accepted) \in Nat
  <2> DEFINE t == Text(r)
  <2>1. t \in Seq(Char)
    BY <1>1
  <2> HIDE DEF t, x, y
  <2>2. x \o y \in Seq(Char) /\ Len(x \o y) = Len(x) + Len(y) /\ Len(x) \in Nat /\ Len(y) \in Nat
        /\ Len(t) \in Nat /\ Len(t \o x) = Len(t) + Len(x)
    BY <1>1, <2>1
  <2>3. Len(t \o (x \o y)) = Len(t) + (Len(x) + Len(y))
    BY <2>1, <2>2
  <2>4. Len(accepted) = Len(t \o (x \o y)) /\ Len(Text(done)) = Len(t \o x)
    BY <1>3, <1>4 DEF t
  <2>. QED BY <2>2, <2>3, <2>4
<1>6. Len(emitted) = Len(accepted) + Noted(r) + c.noted + buffer.dropped + Waiting(blocked)
  BY DEF LogInv, DropInv
<1>7. Waiting(blocked) \in Nat
  BY <1>1, WaitingNat
<1>8. Len(emitted) = Len(Text(done)) + Noted(done) + Len(y) + buffer.dropped + Waiting(blocked)
  <2> DEFINE a == Len(accepted)
             b == Len(Text(done))
             f == Len(y)
             n == Noted(r)
             u == c.noted
             w == Waiting(blocked)
             g == buffer.dropped
             h == Noted(done)
  <2>1. /\ a = b + f /\ h = n + u /\ a \in Nat /\ b \in Nat /\ f \in Nat /\ n \in Nat /\ u \in Nat
        /\ w \in Nat /\ g \in Nat /\ Len(emitted) = a + n + u + g + w
    BY <1>1, <1>3, <1>5, <1>6, <1>7
  <2> HIDE DEF a, b, f, n, u, w, g, h
  <2>2. Len(emitted) = b + h + f + g + w
    BY <2>1
  <2>. QED BY <2>2 DEF b, h, f, g, w
<1>. QED BY <1>8

\* LogSafe: chunks hold the buffered output in order and once, whatever
\* attempts fail, are repeated or arrive late, and until the cap every byte
\* that Write gives out is stored, buffered, waiting or counted by a note.
THEOREM LogAlwaysSafe == LogSpec => []LogSafe
<1>1. LogInv => LogSafe
  BY OrderMeans, DropMeans DEF LogSafe, LogInv
<1>. QED BY <1>1, LogInvariant, PTL

\* ImplementsFeed: for a reader step_logs is a feed that only grows at its
\* end, and not once the run has ended.
THEOREM FeedImplemented == LogSpec => ImplementsFeed
<1>1. LogInit => Feed!FeedInit
  <2> SUFFICES ASSUME LogInit
               PROVE  Feed!FeedInit
    OBVIOUS
  <2>1. chunks = <<>> /\ running = TRUE /\ DOMAIN chunks = {} /\ Numbers(0) = {} /\ 0 \in Nat
    BY DEF LogInit, Numbers
  <2>2. Count(chunks) = 0
    BY <2>1, CountIs DEF Count
  <2>3. First(chunks, 0) = <<>>
    BY DEF First
  <2>. QED BY <2>1, <2>2, <2>3, LogIsFirst DEF Feed!FeedInit
<1>2. LogInv /\ [LogNext]_logVars => [Feed!StoreChunk \/ Feed!EndRun]_(Feed!feedVars)
  <2> SUFFICES ASSUME LogInv, [LogNext]_logVars
               PROVE  Feed!StoreChunk \/ Feed!EndRun \/ UNCHANGED Feed!feedVars
    OBVIOUS
  <2>1. CASE chunks' = chunks /\ running' = running
    BY <2>1 DEF Feed!feedVars, StoredLog
  <2>2. CASE chunks' = chunks /\ running /\ running' = FALSE
    BY <2>2 DEF Feed!EndRun, StoredLog
  <2>3. CASE StoresNext
    <3> DEFINE q == buffer.sequence
               new == First(chunks', q + 1)
               old == First(chunks, q)
    <3>1. /\ q \in Nat /\ Count(chunks) = q /\ Count(chunks') = q + 1
          /\ new = Append(old, buffer.unsent) /\ old \in Seq(Chunk) /\ buffer.unsent \in Chunk
          /\ running /\ running' = running /\ First(chunks', q) = old
      BY <2>3, StoredRows, TypeMeans, BufferIs DEF LogInv, StoresNext
    <3>2. new \in Seq(Chunk)
      BY <3>1
    <3>3. StoredLog = old /\ StoredLog' = new
      BY <3>1 DEF StoredLog, First, Count
    <3> HIDE DEF q
    <3>4. Len(old) = q /\ Len(new) = q + 1 /\ SubSeq(new, 1, q) = First(chunks', q)
      BY <3>1, <3>2, FirstCut
    <3>. QED BY <3>1, <3>3, <3>4 DEF Feed!StoreChunk
  <2>4. \/ chunks' = chunks /\ running' = running
        \/ chunks' = chunks /\ running /\ running' = FALSE
        \/ StoresNext
    BY LogSteps DEF LogInv, Grows, Sends, Tries, Learns, StoresNext
  <2>. QED BY <2>1, <2>2, <2>3, <2>4
<1>. QED BY <1>1, <1>2, LogInvariant, PTL DEF LogSpec, ImplementsFeed, Feed!FeedSpec
=============================================================================
