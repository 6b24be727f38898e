------------------------- MODULE PushPolicy_proofs --------------------------
(***************************************************************************)
(* Theorems about PushPolicy, for any people, names, commits, pipelines,   *)
(* rules and pushes.  First the patterns of RefPolicy: what MatchPattern   *)
(* matches, which pattern SelectPattern takes and which rule or target is  *)
(* found; the folds they are written with are unrolled one element at a    *)
(* time.  Then what the mutation lock keeps true between what a push reads *)
(* and what it does.                                                       *)
(***************************************************************************)
EXTENDS PushPolicy, FiniteSetTheorems, SequenceTheorems, WellFoundedInduction, TLAPS

----------------------------------------------------------------------------
(* Induction over the numbers, and over what is computed from sequences.   *)

\* A set of numbers that is not empty has a least element.
LEMMA NatLeast ==
  ASSUME NEW T, T \subseteq Nat, T # {}
  PROVE  \E x \in T : \A y \in T : x <= y
<1> DEFINE R == {ss \in Nat \X Nat : ss[1] < ss[2]}
<1>1. IsWellFoundedOn(R, Nat)
  BY NatLessThanWellFounded DEF OpToRel
<1>2. \E x \in T : \A y \in T : ~(<<y, x>> \in R)
  <2> HIDE DEF R
  <2>. QED BY <1>1, WFMin
<1>3. PICK x \in T : \A y \in T : ~(<<y, x>> \in R)
  BY <1>2
<1>4. ASSUME NEW y \in T
      PROVE  x <= y
  <2>1. x \in Nat /\ y \in Nat /\ ~(<<y, x>> \in R)
    BY <1>3
  <2>2. ~(y < x)
    BY <2>1, Zenon
  <2>. QED BY <2>1, <2>2
<1>. QED BY <1>3, <1>4

\* A set that has 0 and the successor of every number it has, has them all.
LEMMA NatSet ==
  ASSUME NEW S, 0 \in S, \A n \in Nat : n \in S => n + 1 \in S
  PROVE  \A n \in Nat : n \in S
<1> DEFINE T == {n \in Nat : n \notin S}
<1> SUFFICES ASSUME T # {} PROVE FALSE
  OBVIOUS
<1>1. PICK x \in T : \A y \in T : x <= y
  <2>1. T \subseteq Nat
    OBVIOUS
  <2> HIDE DEF T
  <2>. QED BY <2>1, NatLeast
<1>2. x # 0 /\ x - 1 \in Nat /\ x - 1 \in S
  BY <1>1
<1>. QED BY <1>1, <1>2

\* A set of numbers below a bound has a greatest element.
LEMMA NatMost ==
  ASSUME NEW T, T \subseteq Nat, T # {}, NEW k \in Nat, \A x \in T : x <= k
  PROVE  \E x \in T : \A y \in T : y <= x
<1> DEFINE U == {j \in Nat : j <= k /\ k - j \in T}
<1>1. U # {}
  <2>1. PICK x \in T : TRUE
    OBVIOUS
  <2>2. k - x \in Nat /\ k - x <= k /\ k - (k - x) = x
    BY <2>1
  <2>. QED BY <2>1, <2>2
<1>2. PICK j \in U : \A i \in U : j <= i
  <2>1. U \subseteq Nat
    OBVIOUS
  <2> HIDE DEF U
  <2>. QED BY <1>1, <2>1, NatLeast
<1>3. ASSUME NEW y \in T
      PROVE  y <= k - j
  <2>1. k - y \in Nat /\ k - y <= k /\ k - (k - y) = y
    BY <1>3
  <2>2. k - y \in U
    BY <2>1
  <2>3. j <= k - y /\ j \in Nat /\ y \in Nat
    BY <1>2, <2>2
  <2>. QED BY <2>3
<1>. QED BY <1>2, <1>3

\* Max of a set of numbers.
LEMMA MaxIn ==
  ASSUME NEW k \in Nat, NEW u \in SUBSET (1 .. k), u # {}
  PROVE  Max(u) \in u /\ Max(u) \in 1 .. k /\ u \ {Max(u)} \in SUBSET (1 .. (k - 1))
<1>1. u \subseteq Nat /\ \A x \in u : x <= k
  OBVIOUS
<1>2. \E x \in u : \A y \in u : y <= x
  BY <1>1, NatMost
<1>3. \E x \in u : \A y \in u : x >= y
  BY <1>1, <1>2
<1>4. Max(u) \in u /\ \A y \in u : Max(u) >= y
  <2> DEFINE m == CHOOSE x \in u : \A y \in u : x >= y
  <2>1. m \in u /\ \A y \in u : m >= y
    BY <1>3
  <2>. QED BY <2>1 DEF Max
<1> DEFINE m == Max(u)
<1>5. m \in u /\ m \in 1 .. k /\ \A y \in u : m >= y
  BY <1>4
<1> HIDE DEF m
<1>6. u \ {m} \in SUBSET (1 .. (k - 1))
  <2>1. ASSUME NEW y \in u, y # m
        PROVE  y \in 1 .. (k - 1)
    BY <1>5, <2>1
  <2>. QED BY <2>1
<1>. QED BY <1>5, <1>6 DEF m

\* The folds of RefPolicy by name, so that one induction serves them.
FoldStep(kind, ctx, v, x) ==
  IF kind = "parts" THEN IF x = Star THEN Append(v, <<>>)
                                     ELSE [v EXCEPT ![Len(v)] = Append(@, x)]
  ELSE IF kind = "search" THEN After(v, x)
  ELSE IF kind = "kind" THEN IF x.kind = ctx THEN Append(v, x) ELSE v
  ELSE IF \/ v # 0 /\ ~Wild(ctx.patterns[v])
          \/ ~MatchPattern(ctx.patterns[x], ctx.name)
         THEN v
       ELSE IF \/ ~Wild(ctx.patterns[x]) \/ v = 0
               \/ MoreSpecific(ctx.patterns[x], ctx.patterns[v])
         THEN x
       ELSE v

Folded(kind, ctx, base, s) == FoldLeft(LAMBDA v, x : FoldStep(kind, ctx, v, x), base, s)

\* Parts is a fold,
LEMMA PartsFolds ==
  ASSUME NEW pattern
  PROVE  Parts(pattern) = Folded("parts", 0, << <<>> >>, pattern)
BY DEF Parts, Folded, FoldStep, FoldLeft, MapThenFoldSet

\* the search for the parts is one,
LEMMA SearchFolds ==
  ASSUME NEW base, NEW parts
  PROVE  FoldLeft(After, base, parts) = Folded("search", 0, base, parts)
BY DEF Folded, FoldStep, FoldLeft, MapThenFoldSet

\* OfKind is one,
LEMMA OfKindFolds ==
  ASSUME NEW kind, NEW seq
  PROVE  OfKind(kind, seq) = Folded("kind", kind, <<>>, seq)
BY DEF OfKind, Folded, FoldStep, FoldLeft, MapThenFoldSet

\* and SelectPattern is one.
LEMMA SelectFolds ==
  ASSUME NEW patterns, NEW name
  PROVE  SelectPattern(patterns, name) =
           Folded("best", [patterns |-> patterns, name |-> name], 0,
                  [i \in 1 .. Len(patterns) |-> i])
BY DEF SelectPattern, Folded, FoldStep, FoldLeft, MapThenFoldSet

\* One step of a fold, and the function it computes with.
FoldAt(f, kind, ctx, base, s, u) ==
  IF u = {} THEN base ELSE FoldStep(kind, ctx, f[u \ {Max(u)}], s[Max(u)])
Folds(f, kind, ctx, base, s, k) == f = [u \in SUBSET (1 .. k) |-> FoldAt(f, kind, ctx, base, s, u)]

\* What such a function is at a set of positions.
LEMMA FoldsAt ==
  ASSUME NEW f, NEW kind, NEW ctx, NEW base, NEW s, NEW k, Folds(f, kind, ctx, base, s, k),
         NEW u \in SUBSET (1 .. k)
  PROVE  f[u] = FoldAt(f, kind, ctx, base, s, u)
BY DEF Folds

\* A fold computes with such a function.
LEMMA FoldedIs ==
  ASSUME NEW kind, NEW ctx, NEW base, NEW s, NEW n, DOMAIN s = 1 .. n
  PROVE  Folded(kind, ctx, base, s) = (CHOOSE f : Folds(f, kind, ctx, base, s, n))[1 .. n]
BY DEF Folded, FoldLeft, MapThenFoldSet, Folds, FoldAt

\* The function a fold computes with exists.
LEMMA FoldFcn ==
  ASSUME NEW kind, NEW ctx, NEW base, NEW s, NEW n \in Nat
  PROVE  \E f : Folds(f, kind, ctx, base, s, n)
<1> DEFINE S == {k \in Nat : \E f : Folds(f, kind, ctx, base, s, k)}
<1>1. 0 \in S
  <2>1. \A u \in SUBSET (1 .. 0) : u = {}
    OBVIOUS
  <2>2. Folds([u \in SUBSET (1 .. 0) |-> base], kind, ctx, base, s, 0)
    BY <2>1 DEF Folds, FoldAt
  <2>. QED BY <2>2
<1>2. ASSUME NEW k \in Nat, k \in S
      PROVE  k + 1 \in S
  <2>1. PICK f : Folds(f, kind, ctx, base, s, k)
    BY <1>2
  <2> DEFINE g == [u \in SUBSET (1 .. k + 1) |-> FoldAt(f, kind, ctx, base, s, u)]
  <2>2. ASSUME NEW u \in SUBSET (1 .. k)
        PROVE  g[u] = f[u]
    <3>1. u \in SUBSET (1 .. k + 1)
      OBVIOUS
    <3>. QED BY <2>1, <3>1, FoldsAt
  <2>3. ASSUME NEW u \in SUBSET (1 .. k + 1)
        PROVE  FoldAt(f, kind, ctx, base, s, u) = FoldAt(g, kind, ctx, base, s, u)
    <3>1. CASE u = {}
      BY <3>1 DEF FoldAt
    <3>2. CASE u # {}
      <4>1. u \ {Max(u)} \in SUBSET (1 .. (k + 1 - 1))
        BY <3>2, MaxIn
      <4>2. u \ {Max(u)} \in SUBSET (1 .. k)
        BY <4>1
      <4>3. f[u \ {Max(u)}] = g[u \ {Max(u)}]
        BY <2>2, <4>2
      <4> HIDE DEF g
      <4>. QED BY <3>2, <4>3 DEF FoldAt
    <3>. QED BY <3>1, <3>2
  <2>4. Folds(g, kind, ctx, base, s, k + 1)
    BY <2>3 DEF Folds
  <2> HIDE DEF g
  <2>. QED BY <2>4
<1> HIDE DEF S
<1>3. n \in S
  BY <1>1, <1>2, NatSet
<1>. QED BY <1>3 DEF S

\* A fold over a longer sequence takes one more step.
LEMMA FoldAppend ==
  ASSUME NEW kind, NEW ctx, NEW base, NEW E, NEW s \in Seq(E), NEW x \in E
  PROVE  Folded(kind, ctx, base, Append(s, x)) = FoldStep(kind, ctx, Folded(kind, ctx, base, s), x)
<1> DEFINE n == Len(s)
           t == Append(s, x)
           f == CHOOSE h : Folds(h, kind, ctx, base, s, n)
           g == CHOOSE h : Folds(h, kind, ctx, base, t, n + 1)
<1>1. /\ n \in Nat /\ n + 1 \in Nat /\ DOMAIN s = 1 .. n /\ DOMAIN t = 1 .. n + 1
      /\ t[n + 1] = x /\ \A i \in 1 .. n : t[i] = s[i]
  OBVIOUS
<1>2. Folds(f, kind, ctx, base, s, n) /\ Folds(g, kind, ctx, base, t, n + 1)
  <2> HIDE DEF n, t
  <2>1. (\E h : Folds(h, kind, ctx, base, s, n)) /\ \E h : Folds(h, kind, ctx, base, t, n + 1)
    BY <1>1, FoldFcn, Zenon
  <2>. QED BY <2>1
<1>3. Folded(kind, ctx, base, s) = f[1 .. n] /\ Folded(kind, ctx, base, t) = g[1 .. n + 1]
  <2>1. Folded(kind, ctx, base, s) = f[1 .. n]
    BY <1>1, FoldedIs
  <2>2. Folded(kind, ctx, base, t) = g[1 .. n + 1]
    <3> HIDE DEF n, t, f, g
    <3>0. DOMAIN t = 1 .. n + 1
      BY <1>1
    <3>1. Folded(kind, ctx, base, t)
            = (CHOOSE h : Folds(h, kind, ctx, base, t, n + 1))[1 .. n + 1]
      BY <3>0, FoldedIs, Zenon
    <3>. QED BY <3>1 DEF g
  <2>. QED BY <2>1, <2>2
<1> HIDE DEF f, g, t
<1>4. ASSUME NEW u \in SUBSET (1 .. n)
      PROVE  f[u] = g[u]
  <2> DEFINE S == {k \in Nat : k <= n => \A v \in SUBSET (1 .. k) : f[v] = g[v]}
  <2>0. \A v \in SUBSET (1 .. n) :
          /\ f[v] = FoldAt(f, kind, ctx, base, s, v)
          /\ g[v] = FoldAt(g, kind, ctx, base, t, v)
    <3> TAKE v \in SUBSET (1 .. n)
    <3>1. v \in SUBSET (1 .. n + 1)
      BY <1>1
    <3>. QED BY <1>2, <3>1, FoldsAt
  <2>1. 0 \in S
    <3>1. \A v \in SUBSET (1 .. 0) : v = {} /\ v \in SUBSET (1 .. n)
      OBVIOUS
    <3>. QED BY <2>0, <3>1 DEF FoldAt
  <2>2. ASSUME NEW k \in Nat, k \in S
        PROVE  k + 1 \in S
    <3>0. ASSUME k + 1 <= n, NEW v \in SUBSET (1 .. k + 1)
          PROVE  f[v] = g[v]
      <4>1. v \in SUBSET (1 .. n)
        BY <1>1, <3>0
      <4>2. CASE v = {}
        BY <2>0, <4>1, <4>2 DEF FoldAt
      <4>3. CASE v # {}
        <5>1. Max(v) \in 1 .. k + 1 /\ v \ {Max(v)} \in SUBSET (1 .. (k + 1 - 1))
          BY <4>3, MaxIn
        <5>2. Max(v) \in 1 .. n /\ v \ {Max(v)} \in SUBSET (1 .. k) /\ k <= n
          BY <1>1, <3>0, <5>1
        <5>3. f[v \ {Max(v)}] = g[v \ {Max(v)}] /\ t[Max(v)] = s[Max(v)]
          BY <1>1, <2>2, <5>2
        <5>. QED BY <2>0, <4>1, <4>3, <5>3 DEF FoldAt
      <4>. QED BY <4>2, <4>3
    <3>. QED BY <3>0
  <2> HIDE DEF S
  <2>3. n \in S
    BY <1>1, <2>1, <2>2, NatSet
  <2>. QED BY <1>1, <2>3 DEF S
<1>5. Max(1 .. n + 1) = n + 1 /\ (1 .. n + 1) \ {n + 1} = 1 .. n /\ 1 .. n + 1 # {}
  <2> DEFINE u == 1 .. n + 1
             m == CHOOSE y \in u : \A z \in u : y >= z
  <2>1. n + 1 \in u /\ \A z \in u : n + 1 >= z
    BY <1>1
  <2>2. m \in u /\ \A z \in u : m >= z
    BY <2>1
  <2>3. m = n + 1
    BY <1>1, <2>1, <2>2
  <2>. QED BY <1>1, <2>3 DEF Max
<1>6. g[1 .. n + 1] = FoldAt(g, kind, ctx, base, t, 1 .. n + 1)
  BY <1>2, FoldsAt
<1>7. f[1 .. n] = g[1 .. n]
  BY <1>4
<1> HIDE DEF n
<1>. QED BY <1>1, <1>3, <1>5, <1>6, <1>7 DEF FoldAt, t

\* A fold of nothing is its base.
LEMMA FoldEmpty ==
  ASSUME NEW kind, NEW ctx, NEW base
  PROVE  Folded(kind, ctx, base, <<>>) = base
<1>1. DOMAIN <<>> = 1 .. 0 /\ 1 .. 0 = {}
  OBVIOUS
<1> DEFINE f == CHOOSE h : Folds(h, kind, ctx, base, <<>>, 0)
<1>2. Folds(f, kind, ctx, base, <<>>, 0)
  <2>1. \E h : Folds(h, kind, ctx, base, <<>>, 0)
    BY FoldFcn
  <2>. QED BY <2>1
<1>3. Folded(kind, ctx, base, <<>>) = f[1 .. 0]
  BY <1>1, FoldedIs
<1> HIDE DEF f
<1>4. f[1 .. 0] = FoldAt(f, kind, ctx, base, <<>>, 1 .. 0)
  BY <1>2, FoldsAt
<1>. QED BY <1>1, <1>3, <1>4 DEF FoldAt

----------------------------------------------------------------------------
(* Sequences.                                                              *)

\* What SubSeq returns.
LEMMA PieceIs ==
  ASSUME NEW E, NEW s \in Seq(E), NEW m \in Nat, NEW n \in Nat,
         1 <= m, m <= n + 1, n <= Len(s)
  PROVE  /\ SubSeq(s, m, n) \in Seq(E) /\ Len(SubSeq(s, m, n)) = n - m + 1
         /\ \A i \in 1 .. n - m + 1 : SubSeq(s, m, n)[i] = s[m + i - 1]
<1>1. \A i \in m .. n : s[i] \in E
  OBVIOUS
<1>2. n - m + 1 = IF m <= n THEN n - m + 1 ELSE 0
  OBVIOUS
<1>. QED BY <1>1, <1>2, SubSeqProperties

\* The last element,
LEMMA LastIs ==
  ASSUME NEW E, NEW s \in Seq(E), Len(s) > 0
  PROVE  Last(s) = s[Len(s)] /\ Last(s) \in E /\ s[Len(s)] \in E /\ s[1] \in E
BY DEF Last

\* what comes before it,
LEMMA FrontIs ==
  ASSUME NEW E, NEW s \in Seq(E), Len(s) > 0
  PROVE  /\ Front(s) \in Seq(E) /\ Len(Front(s)) = Len(s) - 1
         /\ \A i \in 1 .. Len(s) - 1 : Front(s)[i] = s[i]
<1> DEFINE n == Len(s) - 1
<1>1. n \in Nat /\ 1 \in Nat /\ 1 <= 1 /\ 1 <= n + 1 /\ n <= Len(s) /\ n - 1 + 1 = n
  OBVIOUS
<1>2. Front(s) = SubSeq(s, 1, n)
  BY DEF Front
<1> HIDE DEF n
<1>3. /\ SubSeq(s, 1, n) \in Seq(E) /\ Len(SubSeq(s, 1, n)) = n - 1 + 1
      /\ \A i \in 1 .. n - 1 + 1 : SubSeq(s, 1, n)[i] = s[1 + i - 1]
  BY <1>1, PieceIs
<1>4. \A i \in 1 .. n : 1 + i - 1 = i
  OBVIOUS
<1>. QED BY <1>1, <1>2, <1>3, <1>4 DEF n

\* what comes after the first,
LEMMA TailIs ==
  ASSUME NEW E, NEW s \in Seq(E), Len(s) > 0
  PROVE  /\ Tail(s) \in Seq(E) /\ Len(Tail(s)) = Len(s) - 1
         /\ \A i \in 1 .. Len(s) - 1 : Tail(s)[i] = s[i + 1]
OBVIOUS

\* one element more,
LEMMA AppendIs ==
  ASSUME NEW E, NEW s \in Seq(E), NEW x \in E
  PROVE  /\ Append(s, x) \in Seq(E) /\ Len(Append(s, x)) = Len(s) + 1
         /\ Append(s, x)[Len(s) + 1] = x
         /\ \A i \in 1 .. Len(s) : Append(s, x)[i] = s[i]
OBVIOUS

\* and another last element.
LEMMA PutIs ==
  ASSUME NEW E, NEW s \in Seq(E), Len(s) > 0, NEW x \in E
  PROVE  /\ [s EXCEPT ![Len(s)] = x] \in Seq(E) /\ Len([s EXCEPT ![Len(s)] = x]) = Len(s)
         /\ [s EXCEPT ![Len(s)] = x][Len(s)] = x
         /\ \A i \in 1 .. Len(s) - 1 : [s EXCEPT ![Len(s)] = x][i] = s[i]
OBVIOUS

\* Front and Tail of a sequence.
LEMMA FrontTail ==
  ASSUME NEW E, NEW s \in Seq(E), Len(s) > 1
  PROVE  /\ Tail(Front(s)) \in Seq(E) /\ Front(Tail(s)) = Tail(Front(s))
         /\ Tail(s) = Append(Tail(Front(s)), Last(s))
<1> DEFINE n == Len(s)
           f == Front(s)
           t == Tail(s)
           a == Tail(f)
           b == Front(t)
           c == Append(a, s[n])
<1>1. n \in Nat /\ n > 1 /\ n > 0 /\ n - 1 > 0
  OBVIOUS
<1>2. /\ f \in Seq(E) /\ Len(f) = n - 1 /\ \A i \in 1 .. n - 1 : f[i] = s[i]
      /\ t \in Seq(E) /\ Len(t) = n - 1 /\ \A i \in 1 .. n - 1 : t[i] = s[i + 1]
  BY <1>1, FrontIs, TailIs
<1>3. Last(s) = s[n] /\ s[n] \in E
  BY <1>1, LastIs
<1> HIDE DEF f, t, n
<1>4. /\ a \in Seq(E) /\ Len(a) = n - 2 /\ \A i \in 1 .. n - 2 : a[i] = s[i + 1]
      /\ b \in Seq(E) /\ Len(b) = n - 2 /\ \A i \in 1 .. n - 2 : b[i] = s[i + 1]
  <2>1. Len(f) > 0 /\ Len(t) > 0 /\ n - 1 - 1 = n - 2
    BY <1>1, <1>2
  <2>2. a \in Seq(E) /\ Len(a) = n - 2 /\ \A i \in 1 .. n - 2 : a[i] = f[i + 1]
    BY <1>2, <2>1, TailIs
  <2>3. b \in Seq(E) /\ Len(b) = n - 2 /\ \A i \in 1 .. n - 2 : b[i] = t[i]
    <3>1. /\ Front(t) \in Seq(E) /\ Len(Front(t)) = Len(t) - 1
          /\ \A i \in 1 .. Len(t) - 1 : Front(t)[i] = t[i]
      BY <1>2, <2>1, FrontIs
    <3>2. Len(t) - 1 = n - 2
      BY <1>2, <2>1
    <3>. QED BY <3>1, <3>2
  <2>4. \A i \in 1 .. n - 2 : i + 1 \in 1 .. n - 1 /\ i \in 1 .. n - 1
    BY <1>1
  <2> HIDE DEF a, b
  <2>. QED BY <1>2, <2>2, <2>3, <2>4
<1> HIDE DEF a, b
<1>5. a = b
  BY <1>4, SeqEqual
<1>6. c \in Seq(E) /\ Len(c) = n - 1 /\ \A i \in 1 .. n - 1 : c[i] = s[i + 1]
  <2>1. c \in Seq(E) /\ Len(c) = n - 2 + 1 /\ c[n - 2 + 1] = s[n]
        /\ \A i \in 1 .. n - 2 : c[i] = a[i]
    BY <1>3, <1>4, AppendIs
  <2> HIDE DEF c
  <2>2. n - 2 + 1 = n - 1 /\ n - 1 + 1 = n
    BY <1>1
  <2>3. \A i \in 1 .. n - 1 : i = n - 1 \/ i \in 1 .. n - 2
    BY <1>1
  <2>. QED BY <1>4, <2>1, <2>2, <2>3
<1> HIDE DEF c
<1>7. c = t
  BY <1>2, <1>6, SeqEqual
<1>. QED BY <1>3, <1>4, <1>5, <1>7 DEF n, f, t, a, b, c

\* Front forgets the last element.
LEMMA FrontOf ==
  ASSUME NEW E, NEW s \in Seq(E), NEW x \in E
  PROVE  /\ Front(Append(s, x)) = s
         /\ Len(s) > 0 => Front([s EXCEPT ![Len(s)] = x]) = Front(s)
<1> DEFINE n == Len(s)
           a == Append(s, x)
           f == Front(a)
<1>1. n \in Nat
  OBVIOUS
<1>2. a \in Seq(E) /\ Len(a) = n + 1 /\ \A i \in 1 .. n : a[i] = s[i]
  BY AppendIs
<1> HIDE DEF a
<1>3. f \in Seq(E) /\ Len(f) = n /\ \A i \in 1 .. n : f[i] = a[i]
  <2>1. Len(a) > 0 /\ n + 1 - 1 = n
    BY <1>1, <1>2
  <2> HIDE DEF n
  <2>2. /\ Front(a) \in Seq(E) /\ Len(Front(a)) = Len(a) - 1
        /\ \A i \in 1 .. Len(a) - 1 : Front(a)[i] = a[i]
    BY <1>2, <2>1, FrontIs
  <2>3. Len(a) - 1 = n
    BY <1>1, <1>2, <2>1
  <2>. QED BY <2>2, <2>3
<1> HIDE DEF f
<1>4. f = s
  BY <1>2, <1>3, SeqEqual
<1>5. ASSUME n > 0
      PROVE  Front([s EXCEPT ![n] = x]) = Front(s)
  <2> DEFINE m == [s EXCEPT ![n] = x]
             g == Front(m)
             h == Front(s)
  <2>1. m \in Seq(E) /\ Len(m) = n /\ \A i \in 1 .. n - 1 : m[i] = s[i]
    BY <1>5, PutIs
  <2> HIDE DEF m
  <2>2. g \in Seq(E) /\ Len(g) = n - 1 /\ \A i \in 1 .. n - 1 : g[i] = m[i]
    BY <1>5, <2>1, FrontIs
  <2>3. h \in Seq(E) /\ Len(h) = n - 1 /\ \A i \in 1 .. n - 1 : h[i] = s[i]
    BY <1>5, FrontIs
  <2> HIDE DEF g, h, n
  <2>4. g = h
    BY <2>1, <2>2, <2>3, SeqEqual
  <2>. QED BY <2>4 DEF g, h, m
<1>. QED BY <1>4, <1>5 DEF n, f, a

----------------------------------------------------------------------------
(* Patterns and names.                                                     *)

\* One character of the pattern takes its part of the name.
Takes(pattern, name, at, i) ==
  IF pattern[i] = Star THEN at[i - 1] <= at[i]
  ELSE at[i] = at[i - 1] + 1 /\ name[at[i]] = pattern[i]

\* The first i characters of the pattern match the first j of the name.
Reach(pattern, name, i, j) ==
  \E at \in [0 .. i -> 0 .. Len(name)] :
    at[0] = 0 /\ at[i] = j /\ \A k \in 1 .. i : Takes(pattern, name, at, k)

\* A pattern matches a name as a whole.
LEMMA MatchesReach ==
  ASSUME NEW pattern, NEW name
  PROVE  Matches(pattern, name) <=> Reach(pattern, name, Len(pattern), Len(name))
BY DEF Matches, Reach, Takes

\* No character matches none of the name, and nothing else.
LEMMA ReachZero ==
  ASSUME NEW pattern, NEW name \in Seq(Chars), NEW j
  PROVE  Reach(pattern, name, 0, j) <=> j = 0
<1>1. 0 \in 0 .. Len(name)
  OBVIOUS
<1>2. [x \in 0 .. 0 |-> 0] \in [0 .. 0 -> 0 .. Len(name)]
  BY <1>1
<1>3. ASSUME j = 0
      PROVE  Reach(pattern, name, 0, j)
  <2> DEFINE at == [x \in 0 .. 0 |-> 0]
  <2>1. at[0] = 0 /\ at \in [0 .. 0 -> 0 .. Len(name)]
    BY <1>2
  <2>2. \A k \in 1 .. 0 : Takes(pattern, name, at, k)
    OBVIOUS
  <2> HIDE DEF at
  <2>. QED BY <1>3, <2>1, <2>2 DEF Reach
<1>. QED BY <1>3 DEF Reach

\* What the next character adds.
Adds(pattern, name, i, k, j) ==
  IF pattern[i] = Star THEN k <= j ELSE j = k + 1 /\ name[j] = pattern[i]

\* A longer part of a pattern matches what its last character adds.
LEMMA ReachNext ==
  ASSUME NEW pattern, NEW name \in Seq(Chars), NEW i \in Nat, NEW j \in 0 .. Len(name)
  PROVE  Reach(pattern, name, i + 1, j) <=>
           \E k \in 0 .. Len(name) :
             Reach(pattern, name, i, k) /\ Adds(pattern, name, i + 1, k, j)
<1> DEFINE D == 0 .. Len(name)
<1>1. ASSUME Reach(pattern, name, i + 1, j)
      PROVE  \E k \in D : Reach(pattern, name, i, k) /\ Adds(pattern, name, i + 1, k, j)
  <2>1. PICK at \in [0 .. i + 1 -> D] :
               /\ at[0] = 0 /\ at[i + 1] = j
               /\ \A k \in 1 .. i + 1 : Takes(pattern, name, at, k)
    BY <1>1 DEF Reach
  <2> DEFINE to == [x \in 0 .. i |-> at[x]]
  <2>2. to \in [0 .. i -> D] /\ to[0] = 0 /\ to[i] = at[i] /\ at[i] \in D
    BY <2>1
  <2>3. ASSUME NEW k \in 1 .. i
        PROVE  Takes(pattern, name, to, k)
    <3>1. to[k] = at[k] /\ to[k - 1] = at[k - 1] /\ Takes(pattern, name, at, k)
      BY <2>1
    <3> HIDE DEF to
    <3>. QED BY <3>1 DEF Takes
  <2>4. Adds(pattern, name, i + 1, at[i], j)
    <3>1. Takes(pattern, name, at, i + 1) /\ i + 1 - 1 = i
      BY <2>1
    <3>. QED BY <2>1, <3>1 DEF Takes, Adds
  <2> HIDE DEF to
  <2>. QED BY <2>2, <2>3, <2>4 DEF Reach
<1>2. ASSUME NEW k \in D, Reach(pattern, name, i, k), Adds(pattern, name, i + 1, k, j)
      PROVE  Reach(pattern, name, i + 1, j)
  <2>1. PICK at \in [0 .. i -> D] :
               /\ at[0] = 0 /\ at[i] = k
               /\ \A x \in 1 .. i : Takes(pattern, name, at, x)
    BY <1>2 DEF Reach
  <2> DEFINE to == [x \in 0 .. i + 1 |-> IF x = i + 1 THEN j ELSE at[x]]
  <2>2. to \in [0 .. i + 1 -> D] /\ to[0] = 0 /\ to[i + 1] = j /\ to[i] = k
    BY <2>1
  <2>3. ASSUME NEW x \in 1 .. i + 1
        PROVE  Takes(pattern, name, to, x)
    <3>1. CASE x = i + 1
      <4>1. x - 1 = i
        BY <3>1
      <4> HIDE DEF to
      <4>. QED BY <1>2, <2>2, <3>1, <4>1 DEF Takes, Adds
    <3>2. CASE x # i + 1
      <4>1. to[x] = at[x] /\ to[x - 1] = at[x - 1] /\ Takes(pattern, name, at, x)
        BY <2>1, <3>2
      <4> HIDE DEF to
      <4>. QED BY <4>1 DEF Takes
    <3>. QED BY <3>1, <3>2
  <2> HIDE DEF to
  <2>. QED BY <2>2, <2>3 DEF Reach
<1>. QED BY <1>1, <1>2

\* The letters at place i of the pattern occur at place o of the name.
Occurs(pattern, name, i, l, o) == \A k \in 1 .. l : name[o + k] = pattern[i + k]

\* Letters match themselves.
LEMMA ReachLetters ==
  ASSUME NEW pattern, NEW name \in Seq(Chars), NEW i \in Nat, NEW l \in Nat,
         \A k \in 1 .. l : pattern[i + k] # Star, NEW j \in 0 .. Len(name)
  PROVE  Reach(pattern, name, i + l, j) <=>
           l <= j /\ Reach(pattern, name, i, j - l) /\ Occurs(pattern, name, i, l, j - l)
<1> DEFINE D == 0 .. Len(name)
           Good(m, y) == Reach(pattern, name, i + m, y) <=>
                           /\ m <= y /\ Reach(pattern, name, i, y - m)
                           /\ Occurs(pattern, name, i, m, y - m)
           S == {m \in Nat : m <= l => \A y \in D : Good(m, y)}
<1>1. 0 \in S
  <2>1. ASSUME NEW y \in D
        PROVE  Good(0, y)
    <3>1. i + 0 = i /\ y - 0 = y /\ 0 <= y /\ 1 .. 0 = {}
      OBVIOUS
    <3>. QED BY <3>1 DEF Occurs
  <2> HIDE DEF Good
  <2>. QED BY <2>1
<1>2. ASSUME NEW m \in Nat, m \in S
      PROVE  m + 1 \in S
  <2>1. ASSUME m + 1 <= l, NEW y \in D
        PROVE  Good(m + 1, y)
    <3>1. m <= l /\ i + m \in Nat /\ i + (m + 1) = (i + m) + 1 /\ m + 1 \in 1 .. l
      BY <2>1
    <3>2. pattern[i + m + 1] # Star
      BY <3>1
    <3>3. Reach(pattern, name, i + m + 1, y) <=>
            \E k \in D : Reach(pattern, name, i + m, k) /\ Adds(pattern, name, i + m + 1, k, y)
      BY <3>1, ReachNext
    <3>4. Reach(pattern, name, i + m + 1, y) <=>
            y - 1 \in D /\ Reach(pattern, name, i + m, y - 1) /\ name[y] = pattern[i + m + 1]
      BY <3>2, <3>3 DEF Adds
    <3>5. CASE y = 0
      <4>1. y - 1 \notin D /\ ~(m + 1 <= y)
        BY <3>5
      <4>. QED BY <3>1, <3>4, <4>1
    <3>6. CASE y # 0
      <4>1. y - 1 \in D /\ y - (m + 1) = y - 1 - m /\ (m + 1 <= y <=> m <= y - 1)
        BY <3>6
      <4>2. Good(m, y - 1)
        BY <1>2, <3>1, <4>1
      <4>3. ASSUME m + 1 <= y
            PROVE  Occurs(pattern, name, i, m + 1, y - 1 - m) <=>
                     /\ Occurs(pattern, name, i, m, y - 1 - m)
                     /\ name[y] = pattern[i + m + 1]
        <5>1. y - 1 - m + (m + 1) = y /\ i + (m + 1) = i + m + 1
          OBVIOUS
        <5>2. \A k : k \in 1 .. m + 1 <=> k \in 1 .. m \/ k = m + 1
          OBVIOUS
        <5>. QED BY <5>1, <5>2 DEF Occurs
      <4>. QED BY <3>1, <3>4, <4>1, <4>2, <4>3
    <3>. QED BY <3>5, <3>6
  <2> HIDE DEF Good
  <2>. QED BY <2>1
<1> HIDE DEF S
<1>3. l \in S
  BY <1>1, <1>2, NatSet
<1>. QED BY <1>3 DEF S


\* Splitting a longer pattern goes on with its last part.
LEMMA PartsNext ==
  ASSUME NEW pattern \in Seq(Chars), NEW c \in Chars
  PROVE  Parts(Append(pattern, c)) =
           IF c = Star THEN Append(Parts(pattern), <<>>)
           ELSE [Parts(pattern) EXCEPT ![Len(Parts(pattern))] = Append(@, c)]
<1>1. Folded("parts", 0, << <<>> >>, Append(pattern, c))
        = FoldStep("parts", 0, Folded("parts", 0, << <<>> >>, pattern), c)
  BY FoldAppend
<1>. QED BY <1>1, PartsFolds DEF FoldStep

\* What the first i characters of a pattern are split into: the last part is
\* what follows the last star.
Split(pattern, parts, i) ==
  /\ parts \in Seq(Seq(Chars)) /\ Len(parts) > 0
  /\ Len(Last(parts)) <= i
  /\ \A k \in 1 .. Len(Last(parts)) :
       /\ Last(parts)[k] = pattern[i - Len(Last(parts)) + k]
       /\ pattern[i - Len(Last(parts)) + k] # Star
  /\ IF Len(parts) = 1 THEN Len(Last(parts)) = i
     ELSE Len(Last(parts)) < i /\ pattern[i - Len(Last(parts))] = Star

\* What Split says, by name: n parts, and the last one, l, starts after s.
SplitAs(pattern, parts, i, n, l, s) ==
  /\ parts \in Seq(Seq(Chars)) /\ n = Len(parts) /\ n > 0
  /\ l = parts[n] /\ l = Last(parts) /\ s = i - Len(l) /\ s + Len(l) = i
  /\ \A k \in 1 .. Len(l) : l[k] = pattern[s + k] /\ pattern[s + k] # Star
  /\ n = 1 => s = 0
  /\ n > 1 => s > 0 /\ pattern[s] = Star

LEMMA SplitHas ==
  ASSUME NEW pattern \in Seq(Chars), NEW i \in Nat, NEW parts, Split(pattern, parts, i)
  PROVE  \E n \in Nat, l \in Seq(Chars), s \in Nat : SplitAs(pattern, parts, i, n, l, s)
<1> DEFINE n == Len(parts)
           l == Last(parts)
           s == i - Len(l)
<1>1. parts \in Seq(Seq(Chars)) /\ n \in Nat /\ n > 0
  BY DEF Split
<1>2. l = parts[n] /\ l \in Seq(Chars)
  BY <1>1, LastIs
<1>3. /\ Len(l) <= i
      /\ \A k \in 1 .. Len(l) : l[k] = pattern[s + k] /\ pattern[s + k] # Star
      /\ n = 1 => Len(l) = i
      /\ n # 1 => Len(l) < i /\ pattern[s] = Star
  BY DEF Split
<1> HIDE DEF n, l
<1>4. Len(l) \in Nat
  BY <1>2
<1>5. s \in Nat /\ s + Len(l) = i /\ (Len(l) = i => s = 0) /\ (Len(l) < i => s > 0)
  <2>1. \A x \in Nat : x <= i => /\ i - x \in Nat /\ i - x + x = i /\ (x = i => i - x = 0)
                                 /\ (x < i => i - x > 0)
    OBVIOUS
  <2>. QED BY <1>3, <1>4, <2>1
<1> HIDE DEF s
<1>6. n > 1 => n # 1
  BY <1>1
<1>7. SplitAs(pattern, parts, i, n, l, s)
  BY <1>1, <1>2, <1>3, <1>5, <1>6 DEF n, l, s, SplitAs
<1>. QED BY <1>1, <1>2, <1>5, <1>7

\* What makes Split.
LEMMA SplitMake ==
  ASSUME NEW pattern, NEW i \in Nat, NEW parts, NEW n \in Nat, NEW l \in Seq(Chars),
         NEW s \in Nat, SplitAs(pattern, parts, i, n, l, s)
  PROVE  Split(pattern, parts, i)
<1>1. /\ parts \in Seq(Seq(Chars)) /\ n = Len(parts) /\ n > 0
      /\ l = Last(parts) /\ s = i - Len(l) /\ s + Len(l) = i
      /\ n = 1 => s = 0
      /\ n > 1 => s > 0 /\ pattern[s] = Star
  BY DEF SplitAs
<1>2. \A k \in 1 .. Len(l) : l[k] = pattern[s + k] /\ pattern[s + k] # Star
  BY DEF SplitAs
<1>3. Len(l) \in Nat
  OBVIOUS
<1>4. Len(l) <= i /\ (s = 0 => Len(l) = i) /\ (s > 0 => Len(l) < i)
  <2>1. \A x \in Nat : s + x = i => x <= i /\ (s = 0 => x = i) /\ (s > 0 => x < i)
    OBVIOUS
  <2>. QED BY <1>1, <1>3, <2>1
<1>5. n = 1 => Len(l) = i
  BY <1>1, <1>4
<1>6. n # 1 => Len(l) < i /\ pattern[i - Len(l)] = Star
  <2>1. n # 1 => n > 1
    BY <1>1
  <2>. QED BY <1>1, <1>4, <2>1
<1>. QED BY <1>1, <1>2, <1>4, <1>5, <1>6 DEF Split

\* The beginning of a pattern.
Begins(pattern, i) == SubSeq(pattern, 1, i)

\* A beginning is one character longer than the one before.
LEMMA BeginsNext ==
  ASSUME NEW pattern \in Seq(Chars), NEW i \in Nat, i + 1 <= Len(pattern)
  PROVE  /\ Begins(pattern, i) \in Seq(Chars) /\ pattern[i + 1] \in Chars
         /\ Begins(pattern, i + 1) = Append(Begins(pattern, i), pattern[i + 1])
<1>1. pattern[i + 1] \in Chars /\ SubSeq(pattern, 1, i) \in Seq(Chars)
  OBVIOUS
<1>2. SubSeq(pattern, 1, i + 1) = Append(SubSeq(pattern, 1, i), pattern[i + 1])
  <2> DEFINE a == SubSeq(pattern, 1, i + 1)
             b == Append(SubSeq(pattern, 1, i), pattern[i + 1])
  <2>1. a \in Seq(Chars) /\ Len(a) = i + 1 /\ \A k \in 1 .. i + 1 : a[k] = pattern[k]
    OBVIOUS
  <2>2. b \in Seq(Chars) /\ Len(b) = i + 1 /\ \A k \in 1 .. i + 1 : b[k] = pattern[k]
    OBVIOUS
  <2> HIDE DEF a, b
  <2>. QED BY <2>1, <2>2, SeqEqual
<1>. QED BY <1>1, <1>2 DEF Begins

\* A star starts another part,
LEMMA SplitStar ==
  ASSUME NEW pattern \in Seq(Chars), NEW i \in Nat, NEW parts, NEW n \in Nat,
         NEW l \in Seq(Chars), NEW s \in Nat, SplitAs(pattern, parts, i, n, l, s),
         pattern[i + 1] = Star
  PROVE  SplitAs(pattern, Append(parts, <<>>), i + 1, n + 1, <<>>, i + 1)
<1>1. parts \in Seq(Seq(Chars)) /\ n = Len(parts) /\ n > 0
  BY DEF SplitAs
<1> DEFINE e == <<>>
           b == Append(parts, e)
<1>2. e \in Seq(Chars) /\ Len(e) = 0
  OBVIOUS
<1> HIDE DEF e
<1>3. b \in Seq(Seq(Chars)) /\ Len(b) = n + 1 /\ b[n + 1] = e
  BY <1>1, <1>2, AppendIs
<1> HIDE DEF b
<1>4. n + 1 \in Nat /\ n + 1 > 0 /\ n + 1 # 1 /\ i + 1 > 0 /\ i + 1 + 0 = i + 1
  BY <1>1
<1>5. \A k \in 1 .. Len(e) : FALSE
  BY <1>2
<1>6. e = Last(b)
  BY <1>3, <1>4, LastIs
<1>7. i + 1 = i + 1 - Len(e) /\ i + 1 + Len(e) = i + 1
  BY <1>2
<1>8. SplitAs(pattern, b, i + 1, n + 1, e, i + 1)
  BY <1>3, <1>4, <1>5, <1>6, <1>7 DEF SplitAs
<1>. QED BY <1>8 DEF b, e

\* and another character makes the last part longer.
LEMMA SplitLetter ==
  ASSUME NEW pattern \in Seq(Chars), NEW i \in Nat, NEW parts, NEW n \in Nat,
         NEW l \in Seq(Chars), NEW s \in Nat, SplitAs(pattern, parts, i, n, l, s),
         NEW c \in Chars, c # Star, c = pattern[i + 1]
  PROVE  SplitAs(pattern, [parts EXCEPT ![n] = Append(l, c)], i + 1, n, Append(l, c), s)
<1>1. /\ parts \in Seq(Seq(Chars)) /\ n = Len(parts) /\ n > 0
      /\ l = parts[n] /\ s + Len(l) = i
      /\ \A k \in 1 .. Len(l) : l[k] = pattern[s + k] /\ pattern[s + k] # Star
      /\ n = 1 => s = 0
      /\ n > 1 => s > 0 /\ pattern[s] = Star
  BY DEF SplitAs
<1> DEFINE m == Append(l, c)
           more == [parts EXCEPT ![n] = m]
<1>2. /\ m \in Seq(Chars) /\ Len(m) = Len(l) + 1 /\ m[Len(l) + 1] = c
      /\ \A k \in 1 .. Len(l) : m[k] = l[k]
  BY AppendIs
<1> HIDE DEF m
<1>3. more \in Seq(Seq(Chars)) /\ n = Len(more) /\ n > 0 /\ m = more[n]
  BY <1>1, <1>2, PutIs
<1> HIDE DEF more
<1>4. Len(l) \in Nat /\ Len(m) \in Nat
  BY <1>2
<1>5. s + Len(m) = i + 1 /\ s + (Len(l) + 1) = i + 1
  <2>1. \A x \in Nat : s + x = i => s + (x + 1) = i + 1
    OBVIOUS
  <2>. QED BY <1>1, <1>2, <1>4, <2>1
<1>6. ASSUME NEW k \in 1 .. Len(m)
      PROVE  m[k] = pattern[s + k] /\ pattern[s + k] # Star
  <2>1. k = Len(l) + 1 \/ k \in 1 .. Len(l)
    <3>1. \A x \in Nat : \A y \in 1 .. x + 1 : y = x + 1 \/ y \in 1 .. x
      OBVIOUS
    <3>. QED BY <1>2, <1>4, <3>1
  <2>2. CASE k = Len(l) + 1
    BY <1>2, <1>5, <2>2
  <2>3. CASE k \in 1 .. Len(l)
    BY <1>1, <1>2, <2>3
  <2>. QED BY <2>1, <2>2, <2>3
<1>7. m = Last(more)
  BY <1>3, LastIs
<1>8. s = i + 1 - Len(m)
  BY <1>4, <1>5
<1> DEFINE A == /\ more \in Seq(Seq(Chars)) /\ n = Len(more) /\ n > 0
                /\ m = more[n] /\ m = Last(more) /\ s = i + 1 - Len(m) /\ s + Len(m) = i + 1
           B == \A k \in 1 .. Len(m) : m[k] = pattern[s + k] /\ pattern[s + k] # Star
           C == (n = 1 => s = 0) /\ (n > 1 => s > 0 /\ pattern[s] = Star)
<1>9. A
  BY <1>3, <1>5, <1>7, <1>8
<1>10. B /\ C
  BY <1>1, <1>6
<1>11. SplitAs(pattern, more, i + 1, n, m, s) <=> A /\ B /\ C
  BY DEF SplitAs
<1> HIDE DEF A, B, C
<1>12. SplitAs(pattern, more, i + 1, n, m, s)
  BY <1>9, <1>10, <1>11
<1>. QED BY <1>12 DEF more, m

\* The parts of a longer beginning.
More(pattern, parts, i) ==
  IF pattern[i + 1] = Star THEN Append(parts, <<>>)
  ELSE [parts EXCEPT ![Len(parts)] = Append(@, pattern[i + 1])]

LEMMA SplitNext ==
  ASSUME NEW pattern \in Seq(Chars), NEW i \in Nat, i + 1 <= Len(pattern), NEW parts,
         Split(pattern, parts, i)
  PROVE  Split(pattern, More(pattern, parts, i), i + 1)
<1>1. PICK n \in Nat, l \in Seq(Chars), s \in Nat : SplitAs(pattern, parts, i, n, l, s)
  BY SplitHas
<1>2. pattern[i + 1] \in Chars /\ i + 1 \in Nat /\ n + 1 \in Nat /\ <<>> \in Seq(Chars)
  OBVIOUS
<1>3. CASE pattern[i + 1] = Star
  <2>1. SplitAs(pattern, Append(parts, <<>>), i + 1, n + 1, <<>>, i + 1)
    BY <1>1, <1>3, SplitStar
  <2>2. Split(pattern, Append(parts, <<>>), i + 1)
    BY <1>2, <2>1, SplitMake
  <2>. QED BY <1>3, <2>2 DEF More
<1>4. CASE pattern[i + 1] # Star
  <2> DEFINE c == pattern[i + 1]
  <2>1. c \in Chars /\ c # Star
    BY <1>2, <1>4
  <2>2. n = Len(parts) /\ parts[n] = l
    BY <1>1 DEF SplitAs
  <2>3. More(pattern, parts, i) = [parts EXCEPT ![n] = Append(l, c)]
    BY <1>4, <2>2 DEF More
  <2>4. SplitAs(pattern, [parts EXCEPT ![n] = Append(l, c)], i + 1, n, Append(l, c), s)
    BY <1>1, <2>1, SplitLetter
  <2>5. Append(l, c) \in Seq(Chars)
    BY <2>1
  <2> HIDE DEF c
  <2>6. Split(pattern, [parts EXCEPT ![n] = Append(l, c)], i + 1)
    BY <1>2, <2>4, <2>5, SplitMake
  <2>. QED BY <2>3, <2>6
<1>. QED BY <1>3, <1>4

\* Parts splits every beginning of a pattern.
LEMMA SplitAll ==
  ASSUME NEW pattern \in Seq(Chars)
  PROVE  \A i \in 0 .. Len(pattern) : Split(pattern, Parts(Begins(pattern, i)), i)
<1> DEFINE S == {i \in Nat : i <= Len(pattern) => Split(pattern, Parts(Begins(pattern, i)), i)}
<1>1. 0 \in S
  <2>1. Begins(pattern, 0) = <<>>
    BY DEF Begins
  <2>2. Parts(<<>>) = << <<>> >>
    BY PartsFolds, FoldEmpty
  <2>3. << <<>> >> \in Seq(Seq(Chars)) /\ Len(<< <<>> >>) = 1 /\ Last(<< <<>> >>) = <<>>
    <3>1. <<>> \in Seq(Chars)
      OBVIOUS
    <3>. QED BY <3>1 DEF Last
  <2>4. Len(<<>>) = 0 /\ 1 .. 0 = {} /\ 1 > 0
    OBVIOUS
  <2>5. Split(pattern, << <<>> >>, 0)
    <3> DEFINE p == << <<>> >>
    <3>1. p \in Seq(Seq(Chars)) /\ Len(p) = 1 /\ Last(p) = <<>>
      BY <2>3
    <3> HIDE DEF p
    <3>2. Split(pattern, p, 0)
      BY <2>4, <3>1 DEF Split
    <3>. QED BY <3>2 DEF p
  <2>. QED BY <2>1, <2>2, <2>5
<1>2. ASSUME NEW i \in Nat, i \in S
      PROVE  i + 1 \in S
  <2>1. ASSUME i + 1 <= Len(pattern)
        PROVE  Split(pattern, Parts(Begins(pattern, i + 1)), i + 1)
    <3>1. Split(pattern, Parts(Begins(pattern, i)), i)
      BY <1>2, <2>1
    <3>2. /\ Begins(pattern, i) \in Seq(Chars) /\ pattern[i + 1] \in Chars
          /\ Begins(pattern, i + 1) = Append(Begins(pattern, i), pattern[i + 1])
      BY <2>1, BeginsNext
    <3>3. Parts(Begins(pattern, i + 1)) = More(pattern, Parts(Begins(pattern, i)), i)
      BY <3>2, PartsNext DEF More
    <3>4. Split(pattern, More(pattern, Parts(Begins(pattern, i)), i), i + 1)
      BY <2>1, <3>1, SplitNext
    <3>. QED BY <3>3, <3>4
  <2>. QED BY <2>1
<1> HIDE DEF S
<1>3. \A i \in Nat : i \in S
  BY <1>1, <1>2, NatSet
<1>. QED BY <1>3 DEF S


\* What the search knows of the first s characters of a pattern, when it looks
\* for parts in the first b characters of a name: the least end of what they
\* match, or that they match nothing there.
Knows(pattern, name, left, s, b) ==
  IF left.ok
    THEN \E e \in 0 .. b : /\ left.rest = SubSeq(name, e + 1, b)
                           /\ \A j \in 0 .. Len(name) : Reach(pattern, name, s, j) <=> e <= j
    ELSE \A j \in 0 .. b : ~Reach(pattern, name, s, j)

\* A part is looked for in a piece of the name.
LEMMA PieceAt ==
  ASSUME NEW name \in Seq(Chars), NEW b \in 0 .. Len(name), NEW e \in 0 .. b,
         NEW part \in Seq(Chars), NEW i \in 0 .. b - e - Len(part)
  PROVE  LET rest == SubSeq(name, e + 1, b)
         IN  /\ SubSeq(rest, i + 1, i + Len(part)) = part
                  <=> \A k \in 1 .. Len(part) : name[e + i + k] = part[k]
             /\ SubSeq(rest, i + Len(part) + 1, Len(rest))
                  = SubSeq(name, e + i + Len(part) + 1, b)
<1> DEFINE rest == SubSeq(name, e + 1, b)
           l == Len(part)
           a == SubSeq(rest, i + 1, i + l)
           x == SubSeq(rest, i + l + 1, Len(rest))
           y == SubSeq(name, e + i + l + 1, b)
<1>1. /\ rest \in Seq(Chars) /\ Len(rest) = b - e /\ l \in Nat
      /\ \A k \in 1 .. b - e : rest[k] = name[e + k]
  OBVIOUS
<1> HIDE DEF rest, l
<1>2. i + l <= b - e /\ i \in Nat
  BY <1>1 DEF l
<1>3. a \in Seq(Chars) /\ Len(a) = l /\ \A k \in 1 .. l : a[k] = rest[i + k]
  BY <1>1, <1>2
<1>4. \A k \in 1 .. l : rest[i + k] = name[e + i + k]
  BY <1>1, <1>2
<1>5. x \in Seq(Chars) /\ Len(x) = b - e - i - l /\ \A k \in 1 .. Len(x) : x[k] = rest[i + l + k]
  <2> DEFINE E == Chars
             m == i + l + 1
             n == Len(rest)
  <2>1. /\ rest \in Seq(E) /\ m \in Nat /\ n \in Nat /\ 1 <= m /\ m <= n + 1 /\ n <= Len(rest)
        /\ n - m + 1 = b - e - i - l
    BY <1>1, <1>2
  <2>2. x = SubSeq(rest, m, n)
    OBVIOUS
  <2>3. \A k \in 1 .. n - m + 1 : m + k - 1 = i + l + k
    BY <1>1, <1>2, <2>1
  <2> HIDE DEF E, m, n, x
  <2>4. /\ x \in Seq(E) /\ Len(x) = n - m + 1
        /\ \A k \in 1 .. n - m + 1 : x[k] = rest[m + k - 1]
    BY <2>1, <2>2, PieceIs
  <2>. QED BY <2>1, <2>3, <2>4 DEF E
<1>6. y \in Seq(Chars) /\ Len(y) = b - e - i - l /\ \A k \in 1 .. Len(y) : y[k] = name[e + i + l + k]
  BY <1>1, <1>2
<1>7. \A k \in 1 .. b - e - i - l : rest[i + l + k] = name[e + i + l + k]
  BY <1>1, <1>2
<1> HIDE DEF a, x, y
<1>8. x = y
  BY <1>5, <1>6, <1>7, SeqEqual
<1>9. a = part <=> \A k \in 1 .. l : name[e + i + k] = part[k]
  <2>1. a = part <=> \A k \in 1 .. l : a[k] = part[k]
    BY <1>3, SeqEqual DEF l
  <2>. QED BY <1>3, <1>4, <2>1
<1>. QED BY <1>8, <1>9 DEF rest, l, a, x, y

\* Looking for a part between two stars, the search goes on to the second.
LEMMA AfterKnows ==
  ASSUME NEW pattern \in Seq(Chars), NEW name \in Seq(Chars), NEW b \in 0 .. Len(name),
         NEW s \in Nat, NEW part \in Seq(Chars), NEW left,
         Knows(pattern, name, left, s, b),
         \A k \in 1 .. Len(part) : part[k] = pattern[s + k] /\ pattern[s + k] # Star,
         pattern[s + Len(part) + 1] = Star
  PROVE  Knows(pattern, name, After(left, part), s + Len(part) + 1, b)
<1> DEFINE l == Len(part)
           N == Len(name)
<1>1. l \in Nat /\ N \in Nat /\ b \in 0 .. N
  OBVIOUS
<1>2. \A j \in 0 .. N :
        Reach(pattern, name, s + l, j) <=>
          l <= j /\ Reach(pattern, name, s, j - l) /\ Occurs(pattern, name, s, l, j - l)
  <2> TAKE j \in 0 .. N
  <2>1. \A k \in 1 .. l : pattern[s + k] # Star
    OBVIOUS
  <2> HIDE DEF l
  <2>. QED BY <1>1, <2>1, ReachLetters
<1>3. \A j \in 0 .. N :
        Reach(pattern, name, s + l + 1, j) <=>
          \E k \in 0 .. N : k <= j /\ Reach(pattern, name, s + l, k)
  <2>1. s + l \in Nat
    BY <1>1
  <2>. QED BY <2>1, ReachNext DEF Adds
<1>4. CASE ~left.ok
  <2>1. After(left, part) = NoMatch
    BY <1>4 DEF After
  <2>2. ASSUME NEW j \in 0 .. b
        PROVE  ~Reach(pattern, name, s + l + 1, j)
    <3>1. ASSUME NEW k \in 0 .. N, k <= j
          PROVE  ~Reach(pattern, name, s + l, k)
      <4>1. l <= k => k - l \in 0 .. b
        BY <1>1, <3>1
      <4>. QED BY <1>2, <1>4, <4>1 DEF Knows
    <3>. QED BY <1>1, <1>3, <3>1
  <2>. QED BY <2>1, <2>2 DEF Knows, NoMatch
<1>5. CASE left.ok
  <2>1. PICK e \in 0 .. b : /\ left.rest = SubSeq(name, e + 1, b)
                            /\ \A j \in 0 .. N : Reach(pattern, name, s, j) <=> e <= j
    BY <1>5 DEF Knows
  <2> DEFINE rest == SubSeq(name, e + 1, b)
             at == {i \in 0 .. Len(rest) - l : SubSeq(rest, i + 1, i + l) = part}
             first == CHOOSE i \in at : \A j \in at : i <= j
  <2>2. Len(rest) = b - e
    BY <1>1
  <2>3. ASSUME NEW i \in 0 .. b - e - l
        PROVE  i \in at <=> Occurs(pattern, name, s, l, e + i)
    <3>1. SubSeq(rest, i + 1, i + l) = part <=> \A k \in 1 .. l : name[e + i + k] = part[k]
      BY PieceAt
    <3>2. i \in at <=> \A k \in 1 .. l : name[e + i + k] = part[k]
      BY <2>2, <3>1
    <3>. QED BY <3>2 DEF Occurs
  <2>4. at \subseteq 0 .. b - e - l
    BY <2>2
  <2>5. After(left, part) = IF at = {} THEN NoMatch
                            ELSE [ok |-> TRUE, rest |-> SubSeq(rest, first + l + 1, Len(rest))]
    BY <1>5, <2>1 DEF After
  <2> HIDE DEF at, rest, first
  <2>6. ASSUME NEW k \in 0 .. N, k <= b, Reach(pattern, name, s + l, k)
        PROVE  k - l - e \in at
    <3>1. l <= k /\ k - l \in 0 .. N /\ e <= k - l /\ Occurs(pattern, name, s, l, k - l)
      BY <1>1, <1>2, <2>1, <2>6
    <3>2. k - l - e \in 0 .. b - e - l /\ e + (k - l - e) = k - l
      BY <1>1, <2>6, <3>1
    <3>. QED BY <2>3, <3>1, <3>2
  <2>7. CASE at = {}
    <3>1. ASSUME NEW j \in 0 .. b
          PROVE  ~Reach(pattern, name, s + l + 1, j)
      <4>1. j \in 0 .. N /\ \A k \in 0 .. N : k <= j => k <= b
        BY <1>1
      <4>2. \A k \in 0 .. N : k <= b => ~Reach(pattern, name, s + l, k)
        BY <2>6, <2>7
      <4>. QED BY <1>3, <4>1, <4>2
    <3>. QED BY <2>5, <2>7, <3>1 DEF Knows, NoMatch
  <2>8. CASE at # {}
    <3>1. first \in at /\ \A j \in at : first <= j
      <4>1. at \subseteq Nat
        BY <1>1, <2>4
      <4>2. \E i \in at : \A j \in at : i <= j
        BY <2>8, <4>1, NatLeast
      <4>. QED BY <4>2 DEF first
    <3> DEFINE f == e + first + l
    <3>2. first \in 0 .. b - e - l /\ f \in 0 .. b /\ f - l = e + first /\ l <= f
      BY <1>1, <2>4, <3>1
    <3>3. SubSeq(rest, first + l + 1, Len(rest)) = SubSeq(name, f + 1, b)
      BY <1>1, <2>1, <3>2, PieceAt DEF rest
    <3>4. ASSUME NEW j \in 0 .. N
          PROVE  Reach(pattern, name, s + l + 1, j) <=> f <= j
      <4>1. ASSUME f <= j
            PROVE  Reach(pattern, name, s + l + 1, j)
        <5>1. Occurs(pattern, name, s, l, f - l) /\ f - l \in 0 .. N /\ e <= f - l
          BY <1>1, <2>3, <3>1, <3>2
        <5>2. Reach(pattern, name, s + l, f) /\ f \in 0 .. N
          BY <1>1, <1>2, <2>1, <3>2, <5>1
        <5>. QED BY <1>3, <4>1, <5>2
      <4>2. ASSUME Reach(pattern, name, s + l + 1, j)
            PROVE  f <= j
        <5>1. PICK k \in 0 .. N : k <= j /\ Reach(pattern, name, s + l, k)
          BY <1>3, <4>2
        <5>2. CASE k <= b
          <6>1. first <= k - l - e
            BY <2>6, <3>1, <5>1, <5>2
          <6>. QED BY <1>1, <3>2, <5>1, <6>1
        <5>3. CASE ~(k <= b)
          BY <1>1, <3>2, <5>1, <5>3
        <5>. QED BY <5>2, <5>3
      <4>. QED BY <4>1, <4>2
    <3> HIDE DEF f
    <3>5. /\ After(left, part).ok
          /\ After(left, part).rest = SubSeq(name, f + 1, b)
      <4>1. After(left, part) = [ok |-> TRUE, rest |-> SubSeq(name, f + 1, b)]
        BY <2>5, <2>8, <3>3
      <4> DEFINE r == [ok |-> TRUE, rest |-> SubSeq(name, f + 1, b)]
      <4>2. r.ok /\ r.rest = SubSeq(name, f + 1, b)
        OBVIOUS
      <4> HIDE DEF r
      <4>3. After(left, part) = r
        BY <4>1 DEF r
      <4>. QED BY <4>2, <4>3
    <3>. QED BY <3>2, <3>4, <3>5 DEF Knows
  <2>. QED BY <2>7, <2>8
<1>. QED BY <1>4, <1>5


\* The search for the parts of a beginning of a pattern, after the first and
\* before the last.
Searched(name, parts, b) ==
  Folded("search", 0, [ok |-> TRUE, rest |-> SubSeq(name, Len(parts[1]) + 1, b)],
         Tail(Front(parts)))

\* It knows what the pattern matches up to the last star.
SearchRight(pattern, name, b, parts, i) ==
  Len(parts) > 1 =>
    IF IsPrefix(parts[1], name) /\ Len(parts[1]) <= b
      THEN Knows(pattern, name, Searched(name, parts, b), i - Len(Last(parts)), b)
      ELSE \A j \in 0 .. b : ~Reach(pattern, name, i - Len(Last(parts)), j)

\* A part that is a prefix.
LEMMA PrefixIs ==
  ASSUME NEW s \in Seq(Chars), NEW t \in Seq(Chars)
  PROVE  IsPrefix(s, t) <=> Len(s) <= Len(t) /\ \A k \in 1 .. Len(s) : t[k] = s[k]
<1>1. ASSUME Len(s) <= Len(t)
      PROVE  SubSeq(s, 1, Len(s)) = SubSeq(t, 1, Len(s))
               <=> \A k \in 1 .. Len(s) : t[k] = s[k]
  <2> DEFINE a == SubSeq(s, 1, Len(s))
             b == SubSeq(t, 1, Len(s))
  <2>1. /\ a \in Seq(Chars) /\ Len(a) = Len(s) /\ \A k \in 1 .. Len(s) : a[k] = s[k]
        /\ b \in Seq(Chars) /\ Len(b) = Len(s) /\ \A k \in 1 .. Len(s) : b[k] = t[k]
    BY <1>1
  <2> HIDE DEF a, b
  <2>2. a = b <=> \A k \in 1 .. Len(s) : b[k] = a[k]
    BY <2>1, SeqEqual
  <2>. QED BY <2>1, <2>2 DEF a, b
<1>. QED BY <1>1 DEF IsPrefix

\* Parts that go on, with another one or with a longer last one.
LEMMA PartsGoOn ==
  ASSUME NEW parts \in Seq(Seq(Chars)), NEW n \in Nat, n = Len(parts), n > 0, NEW x \in Seq(Chars)
  PROVE  /\ Append(parts, x)[1] = parts[1] /\ Front(Append(parts, x)) = parts
         /\ Front([parts EXCEPT ![n] = x]) = Front(parts)
         /\ n = 1 => Tail(parts) = <<>>
<1> DEFINE E == Seq(Chars)
<1>1. parts \in Seq(E) /\ x \in E
  OBVIOUS
<1> HIDE DEF E
<1>2. Append(parts, x)[1] = parts[1]
  <2>1. 1 \in 1 .. Len(parts)
    OBVIOUS
  <2>. QED BY <1>1, <2>1, AppendIs
<1>3. Front(Append(parts, x)) = parts
  BY <1>1, FrontOf
<1>4. Front([parts EXCEPT ![n] = x]) = Front(parts)
  <2>1. Len(parts) > 0
    OBVIOUS
  <2>2. Front([parts EXCEPT ![Len(parts)] = x]) = Front(parts)
    BY <1>1, <2>1, FrontOf
  <2>. QED BY <2>2, Zenon
<1>5. ASSUME n = 1
      PROVE  Tail(parts) = <<>>
  <2>1. Tail(parts) \in Seq(E) /\ Len(Tail(parts)) = Len(parts) - 1
    BY <1>1, TailIs
  <2>2. Len(Tail(parts)) = 0
    BY <1>5, <2>1
  <2>. QED BY <2>1, <2>2, EmptySeq
<1>. QED BY <1>2, <1>3, <1>4, <1>5

\* What SearchRight says, by name.
LEMMA SearchIs ==
  ASSUME NEW pattern, NEW name, NEW b, NEW parts, NEW i,
         NEW n \in Nat, NEW l, NEW s, SplitAs(pattern, parts, i, n, l, s)
  PROVE  SearchRight(pattern, name, b, parts, i) <=>
           /\ n > 1 /\ IsPrefix(parts[1], name) /\ Len(parts[1]) <= b
                => Knows(pattern, name, Searched(name, parts, b), s, b)
           /\ n > 1 /\ ~(IsPrefix(parts[1], name) /\ Len(parts[1]) <= b)
                => \A j \in 0 .. b : ~Reach(pattern, name, s, j)
<1>1. n = Len(parts) /\ s = i - Len(Last(parts))
  BY DEF SplitAs
<1>. QED BY <1>1 DEF SearchRight

\* The first star: nothing is looked for yet.
LEMMA SearchFirst ==
  ASSUME NEW pattern \in Seq(Chars), NEW name \in Seq(Chars), NEW b \in 0 .. Len(name),
         NEW i \in Nat, NEW parts, NEW l \in Seq(Chars), NEW s \in Nat,
         SplitAs(pattern, parts, i, 1, l, s), pattern[i + 1] = Star
  PROVE  SearchRight(pattern, name, b, Append(parts, <<>>), i + 1)
<1> DEFINE N == Len(name)
           more == Append(parts, <<>>)
           first == [ok |-> TRUE, rest |-> SubSeq(name, i + 1, b)]
<1>1. /\ parts \in Seq(Seq(Chars)) /\ Len(parts) = 1 /\ parts[1] = l
      /\ s = 0 /\ Len(l) = i /\ Len(l) \in Nat /\ N \in Nat
      /\ \A k \in 1 .. Len(l) : l[k] = pattern[s + k] /\ pattern[s + k] # Star
  <2>1. s = 0 /\ s + Len(l) = i
    BY DEF SplitAs
  <2>2. Len(l) = i
    BY <2>1
  <2>. QED BY <2>1, <2>2 DEF SplitAs
<1>2. SplitAs(pattern, more, i + 1, 1 + 1, <<>>, i + 1)
  BY SplitStar
<1>3. \A k \in 1 .. i : l[k] = pattern[k] /\ pattern[k] # Star /\ 0 + k = k
  <2> TAKE k \in 1 .. i
  <2>1. k \in Nat /\ 0 + k = k
    OBVIOUS
  <2>. QED BY <1>1, <2>1
<1>4. \A j \in 0 .. N : Reach(pattern, name, i, j) <=> j = i /\ IsPrefix(l, name)
  <2> TAKE j \in 0 .. N
  <2>1. \A k \in 1 .. i : pattern[0 + k] # Star
    BY <1>3
  <2>2. Reach(pattern, name, 0 + i, j) <=>
          i <= j /\ Reach(pattern, name, 0, j - i) /\ Occurs(pattern, name, 0, i, j - i)
    BY <2>1, ReachLetters
  <2>3. Reach(pattern, name, 0, j - i) <=> j - i = 0
    BY ReachZero
  <2>4. 0 + i = i /\ (j - i = 0 <=> j = i) /\ (j = i => i <= j)
    OBVIOUS
  <2>5. Occurs(pattern, name, 0, i, 0) <=> \A k \in 1 .. i : name[k] = l[k]
    BY <1>3 DEF Occurs
  <2>6. IsPrefix(l, name) <=> i <= N /\ \A k \in 1 .. i : name[k] = l[k]
    BY <1>1, PrefixIs
  <2>7. j = i => i <= N
    BY <1>1
  <2>. QED BY <2>2, <2>3, <2>4, <2>5, <2>6, <2>7
<1>5. \A j \in 0 .. N :
        Reach(pattern, name, i + 1, j) <=> \E k \in 0 .. N : Reach(pattern, name, i, k) /\ k <= j
  BY ReachNext DEF Adds
<1>6. IsPrefix(l, name) => i \in 0 .. N
  BY <1>1, PrefixIs
<1>7. \A j \in 0 .. N : Reach(pattern, name, i + 1, j) <=> i <= j /\ IsPrefix(l, name)
  BY <1>4, <1>5, <1>6
<1>8. /\ more[1] = l
      /\ Searched(name, more, b) = first
  <2>1. <<>> \in Seq(Chars) /\ 1 \in Nat /\ 1 > 0
    OBVIOUS
  <2>2. more[1] = l
    BY <1>1, <2>1, PartsGoOn
  <2>3. Front(more) = parts
    BY <1>1, <2>1, PartsGoOn
  <2>4. Tail(parts) = <<>>
    BY <1>1, <2>1, PartsGoOn
  <2> HIDE DEF more
  <2>5. Searched(name, more, b) = [ok |-> TRUE, rest |-> SubSeq(name, Len(l) + 1, b)]
    BY <2>2, <2>3, <2>4, FoldEmpty DEF Searched
  <2>. QED BY <1>1, <2>2, <2>5
<1>9. first.ok /\ first.rest = SubSeq(name, i + 1, b)
  OBVIOUS
<1> HIDE DEF first, more
<1>10. ASSUME IsPrefix(more[1], name), Len(more[1]) <= b
       PROVE  Knows(pattern, name, Searched(name, more, b), i + 1, b)
  <2>1. i \in 0 .. b /\ IsPrefix(l, name)
    BY <1>1, <1>8, <1>10
  <2>2. \A j \in 0 .. Len(name) : Reach(pattern, name, i + 1, j) <=> i <= j
    BY <1>7, <2>1
  <2>. QED BY <1>8, <1>9, <2>1, <2>2 DEF Knows
<1>11. ASSUME ~(IsPrefix(more[1], name) /\ Len(more[1]) <= b), NEW j \in 0 .. b
       PROVE  ~Reach(pattern, name, i + 1, j)
  <2>1. j \in 0 .. N /\ (i <= j => i <= b)
    BY <1>1
  <2>. QED BY <1>1, <1>7, <1>8, <1>11, <2>1
<1>12. SearchRight(pattern, name, b, more, i + 1)
  <2>1. 1 + 1 \in Nat /\ 1 + 1 > 1
    OBVIOUS
  <2>. QED BY <1>2, <1>10, <1>11, <2>1, SearchIs
<1>. QED BY <1>12 DEF more

\* Another star: the part before it is looked for.
LEMMA SearchStar ==
  ASSUME NEW pattern \in Seq(Chars), NEW name \in Seq(Chars), NEW b \in 0 .. Len(name),
         NEW i \in Nat, NEW parts, NEW n \in Nat, NEW l \in Seq(Chars), NEW s \in Nat,
         SplitAs(pattern, parts, i, n, l, s), n > 1, pattern[i + 1] = Star,
         SearchRight(pattern, name, b, parts, i)
  PROVE  SearchRight(pattern, name, b, Append(parts, <<>>), i + 1)
<1> DEFINE more == Append(parts, <<>>)
           front == Front(parts)
           left == Searched(name, parts, b)
           right == Searched(name, more, b)
<1>1. /\ parts \in Seq(Seq(Chars)) /\ Len(parts) = n /\ l = Last(parts)
      /\ s + Len(l) = i /\ Len(l) \in Nat
      /\ \A k \in 1 .. Len(l) : l[k] = pattern[s + k] /\ pattern[s + k] # Star
  BY DEF SplitAs
<1>2. SplitAs(pattern, more, i + 1, n + 1, <<>>, i + 1)
  BY SplitStar
<1>3. /\ n > 1 /\ IsPrefix(parts[1], name) /\ Len(parts[1]) <= b
           => Knows(pattern, name, left, s, b)
      /\ n > 1 /\ ~(IsPrefix(parts[1], name) /\ Len(parts[1]) <= b)
           => \A j \in 0 .. b : ~Reach(pattern, name, s, j)
  BY SearchIs
<1>4. more[1] = parts[1] /\ Front(more) = parts
  <2>1. <<>> \in Seq(Chars) /\ n > 0
    OBVIOUS
  <2>. QED BY <1>1, <2>1, PartsGoOn
<1>5. Tail(front) \in Seq(Seq(Chars)) /\ Tail(parts) = Append(Tail(front), l) /\ front[1] = parts[1]
  <2>1. Len(parts) > 1 /\ Len(parts) > 0 /\ 1 \in 1 .. Len(parts) - 1
    BY <1>1
  <2>. QED BY <1>1, <2>1, FrontTail, FrontIs
<1>6. right = After(left, l)
  <2> DEFINE base == [ok |-> TRUE, rest |-> SubSeq(name, Len(parts[1]) + 1, b)]
  <2>1. left = Folded("search", 0, base, Tail(front))
    BY DEF Searched
  <2>2. right = Folded("search", 0, base, Append(Tail(front), l))
    <3> HIDE DEF more
    <3>. QED BY <1>4, <1>5 DEF Searched
  <2> HIDE DEF base, left, right, front
  <2> DEFINE E == Seq(Chars)
             t == Tail(front)
  <2>0. t \in Seq(E) /\ l \in E
    BY <1>5
  <2> HIDE DEF E, t
  <2>3. Folded("search", 0, base, Append(t, l)) = FoldStep("search", 0, Folded("search", 0, base, t), l)
    BY <2>0, FoldAppend
  <2>4. right = FoldStep("search", 0, left, l)
    BY <2>1, <2>2, <2>3 DEF t
  <2>. QED BY <2>4 DEF FoldStep
<1>7. pattern[s + Len(l) + 1] = Star /\ s + Len(l) + 1 = i + 1
  BY <1>1
<1> HIDE DEF left, right, more
<1>8. ASSUME IsPrefix(more[1], name), Len(more[1]) <= b
      PROVE  Knows(pattern, name, right, i + 1, b)
  <2>1. Knows(pattern, name, left, s, b)
    BY <1>3, <1>4, <1>8
  <2>2. Knows(pattern, name, After(left, l), s + Len(l) + 1, b)
    BY <1>1, <1>7, <2>1, AfterKnows
  <2>. QED BY <1>6, <1>7, <2>2
<1>9. ASSUME ~(IsPrefix(more[1], name) /\ Len(more[1]) <= b)
      PROVE  \A j \in 0 .. b : ~Reach(pattern, name, i + 1, j)
  <2>1. \A j \in 0 .. b : ~Reach(pattern, name, s, j)
    BY <1>3, <1>4, <1>9
  <2>2. ~NoMatch.ok /\ After(NoMatch, l) = NoMatch
    BY DEF After, NoMatch
  <2>3. Knows(pattern, name, NoMatch, s, b)
    BY <2>1, <2>2 DEF Knows
  <2>4. Knows(pattern, name, After(NoMatch, l), s + Len(l) + 1, b)
    BY <1>1, <1>7, <2>3, AfterKnows
  <2>5. Knows(pattern, name, NoMatch, i + 1, b)
    BY <1>7, <2>2, <2>4
  <2>. QED BY <2>2, <2>5 DEF Knows
<1>10. SearchRight(pattern, name, b, more, i + 1)
  <2>1. n + 1 \in Nat
    OBVIOUS
  <2>. QED BY <1>2, <1>8, <1>9, <2>1, SearchIs DEF right
<1>. QED BY <1>10 DEF more

\* Another character: the search is where it was.
LEMMA SearchLetter ==
  ASSUME NEW pattern \in Seq(Chars), NEW name \in Seq(Chars), NEW b \in 0 .. Len(name),
         NEW i \in Nat, NEW parts, NEW n \in Nat, NEW l \in Seq(Chars), NEW s \in Nat,
         SplitAs(pattern, parts, i, n, l, s), NEW c \in Chars, c # Star, c = pattern[i + 1],
         SearchRight(pattern, name, b, parts, i)
  PROVE  SearchRight(pattern, name, b, [parts EXCEPT ![n] = Append(l, c)], i + 1)
<1> DEFINE m == Append(l, c)
           more == [parts EXCEPT ![n] = m]
<1>1. SplitAs(pattern, more, i + 1, n, m, s)
  BY SplitLetter
<1>2. parts \in Seq(Seq(Chars)) /\ Len(parts) = n /\ n > 0
  BY DEF SplitAs
<1>3. m \in Seq(Chars)
  BY AppendIs
<1> HIDE DEF m
<1>4. n > 1 => more[1] = parts[1]
  BY <1>2
<1>5. Front(more) = Front(parts)
  <2>1. n = Len(parts) /\ parts \in Seq(Seq(Chars)) /\ n > 0
    BY <1>2
  <2>2. Front([parts EXCEPT ![n] = m]) = Front(parts)
    <3> DEFINE E == Seq(Chars)
    <3>1. m \in E /\ parts \in Seq(E) /\ Len(parts) > 0
      BY <1>2, <1>3
    <3> HIDE DEF E
    <3>2. Front([parts EXCEPT ![Len(parts)] = m]) = Front(parts)
      BY <3>1, FrontOf
    <3>. QED BY <2>1, <3>2, Zenon
  <2>. QED BY <2>2
<1> HIDE DEF more
<1>6. n > 1 => Searched(name, more, b) = Searched(name, parts, b)
  BY <1>4, <1>5 DEF Searched
<1>7. /\ n > 1 /\ IsPrefix(parts[1], name) /\ Len(parts[1]) <= b
           => Knows(pattern, name, Searched(name, parts, b), s, b)
      /\ n > 1 /\ ~(IsPrefix(parts[1], name) /\ Len(parts[1]) <= b)
           => \A j \in 0 .. b : ~Reach(pattern, name, s, j)
  BY SearchIs
<1>8. /\ n > 1 /\ IsPrefix(more[1], name) /\ Len(more[1]) <= b
           => Knows(pattern, name, Searched(name, more, b), s, b)
      /\ n > 1 /\ ~(IsPrefix(more[1], name) /\ Len(more[1]) <= b)
           => \A j \in 0 .. b : ~Reach(pattern, name, s, j)
  BY <1>4, <1>6, <1>7
<1>9. SearchRight(pattern, name, b, more, i + 1)
  BY <1>1, <1>8, SearchIs
<1>. QED BY <1>9 DEF more, m

\* The search stays right while the pattern goes on.
LEMMA SearchNext ==
  ASSUME NEW pattern \in Seq(Chars), NEW name \in Seq(Chars), NEW b \in 0 .. Len(name),
         NEW i \in Nat, i + 1 <= Len(pattern), NEW parts,
         Split(pattern, parts, i), SearchRight(pattern, name, b, parts, i)
  PROVE  SearchRight(pattern, name, b, More(pattern, parts, i), i + 1)
<1>1. PICK n \in Nat, l \in Seq(Chars), s \in Nat : SplitAs(pattern, parts, i, n, l, s)
  BY SplitHas
<1>2. pattern[i + 1] \in Chars
  OBVIOUS
<1>3. n = Len(parts) /\ parts[n] = l /\ n > 0
  BY <1>1 DEF SplitAs
<1>4. CASE pattern[i + 1] = Star /\ n = 1
  <2>1. SplitAs(pattern, parts, i, 1, l, s)
    BY <1>1, <1>4
  <2>2. SearchRight(pattern, name, b, Append(parts, <<>>), i + 1)
    BY <1>4, <2>1, SearchFirst
  <2>. QED BY <1>4, <2>2 DEF More
<1>5. CASE pattern[i + 1] = Star /\ n > 1
  <2>1. SearchRight(pattern, name, b, Append(parts, <<>>), i + 1)
    BY <1>1, <1>5, SearchStar
  <2>. QED BY <1>5, <2>1 DEF More
<1>6. CASE pattern[i + 1] # Star
  <2> DEFINE c == pattern[i + 1]
  <2>1. More(pattern, parts, i) = [parts EXCEPT ![n] = Append(l, c)]
    BY <1>3, <1>6 DEF More
  <2>2. c \in Chars /\ c # Star /\ c = pattern[i + 1]
    BY <1>2, <1>6
  <2> HIDE DEF c
  <2>3. SearchRight(pattern, name, b, [parts EXCEPT ![n] = Append(l, c)], i + 1)
    BY <1>1, <2>2, SearchLetter
  <2>. QED BY <2>1, <2>3
<1>. QED BY <1>3, <1>4, <1>5, <1>6

\* The search is right for every beginning of a pattern.
LEMMA SearchAll ==
  ASSUME NEW pattern \in Seq(Chars), NEW name \in Seq(Chars), NEW b \in 0 .. Len(name)
  PROVE  \A i \in 0 .. Len(pattern) :
           SearchRight(pattern, name, b, Parts(Begins(pattern, i)), i)
<1> DEFINE S == {i \in Nat : i <= Len(pattern) =>
                   SearchRight(pattern, name, b, Parts(Begins(pattern, i)), i)}
<1>1. 0 \in S
  <2>1. Begins(pattern, 0) = <<>>
    BY DEF Begins
  <2>2. Parts(<<>>) = << <<>> >> /\ Len(<< <<>> >>) = 1
    BY PartsFolds, FoldEmpty
  <2>3. SearchRight(pattern, name, b, Parts(<<>>), 0)
    <3>1. Len(Parts(<<>>)) = 1
      BY <2>2
    <3>2. ~(1 > 1)
      OBVIOUS
    <3>. QED BY <3>1, <3>2 DEF SearchRight
  <2>. QED BY <2>1, <2>3
<1>2. ASSUME NEW i \in Nat, i \in S
      PROVE  i + 1 \in S
  <2>1. ASSUME i + 1 <= Len(pattern)
        PROVE  SearchRight(pattern, name, b, Parts(Begins(pattern, i + 1)), i + 1)
    <3>1. SearchRight(pattern, name, b, Parts(Begins(pattern, i)), i)
      BY <1>2, <2>1
    <3>2. Split(pattern, Parts(Begins(pattern, i)), i)
      BY <2>1, SplitAll
    <3>3. /\ Begins(pattern, i) \in Seq(Chars) /\ pattern[i + 1] \in Chars
          /\ Begins(pattern, i + 1) = Append(Begins(pattern, i), pattern[i + 1])
      BY <2>1, BeginsNext
    <3>4. Parts(Begins(pattern, i + 1)) = More(pattern, Parts(Begins(pattern, i)), i)
      BY <3>3, PartsNext DEF More
    <3>5. SearchRight(pattern, name, b, More(pattern, Parts(Begins(pattern, i)), i), i + 1)
      BY <2>1, <3>1, <3>2, SearchNext
    <3>. QED BY <3>4, <3>5
  <2>. QED BY <2>1
<1> HIDE DEF S
<1>3. \A i \in Nat : i \in S
  BY <1>1, <1>2, NatSet
<1>. QED BY <1>3 DEF S

\* What a sequence ends with.
Ends(s, t) ==
  /\ Len(s) <= Len(t)
  /\ \A i \in 1 .. Len(s) : s[i] = t[Len(t) - Len(s) + i]

\* IsSuffix is defined with Reverse; this is what it means.
LEMMA SuffixEnds ==
  ASSUME NEW E, NEW s \in Seq(E), NEW t \in Seq(E)
  PROVE  IsSuffix(s, t) <=> Ends(s, t)
<1> DEFINE m == Len(s)
           n == Len(t)
           a == Reverse(s)
           b == Reverse(t)
<1>1. m \in Nat /\ n \in Nat
  OBVIOUS
<1>2. /\ a \in Seq(E) /\ Len(a) = m /\ \A i \in 1 .. m : a[i] = s[m - i + 1]
      /\ b \in Seq(E) /\ Len(b) = n /\ \A i \in 1 .. n : b[i] = t[n - i + 1]
  BY DEF Reverse
<1> HIDE DEF a, b
<1>3. ASSUME m <= n
      PROVE  SubSeq(a, 1, m) = SubSeq(b, 1, m) <=> \A i \in 1 .. m : a[i] = b[i]
  <2>1. /\ SubSeq(a, 1, m) \in Seq(E) /\ Len(SubSeq(a, 1, m)) = m
        /\ \A i \in 1 .. m : SubSeq(a, 1, m)[i] = a[i]
    BY <1>1, <1>2
  <2>2. /\ SubSeq(b, 1, m) \in Seq(E) /\ Len(SubSeq(b, 1, m)) = m
        /\ \A i \in 1 .. m : SubSeq(b, 1, m)[i] = b[i]
    BY <1>1, <1>2, <1>3
  <2>. QED BY <2>1, <2>2, SeqEqual
<1>4. ASSUME m <= n
      PROVE  (\A i \in 1 .. m : a[i] = b[i]) <=> \A i \in 1 .. m : s[i] = t[n - m + i]
  <2>1. ASSUME \A i \in 1 .. m : a[i] = b[i], NEW i \in 1 .. m
        PROVE  s[i] = t[n - m + i]
    <3>1. m - i + 1 \in 1 .. m /\ m - i + 1 \in 1 .. n
      BY <1>1, <1>4
    <3>2. a[m - i + 1] = s[m - (m - i + 1) + 1] /\ b[m - i + 1] = t[n - (m - i + 1) + 1]
      BY <1>2, <3>1
    <3>3. m - (m - i + 1) + 1 = i /\ n - (m - i + 1) + 1 = n - m + i
      BY <1>1
    <3>. QED BY <2>1, <3>1, <3>2, <3>3
  <2>2. ASSUME \A i \in 1 .. m : s[i] = t[n - m + i], NEW i \in 1 .. m
        PROVE  a[i] = b[i]
    <3>1. i \in 1 .. n /\ m - i + 1 \in 1 .. m /\ n - m + (m - i + 1) = n - i + 1
      BY <1>1, <1>4
    <3>. QED BY <1>2, <2>2, <3>1
  <2>. QED BY <2>1, <2>2
<1>. QED BY <1>2, <1>3, <1>4 DEF IsSuffix, IsPrefix, Ends, a, b

\* MatchPattern, looking for the parts one after the other, finds out whether
\* a pattern matches a name: '*' stands for any characters, and the first place
\* where a part is found is as good as any.
THEOREM MatchPatternRight ==
  ASSUME NEW pattern \in Seq(Chars), NEW name \in Seq(Chars)
  PROVE  MatchPattern(pattern, name) <=> Matches(pattern, name)
<1> DEFINE m == Len(pattern)
           N == Len(name)
           parts == Parts(pattern)
<1>1. m \in Nat /\ N \in Nat
  OBVIOUS
<1>2. Begins(pattern, m) = pattern
  BY DEF Begins
<1>3. Split(pattern, parts, m) /\ \A b \in 0 .. N : SearchRight(pattern, name, b, parts, m)
  BY <1>1, <1>2, SplitAll, SearchAll
<1> HIDE DEF parts
<1>4. PICK n \in Nat, l \in Seq(Chars), s \in Nat : SplitAs(pattern, parts, m, n, l, s)
  BY <1>1, <1>3, SplitHas
<1>5. /\ parts \in Seq(Seq(Chars)) /\ Len(parts) = n /\ n > 0 /\ l = Last(parts)
      /\ s + Len(l) = m
      /\ \A k \in 1 .. Len(l) : l[k] = pattern[s + k] /\ pattern[s + k] # Star
      /\ n = 1 => s = 0
      /\ n > 1 => s > 0 /\ pattern[s] = Star
  BY <1>4 DEF SplitAs
<1>6. Wild(pattern) <=> n > 1
  <2>1. Wild(pattern) <=> \E k \in 1 .. m : pattern[k] = Star
    BY DEF Wild, Range
  <2>2. ASSUME n = 1
        PROVE  ~Wild(pattern)
    <3>1. s = 0 /\ Len(l) = m
      BY <1>1, <1>5, <2>2
    <3>2. \A k \in 1 .. m : s + k = k
      BY <1>1, <3>1
    <3>. QED BY <1>5, <2>1, <3>1, <3>2
  <2>3. ASSUME n > 1
        PROVE  Wild(pattern)
    <3>1. Len(l) \in Nat
      OBVIOUS
    <3>2. s \in 1 .. m /\ pattern[s] = Star
      BY <1>1, <1>5, <2>3, <3>1
    <3>. QED BY <2>1, <3>2
  <2>. QED BY <1>5, <2>2, <2>3
<1>7. /\ Len(l) \in Nat
      /\ Matches(pattern, name) <=>
           /\ Len(l) <= N /\ Reach(pattern, name, s, N - Len(l))
           /\ Occurs(pattern, name, s, Len(l), N - Len(l))
  <2> DEFINE x == Len(l)
  <2>1. x \in Nat /\ N \in 0 .. N /\ \A k \in 1 .. x : pattern[s + k] # Star
    BY <1>1, <1>5
  <2>2. Reach(pattern, name, s + x, N) <=>
          x <= N /\ Reach(pattern, name, s, N - x) /\ Occurs(pattern, name, s, x, N - x)
    <3> HIDE DEF x
    <3>. QED BY <2>1, ReachLetters
  <2>. QED BY <1>5, <2>1, <2>2, MatchesReach
<1>8. CASE n = 1
  <2>1. s = 0 /\ Len(l) = m
    BY <1>1, <1>5, <1>8
  <2>2. MatchPattern(pattern, name) <=> pattern = name
    BY <1>6, <1>8 DEF MatchPattern
  <2>3. pattern = name <=> m = N /\ \A k \in 1 .. m : name[k] = pattern[k]
    BY SeqEqual
  <2>4. m <= N => (Reach(pattern, name, 0, N - m) <=> N - m = 0)
    BY ReachZero
  <2>5. N - m = 0 <=> N = m
    BY <1>1
  <2>6. N = m => (Occurs(pattern, name, 0, m, 0) <=> \A k \in 1 .. m : name[k] = pattern[k])
    <3>1. \A k \in 1 .. m : 0 + k = k
      BY <1>1
    <3>. QED BY <3>1 DEF Occurs
  <2>7. Matches(pattern, name) <=>
          m <= N /\ N - m = 0 /\ Occurs(pattern, name, 0, m, N - m)
    BY <1>7, <2>1, <2>4
  <2>8. N = m => m <= N
    BY <1>1
  <2> HIDE DEF m, N
  <2>. QED BY <2>2, <2>3, <2>5, <2>6, <2>7, <2>8
<1>9. CASE n > 1
  <2> DEFINE one == parts[1]
             rest == SubSeq(name, Len(one) + 1, N)
             found == Folded("search", 0, [ok |-> TRUE, rest |-> SubSeq(rest, 1, Len(rest) - Len(l))],
                             Tail(Front(parts)))
             b == N - Len(l)
             left == Searched(name, parts, b)
  <2>1. one \in Seq(Chars) /\ Len(one) \in Nat
    <3>1. one \in Seq(Chars)
      BY <1>5, LastIs
    <3> HIDE DEF one
    <3>. QED BY <3>1
  <2>2. Front(Tail(parts)) = Tail(Front(parts))
    <3> DEFINE E == Seq(Chars)
    <3>1. parts \in Seq(E) /\ Len(parts) > 1
      BY <1>5, <1>9
    <3> HIDE DEF E
    <3>. QED BY <3>1, FrontTail
  <2>3. MatchPattern(pattern, name) <=> IsPrefix(one, name) /\ IsSuffix(l, rest) /\ found.ok
    BY <1>5, <1>6, <1>9, <2>2, SearchFolds DEF MatchPattern, parts
  <2>4. IsPrefix(one, name) => Len(one) <= N
    BY <2>1, PrefixIs
  <2> HIDE DEF one
  <2>5. Len(one) <= N => /\ rest \in Seq(Chars) /\ Len(rest) = N - Len(one)
                         /\ \A k \in 1 .. N - Len(one) : rest[k] = name[Len(one) + k]
    <3>1. ASSUME Len(one) <= N
          PROVE  /\ rest \in Seq(Chars) /\ Len(rest) = N - Len(one)
                 /\ \A k \in 1 .. N - Len(one) : rest[k] = name[Len(one) + k]
      <4> DEFINE o == Len(one) + 1
      <4>1. o \in Nat /\ 1 <= o /\ o <= N + 1 /\ N <= Len(name) /\ N - o + 1 = N - Len(one)
        BY <1>1, <2>1, <3>1
      <4>2. \A k \in 1 .. N - Len(one) : o + k - 1 = Len(one) + k
        BY <2>1
      <4> HIDE DEF o
      <4>3. /\ SubSeq(name, o, N) \in Seq(Chars) /\ Len(SubSeq(name, o, N)) = N - o + 1
            /\ \A k \in 1 .. N - o + 1 : SubSeq(name, o, N)[k] = name[o + k - 1]
        BY <1>1, <4>1, PieceIs
      <4>. QED BY <4>1, <4>2, <4>3 DEF o
    <3>. QED BY <3>1
  <2>6. ASSUME IsPrefix(one, name), Len(one) <= b
        PROVE  MatchPattern(pattern, name) <=> Matches(pattern, name)
    <3>1. b \in 0 .. N /\ Len(l) <= N /\ Len(one) <= N
      BY <1>1, <1>7, <2>1, <2>6
    <3>2. SearchRight(pattern, name, b, parts, m)
      BY <1>3, <3>1
    <3>3. Knows(pattern, name, left, s, b)
      <4> HIDE DEF b, left
      <4>. QED BY <1>4, <1>9, <2>6, <3>2, SearchIs DEF one, left
    <3>4. left.ok <=> Reach(pattern, name, s, b)
      <4> HIDE DEF b, left
      <4>1. b \in 0 .. b /\ b \in 0 .. Len(name) /\ \A e \in 0 .. b : e <= b
        BY <3>1
      <4>. QED BY <3>3, <4>1 DEF Knows
    <3>5. /\ rest \in Seq(Chars) /\ Len(rest) = N - Len(one) /\ Len(rest) \in Nat
          /\ \A k \in 1 .. N - Len(one) : rest[k] = name[Len(one) + k]
      BY <2>5, <3>1
    <3> HIDE DEF rest
    <3>6. found = left
      <4> DEFINE u == SubSeq(rest, 1, Len(rest) - Len(l))
                 v == SubSeq(name, Len(one) + 1, b)
                 y == b - Len(one)
                 o == Len(one) + 1
      <4>1. /\ y \in Nat /\ Len(rest) - Len(l) = y /\ 1 <= y + 1 /\ y <= Len(rest) /\ y - 1 + 1 = y
            /\ o \in Nat /\ 1 <= o /\ o <= b + 1 /\ b <= Len(name) /\ b - o + 1 = y /\ b \in Nat
        BY <1>1, <1>7, <2>1, <2>6, <3>1, <3>5
      <4>2. \A k \in 1 .. y : 1 + k - 1 = k /\ o + k - 1 = Len(one) + k /\ k \in 1 .. N - Len(one)
        BY <1>1, <1>7, <2>1, <3>1
      <4> HIDE DEF y, o, b
      <4>3. /\ SubSeq(rest, 1, y) \in Seq(Chars) /\ Len(SubSeq(rest, 1, y)) = y - 1 + 1
            /\ \A k \in 1 .. y - 1 + 1 : SubSeq(rest, 1, y)[k] = rest[1 + k - 1]
        BY <3>5, <4>1, PieceIs
      <4>4. /\ SubSeq(name, o, b) \in Seq(Chars) /\ Len(SubSeq(name, o, b)) = b - o + 1
            /\ \A k \in 1 .. b - o + 1 : SubSeq(name, o, b)[k] = name[o + k - 1]
        BY <4>1, PieceIs
      <4>5. /\ u \in Seq(Chars) /\ Len(u) = y /\ \A k \in 1 .. y : u[k] = rest[k]
            /\ v \in Seq(Chars) /\ Len(v) = y /\ \A k \in 1 .. y : v[k] = name[Len(one) + k]
        BY <4>1, <4>2, <4>3, <4>4 DEF o
      <4> HIDE DEF u, v
      <4>6. u = v
        <5>1. \A k \in 1 .. y : u[k] = v[k]
          BY <3>5, <4>2, <4>5
        <5>. QED BY <4>5, <5>1, SeqEqual
      <4>. QED BY <4>6 DEF u, v, Searched, one
    <3>7. IsSuffix(l, rest) <=> Occurs(pattern, name, s, Len(l), b)
      <4>1. IsSuffix(l, rest) <=> Ends(l, rest)
        BY <3>5, SuffixEnds
      <4>2. Len(l) <= Len(rest)
        BY <1>1, <1>7, <2>1, <2>6, <3>5
      <4>3. Ends(l, rest) <=> \A k \in 1 .. Len(l) : l[k] = rest[Len(rest) - Len(l) + k]
        BY <4>2 DEF Ends
      <4>4. \A k \in 1 .. Len(l) :
              /\ Len(rest) - Len(l) + k \in 1 .. N - Len(one)
              /\ Len(one) + (Len(rest) - Len(l) + k) = b + k
        BY <1>1, <1>7, <2>1, <3>5, <4>2
      <4> HIDE DEF b
      <4>5. ASSUME NEW k \in 1 .. Len(l)
            PROVE  rest[Len(rest) - Len(l) + k] = name[b + k] /\ l[k] = pattern[s + k]
        BY <1>5, <3>5, <4>4
      <4>. QED BY <4>1, <4>3, <4>5 DEF Occurs
    <3> HIDE DEF found, left
    <3>. QED BY <1>7, <2>3, <2>6, <3>1, <3>4, <3>6, <3>7
  <2>7. ASSUME ~(IsPrefix(one, name) /\ Len(one) <= b)
        PROVE  ~MatchPattern(pattern, name) /\ ~Matches(pattern, name)
    <3>1. ~MatchPattern(pattern, name)
      <4>1. ASSUME IsPrefix(one, name), IsSuffix(l, rest)
            PROVE  FALSE
        <5>1. rest \in Seq(Chars) /\ Len(rest) = N - Len(one) /\ Len(one) <= N
          BY <2>4, <2>5, <4>1
        <5> HIDE DEF rest
        <5>2. Len(l) <= Len(rest)
          BY <4>1, <5>1, SuffixEnds DEF Ends
        <5>3. Len(one) <= b
          BY <1>1, <1>7, <2>1, <5>1, <5>2
        <5>. QED BY <2>7, <4>1, <5>3
      <4> HIDE DEF found, rest
      <4>. QED BY <2>3, <4>1
    <3>2. ASSUME Len(l) <= N
          PROVE  ~Reach(pattern, name, s, b)
      <4>1. b \in 0 .. N /\ b \in 0 .. b
        BY <1>1, <1>7, <3>2
      <4>2. SearchRight(pattern, name, b, parts, m)
        BY <1>3, <4>1
      <4> HIDE DEF b
      <4>3. \A j \in 0 .. b : ~Reach(pattern, name, s, j)
        BY <1>4, <1>9, <2>7, <4>2, SearchIs DEF one
      <4>. QED BY <4>1, <4>3
    <3>. QED BY <1>7, <3>1, <3>2
  <2>. QED BY <2>6, <2>7
<1>. QED BY <1>5, <1>8, <1>9


----------------------------------------------------------------------------
(* The order of patterns.                                                  *)

\* a comes before b as a string: they agree on n characters, and then a ends
\* or has the smaller character.
Differ(a, b, n) ==
  /\ n \in Nat /\ n <= Len(a) /\ n < Len(b)
  /\ \A k \in 1 .. n : a[k] = b[k]
  /\ n = Len(a) \/ (n < Len(a) /\ Code[a[n + 1]] < Code[b[n + 1]])

LEMMA BeforeIs ==
  ASSUME NEW a \in Seq(Chars), NEW b \in Seq(Chars)
  PROVE  Before(a, b) <=> \E n \in Nat : Differ(a, b, n)
<1>1. ASSUME NEW n \in Nat, n <= Len(a), n <= Len(b)
      PROVE  SubSeq(a, 1, n) = SubSeq(b, 1, n) <=> \A k \in 1 .. n : a[k] = b[k]
  <2> DEFINE x == SubSeq(a, 1, n)
             y == SubSeq(b, 1, n)
  <2>1. 1 \in Nat /\ 1 <= 1 /\ 1 <= n + 1 /\ n - 1 + 1 = n /\ \A k \in 1 .. n : 1 + k - 1 = k
    OBVIOUS
  <2>2. /\ x \in Seq(Chars) /\ Len(x) = n - 1 + 1 /\ \A k \in 1 .. n - 1 + 1 : x[k] = a[1 + k - 1]
        /\ y \in Seq(Chars) /\ Len(y) = n - 1 + 1 /\ \A k \in 1 .. n - 1 + 1 : y[k] = b[1 + k - 1]
    BY <1>1, <2>1, PieceIs
  <2> HIDE DEF x, y
  <2>3. /\ x \in Seq(Chars) /\ Len(x) = n /\ \A k \in 1 .. n : x[k] = a[k]
        /\ y \in Seq(Chars) /\ Len(y) = n /\ \A k \in 1 .. n : y[k] = b[k]
    BY <2>1, <2>2
  <2>4. x = y <=> \A k \in 1 .. n : x[k] = y[k]
    BY <2>3, SeqEqual
  <2>. QED BY <2>3, <2>4 DEF x, y
<1>2. Len(a) \in Nat /\ Len(b) \in Nat
  OBVIOUS
<1>3. ASSUME Before(a, b)
      PROVE  \E n \in Nat : Differ(a, b, n)
  <2>1. PICK n \in 0 .. Len(a) :
          /\ n < Len(b) /\ SubSeq(a, 1, n) = SubSeq(b, 1, n)
          /\ n = Len(a) \/ Code[a[n + 1]] < Code[b[n + 1]]
    BY <1>3 DEF Before
  <2>2. n \in Nat /\ n <= Len(a) /\ n <= Len(b) /\ (n = Len(a) \/ n < Len(a))
    BY <1>2, <2>1
  <2>. QED BY <1>1, <2>1, <2>2 DEF Differ
<1>4. ASSUME NEW n \in Nat, Differ(a, b, n)
      PROVE  Before(a, b)
  <2>1. n \in 0 .. Len(a) /\ n < Len(b) /\ n <= Len(a) /\ n <= Len(b)
    BY <1>2, <1>4 DEF Differ
  <2>2. SubSeq(a, 1, n) = SubSeq(b, 1, n)
    BY <1>1, <1>4, <2>1 DEF Differ
  <2>. QED BY <1>4, <2>1, <2>2 DEF Differ, Before
<1>. QED BY <1>3, <1>4

\* The bytes of characters.
LEMMA CodeAt ==
  ASSUME NEW a \in Seq(Chars), NEW k \in 1 .. Len(a)
  PROVE  a[k] \in Chars /\ Code[a[k]] \in Nat
<1>1. a[k] \in Chars
  OBVIOUS
<1>. QED BY <1>1, CodeAssumption

\* No string comes before itself,
LEMMA BeforeNotItself ==
  ASSUME NEW a \in Seq(Chars)
  PROVE  ~Before(a, a)
<1> SUFFICES ASSUME NEW n \in Nat, Differ(a, a, n)
             PROVE  FALSE
  BY BeforeIs
<1>1. n < Len(a) /\ Len(a) \in Nat
  BY DEF Differ
<1>2. n + 1 \in 1 .. Len(a) /\ n # Len(a)
  BY <1>1
<1>3. Code[a[n + 1]] \in Nat
  BY <1>2, CodeAt
<1>4. Code[a[n + 1]] < Code[a[n + 1]]
  BY <1>2 DEF Differ
<1>. QED BY <1>3, <1>4

\* what comes before another comes before what that comes before,
LEMMA BeforeGoesOn ==
  ASSUME NEW a \in Seq(Chars), NEW b \in Seq(Chars), NEW c \in Seq(Chars),
         Before(a, b), Before(b, c)
  PROVE  Before(a, c)
<1>1. PICK m \in Nat : Differ(a, b, m)
  BY BeforeIs
<1>2. PICK n \in Nat : Differ(b, c, n)
  BY BeforeIs
<1>3. Len(a) \in Nat /\ Len(b) \in Nat /\ Len(c) \in Nat
  OBVIOUS
<1>4. /\ m <= Len(a) /\ m < Len(b) /\ n <= Len(b) /\ n < Len(c)
      /\ \A k \in 1 .. m : a[k] = b[k]
      /\ \A k \in 1 .. n : b[k] = c[k]
      /\ m = Len(a) \/ (m < Len(a) /\ Code[a[m + 1]] < Code[b[m + 1]])
      /\ n = Len(b) \/ (n < Len(b) /\ Code[b[n + 1]] < Code[c[n + 1]])
  BY <1>1, <1>2 DEF Differ
<1>5. CASE m < n
  <2>1. m + 1 \in 1 .. n /\ m < Len(c) /\ \A k \in 1 .. m : k \in 1 .. n
    BY <1>3, <1>4, <1>5
  <2>2. b[m + 1] = c[m + 1] /\ \A k \in 1 .. m : a[k] = c[k]
    BY <1>4, <2>1
  <2>3. Differ(a, c, m)
    BY <1>4, <2>1, <2>2 DEF Differ
  <2>. QED BY <2>3, BeforeIs
<1>6. CASE n < m
  <2>1. /\ n + 1 \in 1 .. m /\ n < Len(a) /\ n <= Len(a) /\ n # Len(b)
        /\ \A k \in 1 .. n : k \in 1 .. m
    BY <1>3, <1>4, <1>6
  <2>2. a[n + 1] = b[n + 1] /\ \A k \in 1 .. n : a[k] = c[k]
    BY <1>4, <2>1
  <2>3. Differ(a, c, n)
    BY <1>4, <2>1, <2>2 DEF Differ
  <2>. QED BY <2>3, BeforeIs
<1>7. CASE m = n
  <2>1. n # Len(b) /\ n + 1 \in 1 .. Len(b) /\ n + 1 \in 1 .. Len(c)
    BY <1>3, <1>4, <1>7
  <2>2. Code[b[n + 1]] \in Nat /\ Code[c[n + 1]] \in Nat /\ Code[b[n + 1]] < Code[c[n + 1]]
    BY <1>4, <2>1, CodeAt
  <2>3. \A k \in 1 .. n : a[k] = c[k]
    BY <1>4, <1>7
  <2>4. m < Len(a) => Code[a[n + 1]] \in Nat
    <3>1. m < Len(a) => n + 1 \in 1 .. Len(a)
      BY <1>3, <1>7
    <3>. QED BY <3>1, CodeAt
  <2>5. m < Len(a) /\ Code[a[m + 1]] < Code[b[m + 1]] => Code[a[n + 1]] < Code[c[n + 1]]
    BY <1>7, <2>2, <2>4
  <2>6. Differ(a, c, n)
    BY <1>4, <1>7, <2>3, <2>5 DEF Differ
  <2>. QED BY <2>6, BeforeIs
<1>. QED BY <1>5, <1>6, <1>7

\* and of two strings one comes before the other.
LEMMA BeforeOneWay ==
  ASSUME NEW a \in Seq(Chars), NEW b \in Seq(Chars), a # b
  PROVE  Before(a, b) \/ Before(b, a)
<1> DEFINE D == {k \in Nat : k + 1 > Len(a) \/ k + 1 > Len(b) \/ a[k + 1] # b[k + 1]}
<1>1. Len(a) \in Nat /\ Len(b) \in Nat
  OBVIOUS
<1>2. Len(a) \in D
  BY <1>1
<1>3. PICK n \in D : \A k \in D : n <= k
  <2>1. D \subseteq Nat /\ D # {}
    BY <1>2
  <2> HIDE DEF D
  <2>. QED BY <2>1, NatLeast
<1>4. n \in Nat /\ (n + 1 > Len(a) \/ n + 1 > Len(b) \/ a[n + 1] # b[n + 1])
  OBVIOUS
<1>5. ASSUME NEW k \in 1 .. n
      PROVE  k <= Len(a) /\ k <= Len(b) /\ a[k] = b[k]
  <2>1. k - 1 \in Nat /\ k - 1 + 1 = k /\ ~(n <= k - 1)
    BY <1>4
  <2>2. k - 1 \notin D
    BY <1>3, <2>1
  <2>. QED BY <1>1, <2>1, <2>2
<1>6. n <= Len(a) /\ n <= Len(b)
  <2>1. n = 0 \/ n \in 1 .. n
    BY <1>4
  <2>. QED BY <1>1, <1>5, <2>1
<1>7. CASE n = Len(a)
  <2>1. n # Len(b)
    BY <1>5, <1>7, SeqEqual
  <2>2. n < Len(b)
    BY <1>1, <1>4, <1>6, <2>1
  <2>3. Differ(a, b, n)
    BY <1>4, <1>5, <1>6, <1>7, <2>2 DEF Differ
  <2>. QED BY <1>4, <2>3, BeforeIs
<1>8. CASE n = Len(b)
  <2>1. n # Len(a)
    BY <1>5, <1>8, SeqEqual
  <2>2. n < Len(a)
    BY <1>1, <1>4, <1>6, <2>1
  <2>3. Differ(b, a, n)
    BY <1>4, <1>5, <1>6, <1>8, <2>2 DEF Differ
  <2>. QED BY <1>4, <2>3, BeforeIs
<1>9. CASE n # Len(a) /\ n # Len(b)
  <2>1. n < Len(a) /\ n < Len(b) /\ n + 1 \in 1 .. Len(a) /\ n + 1 \in 1 .. Len(b)
    BY <1>1, <1>4, <1>6, <1>9
  <2>2. a[n + 1] # b[n + 1]
    BY <1>1, <1>4, <2>1
  <2>3. /\ a[n + 1] \in Chars /\ Code[a[n + 1]] \in Nat
        /\ b[n + 1] \in Chars /\ Code[b[n + 1]] \in Nat
    BY <2>1, CodeAt
  <2>4. Code[a[n + 1]] # Code[b[n + 1]]
    BY <2>2, <2>3, CodeAssumption
  <2>5. Code[a[n + 1]] < Code[b[n + 1]] \/ Code[b[n + 1]] < Code[a[n + 1]]
    BY <2>3, <2>4
  <2>6. Differ(a, b, n) \/ Differ(b, a, n)
    BY <1>4, <1>5, <1>6, <2>1, <2>5 DEF Differ
  <2>. QED BY <1>4, <2>6, BeforeIs
<1>. QED BY <1>7, <1>8, <1>9

\* The characters of a pattern that are no stars are so many.
LEMMA SpecificityIs ==
  ASSUME NEW a \in Seq(Chars)
  PROVE  Specificity(a) \in Nat
<1>1. IsFiniteSet(1 .. Len(a))
  <2>1. 1 \in Int /\ Len(a) \in Int
    OBVIOUS
  <2>. QED BY <2>1, FS_Interval
<1>2. IsFiniteSet({i \in 1 .. Len(a) : a[i] # Star})
  BY <1>1, FS_Subset
<1>. QED BY <1>2, FS_CardinalityType DEF Specificity

\* MoreSpecific is an order in which any two patterns compare.
LEMMA MoreSpecificOrders ==
  ASSUME NEW a \in Seq(Chars), NEW b \in Seq(Chars), NEW c \in Seq(Chars)
  PROVE  /\ ~MoreSpecific(a, a)
         /\ MoreSpecific(a, b) /\ MoreSpecific(b, c) => MoreSpecific(a, c)
         /\ a # b => MoreSpecific(a, b) \/ MoreSpecific(b, a)
<1>1. /\ Specificity(a) \in Nat /\ Specificity(b) \in Nat /\ Specificity(c) \in Nat
      /\ Len(a) \in Nat /\ Len(b) \in Nat /\ Len(c) \in Nat
  BY SpecificityIs
<1>2. /\ ~Before(a, a)
      /\ Before(a, b) /\ Before(b, c) => Before(a, c)
      /\ a # b => Before(a, b) \/ Before(b, a)
  BY BeforeNotItself, BeforeGoesOn, BeforeOneWay
<1>. QED BY <1>1, <1>2 DEF MoreSpecific

----------------------------------------------------------------------------
(* The pattern that applies.                                               *)

\* What SelectPattern knows of the first n patterns.
Best(patterns, name, n, best) ==
  /\ best \in 0 .. n
  /\ best = 0 => \A i \in 1 .. n : ~MatchPattern(patterns[i], name)
  /\ best # 0 => MatchPattern(patterns[best], name)
  /\ best # 0 /\ Wild(patterns[best]) =>
       \A i \in 1 .. n : MatchPattern(patterns[i], name) =>
         /\ Wild(patterns[i])
         /\ patterns[i] = patterns[best] \/ MoreSpecific(patterns[best], patterns[i])

\* One more pattern is looked at.
LEMMA BestStep ==
  ASSUME NEW patterns \in Seq(Seq(Chars)), NEW name, NEW n \in Nat, n + 1 <= Len(patterns),
         NEW best, Best(patterns, name, n, best), NEW next,
         next = FoldStep("best", [patterns |-> patterns, name |-> name], best, n + 1)
  PROVE  Best(patterns, name, n + 1, next)
<1> DEFINE p == patterns[n + 1]
           q == patterns[best]
           Stay == (best # 0 /\ ~Wild(q)) \/ ~MatchPattern(p, name)
           Take == ~Wild(p) \/ best = 0 \/ MoreSpecific(p, q)
<1>1. next = IF Stay THEN best ELSE IF Take THEN n + 1 ELSE best
  BY DEF FoldStep
<1>2. best \in 0 .. n /\ best \in 0 .. n + 1 /\ n + 1 # 0 /\ n + 1 \in 0 .. n + 1
  BY DEF Best
<1>3. p \in Seq(Chars) /\ (best # 0 => q \in Seq(Chars))
  <2>1. n + 1 \in 1 .. Len(patterns) /\ (best # 0 => best \in 1 .. Len(patterns))
    BY <1>2
  <2>. QED BY <2>1
<1>4. \A i \in 1 .. n + 1 : i = n + 1 \/ i \in 1 .. n
  OBVIOUS
<1>5. \A i \in 1 .. n : patterns[i] \in Seq(Chars)
  OBVIOUS
<1>6. CASE Stay
  <2>1. next = best
    BY <1>1, <1>6
  <2>2. CASE best # 0 /\ ~Wild(q)
    BY <1>2, <2>1, <2>2 DEF Best
  <2>3. CASE ~MatchPattern(p, name)
    BY <1>2, <1>4, <2>1, <2>3 DEF Best
  <2>. QED BY <1>6, <2>2, <2>3
<1>7. CASE ~Stay /\ Take
  <2>1. next = n + 1 /\ MatchPattern(p, name)
    BY <1>1, <1>7
  <2>2. CASE ~Wild(p)
    BY <1>2, <2>1, <2>2 DEF Best
  <2>3. CASE Wild(p)
    <3>1. ASSUME NEW i \in 1 .. n + 1, MatchPattern(patterns[i], name)
          PROVE  Wild(patterns[i]) /\ (patterns[i] = p \/ MoreSpecific(p, patterns[i]))
      <4>1. CASE i = n + 1
        BY <2>3, <4>1
      <4>2. CASE i \in 1 .. n
        <5>1. best # 0 /\ Wild(q) /\ MoreSpecific(p, q)
          BY <1>7, <2>3, <3>1, <4>2 DEF Best
        <5>2. Wild(patterns[i]) /\ (patterns[i] = q \/ MoreSpecific(q, patterns[i]))
          BY <3>1, <4>2, <5>1 DEF Best
        <5>3. patterns[i] \in Seq(Chars)
          BY <1>5, <4>2
        <5> HIDE DEF p, q
        <5>4. MoreSpecific(q, patterns[i]) => MoreSpecific(p, patterns[i])
          BY <1>3, <5>1, <5>3, MoreSpecificOrders
        <5>. QED BY <5>1, <5>2, <5>4
      <4>. QED BY <1>4, <4>1, <4>2
    <3>. QED BY <1>2, <2>1, <3>1 DEF Best
  <2>. QED BY <2>2, <2>3
<1>8. CASE ~Stay /\ ~Take
  <2>1. next = best /\ best # 0 /\ Wild(q) /\ Wild(p) /\ ~MoreSpecific(p, q)
    BY <1>1, <1>8
  <2>2. p = q \/ MoreSpecific(q, p)
    <3> HIDE DEF p, q
    <3>. QED BY <1>3, <2>1, MoreSpecificOrders
  <2>. QED BY <1>2, <1>4, <2>1, <2>2 DEF Best
<1>. QED BY <1>6, <1>7, <1>8

\* All of them have been.
LEMMA BestOfAll ==
  ASSUME NEW patterns \in Seq(Seq(Chars)), NEW name
  PROVE  Best(patterns, name, Len(patterns), SelectPattern(patterns, name))
<1> DEFINE ctx == [patterns |-> patterns, name |-> name]
           upto(n) == [i \in 1 .. n |-> i]
           done(n) == Folded("best", ctx, 0, upto(n))
           S == {n \in Nat : n <= Len(patterns) => Best(patterns, name, n, done(n))}
<1>1. 0 \in S
  <2>1. upto(0) = <<>>
    OBVIOUS
  <2>2. done(0) = 0
    BY <2>1, FoldEmpty
  <2> HIDE DEF done
  <2>. QED BY <2>2 DEF Best
<1>2. ASSUME NEW n \in Nat, n \in S
      PROVE  n + 1 \in S
  <2>1. upto(n) \in Seq(Nat) /\ upto(n + 1) \in Seq(Nat) /\ n + 1 \in Nat
    OBVIOUS
  <2>2. upto(n + 1) = Append(upto(n), n + 1)
    <3>1. Len(upto(n)) = n
      OBVIOUS
    <3>2. Append(upto(n), n + 1) \in Seq(Nat) /\ Len(Append(upto(n), n + 1)) = n + 1
      OBVIOUS
    <3>3. \A i \in 1 .. n + 1 : Append(upto(n), n + 1)[i] = i
      OBVIOUS
    <3>. QED BY <2>1, <3>2, <3>3, SeqEqual
  <2>3. done(n + 1) = FoldStep("best", ctx, done(n), n + 1)
    <3> HIDE DEF ctx, upto
    <3>1. Folded("best", ctx, 0, Append(upto(n), n + 1))
            = FoldStep("best", ctx, Folded("best", ctx, 0, upto(n)), n + 1)
      BY <2>1, FoldAppend
    <3>. QED BY <2>2, <3>1
  <2>4. ASSUME n + 1 <= Len(patterns)
        PROVE  Best(patterns, name, n + 1, done(n + 1))
    <3>1. Best(patterns, name, n, done(n))
      BY <1>2, <2>4
    <3> HIDE DEF done
    <3>. QED BY <2>3, <2>4, <3>1, BestStep
  <2> HIDE DEF done
  <2>. QED BY <2>1, <2>4
<1>3. Len(patterns) \in Nat
  OBVIOUS
<1>4. Len(patterns) \in S
  <2> HIDE DEF S
  <2>. QED BY <1>1, <1>2, <1>3, NatSet
<1>5. SelectPattern(patterns, name) = done(Len(patterns))
  BY SelectFolds
<1> HIDE DEF done
<1>. QED BY <1>3, <1>4, <1>5

\* Among patterns at most one applies.
LEMMA AppliesOnce ==
  ASSUME NEW patterns, \A q \in patterns : q \in Seq(Chars), NEW name \in Seq(Chars), NEW p, NEW q,
         Applies(patterns, name, p), Applies(patterns, name, q)
  PROVE  p = q
<1> SUFFICES ASSUME p # q
             PROVE  FALSE
  OBVIOUS
<1>1. /\ p \in patterns /\ Matches(p, name) /\ q \in patterns /\ Matches(q, name)
      /\ ~Wild(p) \/ (Wild(q) /\ MoreSpecific(p, q))
      /\ ~Wild(q) \/ (Wild(p) /\ MoreSpecific(q, p))
  BY DEF Applies
<1>2. p \in Seq(Chars) /\ q \in Seq(Chars)
  BY <1>1
<1>3. MatchPattern(p, name) /\ MatchPattern(q, name)
  BY <1>1, <1>2, MatchPatternRight
<1>4. CASE ~Wild(p) /\ ~Wild(q)
  BY <1>3, <1>4 DEF MatchPattern
<1>5. CASE MoreSpecific(p, q) /\ MoreSpecific(q, p)
  BY <1>2, <1>5, MoreSpecificOrders
<1>. QED BY <1>1, <1>4, <1>5

\* SelectPattern finds the pattern that applies, as the comments state it.
LEMMA SelectPatternRight ==
  ASSUME NEW patterns \in Seq(Seq(Chars)), NEW name \in Seq(Chars)
  PROVE  LET best == SelectPattern(patterns, name)
         IN  /\ best \in 0 .. Len(patterns)
             /\ best = 0 => \A i \in 1 .. Len(patterns) : ~Matches(patterns[i], name)
             /\ best # 0 => Applies({patterns[i] : i \in 1 .. Len(patterns)}, name, patterns[best])
<1> DEFINE best == SelectPattern(patterns, name)
           n == Len(patterns)
           P == {patterns[i] : i \in 1 .. n}
<1>1. n \in Nat /\ \A i \in 1 .. n : patterns[i] \in Seq(Chars)
  OBVIOUS
<1>2. Best(patterns, name, n, best)
  BY BestOfAll
<1> HIDE DEF best, n
<1>3. \A i \in 1 .. n : MatchPattern(patterns[i], name) <=> Matches(patterns[i], name)
  BY <1>1, MatchPatternRight
<1>4. best \in 0 .. n /\ (best # 0 => best \in 1 .. n)
  BY <1>1, <1>2 DEF Best
<1>5. best = 0 => \A i \in 1 .. n : ~Matches(patterns[i], name)
  BY <1>2, <1>3 DEF Best
<1>6. ASSUME best # 0
      PROVE  Applies(P, name, patterns[best])
  <2> DEFINE p == patterns[best]
  <2>1. p \in P /\ MatchPattern(p, name) /\ Matches(p, name)
    BY <1>2, <1>3, <1>4, <1>6 DEF Best
  <2>2. ASSUME Wild(p), NEW q \in P, Matches(q, name), q # p
        PROVE  Wild(q) /\ MoreSpecific(p, q)
    <3>1. PICK i \in 1 .. n : q = patterns[i]
      OBVIOUS
    <3>. QED BY <1>2, <1>3, <1>6, <2>2, <3>1 DEF Best
  <2> HIDE DEF p, P
  <2>3. Applies(P, name, p)
    BY <2>1, <2>2 DEF Applies
  <2>. QED BY <2>3 DEF p
<1>. QED BY <1>4, <1>5, <1>6 DEF best, n

----------------------------------------------------------------------------
(* The rules and targets of a kind.                                        *)

\* A beginning is one element longer than the one before.
LEMMA LongerBy ==
  ASSUME NEW E, NEW s \in Seq(E), NEW n \in Nat, n + 1 <= Len(s)
  PROVE  /\ SubSeq(s, 1, n) \in Seq(E) /\ s[n + 1] \in E
         /\ SubSeq(s, 1, n + 1) = Append(SubSeq(s, 1, n), s[n + 1])
<1> DEFINE a == SubSeq(s, 1, n)
           b == SubSeq(s, 1, n + 1)
           c == Append(a, s[n + 1])
<1>1. /\ 1 \in Nat /\ 1 <= 1 /\ 1 <= n + 1 /\ 1 <= n + 1 + 1 /\ n <= Len(s) /\ n + 1 \in Nat
      /\ n - 1 + 1 = n /\ n + 1 - 1 + 1 = n + 1 /\ \A k \in 1 .. n + 1 : 1 + k - 1 = k
      /\ s[n + 1] \in E /\ \A k \in 1 .. n + 1 : k = n + 1 \/ k \in 1 .. n
      /\ \A k \in 1 .. n : k \in 1 .. n + 1
  OBVIOUS
<1>2. /\ a \in Seq(E) /\ Len(a) = n - 1 + 1 /\ \A k \in 1 .. n - 1 + 1 : a[k] = s[1 + k - 1]
  BY <1>1, PieceIs
<1>3. /\ b \in Seq(E) /\ Len(b) = n + 1 - 1 + 1
      /\ \A k \in 1 .. n + 1 - 1 + 1 : b[k] = s[1 + k - 1]
  BY <1>1, PieceIs
<1> HIDE DEF a, b
<1>4. a \in Seq(E) /\ Len(a) = n /\ \A k \in 1 .. n : a[k] = s[k]
  BY <1>1, <1>2
<1>5. b \in Seq(E) /\ Len(b) = n + 1 /\ \A k \in 1 .. n + 1 : b[k] = s[k]
  BY <1>1, <1>3
<1>6. c \in Seq(E) /\ Len(c) = n + 1 /\ c[n + 1] = s[n + 1] /\ \A k \in 1 .. n : c[k] = a[k]
  BY <1>1, <1>4, AppendIs
<1> HIDE DEF c
<1>7. \A k \in 1 .. n + 1 : b[k] = c[k]
  BY <1>1, <1>4, <1>5, <1>6
<1>8. b = c
  BY <1>5, <1>6, <1>7, SeqEqual
<1>. QED BY <1>1, <1>4, <1>8 DEF a, b, c

\* A sequence holds the elements of a kind among the first n of another.
Sorted(some, kind, seq, n) ==
  /\ \A j \in 1 .. Len(some) : some[j].kind = kind /\ \E i \in 1 .. n : some[j] = seq[i]
  /\ \A i \in 1 .. n : seq[i].kind = kind => \E j \in 1 .. Len(some) : some[j] = seq[i]

LEMMA OfKindRight ==
  ASSUME NEW E, NEW seq \in Seq(E), NEW kind
  PROVE  OfKind(kind, seq) \in Seq(E) /\ Sorted(OfKind(kind, seq), kind, seq, Len(seq))
<1> DEFINE done(n) == Folded("kind", kind, <<>>, SubSeq(seq, 1, n))
           S == {n \in Nat : n <= Len(seq) => done(n) \in Seq(E) /\ Sorted(done(n), kind, seq, n)}
<1>1. 0 \in S
  <2>1. SubSeq(seq, 1, 0) = <<>>
    OBVIOUS
  <2>2. done(0) = <<>>
    BY <2>1, FoldEmpty
  <2>3. <<>> \in Seq(E) /\ 1 .. Len(<<>>) = {} /\ 1 .. 0 = {}
    OBVIOUS
  <2> HIDE DEF done
  <2>. QED BY <2>2, <2>3 DEF Sorted
<1>2. ASSUME NEW n \in Nat, n \in S
      PROVE  n + 1 \in S
  <2>1. ASSUME n + 1 <= Len(seq)
        PROVE  done(n + 1) \in Seq(E) /\ Sorted(done(n + 1), kind, seq, n + 1)
    <3> DEFINE x == seq[n + 1]
               some == done(n)
               next == done(n + 1)
    <3>1. some \in Seq(E) /\ Sorted(some, kind, seq, n)
      BY <1>2, <2>1
    <3>2. next = IF x.kind = kind THEN Append(some, x) ELSE some
      <4>1. next = FoldStep("kind", kind, some, x)
        <5> DEFINE b == SubSeq(seq, 1, n)
        <5>1. b \in Seq(E) /\ x \in E /\ SubSeq(seq, 1, n + 1) = Append(b, x)
          BY <2>1, LongerBy
        <5> HIDE DEF b, x
        <5>2. Folded("kind", kind, <<>>, Append(b, x))
                = FoldStep("kind", kind, Folded("kind", kind, <<>>, b), x)
          BY <5>1, FoldAppend
        <5>. QED BY <5>1, <5>2 DEF b
      <4>. QED BY <4>1 DEF FoldStep
    <3>3. x \in E
      BY <2>1
    <3>4. n + 1 \in 1 .. n + 1 /\ \A i \in 1 .. n + 1 : i = n + 1 \/ i \in 1 .. n
      OBVIOUS
    <3> HIDE DEF some, next, done
    <3>5. CASE x.kind = kind
      <4> DEFINE m == Len(some)
      <4>1. /\ next \in Seq(E) /\ Len(next) = m + 1 /\ next[m + 1] = x
            /\ \A j \in 1 .. m : next[j] = some[j]
        BY <3>1, <3>2, <3>3, <3>5, AppendIs
      <4>2. /\ m + 1 \in 1 .. m + 1 /\ \A j \in 1 .. m + 1 : j = m + 1 \/ j \in 1 .. m
            /\ \A j \in 1 .. m : j \in 1 .. m + 1
        BY <3>1
      <4>3. /\ \A j \in 1 .. m : some[j].kind = kind /\ \E i \in 1 .. n : some[j] = seq[i]
            /\ \A i \in 1 .. n : seq[i].kind = kind => \E j \in 1 .. m : some[j] = seq[i]
        BY <3>1 DEF Sorted
      <4> HIDE DEF m
      <4>4. ASSUME NEW j \in 1 .. m + 1
            PROVE  next[j].kind = kind /\ \E i \in 1 .. n + 1 : next[j] = seq[i]
        <5>1. CASE j = m + 1
          BY <3>4, <3>5, <4>1, <5>1
        <5>2. CASE j \in 1 .. m
          BY <4>1, <4>3, <5>2
        <5>. QED BY <4>2, <5>1, <5>2
      <4>5. ASSUME NEW i \in 1 .. n + 1, seq[i].kind = kind
            PROVE  \E j \in 1 .. m + 1 : next[j] = seq[i]
        <5>1. CASE i = n + 1
          BY <4>1, <4>2, <5>1
        <5>2. CASE i \in 1 .. n
          BY <4>1, <4>2, <4>3, <4>5, <5>2
        <5>. QED BY <3>4, <5>1, <5>2
      <4>. QED BY <4>1, <4>4, <4>5 DEF Sorted, next
    <3>6. CASE x.kind # kind
      <4>1. next = some
        BY <3>2, <3>6
      <4>2. Sorted(some, kind, seq, n + 1)
        BY <3>1, <3>4, <3>6 DEF Sorted
      <4>. QED BY <3>1, <4>1, <4>2 DEF next
    <3>. QED BY <3>5, <3>6
  <2> HIDE DEF done
  <2>. QED BY <2>1
<1>3. Len(seq) \in Nat /\ SubSeq(seq, 1, Len(seq)) = seq
  OBVIOUS
<1>4. Len(seq) \in S
  <2> HIDE DEF S
  <2>. QED BY <1>1, <1>2, <1>3, NatSet
<1>5. OfKind(kind, seq) = done(Len(seq))
  BY <1>3, OfKindFolds
<1> HIDE DEF done
<1>. QED BY <1>3, <1>4, <1>5

PatternsOf(some) == [i \in 1 .. Len(some) |-> some[i].pattern]

\* No rule or target of the kind matches; one of the kind is the one that applies.
NoneMatches(seq, kind, name) ==
  \A i \in 1 .. Len(seq) : seq[i].kind = kind => ~Matches(seq[i].pattern, name)

Chosen(seq, kind, name, x) ==
  /\ x.kind = kind /\ \E i \in 1 .. Len(seq) : x = seq[i]
  /\ Applies({q.pattern : q \in {q \in Range(seq) : q.kind = kind}}, name, x.pattern)

\* What is chosen among the rules or targets of a kind is the one whose pattern
\* applies.
LEMMA ChosenOfKind ==
  ASSUME NEW E, NEW seq \in Seq(E), \A i \in 1 .. Len(seq) : seq[i].pattern \in Seq(Chars),
         NEW kind, NEW name \in Seq(Chars), NEW some, some = OfKind(kind, seq),
         NEW best, best = SelectPattern(PatternsOf(some), name)
  PROVE  /\ best = 0 => NoneMatches(seq, kind, name)
         /\ best # 0 => Chosen(seq, kind, name, some[best])
<1> DEFINE patterns == [i \in 1 .. Len(some) |-> some[i].pattern]
           n == Len(some)
<1>1. some \in Seq(E) /\ Sorted(some, kind, seq, Len(seq)) /\ n \in Nat
  BY OfKindRight
<1>2. /\ \A j \in 1 .. n : some[j].kind = kind /\ \E i \in 1 .. Len(seq) : some[j] = seq[i]
      /\ \A i \in 1 .. Len(seq) : seq[i].kind = kind => \E j \in 1 .. n : some[j] = seq[i]
  BY <1>1 DEF Sorted
<1>3. patterns \in Seq(Seq(Chars)) /\ Len(patterns) = n /\ \A i \in 1 .. n : patterns[i] = some[i].pattern
  <2>1. \A j \in 1 .. n : some[j].pattern \in Seq(Chars)
    BY <1>2
  <2>. QED BY <1>1, <2>1
<1> HIDE DEF patterns
<1>4. /\ best \in 0 .. n
      /\ best = 0 => \A i \in 1 .. n : ~Matches(patterns[i], name)
      /\ best # 0 => Applies({patterns[i] : i \in 1 .. n}, name, patterns[best])
  <2>1. best = SelectPattern(patterns, name)
    BY DEF patterns, PatternsOf
  <2>. QED BY <1>3, <2>1, SelectPatternRight
<1> HIDE DEF n
<1>5. {patterns[i] : i \in 1 .. n} = {q.pattern : q \in {q \in Range(seq) : q.kind = kind}}
  <2>1. Range(seq) = {seq[i] : i \in 1 .. Len(seq)}
    BY DEF Range
  <2>2. ASSUME NEW i \in 1 .. n
        PROVE  patterns[i] \in {q.pattern : q \in {q \in Range(seq) : q.kind = kind}}
    <3>1. patterns[i] = some[i].pattern /\ some[i].kind = kind
      BY <1>2, <1>3
    <3>2. PICK k \in 1 .. Len(seq) : some[i] = seq[k]
      BY <1>2
    <3>3. some[i] \in Range(seq)
      BY <2>1, <3>2
    <3>. QED BY <3>1, <3>3
  <2>3. ASSUME NEW q \in Range(seq), q.kind = kind
        PROVE  q.pattern \in {patterns[i] : i \in 1 .. n}
    <3>1. PICK i \in 1 .. Len(seq) : q = seq[i]
      BY <2>1, <2>3
    <3>2. PICK j \in 1 .. n : some[j] = q
      BY <1>2, <2>3, <3>1
    <3>. QED BY <1>3, <3>2
  <2>. QED BY <2>2, <2>3
<1>6. ASSUME best = 0, NEW i \in 1 .. Len(seq), seq[i].kind = kind
      PROVE  ~Matches(seq[i].pattern, name)
  BY <1>2, <1>3, <1>4, <1>6
<1>7. ASSUME best # 0
      PROVE  /\ some[best].kind = kind /\ \E i \in 1 .. Len(seq) : some[best] = seq[i]
             /\ Applies({q.pattern : q \in {q \in Range(seq) : q.kind = kind}}, name,
                        some[best].pattern)
  <2>1. best \in 1 .. n
    BY <1>1, <1>4, <1>7 DEF n
  <2>. QED BY <1>2, <1>3, <1>4, <1>5, <1>7, <2>1
<1>. QED BY <1>6, <1>7 DEF NoneMatches, Chosen

----------------------------------------------------------------------------
(* The rules of a repository.                                              *)

\* Rows are listed by kind, branches first, and then by pattern.
LEMMA EarlierOrders ==
  ASSUME NEW a, NEW b, NEW c, RulesOK({a, b, c})
  PROVE  /\ ~Earlier(a, a)
         /\ Earlier(a, b) /\ Earlier(b, c) => Earlier(a, c)
         /\ Key(a) # Key(b) => Earlier(a, b) \/ Earlier(b, a)
<1>1. /\ a.kind \in Kinds /\ b.kind \in Kinds /\ c.kind \in Kinds
      /\ a.pattern \in Seq(Chars) /\ b.pattern \in Seq(Chars) /\ c.pattern \in Seq(Chars)
  BY DEF RulesOK
<1>2. /\ ~Before(a.pattern, a.pattern)
      /\ Before(a.pattern, b.pattern) /\ Before(b.pattern, c.pattern)
           => Before(a.pattern, c.pattern)
      /\ a.pattern # b.pattern
           => Before(a.pattern, b.pattern) \/ Before(b.pattern, a.pattern)
  BY <1>1, BeforeNotItself, BeforeGoesOn, BeforeOneWay
<1>. QED BY <1>1, <1>2 DEF Earlier, Kinds, Key

\* Rows without one of them.
LEMMA SavedWithout ==
  ASSUME NEW rows, Saved(rows), NEW m \in rows, NEW n \in Nat, Cardinality(rows) = n + 1
  PROVE  Saved(rows \ {m}) /\ Cardinality(rows \ {m}) = n
<1>1. IsFiniteSet(rows)
  BY DEF Saved
<1>2. IsFiniteSet(rows \ {m}) /\ Cardinality(rows \ {m}) = n + 1 - 1
  BY <1>1, FS_RemoveElement
<1>. QED BY <1>2 DEF Saved, RulesOK

\* Some row comes last.
LEMMA LastRow ==
  ASSUME NEW rows, Saved(rows), NEW n \in Nat, Cardinality(rows) = n + 1
  PROVE  \E m \in rows : \A r \in rows \ {m} : Earlier(r, m)
<1> DEFINE HasLast(some) == \E m \in some : \A r \in some \ {m} : Earlier(r, m)
           S == {k \in Nat : \A some : Saved(some) /\ Cardinality(some) = k + 1 => HasLast(some)}
<1>1. 0 \in S
  <2>1. ASSUME NEW some, Saved(some), Cardinality(some) = 0 + 1
        PROVE  HasLast(some)
    <3>1. IsFiniteSet(some) /\ some # {}
      BY <2>1, FS_EmptySet DEF Saved
    <3>2. PICK m \in some : TRUE
      BY <3>1
    <3>3. IsFiniteSet(some \ {m}) /\ Cardinality(some \ {m}) = 0
      BY <2>1, <3>2, SavedWithout DEF Saved
    <3>4. some \ {m} = {}
      BY <3>3, FS_EmptySet
    <3>. QED BY <3>2, <3>4
  <2> HIDE DEF HasLast
  <2>. QED BY <2>1
<1>2. ASSUME NEW k \in Nat, k \in S
      PROVE  k + 1 \in S
  <2>1. ASSUME NEW some, Saved(some), Cardinality(some) = k + 1 + 1
        PROVE  HasLast(some)
    <3>1. IsFiniteSet(some) /\ some # {}
      BY <2>1, FS_EmptySet DEF Saved
    <3>2. PICK x \in some : TRUE
      BY <3>1
    <3>3. Saved(some \ {x}) /\ Cardinality(some \ {x}) = k + 1
      <4>1. k + 1 \in Nat
        OBVIOUS
      <4>. QED BY <2>1, <4>1, SavedWithout
    <3>4. PICK m \in some \ {x} : \A r \in (some \ {x}) \ {m} : Earlier(r, m)
      BY <1>2, <3>3
    <3>5. Key(x) # Key(m) /\ \A r \in some : RulesOK({r, m, x})
      BY <2>1, <3>4 DEF Saved, RulesOK
    <3>6. RulesOK({x, m, x})
      BY <3>5
    <3>7. CASE Earlier(x, m)
      BY <3>4, <3>7
    <3>8. CASE Earlier(m, x)
      <4>1. ASSUME NEW r \in some \ {x}
            PROVE  Earlier(r, x)
        BY <3>4, <3>5, <3>8, EarlierOrders
      <4>. QED BY <4>1
    <3>. QED BY <3>5, <3>6, <3>7, <3>8, EarlierOrders
  <2> HIDE DEF HasLast
  <2>. QED BY <2>1
<1>3. n \in S
  <2> HIDE DEF S
  <2>. QED BY <1>1, <1>2, NatSet
<1>. QED BY <1>3

\* So they can be listed in order.
Ordered(seq) == \A i, j \in DOMAIN seq : i < j => Earlier(seq[i], seq[j])

LEMMA RowsOrdered ==
  ASSUME NEW rows, Saved(rows)
  PROVE  \E seq \in SetToSeqs(rows) : Ordered(seq)
<1> DEFINE HasOrder(some) == \E seq \in SetToSeqs(some) : Ordered(seq)
           S == {k \in Nat : \A some : Saved(some) /\ Cardinality(some) = k => HasOrder(some)}
<1>1. 0 \in S
  <2>1. ASSUME NEW some, Saved(some), Cardinality(some) = 0
        PROVE  HasOrder(some)
    <3> DEFINE seq == [i \in 1 .. 0 |-> 0]
    <3>1. seq \in [1 .. 0 -> some] /\ DOMAIN seq = {} /\ 1 .. 0 = {}
      OBVIOUS
    <3> HIDE DEF seq
    <3>2. seq \in SetToSeqs(some) /\ Ordered(seq)
      BY <2>1, <3>1 DEF SetToSeqs, Ordered
    <3>. QED BY <3>2
  <2> HIDE DEF HasOrder
  <2>. QED BY <2>1
<1>2. ASSUME NEW k \in Nat, k \in S
      PROVE  k + 1 \in S
  <2>1. ASSUME NEW some, Saved(some), Cardinality(some) = k + 1
        PROVE  HasOrder(some)
    <3>1. PICK m \in some : \A r \in some \ {m} : Earlier(r, m)
      BY <2>1, LastRow
    <3>2. Saved(some \ {m}) /\ Cardinality(some \ {m}) = k
      BY <2>1, SavedWithout
    <3>3. PICK seq \in SetToSeqs(some \ {m}) : Ordered(seq)
      BY <1>2, <3>2
    <3>4. seq \in [1 .. k -> some \ {m}] /\ \A i, j \in 1 .. k : i # j => seq[i] # seq[j]
      BY <3>2, <3>3 DEF SetToSeqs
    <3> DEFINE to == [i \in 1 .. k + 1 |-> IF i = k + 1 THEN m ELSE seq[i]]
    <3>5. \A i \in 1 .. k + 1 : i = k + 1 \/ (i \in 1 .. k /\ i < k + 1)
      OBVIOUS
    <3>6. to[k + 1] = m /\ \A i \in 1 .. k : to[i] = seq[i] /\ seq[i] \in some /\ seq[i] # m
      <4>1. k + 1 \in 1 .. k + 1 /\ \A i \in 1 .. k : i \in 1 .. k + 1 /\ i # k + 1
        OBVIOUS
      <4>. QED BY <3>4, <4>1
    <3>7. to \in [1 .. k + 1 -> some] /\ DOMAIN to = 1 .. k + 1
      BY <3>4, <3>5
    <3> HIDE DEF to
    <3>8. \A i, j \in 1 .. k + 1 : i # j => to[i] # to[j]
      BY <3>4, <3>5, <3>6
    <3>9. to \in SetToSeqs(some)
      BY <2>1, <3>7, <3>8 DEF SetToSeqs
    <3>10. ASSUME NEW i \in 1 .. k + 1, NEW j \in 1 .. k + 1, i < j
           PROVE  Earlier(to[i], to[j])
      <4>1. i \in 1 .. k
        BY <3>10
      <4>2. CASE j = k + 1
        BY <3>1, <3>6, <4>1, <4>2
      <4>3. CASE j \in 1 .. k
        <5>1. DOMAIN seq = 1 .. k
          BY <3>4
        <5>. QED BY <3>3, <3>6, <3>10, <4>1, <4>3, <5>1 DEF Ordered
      <4>. QED BY <3>5, <4>2, <4>3
    <3>11. Ordered(to)
      BY <3>7, <3>10 DEF Ordered
    <3>. QED BY <3>9, <3>11
  <2> HIDE DEF HasOrder
  <2>. QED BY <2>1
<1>3. Cardinality(rows) \in Nat
  BY FS_CardinalityType DEF Saved
<1>4. Cardinality(rows) \in S
  <2> HIDE DEF S
  <2>. QED BY <1>1, <1>2, <1>3, NatSet
<1>. QED BY <1>4

\* What lists the rows lists all of them.
LEMMA RowsListed ==
  ASSUME NEW rows, Saved(rows), NEW seq \in SetToSeqs(rows)
  PROVE  seq \in Seq(rows) /\ Range(seq) = rows /\ \A i \in 1 .. Len(seq) : seq[i] \in rows
<1> DEFINE n == Cardinality(rows)
<1>1. IsFiniteSet(rows) /\ n \in Nat
  BY FS_CardinalityType DEF Saved
<1>2. seq \in [1 .. n -> rows] /\ \A i, j \in 1 .. n : i # j => seq[i] # seq[j]
  BY DEF SetToSeqs
<1>3. seq \in Injection(1 .. n, rows)
  BY <1>2 DEF Injection, IsInjective
<1>4. Cardinality(1 .. n) = n
  <2> HIDE DEF n
  <2>1. 1 \in Int /\ n \in Int /\ n - 1 + 1 = n /\ (1 > n => n = 0)
    BY <1>1
  <2>. QED BY <2>1, FS_Interval
<1>5. seq \in Surjection(1 .. n, rows)
  BY <1>1, <1>3, <1>4, FS_Injection
<1>6. rows = {seq[i] : i \in 1 .. n}
  BY <1>2, <1>5 DEF Surjection
<1> HIDE DEF n
<1>7. seq \in Seq(rows) /\ Len(seq) = n
  BY <1>1, <1>2
<1>. QED BY <1>2, <1>6, <1>7 DEF Range

\* selectRules returns the rows.
LEMMA ListedRows ==
  ASSUME NEW rows, Saved(rows)
  PROVE  Listed(rows) \in SetToSeqs(rows)
BY RowsOrdered DEF Listed, Ordered

\* However the rows are listed, selectRule takes the one that applies.
LEMMA SelectRuleRight ==
  ASSUME Saved(rules), NEW seq \in SetToSeqs(rules), NEW kind \in Kinds, NEW name \in Names,
         NEW r, r = selectRule(seq, kind, name)
  PROVE  /\ r = NoRule => RuleFor(kind, name) = {}
         /\ r # NoRule => RuleFor(kind, name) = {r}
<1> DEFINE some == OfKind(kind, seq)
           best == SelectPattern(PatternsOf(some), name)
           P == {q.pattern : q \in {q \in rules : q.kind = kind}}
<1>1. /\ seq \in Seq(rules) /\ Range(seq) = rules /\ \A i \in 1 .. Len(seq) : seq[i] \in rules
      /\ \A q \in rules : \E i \in 1 .. Len(seq) : seq[i] = q
  <2>1. seq \in Seq(rules) /\ Range(seq) = rules /\ \A i \in 1 .. Len(seq) : seq[i] \in rules
    BY RowsListed
  <2>. QED BY <2>1 DEF Range
<1>2. /\ name \in Seq(Chars)
      /\ \A q \in rules : q.kind \in Kinds /\ q.pattern \in Seq(Chars)
      /\ \A q, t \in rules : Key(q) = Key(t) => q = t
  BY PolicyAssumption DEF Saved, RulesOK
<1>3. /\ best = 0 => NoneMatches(seq, kind, name)
      /\ best # 0 => Chosen(seq, kind, name, some[best])
  <2>1. some = OfKind(kind, seq) /\ best = SelectPattern(PatternsOf(some), name)
    OBVIOUS
  <2>2. \A i \in 1 .. Len(seq) : seq[i].pattern \in Seq(Chars)
    BY <1>1, <1>2
  <2>3. seq \in Seq(rules) /\ name \in Seq(Chars)
    BY <1>1, <1>2
  <2> HIDE DEF best, some, P
  <2>. QED BY <2>1, <2>2, <2>3, ChosenOfKind
<1>4. r = IF best = 0 THEN NoRule ELSE some[best]
  BY DEF selectRule, PatternsOf
<1> HIDE DEF best, some
<1>5. CASE best = 0
  <2>1. r = NoRule
    BY <1>4, <1>5
  <2>2. ASSUME NEW q \in RuleFor(kind, name)
        PROVE  FALSE
    <3>1. q \in rules /\ q.kind = kind /\ Matches(q.pattern, name)
      BY DEF RuleFor, Applies
    <3>. QED BY <1>1, <1>3, <1>5, <3>1 DEF NoneMatches
  <2>. QED BY <2>1, <2>2
<1>6. CASE best # 0
  <2>1. r \in rules /\ r.kind = kind /\ Applies(P, name, r.pattern)
    BY <1>1, <1>3, <1>4, <1>6 DEF Chosen
  <2>2. r # NoRule
    BY <1>2, <2>1 DEF NoRule, Kinds
  <2>3. ASSUME NEW q \in RuleFor(kind, name)
        PROVE  q = r
    <3>1. q \in rules /\ q.kind = kind /\ Applies(P, name, q.pattern)
      BY DEF RuleFor
    <3>2. \A x \in P : x \in Seq(Chars)
      BY <1>2
    <3> HIDE DEF P
    <3>3. q.pattern = r.pattern
      BY <1>2, <2>1, <3>1, <3>2, AppliesOnce
    <3>. QED BY <1>2, <2>1, <3>1, <3>3 DEF Key
  <2>4. r \in RuleFor(kind, name)
    BY <2>1 DEF RuleFor
  <2>. QED BY <2>2, <2>3, <2>4
<1>. QED BY <1>5, <1>6

\* The rules are found as the documents say: of those there are, selectRule
\* takes the one of highest precedence that matches.
RuleTaken ==
  \A kind \in Kinds, n \in Names :
    LET r == selectRule(Listed(rules), kind, n)
    IN IF r = NoRule THEN RuleFor(kind, n) = {} ELSE RuleFor(kind, n) = {r}

LEMMA SavedTaken ==
  ASSUME Saved(rules)
  PROVE  RuleTaken
<1>1. Listed(rules) \in SetToSeqs(rules)
  BY ListedRows
<1>. QED BY <1>1, SelectRuleRight DEF RuleTaken

\* Saving a rule replaces the one of its kind and pattern.
LEMMA UpsertSaved ==
  ASSUME Saved(rules), NEW r \in RulePool
  PROVE  Saved(upsertRule(rules, r))
<1> DEFINE kept == {q \in rules : Key(q) # Key(r)}
<1>1. IsFiniteSet(kept)
  BY FS_Subset DEF Saved
<1>2. IsFiniteSet(kept \cup {r})
  BY <1>1, FS_AddElement
<1>3. RulesOK(kept \cup {r})
  BY PolicyAssumption DEF Saved, RulesOK
<1>4. \A q, t \in kept \cup {r} : Key(q) = Key(t) => q = t
  BY DEF Saved
<1>. QED BY <1>2, <1>3, <1>4 DEF Saved, upsertRule

\* There is one rule for a kind and a pattern, whatever is saved and deleted.
LEMMA RulesSaved == Spec => []Saved(rules)
<1>1. Init => Saved(rules)
  BY PolicyAssumption DEF Init
<1>2. ASSUME Saved(rules), [Next]_vars
      PROVE  Saved(rules)'
  <2>1. CASE SaveRule
    BY <1>2, <2>1, UpsertSaved DEF SaveRule
  <2>2. CASE DeleteRule
    <3>1. PICK r \in rules : rules' = rules \ {r}
      BY <2>2 DEF DeleteRule
    <3>2. IsFiniteSet(rules \ {r})
      BY <1>2, FS_RemoveElement DEF Saved
    <3>. QED BY <1>2, <3>1, <3>2 DEF Saved, RulesOK
  <2>3. ASSUME \/ SetDefaultPush \/ SetAccess \/ SetVisibility \/ ChangeReader
               \/ DisablePerson \/ SetDefaultBranch
        PROVE  rules' = rules
    BY <2>3 DEF SetDefaultPush, SetAccess, SetVisibility, ChangeReader, DisablePerson,
                SetDefaultBranch
  <2>4. ASSUME NEW p \in People,
               \/ Push(p) \/ WebDelete(p) \/ TakeLock(p) \/ LoadRepo(p) \/ LoadPerson(p)
               \/ LoadRules(p) \/ Validate(p) \/ Apply(p) \/ AskRun(p) \/ Start(p)
        PROVE  rules' = rules
    BY <2>4 DEF Push, WebDelete, TakeLock, LoadRepo, LoadPerson, LoadRules, Validate, Apply,
                AskRun, Start
  <2>5. ASSUME UNCHANGED vars
        PROVE  rules' = rules
    BY <2>5 DEF vars
  <2>6. rules' = rules => Saved(rules)'
    BY <1>2 DEF Saved, RulesOK
  <2>. QED BY <1>2, <2>1, <2>2, <2>3, <2>4, <2>5, <2>6 DEF Next
<1>. QED BY <1>1, <1>2, PTL DEF Spec

\* Of the rules that match a ref selectRule takes the one of highest documented
\* precedence, whatever rules were saved and deleted, in whatever order they
\* are listed, and none only when none matches.
THEOREM RulesFound == Spec => []RuleFound
<1>1. Saved(rules) => RuleFound
  BY SelectRuleRight DEF RuleFound
<1>. QED BY <1>1, RulesSaved, PTL

----------------------------------------------------------------------------
(* Requests.                                                               *)

\* What a request knows, by where it is.
LEMMA HookShapes ==
  ASSUME NEW h, HookOK(h)
  PROVE  /\ h.pc \in {"idle", "wait", "start"} \/ Under(h.pc)
         /\ h.pc \in {"wait", "repo1", "repo2"} =>
              h \in [pc : {"wait", "repo1", "repo2"}, updates : SUBSET Update]
         /\ h.pc \in {"person1", "rules1", "rules2"} =>
              h \in [pc : {"person1", "rules1", "rules2"}, updates : SUBSET Update,
                     repo : Repo, barred : BOOLEAN]
         /\ h.pc \in {"validate", "prepare"} =>
              /\ DOMAIN h = {"pc", "updates", "barred", "view"}
              /\ h.updates \in SUBSET Update /\ h.barred \in BOOLEAN
              /\ DOMAIN h.view = {"repo", "rules"} /\ h.view.repo \in Repo
<1>1. CASE h = Idle
  BY <1>1 DEF Idle
<1>2. CASE h \in [pc : {"wait", "repo1", "repo2"}, updates : SUBSET Update]
  BY <1>2 DEF Under
<1>3. CASE h \in [pc : {"person1", "rules1", "rules2"}, updates : SUBSET Update, repo : Repo,
                  barred : BOOLEAN]
  BY <1>3 DEF Under
<1>4. CASE /\ h.pc \in {"validate", "prepare"}
           /\ DOMAIN h = {"pc", "updates", "barred", "view"}
           /\ h.updates \in SUBSET Update /\ h.barred \in BOOLEAN
           /\ DOMAIN h.view = {"repo", "rules"} /\ h.view.repo \in Repo
  BY <1>4 DEF Under
<1>5. CASE h.pc = "start"
  BY <1>5
<1>. QED BY <1>1, <1>2, <1>3, <1>4, <1>5 DEF HookOK

\* Only one push has the lock.
LEMMA HoldsAlone ==
  ASSUME PushSafe, NEW p \in People, NEW q \in People, Under(hook[p].pc), Under(hook[q].pc)
  PROVE  p = q /\ lock = p /\ lock # Free
BY PolicyAssumption DEF PushSafe, LockHeld

\* A request goes on, alone.
LEMMA HookSet ==
  ASSUME PushSafe, NEW p \in People, NEW h, SetHook(p, h)
  PROVE  /\ DOMAIN hook' = People /\ hook'[p] = h
         /\ \A q \in People : q # p => hook'[q] = hook[q]
BY DEF PushSafe, PolicyTypeOK, SetHook

----------------------------------------------------------------------------
(* Settings change.                                                        *)

\* A change of settings leaves the pushes, the refs and the lock alone; that
\* the lock was held is remembered; and while it is held the default branch
\* is not changed.
LEMMA SettingsSteps ==
  ASSUME PushSafe,
         \/ SaveRule \/ DeleteRule \/ SetDefaultPush \/ SetAccess \/ SetVisibility
         \/ ChangeReader \/ DisablePerson \/ SetDefaultBranch
  PROVE  /\ Changed
         /\ rules' \subseteq AllRules /\ repo' \in Repo
         /\ readers' \subseteq People /\ disabled' \subseteq People
         /\ \/ repo'.branch = repo.branch
            \/ lock = Free /\ refs[<<"branch", repo'.branch>>] # Zero
<1>1. /\ rules \subseteq AllRules /\ repo \in Repo /\ readers \subseteq People
      /\ disabled \subseteq People
  BY DEF PushSafe, PolicyTypeOK
<1>2. CASE SaveRule
  <2>1. rules' \subseteq AllRules
    BY <1>1, <1>2 DEF SaveRule, upsertRule, AllRules
  <2>. QED BY <1>1, <1>2, <2>1 DEF SaveRule
<1>3. CASE DeleteRule
  BY <1>1, <1>3 DEF DeleteRule
<1>4. CASE SetDefaultPush
  <2>1. PICK d \in Policies :
          /\ repo' = [repo EXCEPT !.push = d.push, !.people = d.people]
          /\ Changed /\ UNCHANGED <<rules, readers, disabled>>
    BY <1>4 DEF SetDefaultPush
  <2>2. d.push \in {"everyone", "people", "admins"} /\ d.people \in SUBSET People
    BY PolicyAssumption
  <2>3. repo' \in Repo /\ repo'.branch = repo.branch
    BY <1>1, <2>1, <2>2 DEF Repo
  <2>. QED BY <1>1, <2>1, <2>3
<1>5. CASE SetAccess
  <2>1. PICK d \in Policies, open \in BOOLEAN, some \in ReaderSets :
          /\ repo' = [repo EXCEPT !.push = d.push, !.people = d.people, !.open = open]
          /\ readers' = some
          /\ Changed /\ UNCHANGED <<rules, disabled>>
    BY <1>5 DEF SetAccess
  <2>2. /\ d.push \in {"everyone", "people", "admins"} /\ d.people \in SUBSET People
        /\ some \in SUBSET People
    BY PolicyAssumption
  <2>3. repo' \in Repo /\ repo'.branch = repo.branch
    BY <1>1, <2>1, <2>2 DEF Repo
  <2>. QED BY <1>1, <2>1, <2>2, <2>3
<1>6. CASE SetVisibility
  <2>1. PICK open \in BOOLEAN :
          repo' = [repo EXCEPT !.open = open] /\ Changed /\ UNCHANGED <<rules, readers, disabled>>
    BY <1>6 DEF SetVisibility
  <2>2. repo' \in Repo /\ repo'.branch = repo.branch
    BY <1>1, <2>1 DEF Repo
  <2>. QED BY <1>1, <2>1, <2>2
<1>7. CASE ChangeReader
  BY <1>1, <1>7 DEF ChangeReader
<1>8. CASE DisablePerson
  BY <1>1, <1>8 DEF DisablePerson
<1>9. CASE SetDefaultBranch
  <2>1. PICK n \in Names :
          /\ lock = Free /\ refs[<<"branch", n>>] # Zero
          /\ repo' = [repo EXCEPT !.branch = n]
          /\ Changed /\ UNCHANGED <<rules, readers, disabled>>
    BY <1>9 DEF SetDefaultBranch
  <2>2. repo' \in Repo /\ repo'.branch = n
    BY <1>1, <2>1 DEF Repo
  <2>. QED BY <1>1, <2>1, <2>2
<1>. QED BY <1>2, <1>3, <1>4, <1>5, <1>6, <1>7, <1>8, <1>9

\* What holds under the lock survives a change of settings: what the change
\* could spoil is only promised while there was none.
LEMMA SettingsKeep ==
  ASSUME PushSafe, Changed,
         rules' \subseteq AllRules, repo' \in Repo,
         readers' \subseteq People, disabled' \subseteq People,
         repo'.branch = repo.branch \/ lock = Free
  PROVE  PushSafe'
<1>1. /\ UNCHANGED <<refs, lock, hook, made, begun>> /\ touched' = (lock # Free)
      /\ changes' = changes + 1 /\ changes < MaxChanges
  BY DEF Changed
<1>2. \A p \in People : Under(hook[p].pc) => lock = p /\ lock # Free
  BY HoldsAlone
<1>3. PolicyTypeOK'
  <2>1. changes' \in 0 .. MaxChanges
    BY <1>1, PolicyAssumption DEF PushSafe, PolicyTypeOK
  <2>2. touched' \in BOOLEAN
    BY <1>1
  <2>. QED BY <1>1, <2>1, <2>2 DEF PushSafe, PolicyTypeOK
<1>4. LockHeld' /\ NamesDistinct'
  BY <1>1 DEF PushSafe, LockHeld, NamesDistinct, Distinctly
<1>5. ReadsHold'
  BY <1>1, <1>2 DEF PushSafe, ReadsHold, Under
<1>6. StaysValid'
  <2> SUFFICES ASSUME NEW p \in People, hook[p].pc \in {"repo2", "rules2", "prepare"}
               PROVE  LET updates == hook[p].updates
                      IN /\ CheckRefChanges(updates)'
                         /\ \A u \in updates :
                              IF IsDelete(u) THEN <<u.kind, u.name>> # <<"branch", repo'.branch>>
                              ELSE IsCreate(u) =>
                                     <<Other(u.kind), u.name>> \notin Present(updates)'
                         /\ touched'
    BY <1>1 DEF StaysValid
  <2>1. Under(hook[p].pc)
    BY DEF Under
  <2>2. touched' /\ repo'.branch = repo.branch
    BY <1>1, <1>2, <2>1
  <2>. QED BY <1>1, <2>2 DEF PushSafe, StaysValid, CheckRefChanges, Present
<1>. QED BY <1>3, <1>4, <1>5, <1>6 DEF PushSafe

----------------------------------------------------------------------------
(* One push goes on.                                                       *)

\* What ReadsHold and StaysValid say of one person.
ReadsOf(p) ==
  LET h == hook[p]
  IN /\ h.pc \in {"person1", "rules1", "rules2"} =>
          h.repo.branch = repo.branch /\ (~touched => h.repo = repo)
     /\ h.pc \in {"validate", "prepare"} =>
          h.view.repo.branch = repo.branch /\ (~touched => h.view = Now)
     /\ h.pc \in {"rules1", "validate"} /\ ~touched => h.barred = (p \in disabled)

AcceptedNow(p, updates) ==
  p \notin disabled /\ CanRead(Now, p) /\ \A u \in updates : Accepted(Now, u, updates, p)

Sound(updates) ==
  /\ CheckRefChanges(updates)
  /\ \A u \in updates :
       IF IsDelete(u) THEN <<u.kind, u.name>> # <<"branch", repo.branch>>
       ELSE IsCreate(u) => <<Other(u.kind), u.name>> \notin Present(updates)

ValidOf(p) ==
  hook[p].pc \in {"repo2", "rules2", "prepare"} =>
    Sound(hook[p].updates) /\ (~touched => AcceptedNow(p, hook[p].updates))

\* PushSafe, person by person.
LEMMA ByPerson ==
  /\ ReadsHold <=> \A p \in People : ReadsOf(p)
  /\ StaysValid <=> \A p \in People : ValidOf(p)
BY DEF ReadsHold, ReadsOf, StaysValid, ValidOf, Sound, AcceptedNow

\* Somebody's request goes on: what is known of the others stays, and they
\* keep the lock if they have it.
LEMMA GoesOn ==
  ASSUME PushSafe, NEW p \in People, NEW h, SetHook(p, h), HookOK(h),
         UNCHANGED <<rules, repo, readers, disabled, refs, changes>>,
         begun' \in 0 .. MaxPushes,
         \/ UNCHANGED <<lock, touched>> /\ (Under(h.pc) <=> Under(hook[p].pc))
         \/ lock = Free /\ lock' = p /\ touched' = FALSE /\ Under(h.pc)
         \/ Under(hook[p].pc) /\ lock' = Free /\ touched' = FALSE /\ ~Under(h.pc),
         ReadsOf(p)', ValidOf(p)'
  PROVE  PushSafe'
<1>1. /\ DOMAIN hook' = People /\ hook'[p] = h
      /\ \A q \in People : q # p => hook'[q] = hook[q]
  BY HookSet
<1>2. \A q \in People : Under(hook[q].pc) <=> lock = q
  BY DEF PushSafe, LockHeld
<1>3. PolicyTypeOK'
  <2>1. \A q \in People : HookOK(hook'[q])
    BY <1>1 DEF PushSafe, PolicyTypeOK
  <2>2. lock' \in People \cup {Free} /\ touched' \in BOOLEAN
    BY DEF PushSafe, PolicyTypeOK
  <2>. QED BY <1>1, <2>1, <2>2 DEF PushSafe, PolicyTypeOK
<1>4. LockHeld'
  <2>1. ASSUME NEW q \in People
        PROVE  Under(hook'[q].pc) <=> lock' = q
    BY <1>1, <1>2, PolicyAssumption
  <2>. QED BY <2>1 DEF LockHeld
<1>5. NamesDistinct'
  BY DEF PushSafe, NamesDistinct, Distinctly
<1>6. ASSUME NEW q \in People, q # p
      PROVE  ReadsOf(q)' /\ ValidOf(q)'
  <2>1. ReadsOf(q) /\ ValidOf(q)
    BY ByPerson DEF PushSafe
  <2>2. hook'[q] = hook[q]
    BY <1>1, <1>6
  <2>3. CASE UNCHANGED <<lock, touched>>
    <3>1. ReadsOf(q)'
      BY <2>1, <2>2, <2>3 DEF ReadsOf, Now
    <3>2. (Sound(hook[q].updates) => Sound(hook[q].updates)')
      BY <2>2 DEF Sound, CheckRefChanges, Present
    <3>3. (AcceptedNow(q, hook[q].updates) => AcceptedNow(q, hook[q].updates)')
      BY <2>2 DEF AcceptedNow, Now, Accepted, CanRead, Present
    <3>. QED BY <2>1, <2>2, <2>3, <3>1, <3>2, <3>3 DEF ValidOf
  <2>4. CASE ~UNCHANGED <<lock, touched>>
    <3>1. ~Under(hook[q].pc)
      BY <1>2, <1>6, <2>4, PolicyAssumption
    <3>. QED BY <2>2, <3>1 DEF ReadsOf, ValidOf, Under
  <2>. QED BY <2>3, <2>4
<1>7. (\A q \in People : ReadsOf(q)') /\ (\A q \in People : ValidOf(q)')
  BY <1>6
<1>8. ReadsHold' /\ StaysValid'
  BY <1>7 DEF ReadsHold, ReadsOf, StaysValid, ValidOf, Sound, AcceptedNow
<1>. QED BY <1>3, <1>4, <1>5, <1>8 DEF PushSafe

----------------------------------------------------------------------------
(* A push, up to its transaction.                                          *)

\* Beginning waits for the lock.
LEMMA BeginKeeps ==
  ASSUME PushSafe, NEW p \in People, NEW h, HookOK(h), h.pc \in {"wait", "start"},
         CanBegin(p), Begin(p, h),
         UNCHANGED <<rules, repo, readers, disabled, refs, lock, changes, touched>>
  PROVE  PushSafe'
<1>1. hook'[p] = h /\ SetHook(p, h)
  BY HookSet DEF Begin
<1>2. begun' \in 0 .. MaxPushes
  BY PolicyAssumption DEF CanBegin, Begin, PushSafe, PolicyTypeOK
<1>3. ~Under(h.pc) /\ ~Under(hook[p].pc)
  BY DEF Under, CanBegin, Idle
<1>4. ReadsOf(p)' /\ ValidOf(p)'
  BY <1>1 DEF ReadsOf, ValidOf
<1>. QED BY <1>1, <1>2, <1>3, <1>4, GoesOn

LEMMA PushKeeps ==
  ASSUME PushSafe, NEW p \in People, Push(p)
  PROVE  PushSafe'
<1>1. PICK updates \in Pushes : Begin(p, [pc |-> "wait", updates |-> updates])
  BY DEF Push
<1>2. HookOK([pc |-> "wait", updates |-> updates])
  BY PolicyAssumption DEF HookOK
<1>. QED BY <1>1, <1>2, BeginKeeps DEF Push

LEMMA WebDeleteKeeps ==
  ASSUME PushSafe, NEW p \in People, WebDelete(p)
  PROVE  PushSafe'
<1>1. PICK kind \in Kinds, n \in Names :
        Begin(p, [pc |-> "wait",
                  updates |-> {[kind |-> kind, name |-> n,
                                old |-> refs[<<kind, n>>], new |-> Zero]}])
  BY DEF WebDelete
<1>2. refs[<<kind, n>>] \in Commits \cup {Zero}
  BY DEF PushSafe, PolicyTypeOK, Refs
<1>3. [kind |-> kind, name |-> n, old |-> refs[<<kind, n>>], new |-> Zero] \in Update
  BY <1>2 DEF Update
<1>4. HookOK([pc |-> "wait",
              updates |-> {[kind |-> kind, name |-> n,
                            old |-> refs[<<kind, n>>], new |-> Zero]}])
  BY <1>3 DEF HookOK
<1>. QED BY <1>1, <1>4, BeginKeeps DEF WebDelete

LEMMA AskRunKeeps ==
  ASSUME PushSafe, NEW p \in People, AskRun(p)
  PROVE  PushSafe'
<1>1. PICK run : Begin(p, [pc |-> "start", run |-> run])
  BY DEF AskRun
<1>2. HookOK([pc |-> "start", run |-> run])
  BY DEF HookOK
<1>. QED BY <1>1, <1>2, BeginKeeps DEF AskRun

LEMMA StartKeeps ==
  ASSUME PushSafe, NEW p \in People, Start(p)
  PROVE  PushSafe'
<1>1. hook'[p] = Idle /\ SetHook(p, Idle) /\ HookOK(Idle)
  BY HookSet DEF Start, HookOK
<1>2. ~Under(Idle.pc) /\ ~Under(hook[p].pc)
  BY DEF Under, Idle, Start
<1>3. ReadsOf(p)' /\ ValidOf(p)'
  BY <1>1 DEF ReadsOf, ValidOf, Idle
<1>4. begun' \in 0 .. MaxPushes
  BY DEF Start, PushSafe, PolicyTypeOK
<1>. QED BY <1>1, <1>2, <1>3, <1>4, GoesOn DEF Start

\* Nobody is under the lock that is taken.
LEMMA TakeLockKeeps ==
  ASSUME PushSafe, NEW p \in People, TakeLock(p)
  PROVE  PushSafe'
<1> DEFINE h == [pc |-> "repo1", updates |-> hook[p].updates]
<1>1. HookOK(hook[p])
  BY DEF PushSafe, PolicyTypeOK
<1>2. HookOK(h)
  BY <1>1, HookShapes DEF TakeLock, HookOK
<1>3. SetHook(p, h) /\ hook'[p] = h
  BY HookSet DEF TakeLock
<1>4. ReadsOf(p)' /\ ValidOf(p)'
  BY <1>3 DEF ReadsOf, ValidOf
<1>5. begun' \in 0 .. MaxPushes
  BY DEF TakeLock, PushSafe, PolicyTypeOK
<1>6. Under(h.pc)
  BY DEF Under
<1>. QED BY <1>2, <1>3, <1>4, <1>5, <1>6, GoesOn DEF TakeLock

\* The repository read is the one there is.
LEMMA LoadRepoKeeps ==
  ASSUME PushSafe, NEW p \in People, LoadRepo(p)
  PROVE  PushSafe'
<1> DEFINE h == [pc |-> IF hook[p].pc = "repo1" THEN "person1" ELSE "rules2",
                 updates |-> hook[p].updates, repo |-> repo, barred |-> FALSE]
<1>1. HookOK(hook[p]) /\ repo \in Repo
  BY DEF PushSafe, PolicyTypeOK
<1>2. hook[p].updates \in SUBSET Update
  BY <1>1, HookShapes DEF LoadRepo
<1>3. HookOK(h)
  BY <1>1, <1>2 DEF HookOK
<1>4. SetHook(p, h) /\ hook'[p] = h
  BY HookSet DEF LoadRepo
<1>5. ReadsOf(p)'
  BY <1>4 DEF ReadsOf, LoadRepo
<1>6. ValidOf(p)'
  <2>1. CASE hook[p].pc = "repo1"
    BY <1>4, <2>1 DEF ValidOf
  <2>2. CASE hook[p].pc = "repo2"
    <3>1. Sound(hook[p].updates) /\ (~touched => AcceptedNow(p, hook[p].updates))
      BY <2>2, ByPerson DEF PushSafe, ValidOf
    <3>2. hook'[p].updates = hook[p].updates
      BY <1>4
    <3>. QED BY <3>1, <3>2 DEF ValidOf, Sound, CheckRefChanges, Present, AcceptedNow, Now,
                               Accepted, CanRead, LoadRepo
  <2>. QED BY <2>1, <2>2 DEF LoadRepo
<1>7. begun' \in 0 .. MaxPushes
  BY DEF LoadRepo, PushSafe, PolicyTypeOK
<1>8. Under(h.pc) /\ Under(hook[p].pc)
  BY DEF Under, LoadRepo
<1>. QED BY <1>3, <1>4, <1>5, <1>6, <1>7, <1>8, GoesOn DEF LoadRepo

\* So is the person.
LEMMA LoadPersonKeeps ==
  ASSUME PushSafe, NEW p \in People, LoadPerson(p)
  PROVE  PushSafe'
<1> DEFINE h == [hook[p] EXCEPT !.pc = "rules1", !.barred = p \in disabled]
           Q == [pc : {"person1", "rules1", "rules2"}, updates : SUBSET Update, repo : Repo,
                 barred : BOOLEAN]
<1>1. HookOK(hook[p]) /\ hook[p].pc = "person1"
  BY DEF PushSafe, PolicyTypeOK, LoadPerson
<1>2. hook[p] \in Q
  BY <1>1, HookShapes
<1>3. (p \in disabled) \in BOOLEAN
  OBVIOUS
<1>4. h \in Q /\ h.pc = "rules1" /\ h.repo = hook[p].repo /\ h.barred = (p \in disabled)
  BY <1>2, <1>3
<1>5. HookOK(h)
  BY <1>4 DEF HookOK
<1>6. SetHook(p, h) /\ hook'[p] = h
  BY HookSet DEF LoadPerson
<1>7. hook[p].repo.branch = repo.branch /\ (~touched => hook[p].repo = repo)
  BY <1>1, ByPerson DEF PushSafe, ReadsOf
<1> HIDE DEF h
<1>8. ReadsOf(p)' /\ ValidOf(p)'
  BY <1>4, <1>6, <1>7 DEF ReadsOf, ValidOf, LoadPerson
<1>9. begun' \in 0 .. MaxPushes
  BY DEF LoadPerson, PushSafe, PolicyTypeOK
<1>10. Under(h.pc) /\ Under(hook[p].pc)
  BY <1>1, <1>4 DEF Under
<1>. QED BY <1>5, <1>6, <1>8, <1>9, <1>10, GoesOn DEF LoadPerson

\* With the rules the view is complete: the settings now, if none changed.
LEMMA LoadRulesKeeps ==
  ASSUME PushSafe, NEW p \in People, LoadRules(p)
  PROVE  PushSafe'
<1> DEFINE h == [pc |-> IF hook[p].pc = "rules1" THEN "validate" ELSE "prepare",
                 updates |-> hook[p].updates, barred |-> hook[p].barred,
                 view |-> [repo |-> hook[p].repo, rules |-> Listed(rules)]]
<1>1. HookOK(hook[p]) /\ hook[p].pc \in {"rules1", "rules2"}
  BY DEF PushSafe, PolicyTypeOK, LoadRules
<1>2. /\ hook[p].updates \in SUBSET Update /\ hook[p].repo \in Repo
      /\ hook[p].barred \in BOOLEAN
  BY <1>1, HookShapes
<1>3. HookOK(h)
  BY <1>1, <1>2 DEF HookOK
<1>4. SetHook(p, h) /\ hook'[p] = h
  BY HookSet DEF LoadRules
<1>5. /\ hook[p].repo.branch = repo.branch /\ (~touched => hook[p].repo = repo)
      /\ hook[p].pc = "rules1" /\ ~touched => hook[p].barred = (p \in disabled)
  BY <1>1, ByPerson DEF PushSafe, ReadsOf
<1>6. /\ h.view.repo = hook[p].repo /\ h.barred = hook[p].barred
      /\ h.view = [repo |-> hook[p].repo, rules |-> Listed(rules)]
      /\ h.updates = hook[p].updates
      /\ h.pc = IF hook[p].pc = "rules1" THEN "validate" ELSE "prepare"
  OBVIOUS
<1>7. ~touched => h.view = Now
  BY <1>5, <1>6 DEF Now
<1> HIDE DEF h
<1>8. Now' = Now
  BY DEF LoadRules, Now
<1>9. ReadsOf(p)'
  BY <1>1, <1>4, <1>5, <1>6, <1>7, <1>8 DEF ReadsOf, LoadRules
<1>10. ValidOf(p)'
  <2>1. CASE hook[p].pc = "rules1"
    BY <1>4, <1>6, <2>1 DEF ValidOf
  <2>2. CASE hook[p].pc = "rules2"
    <3>1. Sound(hook[p].updates) /\ (~touched => AcceptedNow(p, hook[p].updates))
      BY <2>2, ByPerson DEF PushSafe, ValidOf
    <3>2. hook'[p].updates = hook[p].updates
      BY <1>4, <1>6
    <3>. QED BY <3>1, <3>2 DEF ValidOf, Sound, CheckRefChanges, Present, AcceptedNow, Now,
                               Accepted, CanRead, LoadRules
  <2>. QED BY <1>1, <2>1, <2>2
<1>11. begun' \in 0 .. MaxPushes
  BY DEF LoadRules, PushSafe, PolicyTypeOK
<1>12. Under(h.pc) /\ Under(hook[p].pc)
  BY <1>1, <1>6 DEF Under
<1>. QED BY <1>3, <1>4, <1>9, <1>10, <1>11, <1>12, GoesOn DEF LoadRules

----------------------------------------------------------------------------
(* A push ends.                                                            *)

\* A push that ends leaves the lock free and nobody under it.
LEMMA EndsKeep ==
  ASSUME PushSafe, NEW p \in People, Under(hook[p].pc), Done(p),
         UNCHANGED <<rules, repo, readers, disabled, changes, begun>>,
         refs' \in Refs, NamesDistinct'
  PROVE  PushSafe'
<1>1. SetHook(p, Idle) /\ lock' = Free /\ touched' = FALSE
  BY DEF Done
<1>2. /\ DOMAIN hook' = People /\ hook'[p] = Idle
      /\ \A q \in People : q # p => hook'[q] = hook[q]
  BY <1>1, HookSet
<1>3. \A q \in People : ~Under(hook'[q].pc)
  <2> SUFFICES ASSUME NEW q \in People
               PROVE  ~Under(hook'[q].pc)
    OBVIOUS
  <2>1. CASE q = p
    BY <1>2, <2>1 DEF Idle, Under
  <2>2. CASE q # p
    BY <1>2, <2>2, HoldsAlone
  <2>. QED BY <2>1, <2>2
<1>4. PolicyTypeOK'
  <2>1. \A q \in People : HookOK(hook'[q])
    BY <1>2 DEF PushSafe, PolicyTypeOK, HookOK
  <2>. QED BY <1>1, <1>2, <2>1 DEF PushSafe, PolicyTypeOK
<1>5. LockHeld'
  BY <1>1, <1>3, PolicyAssumption DEF LockHeld
<1>6. ReadsHold' /\ StaysValid'
  BY <1>3 DEF ReadsHold, StaysValid, Under
<1>. QED BY <1>4, <1>5, <1>6 DEF PushSafe

\* What is accepted, on settings nobody has changed, they accept; what is
\* accepted at all rests on the refs and spares the default branch.
LEMMA ValidateKeeps ==
  ASSUME PushSafe, NEW p \in People, Validate(p)
  PROVE  PushSafe'
<1> DEFINE h == [pc |-> "repo2", updates |-> hook[p].updates]
           good == /\ ~hook[p].barred
                   /\ CanRead(hook[p].view, p)
                   /\ \A u \in hook[p].updates : Accepted(hook[p].view, u, hook[p].updates, p)
                   /\ CheckRefChanges(hook[p].updates)
<1>1. HookOK(hook[p]) /\ hook[p].pc = "validate" /\ Under(hook[p].pc)
  BY DEF PushSafe, PolicyTypeOK, Validate, Under
<1>2. hook[p].updates \in SUBSET Update /\ hook[p].view.repo \in Repo
  BY <1>1, HookShapes
<1>3. /\ hook[p].view.repo.branch = repo.branch
      /\ ~touched => hook[p].view = Now /\ hook[p].barred = (p \in disabled)
  BY <1>1, ByPerson DEF PushSafe, ReadsOf
<1>4. ASSUME good, SetHook(p, h), UNCHANGED <<lock, touched>>
      PROVE  PushSafe'
  <2>1. HookOK(h)
    BY <1>2 DEF HookOK
  <2>2. hook'[p] = h
    BY <1>4, HookSet
  <2>3. ReadsOf(p)'
    BY <2>2 DEF ReadsOf
  <2>4. Sound(hook[p].updates)
    <3> SUFFICES ASSUME NEW u \in hook[p].updates
                 PROVE  IF IsDelete(u) THEN <<u.kind, u.name>> # <<"branch", repo.branch>>
                        ELSE IsCreate(u) =>
                               <<Other(u.kind), u.name>> \notin Present(hook[p].updates)
      BY <1>4 DEF Sound
    <3>1. Accepted(hook[p].view, u, hook[p].updates, p)
      BY <1>4
    <3>2. CASE IsDelete(u)
      <4>1. CheckDelete(Settings(hook[p].view), u.kind, u.name, p, p \in Admins)
        BY <3>1, <3>2 DEF Accepted
      <4>2. ~(u.kind = "branch" /\ u.name = Settings(hook[p].view).branch)
        BY <4>1 DEF CheckDelete
      <4>. QED BY <1>3, <3>2, <4>2 DEF Settings
    <3>3. CASE ~IsDelete(u)
      BY <3>1, <3>3 DEF Accepted
    <3>. QED BY <3>2, <3>3
  <2>5. ~touched => AcceptedNow(p, hook[p].updates)
    BY <1>3, <1>4 DEF AcceptedNow
  <2>6. ValidOf(p)'
    <3>1. hook'[p].updates = hook[p].updates
      BY <2>2
    <3>. QED BY <1>4, <2>4, <2>5, <3>1 DEF ValidOf, Sound, CheckRefChanges, Present,
                  AcceptedNow, Now, Accepted, CanRead, Validate
  <2>7. begun' \in 0 .. MaxPushes
    BY DEF Validate, PushSafe, PolicyTypeOK
  <2>8. Under(h.pc)
    BY DEF Under
  <2>. QED BY <1>1, <1>4, <2>1, <2>3, <2>6, <2>7, <2>8, GoesOn DEF Validate
<1>5. ASSUME Done(p)
      PROVE  PushSafe'
  <2>1. refs' \in Refs /\ NamesDistinct'
    BY DEF Validate, PushSafe, PolicyTypeOK, NamesDistinct, Distinctly
  <2>. QED BY <1>1, <1>5, <2>1, EndsKeep DEF Validate
<1>. QED BY <1>4, <1>5 DEF Validate

\* A ref that is there after a push: counted as present when the push was
\* accepted; and there before it unless the push creates it.
LEMMA AppliedRef ==
  ASSUME PushSafe, NEW p \in People, Apply(p), NEW r \in Kinds \X Names, refs'[r] # Zero
  PROVE  /\ r \in Present(hook[p].updates)
         /\ \/ refs[r] # Zero
            \/ \E u \in hook[p].updates :
                 <<u.kind, u.name>> = r /\ ~IsDelete(u) /\ IsCreate(u)
<1> DEFINE updates == hook[p].updates
<1>1. refs'[r] = IF \E u \in updates : <<u.kind, u.name>> = r
                   THEN (CHOOSE u \in updates : <<u.kind, u.name>> = r).new
                   ELSE refs[r]
  BY DEF Apply
<1>2. CASE \E u \in updates : <<u.kind, u.name>> = r
  <2> DEFINE u == CHOOSE u \in updates : <<u.kind, u.name>> = r
  <2>1. u \in updates /\ <<u.kind, u.name>> = r
    BY <1>2
  <2>2. ~IsDelete(u)
    BY <1>1, <1>2 DEF IsDelete
  <2> HIDE DEF u
  <2>3. refs[<<u.kind, u.name>>] = u.old
    BY <2>1, ByPerson DEF PushSafe, ValidOf, Sound, CheckRefChanges, Apply
  <2>. QED BY <2>1, <2>2, <2>3 DEF Present, IsCreate
<1>3. CASE ~\E u \in updates : <<u.kind, u.name>> = r
  BY <1>1, <1>3 DEF Present
<1>. QED BY <1>2, <1>3

LEMMA ApplyKeeps ==
  ASSUME PushSafe, NEW p \in People, Apply(p)
  PROVE  PushSafe'
<1> DEFINE updates == hook[p].updates
<1>1. HookOK(hook[p]) /\ hook[p].pc = "prepare" /\ Under(hook[p].pc)
  BY DEF PushSafe, PolicyTypeOK, Apply, Under
<1>2. updates \in SUBSET Update
  BY <1>1, HookShapes
<1>3. Sound(updates)
  BY <1>1, ByPerson DEF PushSafe, ValidOf
<1>4. refs' \in Refs
  <2>1. refs' = [r \in Kinds \X Names |->
                   IF \E u \in updates : <<u.kind, u.name>> = r
                     THEN (CHOOSE u \in updates : <<u.kind, u.name>> = r).new
                     ELSE refs[r]]
    BY DEF Apply
  <2>2. ASSUME NEW r \in Kinds \X Names
        PROVE  (IF \E u \in updates : <<u.kind, u.name>> = r
                  THEN (CHOOSE u \in updates : <<u.kind, u.name>> = r).new
                  ELSE refs[r]) \in Commits \cup {Zero}
    <3>1. ASSUME \E u \in updates : <<u.kind, u.name>> = r
          PROVE  (CHOOSE u \in updates : <<u.kind, u.name>> = r).new \in Commits \cup {Zero}
      <4>1. (CHOOSE u \in updates : <<u.kind, u.name>> = r) \in updates
        BY <3>1
      <4>. QED BY <1>2, <4>1 DEF Update
    <3>2. refs[r] \in Commits \cup {Zero}
      BY DEF PushSafe, PolicyTypeOK, Refs
    <3>. QED BY <3>1, <3>2
  <2>. QED BY <2>1, <2>2 DEF Refs
<1>5. ASSUME NEW n \in Names, refs'[<<"branch", n>>] # Zero, refs'[<<"tag", n>>] # Zero
      PROVE  FALSE
  <2>1. <<"branch", n>> \in Kinds \X Names /\ <<"tag", n>> \in Kinds \X Names
    BY DEF Kinds
  <2>2. /\ <<"branch", n>> \in Present(updates)
        /\ \/ refs[<<"branch", n>>] # Zero
           \/ \E u \in updates :
                <<u.kind, u.name>> = <<"branch", n>> /\ ~IsDelete(u) /\ IsCreate(u)
    BY <1>5, <2>1, AppliedRef
  <2>3. /\ <<"tag", n>> \in Present(updates)
        /\ \/ refs[<<"tag", n>>] # Zero
           \/ \E u \in updates :
                <<u.kind, u.name>> = <<"tag", n>> /\ ~IsDelete(u) /\ IsCreate(u)
    BY <1>5, <2>1, AppliedRef
  <2>4. ASSUME NEW u \in updates, ~IsDelete(u), IsCreate(u)
        PROVE  <<Other(u.kind), u.name>> \notin Present(updates)
    BY <1>3, <2>4 DEF Sound
  <2>5. refs[<<"branch", n>>] = Zero \/ refs[<<"tag", n>>] = Zero
    BY DEF PushSafe, NamesDistinct, Distinctly
  <2>6. ASSUME NEW u \in updates, <<u.kind, u.name>> = <<"branch", n>>
        PROVE  <<Other(u.kind), u.name>> = <<"tag", n>>
    BY <2>6 DEF Other
  <2>7. ASSUME NEW u \in updates, <<u.kind, u.name>> = <<"tag", n>>
        PROVE  <<Other(u.kind), u.name>> = <<"branch", n>>
    BY <2>7 DEF Other
  <2>. QED BY <2>2, <2>3, <2>4, <2>5, <2>6, <2>7
<1>6. NamesDistinct'
  BY <1>5 DEF NamesDistinct, Distinctly
<1>. QED BY <1>1, <1>4, <1>6, EndsKeep DEF Apply

----------------------------------------------------------------------------
(* The theorems.                                                           *)

\* At first nobody pushes.
LEMMA PushInit ==
  ASSUME Init
  PROVE  PushSafe
<1>1. \A p \in People : hook[p] = Idle
  BY DEF Init
<1>2. PolicyTypeOK
  <2>1. rules \subseteq AllRules
    BY DEF Init, AllRules
  <2>2. repo \in Repo
    BY DEF Init, Repo
  <2>3. changes \in 0 .. MaxChanges /\ begun \in 0 .. MaxPushes
    BY PolicyAssumption DEF Init
  <2>4. DOMAIN hook = People /\ \A p \in People : HookOK(hook[p])
    BY <1>1 DEF Init, HookOK
  <2>. QED BY <2>1, <2>2, <2>3, <2>4, PolicyAssumption DEF Init, PolicyTypeOK
<1>3. LockHeld
  BY <1>1, PolicyAssumption DEF Init, LockHeld, Idle, Under
<1>4. ReadsHold /\ StaysValid
  BY <1>1 DEF ReadsHold, StaysValid, Idle
<1>5. NamesDistinct
  BY PolicyAssumption DEF Init, NamesDistinct
<1>. QED BY <1>2, <1>3, <1>4, <1>5 DEF PushSafe

\* Whatever happens next keeps it.
LEMMA PushStep ==
  ASSUME PushSafe, [Next]_vars
  PROVE  PushSafe'
<1>1. CASE \/ SaveRule \/ DeleteRule \/ SetDefaultPush \/ SetAccess \/ SetVisibility
           \/ ChangeReader \/ DisablePerson \/ SetDefaultBranch
  <2>1. /\ Changed
        /\ rules' \subseteq AllRules /\ repo' \in Repo
        /\ readers' \subseteq People /\ disabled' \subseteq People
        /\ repo'.branch = repo.branch \/ lock = Free
    BY <1>1, SettingsSteps
  <2>. QED BY <2>1, SettingsKeep
<1>2. ASSUME NEW p \in People,
             \/ Push(p) \/ WebDelete(p) \/ TakeLock(p) \/ LoadRepo(p) \/ LoadPerson(p)
             \/ LoadRules(p) \/ Validate(p) \/ Apply(p) \/ AskRun(p) \/ Start(p)
      PROVE  PushSafe'
  BY <1>2, PushKeeps, WebDeleteKeeps, TakeLockKeeps, LoadRepoKeeps, LoadPersonKeeps,
     LoadRulesKeeps, ValidateKeeps, ApplyKeeps, AskRunKeeps, StartKeeps
<1>3. CASE UNCHANGED vars
  <2>1. PolicyTypeOK' /\ LockHeld' /\ NamesDistinct'
    BY <1>3 DEF vars, PushSafe, PolicyTypeOK, LockHeld, NamesDistinct, Distinctly
  <2>2. ASSUME NEW p \in People
        PROVE  ReadsOf(p)' /\ ValidOf(p)'
    <3>1. ReadsOf(p) /\ ValidOf(p)
      BY ByPerson DEF PushSafe
    <3>2. ReadsOf(p)'
      BY <1>3, <3>1 DEF vars, ReadsOf, Now
    <3>3. Sound(hook[p].updates) => Sound(hook[p].updates)'
      BY <1>3 DEF vars, Sound, CheckRefChanges, Present
    <3>4. AcceptedNow(p, hook[p].updates) => AcceptedNow(p, hook[p].updates)'
      BY <1>3 DEF vars, AcceptedNow, Now, Accepted, CanRead, Present
    <3>. QED BY <1>3, <3>1, <3>2, <3>3, <3>4 DEF vars, ValidOf
  <2>3. (\A p \in People : ReadsOf(p)') /\ (\A p \in People : ValidOf(p)')
    BY <2>2
  <2>4. ReadsHold' /\ StaysValid'
    BY <2>3 DEF ReadsHold, ReadsOf, StaysValid, ValidOf, Sound, AcceptedNow
  <2>. QED BY <2>1, <2>4 DEF PushSafe
<1>. QED BY <1>1, <1>2, <1>3 DEF Next

\* The mutation lock is one push's at a time; of what a push read while it has
\* it, the default branch stays true whatever is changed, and the rest unless
\* something is; what was accepted still rests on the refs and spares the
\* default branch when it is applied; and no name is ever both a branch's and
\* a tag's.
THEOREM PushesValid == Spec => []PushSafe
<1>1. Init => PushSafe
  BY PushInit
<1>2. PushSafe /\ [Next]_vars => PushSafe'
  BY PushStep
<1>. QED BY <1>1, <1>2, PTL DEF Spec

\* Only the push that is applied changes a ref.
LEMMA RefsOf ==
  ASSUME [Next]_vars, refs' # refs
  PROVE  \E p \in People : Apply(p)
<1>1. ~(\/ SaveRule \/ DeleteRule \/ SetDefaultPush \/ SetAccess \/ SetVisibility
        \/ ChangeReader \/ DisablePerson \/ SetDefaultBranch)
  BY DEF SaveRule, DeleteRule, SetDefaultPush, SetAccess, SetVisibility, ChangeReader,
         DisablePerson, SetDefaultBranch, Changed
<1>2. ASSUME NEW p \in People,
             \/ Push(p) \/ WebDelete(p) \/ TakeLock(p) \/ LoadRepo(p) \/ LoadPerson(p)
             \/ LoadRules(p) \/ Validate(p) \/ AskRun(p) \/ Start(p)
      PROVE  FALSE
  BY <1>2 DEF Push, WebDelete, TakeLock, LoadRepo, LoadPerson, LoadRules, Validate, AskRun,
              Start
<1>3. ~UNCHANGED vars
  BY DEF vars
<1>. QED BY <1>1, <1>2, <1>3 DEF Next

\* A push spares the default branch there is when it is applied, not the one
\* there was when it was read.
LEMMA ApplySpares ==
  ASSUME PushSafe, NEW p \in People, Apply(p), refs[<<"branch", repo.branch>>] # Zero
  PROVE  refs'[<<"branch", repo.branch>>] # Zero /\ repo' = repo
<1> DEFINE updates == hook[p].updates
           b == <<"branch", repo.branch>>
<1>1. b \in Kinds \X Names
  BY DEF PushSafe, PolicyTypeOK, Repo, Kinds
<1>2. Sound(updates)
  BY ByPerson DEF PushSafe, ValidOf, Apply
<1>3. refs'[b] = IF \E u \in updates : <<u.kind, u.name>> = b
                   THEN (CHOOSE u \in updates : <<u.kind, u.name>> = b).new
                   ELSE refs[b]
  BY <1>1 DEF Apply
<1>4. CASE \E u \in updates : <<u.kind, u.name>> = b
  <2> DEFINE u == CHOOSE u \in updates : <<u.kind, u.name>> = b
  <2>1. u \in updates /\ <<u.kind, u.name>> = b
    BY <1>4
  <2>2. refs'[b] = u.new
    BY <1>3, <1>4
  <2> HIDE DEF u
  <2>3. ~IsDelete(u)
    BY <1>2, <2>1 DEF Sound
  <2>. QED BY <2>2, <2>3 DEF IsDelete, Apply
<1>5. CASE ~\E u \in updates : <<u.kind, u.name>> = b
  BY <1>3, <1>5 DEF Apply
<1>. QED BY <1>4, <1>5

\* A default branch that exists is never deleted, however deletions and changes
\* of the default branch fall between each other; and the one set exists.
THEOREM DefaultBranchKept == Spec => DefaultBranchStays
<1>1. PushSafe /\ [Next]_vars =>
        [refs[<<"branch", repo.branch>>] # Zero => refs'[<<"branch", repo'.branch>>] # Zero]_vars
  <2> SUFFICES ASSUME PushSafe, [Next]_vars, refs[<<"branch", repo.branch>>] # Zero
               PROVE  refs'[<<"branch", repo'.branch>>] # Zero
    OBVIOUS
  <2>1. CASE \E p \in People : Apply(p)
    BY <2>1, ApplySpares
  <2>2. CASE ~\E p \in People : Apply(p)
    <3>1. refs' = refs
      BY <2>2, RefsOf
    <3>2. CASE \/ SaveRule \/ DeleteRule \/ SetDefaultPush \/ SetAccess \/ SetVisibility
               \/ ChangeReader \/ DisablePerson \/ SetDefaultBranch
      <4>1. \/ repo'.branch = repo.branch
            \/ refs[<<"branch", repo'.branch>>] # Zero
        BY <3>2, SettingsSteps
      <4>. QED BY <3>1, <4>1
    <3>3. ASSUME NEW p \in People,
                 \/ Push(p) \/ WebDelete(p) \/ TakeLock(p) \/ LoadRepo(p) \/ LoadPerson(p)
                 \/ LoadRules(p) \/ Validate(p) \/ AskRun(p) \/ Start(p)
          PROVE  repo' = repo
      BY <3>3 DEF Push, WebDelete, TakeLock, LoadRepo, LoadPerson, LoadRules, Validate,
                  AskRun, Start
    <3>. QED BY <2>2, <3>1, <3>2, <3>3 DEF Next, vars
  <2>. QED BY <2>1, <2>2
<1>. QED BY <1>1, PushesValid, PTL DEF Spec, DefaultBranchStays

----------------------------------------------------------------------------
(* Who may push.                                                           *)

\* What the code accepts on the settings as they are, they permit.
LEMMA AcceptedPermits ==
  ASSUME RuleTaken, NEW p \in People, NEW updates, NEW u \in updates, u \in Update,
         AcceptedNow(p, updates), Sound(updates)
  PROVE  Permits(p, u)
<1> DEFINE r == selectRule(Listed(rules), u.kind, u.name)
           some == RuleFor(u.kind, u.name)
           d == decide(Now, u, p)
<1>1. IF r = NoRule THEN some = {} ELSE some = {r}
  BY DEF RuleTaken, Update
<1>2. d = IF r = NoRule
            THEN [canPush |-> PolicyAllows(repo.push, repo.people, p, p \in Admins),
                  allows  |-> {"force", "delete"}]
            ELSE [canPush |-> PolicyAllows(r.push, r.people, p, p \in Admins),
                  allows  |-> r.allows]
  BY DEF decide, Evaluate, Settings, Now
<1>3. Accepted(Now, u, updates, p)
  BY DEF AcceptedNow
<1>4. d.canPush /\ (IsDelete(u) => "delete" \in d.allows)
  <2>1. CASE IsDelete(u)
    BY <1>3, <2>1 DEF Accepted, CheckDelete, decide
  <2>2. CASE ~IsDelete(u)
    BY <1>3, <2>2 DEF Accepted
  <2>. QED BY <2>1, <2>2
<1>5. ~IsDelete(u) /\ ~IsCreate(u) =>
        "force" \in d.allows \/ (u.kind = "branch" /\ <<u.old, u.new>> \in Descends)
  BY <1>3 DEF Accepted
<1>6. IsDelete(u) => <<u.kind, u.name>> # <<"branch", repo.branch>>
  BY DEF Sound
<1>7. p \notin disabled /\ (p \in Admins \cup readers \/ repo.open)
  BY DEF AcceptedNow, CanRead, Now
<1> HIDE DEF r, some, d
<1>8. CASE r = NoRule
  <2>1. /\ PolicyAllows(repo.push, repo.people, p, p \in Admins) /\ some = {}
    BY <1>1, <1>2, <1>4, <1>8
  <2>. QED BY <1>5, <1>6, <1>7, <2>1 DEF Permits, PolicyAllows, some
<1>9. CASE r # NoRule
  <2>1. /\ PolicyAllows(r.push, r.people, p, p \in Admins) /\ some = {r}
        /\ d.allows = r.allows
    BY <1>1, <1>2, <1>4, <1>9
  <2>2. r.push = "everyone" \/ p \in Admins \/ (r.push = "people" /\ p \in r.people)
    BY <2>1 DEF PolicyAllows
  <2>. QED BY <1>4, <1>5, <1>6, <1>7, <2>1, <2>2 DEF Permits, some
<1>. QED BY <1>8, <1>9

\* A push during which no settings change is applied only if the settings there
\* are then permit its person every update, though it was decided on queries
\* made one by one before.
THEOREM PushesAuthorized == Spec => PushAuthorized
<1>1. PushSafe /\ Saved(rules) /\ [Next]_vars =>
        [\A p \in People :
           ~touched /\ hook[p].pc = "prepare" /\ refs' # refs /\ hook'[p] = Idle =>
             \A u \in hook[p].updates : Permits(p, u)]_vars
  <2> SUFFICES ASSUME PushSafe, Saved(rules), NEW p \in People, ~touched,
                      hook[p].pc = "prepare", NEW u \in hook[p].updates
               PROVE  Permits(p, u)
    OBVIOUS
  <2>1. Sound(hook[p].updates) /\ AcceptedNow(p, hook[p].updates)
    BY ByPerson DEF PushSafe, ValidOf
  <2>2. HookOK(hook[p])
    BY DEF PushSafe, PolicyTypeOK
  <2>3. u \in Update
    BY <2>2, HookShapes
  <2>. QED BY <2>1, <2>3, SavedTaken, AcceptedPermits
<1>. QED BY <1>1, PushesValid, RulesSaved, PTL DEF Spec, PushAuthorized

----------------------------------------------------------------------------
(* What a run deploys.                                                     *)

\* A run that deploys has the target that applies to its ref and may deploy.
TargetOf(r) ==
  r.plan.status = "queued" /\ r.plan.deploy # {} =>
    /\ "deploy" \in r.allows
    /\ \E t \in Range(PipelineOf[r.commit].targets) :
         /\ t.name = r.plan.target /\ t.kind = r.kind
         /\ Applies({q.pattern : q \in {q \in Range(PipelineOf[r.commit].targets) :
                                          q.kind = r.kind}}, r.name, t.pattern)

\* A deploy step that is to run had a target resolved.
LEMMA StepHasTarget ==
  ASSUME NEW file, DeploySteps(file), NEW i \in 1 .. Len(file.steps),
         file.steps[i].type = "deploy", NEW kind, NEW target,
         ShouldRun(file.steps[i].when, kind, target)
  PROVE  target # ""
<1> DEFINE when == file.steps[i].when
<1>1. when \notin Keywords \ {"target"}
  BY DEF DeploySteps
<1>2. when # "" /\ when # "always" /\ when # "branch" /\ when # "tag"
  BY <1>1 DEF Keywords
<1>3. ShouldRun(when, kind, target)
  OBVIOUS
<1> HIDE DEF when
<1>. QED BY <1>2, <1>3 DEF ShouldRun

\* The target that is resolved is the one that applies.
LEMMA ResolvedApplies ==
  ASSUME NEW file, TargetsOK(file), NEW kind, NEW name \in Seq(Chars),
         ResolveTarget(file, kind, name) # ""
  PROVE  \E t \in Range(file.targets) :
           /\ t.name = ResolveTarget(file, kind, name)
           /\ Chosen(file.targets, kind, name, t)
<1> DEFINE some == OfKind(kind, file.targets)
           best == SelectPattern(PatternsOf(some), name)
<1>1. ResolveTarget(file, kind, name) = IF best = 0 THEN "" ELSE some[best].name
  BY DEF ResolveTarget, PatternsOf
<1>2. best # 0
  BY <1>1
<1>3. Chosen(file.targets, kind, name, some[best])
  <2>1. some = OfKind(kind, file.targets) /\ best = SelectPattern(PatternsOf(some), name)
    OBVIOUS
  <2>2. /\ file.targets \in Seq(Range(file.targets))
        /\ \A i \in 1 .. Len(file.targets) : file.targets[i].pattern \in Seq(Chars)
    BY DEF TargetsOK
  <2> HIDE DEF some, best
  <2>. QED BY <1>2, <2>1, <2>2, ChosenOfKind
<1>4. some[best] \in Range(file.targets)
  <2>1. Range(file.targets) = {file.targets[i] : i \in 1 .. Len(file.targets)}
    <3> DEFINE seq == file.targets
               E == Range(seq)
    <3>1. seq \in Seq(E)
      BY DEF TargetsOK
    <3> HIDE DEF seq, E, some, best
    <3>2. DOMAIN seq = 1 .. Len(seq)
      BY <3>1, LenProperties
    <3>. QED BY <3>2 DEF Range, seq
  <2> HIDE DEF some, best
  <2>. QED BY <1>3, <2>1 DEF Chosen
<1> HIDE DEF some, best
<1>. QED BY <1>1, <1>2, <1>3, <1>4

LEMMA RunTarget ==
  ASSUME NEW kind \in Kinds, NEW name \in Names, NEW commit \in Commits, NEW d
  PROVE  TargetOf(Run(kind, name, commit, d))
<1> DEFINE r == Run(kind, name, commit, d)
           file == PipelineOf[commit]
           target == ResolveTarget(file, kind, name)
           runs == {i \in 1 .. Len(file.steps) : ShouldRun(file.steps[i].when, kind, target)}
           deploy == {i \in runs : file.steps[i].type = "deploy"}
           plan == planRun(file, kind, name, d.allows, 1, 2)
<1>1. /\ r.kind = kind /\ r.name = name /\ r.commit = commit /\ r.allows = d.allows
      /\ r.plan = plan
  BY DEF Run
<1>2. ASSUME plan.status = "queued"
      PROVE  /\ Valid(file, 1, 2) /\ plan.target = target /\ plan.deploy = deploy
             /\ deploy # {} => "deploy" \in d.allows
  BY <1>2 DEF planRun
<1> HIDE DEF r, plan
<1>3. SUFFICES ASSUME plan.status = "queued", plan.deploy # {}
               PROVE  /\ "deploy" \in d.allows
                      /\ \E t \in Range(file.targets) :
                           /\ t.name = target /\ t.kind = kind
                           /\ Applies({q.pattern : q \in {q \in Range(file.targets) :
                                                            q.kind = kind}},
                                      name, t.pattern)
  BY <1>1, <1>2 DEF TargetOf, r
<1>4. PICK i \in 1 .. Len(file.steps) :
        file.steps[i].type = "deploy" /\ ShouldRun(file.steps[i].when, kind, target)
  BY <1>2, <1>3
<1>5. DeploySteps(file)
  BY <1>2, <1>3 DEF Valid, ValidSteps
<1>6. target # ""
  <2> HIDE DEF file, target
  <2>. QED BY <1>4, <1>5, StepHasTarget
<1>7. TargetsOK(file) /\ name \in Seq(Chars)
  BY PolicyAssumption
<1>8. \E t \in Range(file.targets) : t.name = target /\ Chosen(file.targets, kind, name, t)
  <2> HIDE DEF file
  <2>. QED BY <1>6, <1>7, ResolvedApplies
<1>. QED BY <1>2, <1>3, <1>8 DEF Chosen

\* The runs there are and the one a person asked for that waits for the lock.
TargetsFound ==
  DeployHasTarget /\ \A p \in People : hook[p].pc = "start" => TargetOf(hook[p].run)

\* A step of a person leaves the others' requests alone.
LEMMA TargetsGoOn ==
  ASSUME PushSafe, TargetsFound, NEW p \in People, NEW h, SetHook(p, h),
         h.pc = "start" => TargetOf(h.run),
         made' = made \/ \A r \in made' : TargetOf(r)
  PROVE  TargetsFound'
<1>1. hook'[p] = h /\ \A q \in People : q # p => hook'[q] = hook[q]
  BY HookSet
<1>2. ASSUME NEW q \in People, hook'[q].pc = "start"
      PROVE  TargetOf(hook'[q].run)
  BY <1>1, <1>2 DEF TargetsFound
<1>3. \A r \in made' : TargetOf(r)
  BY DEF TargetsFound, DeployHasTarget, TargetOf
<1>. QED BY <1>2, <1>3 DEF TargetsFound, DeployHasTarget, TargetOf

LEMMA TargetsStep ==
  ASSUME PushSafe, TargetsFound, [Next]_vars
  PROVE  TargetsFound'
<1>1. CASE \/ SaveRule \/ DeleteRule \/ SetDefaultPush \/ SetAccess \/ SetVisibility
           \/ ChangeReader \/ DisablePerson \/ SetDefaultBranch \/ UNCHANGED vars
  <2>1. hook' = hook /\ made' = made
    BY <1>1 DEF SaveRule, DeleteRule, SetDefaultPush, SetAccess, SetVisibility, ChangeReader,
                DisablePerson, SetDefaultBranch, Changed, vars
  <2>. QED BY <2>1 DEF TargetsFound, DeployHasTarget, TargetOf
<1>2. ASSUME NEW p \in People, Push(p) \/ WebDelete(p)
      PROVE  TargetsFound'
  <2>1. PICK h : h.pc = "wait" /\ SetHook(p, h) /\ made' = {}
    BY <1>2 DEF Push, WebDelete, Begin
  <2>. QED BY <2>1, TargetsGoOn
<1>3. ASSUME NEW p \in People,
             TakeLock(p) \/ LoadRepo(p) \/ LoadPerson(p) \/ LoadRules(p) \/ Validate(p)
      PROVE  TargetsFound'
  <2>1. PICK h : h.pc # "start" /\ SetHook(p, h) /\ made' = made
    <3>1. CASE TakeLock(p)
      BY <3>1 DEF TakeLock
    <3>2. CASE LoadRepo(p)
      BY <3>2 DEF LoadRepo
    <3>3. CASE LoadPerson(p)
      <4>1. HookOK(hook[p]) /\ hook[p].pc = "person1"
        BY <3>3 DEF LoadPerson, PushSafe, PolicyTypeOK
      <4>2. [hook[p] EXCEPT !.pc = "rules1", !.barred = p \in disabled].pc # "start"
        BY <4>1, HookShapes
      <4>. QED BY <3>3, <4>2 DEF LoadPerson
    <3>4. CASE LoadRules(p)
      BY <3>4 DEF LoadRules
    <3>5. CASE Validate(p)
      <4>1. Idle.pc # "start"
        BY DEF Idle
      <4>2. SetHook(p, Idle) \/ SetHook(p, [pc |-> "repo2", updates |-> hook[p].updates])
        BY <3>5 DEF Validate, Done
      <4>. QED BY <3>5, <4>1, <4>2 DEF Validate
    <3>. QED BY <1>3, <3>1, <3>2, <3>3, <3>4, <3>5
  <2>. QED BY <2>1, TargetsGoOn
<1>4. ASSUME NEW p \in People, Apply(p)
      PROVE  TargetsFound'
  <2>1. hook[p].updates \in SUBSET Update
    <3>1. HookOK(hook[p]) /\ hook[p].pc = "prepare"
      BY <1>4 DEF Apply, PushSafe, PolicyTypeOK
    <3>. QED BY <3>1, HookShapes
  <2>2. ASSUME NEW r \in made'
        PROVE  TargetOf(r)
    <3>1. PICK u \in hook[p].updates :
            ~IsDelete(u) /\ r = Run(u.kind, u.name, u.new, decide(hook[p].view, u, p))
      BY <1>4, <2>2 DEF Apply
    <3>2. u.kind \in Kinds /\ u.name \in Names /\ u.new \in Commits
      BY <2>1, <3>1 DEF Update, IsDelete
    <3>. QED BY <3>1, <3>2, RunTarget
  <2>3. SetHook(p, Idle) /\ Idle.pc # "start"
    BY <1>4 DEF Apply, Done, Idle
  <2>. QED BY <2>2, <2>3, TargetsGoOn
<1>5. ASSUME NEW p \in People, AskRun(p)
      PROVE  TargetsFound'
  <2>1. PICK kind \in Kinds, n \in Names :
          /\ refs[<<kind, n>>] # Zero
          /\ \E d : Begin(p, [pc |-> "start", run |-> Run(kind, n, refs[<<kind, n>>], d)])
    BY <1>5 DEF AskRun
  <2>2. refs[<<kind, n>>] \in Commits
    BY <2>1 DEF PushSafe, PolicyTypeOK, Refs
  <2>3. PICK d : Begin(p, [pc |-> "start", run |-> Run(kind, n, refs[<<kind, n>>], d)])
    BY <2>1
  <2>4. TargetOf(Run(kind, n, refs[<<kind, n>>], d))
    BY <2>2, RunTarget
  <2>. QED BY <2>3, <2>4, TargetsGoOn DEF Begin
<1>6. ASSUME NEW p \in People, Start(p)
      PROVE  TargetsFound'
  <2>1. made' = {hook[p].run} /\ TargetOf(hook[p].run) /\ SetHook(p, Idle) /\ Idle.pc # "start"
    BY <1>6 DEF Start, TargetsFound, Idle
  <2>. QED BY <2>1, TargetsGoOn
<1>. QED BY <1>1, <1>2, <1>3, <1>4, <1>5, <1>6 DEF Next

\* A queued run with a deploy step to run has a target, the one whose pattern
\* applies to its ref, and may deploy; also where its ref was decided on before
\* it waited for the lock.
THEOREM DeploysHaveTargets == Spec => []DeployHasTarget
<1>1. Init => TargetsFound
  BY DEF Init, TargetsFound, DeployHasTarget, Idle
<1>2. PushSafe /\ TargetsFound /\ [Next]_vars => TargetsFound'
  BY TargetsStep
<1>3. TargetsFound => DeployHasTarget
  BY DEF TargetsFound
<1>. QED BY <1>1, <1>2, <1>3, PushesValid, PTL DEF Spec
=============================================================================
