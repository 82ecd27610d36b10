-------------------------- MODULE TransformsProofs --------------------------
(***************************************************************************)
(* Folds, rewriting and the transforms, for every sequence of bytes: what  *)
(* each transform makes is a sequence of bytes, no longer than the         *)
(* transform says, and what it looks for first is all that it changes.     *)
(***************************************************************************)
EXTENDS Transforms, TLAPS, FiniteSetTheorems, WellFoundedInduction, NaturalsInduction

LEMMA Upwards ==
  ASSUME NEW S, 0 \in S, \A n \in Nat : n \in S => n + 1 \in S
  PROVE  Nat \subseteq S
<1> SUFFICES ASSUME Nat \ S # {} PROVE FALSE
  OBVIOUS
<1> DEFINE less == OpToRel(<, Nat)
<1>1. IsWellFoundedOn(less, Nat)
  BY Zenon, NatLessThanWellFounded
<1>2. \A x, y \in Nat : <<x, y>> \in less <=> x < y
  BY DEF OpToRel
<1> HIDE DEF less
<1>3. Nat \ S \in SUBSET Nat /\ Nat \ S # {}
  OBVIOUS
<1>4. PICK n \in Nat \ S : \A k \in Nat \ S : ~(<<k, n>> \in less)
  BY <1>1, <1>3, WFMin
<1>5. CASE n = 0
  BY <1>5
<1>6. CASE n # 0
  <2>1. n - 1 \in Nat /\ n - 1 < n /\ (n - 1) + 1 = n
    BY <1>6
  <2>2. n - 1 \in S
    BY <1>2, <1>4, <2>1
  <2>3. QED
    BY <2>1, <2>2
<1>7. QED
  BY <1>5, <1>6

\* The same, as far as a bound.
LEMMA UpTo ==
  ASSUME NEW n \in Nat, NEW S, 0 \in S, \A k \in 1..n : k - 1 \in S => k \in S
  PROVE  0..n \subseteq S
<1> DEFINE T == {k \in Nat : k <= n => k \in S}
<1>1. 0 \in T
  OBVIOUS
<1>2. \A k \in Nat : k \in T => k + 1 \in T
  <2> SUFFICES ASSUME NEW k \in Nat, k \in T, k + 1 <= n PROVE k + 1 \in S
    OBVIOUS
  <2>1. k \in S /\ k + 1 \in 1..n /\ (k + 1) - 1 = k
    OBVIOUS
  <2> QED
    BY <2>1
<1> HIDE DEF T
<1>3. Nat \subseteq T
  BY <1>1, <1>2, Upwards
<1> QED
  BY <1>3 DEF T

\* The largest of the first numbers, and of a set that holds the bound.
LEMMA MaxOfFirst ==
  ASSUME NEW n \in Nat, NEW S \in SUBSET (1..n), n \in S
  PROVE  Max(S) = n
<1>1. \A y \in S : n >= y
  OBVIOUS
<1>2. \A x \in S : (\A y \in S : x >= y) => x = n
  BY SMT
<1> QED
  BY <1>1, <1>2 DEF Max

\* A fold of s, for every set of its first m places.
Partial(g, T, s, base, step, m) ==
  /\ g \in [SUBSET (1..m) -> T]
  /\ g[{}] = base
  /\ \A S \in SUBSET (1..m) : S # {} =>
       /\ Max(S) \in S
       /\ g[S] = step[<<g[S \ {Max(S)}], s[Max(S)]>>]

LEMMA FoldExists ==
  ASSUME NEW T, NEW E, NEW s \in Seq(E), NEW base \in T, NEW step \in [T \X E -> T]
  PROVE  \E g : Partial(g, T, s, base, step, Len(s))
<1> DEFINE Good == {m \in 0..Len(s) : \E g : Partial(g, T, s, base, step, m)}
<1>0. Len(s) \in Nat
  OBVIOUS
<1>1. 0 \in Good
  <2> DEFINE g == [S \in SUBSET (1..0) |-> base]
  <2>1. SUBSET (1..0) = {{}}
    OBVIOUS
  <2>2. Partial(g, T, s, base, step, 0)
    BY <2>1 DEF Partial
  <2> QED
    BY <1>0, <2>2
<1>2. ASSUME NEW k \in 1..Len(s), k - 1 \in Good PROVE k \in Good
  <2>1. PICK g : Partial(g, T, s, base, step, k - 1)
    BY <1>2
  <2> DEFINE h == [S \in SUBSET (1..k) |-> IF k \in S THEN step[<<g[S \ {k}], s[k]>>] ELSE g[S]]
  <2>2. \A S \in SUBSET (1..k) : S \ {k} \in SUBSET (1..(k - 1))
    OBVIOUS
  <2>3. \A S \in SUBSET (1..k) : k \notin S => S \in SUBSET (1..(k - 1))
    OBVIOUS
  <2>4. s[k] \in E
    OBVIOUS
  <2>10. g \in [SUBSET (1..(k - 1)) -> T] /\ g[{}] = base
    BY <2>1 DEF Partial
  <2>5. h \in [SUBSET (1..k) -> T]
    <3> SUFFICES ASSUME NEW S \in SUBSET (1..k) PROVE h[S] \in T
      OBVIOUS
    <3>1. CASE k \in S
      <4>1. g[S \ {k}] \in T
        BY <2>2, <2>10
      <4> QED
        BY <3>1, <4>1, <2>4
    <3>2. CASE k \notin S
      BY <3>2, <2>3, <2>10
    <3> QED
      BY <3>1, <3>2
  <2>6. h[{}] = base
    BY <2>10
  <2>7. ASSUME NEW S \in SUBSET (1..k), S # {}
        PROVE  Max(S) \in S /\ h[S] = step[<<h[S \ {Max(S)}], s[Max(S)]>>]
    <3>1. CASE k \in S
      <4>1. Max(S) = k
        BY <3>1, MaxOfFirst
      <4>2. S \ {k} \in SUBSET (1..k) /\ k \notin S \ {k}
        OBVIOUS
      <4>3. h[S \ {k}] = g[S \ {k}]
        BY <4>2
      <4> QED
        BY <3>1, <4>1, <4>3
    <3>2. CASE k \notin S
      <4>1. S \in SUBSET (1..(k - 1))
        BY <3>2, <2>3
      <4>2. Max(S) \in S /\ g[S] = step[<<g[S \ {Max(S)}], s[Max(S)]>>]
        BY <4>1, <2>1, <2>7 DEF Partial
      <4>3. S \ {Max(S)} \in SUBSET (1..k)
        OBVIOUS
      <4>4. h[S] = g[S] /\ h[S \ {Max(S)}] = g[S \ {Max(S)}]
        BY <3>2, <4>3
      <4> QED
        BY <4>2, <4>4
    <3> QED
      BY <3>1, <3>2
  <2> HIDE DEF h
  <2>8. Partial(h, T, s, base, step, k)
    BY <2>5, <2>6, <2>7 DEF Partial
  <2> QED
    BY <1>0, <2>8
<1> HIDE DEF Good
<1>3. 0..Len(s) \subseteq Good
  BY <1>0, <1>1, <1>2, UpTo
<1>4. Len(s) \in Good
  BY <1>0, <1>3
<1> QED
  BY <1>4 DEF Good

\* The first places of s, one more than the ones before.
LEMMA FirstPlaces ==
  ASSUME NEW E, NEW s \in Seq(E), NEW k \in 1..Len(s)
  PROVE  /\ 1..k \in SUBSET (1..Len(s)) /\ 1..k # {}
         /\ Max(1..k) = k
         /\ (1..k) \ {k} = 1..(k - 1) /\ 1..(k - 1) \in SUBSET (1..Len(s))
<1>1. k \in Nat /\ k \in 1..k /\ Len(s) \in Nat
  OBVIOUS
<1>2. Max(1..k) = k
  BY <1>1, MaxOfFirst
<1>3. 1..k \in SUBSET (1..Len(s)) /\ 1..(k - 1) \in SUBSET (1..Len(s))
  BY <1>1
<1>4. (1..k) \ {k} = 1..(k - 1)
  BY <1>1
<1> QED
  BY <1>1, <1>2, <1>3, <1>4

\* What holds of the first value and goes from each to the next holds of the last.
LEMMA Run ==
  ASSUME NEW T, NEW n \in Nat, NEW f, f[0] \in T,
         \A k \in 1..n : f[k - 1] \in T => f[k] \in T
  PROVE  \A k \in 0..n : f[k] \in T
<1> DEFINE good == {k \in 0..n : f[k] \in T}
<1>1. 0 \in good /\ \A k \in 1..n : k - 1 \in good => k \in good
  OBVIOUS
<1> HIDE DEF good
<1>2. 0..n \subseteq good
  BY <1>1, UpTo
<1> QED
  BY <1>2 DEF good

LEMMA DomainOfSeq == \A E : \A s \in Seq(E) : DOMAIN s = 1..Len(s) /\ Len(s) \in Nat
  OBVIOUS

\* A fold begins with the base.
LEMMA PartialBase ==
  ASSUME NEW T, NEW E, NEW s \in Seq(E), NEW base, NEW step, NEW g,
         Partial(g, T, s, base, step, Len(s))
  PROVE  g[{}] = base /\ g = [S \in SUBSET DOMAIN s |-> g[S]]
<1>1. DOMAIN s = 1..Len(s)
  OBVIOUS
<1> QED
  BY <1>1 DEF Partial

Steps(iter, T, E, s, base, step) ==
  /\ iter[{}] = base
  /\ \A S \in SUBSET DOMAIN s : (S # {} /\ iter[S \ {Max(S)}] \in T /\ s[Max(S)] \in E) =>
       iter[S] = step[<<iter[S \ {Max(S)}], s[Max(S)]>>]

Runs(f, T, s, base, step, result) ==
  /\ f \in [0..Len(s) -> T]
  /\ f[0] = base /\ f[Len(s)] = result
  /\ \A k \in 1..Len(s) : f[k] = step[<<f[k - 1], s[k]>>]

\* Its values at the beginnings of s, one after the other.
LEMMA FoldRuns ==
  ASSUME NEW T, NEW E, NEW s \in Seq(E), NEW base \in T, NEW step \in [T \X E -> T], NEW iter,
         Steps(iter, T, E, s, base, step)
  PROVE  \E f : Runs(f, T, s, base, step, iter[DOMAIN s])
<1> DEFINE f == [k \in 0..Len(s) |-> iter[1..k]]
<1>0. Len(s) \in Nat /\ DOMAIN s = 1..Len(s) /\ \A k \in 1..Len(s) : s[k] \in E /\ k - 1 \in 0..Len(s)
  OBVIOUS
<1>1. f[0] = base /\ f[Len(s)] = iter[DOMAIN s]
  BY <1>0 DEF Steps
<1>2. ASSUME NEW k \in 1..Len(s), f[k - 1] \in T PROVE f[k] = step[<<f[k - 1], s[k]>>]
  <2>1. 1..k \in SUBSET DOMAIN s /\ 1..k # {} /\ Max(1..k) = k /\ (1..k) \ {k} = 1..(k - 1)
    BY <1>0, FirstPlaces
  <2>2. f[k] = iter[1..k] /\ f[k - 1] = iter[1..(k - 1)]
    BY <1>0
  <2> HIDE DEF f
  <2>3. s[k] \in E
    BY <1>0
  <2> QED
    BY <1>2, <2>1, <2>2, <2>3 DEF Steps
<1>3. f = [k \in 0..Len(s) |-> f[k]]
  OBVIOUS
<1> HIDE DEF f
<1>4. \A k \in 1..Len(s) : f[k - 1] \in T => f[k] \in T
  BY <1>0, <1>2
<1>5. \A k \in 0..Len(s) : f[k] \in T
  BY <1>0, <1>1, <1>4, Run
<1>6. f \in [0..Len(s) -> T]
  BY <1>3, <1>5
<1>7. \A k \in 1..Len(s) : f[k] = step[<<f[k - 1], s[k]>>]
  BY <1>0, <1>2, <1>5
<1> QED
  BY <1>1, <1>6, <1>7 DEF Runs

LEMMA InsideFold ==
  ASSUME NEW T, NEW E, NEW s \in Seq(E), NEW f \in [0..Len(s) -> T], NEW k \in 1..Len(s)
  PROVE  f[k - 1] \in T /\ s[k] \in E
<1>1. k - 1 \in 0..Len(s)
  OBVIOUS
<1> QED
  BY <1>1

\* The members of s that are chosen.
ThoseRun(f, E, s, chosen) ==
  /\ f \in [0..Len(s) -> Seq(E)]
  /\ f[0] = <<>>
  /\ \A k \in 1..Len(s) : f[k] = IF s[k] \in chosen THEN Append(f[k - 1], s[k]) ELSE f[k - 1]
  /\ Those(s, chosen) = f[Len(s)]

LEMMA ThoseFold ==
  ASSUME NEW E, NEW chosen, NEW s \in Seq(E)
  PROVE  \E f : ThoseRun(f, E, s, chosen)
<1> DEFINE T == Seq(E)
           El == E
           op(out, x) == IF x \in chosen THEN Append(out, x) ELSE out
           base == <<>>
           step == [p \in T \X El |-> op(p[1], p[2])]
           Is(h) == h = [S \in SUBSET DOMAIN s |->
                           IF S = {} THEN base ELSE op(h[S \ {Max(S)}], s[Max(S)])]
           iter == CHOOSE h : Is(h)
<1>1. base \in T
  OBVIOUS
<1>a. \A t \in T, x \in El : op(t, x) \in T
  OBVIOUS
<1>2. Those(s, chosen) = iter[DOMAIN s]
  BY DEF Those, FoldLeft, MapThenFoldSet
<1>0. s \in Seq(El)
  OBVIOUS
<1> HIDE DEF op, base, T, El
<1>3. step \in [T \X El -> T]
  BY <1>a
<1>b. \A t \in T, x \in El : step[<<t, x>>] = op(t, x)
  OBVIOUS
<1> HIDE DEF step
<1>4. PICK g : Partial(g, T, s, base, step, Len(s))
  BY <1>0, <1>1, <1>3, FoldExists
<1>5. ASSUME NEW S \in SUBSET DOMAIN s, S # {} PROVE g[S] = op(g[S \ {Max(S)}], s[Max(S)])
  <2>1. Max(S) \in S /\ g[S] = step[<<g[S \ {Max(S)}], s[Max(S)]>>] /\ g \in [SUBSET DOMAIN s -> T]
    BY <1>0, <1>4, <1>5, DomainOfSeq DEF Partial
  <2>2. g[S \ {Max(S)}] \in T /\ s[Max(S)] \in El
    BY <1>0, <2>1
  <2> QED
    BY <1>b, <2>1, <2>2
<1>6. g[{}] = base /\ g = [S \in SUBSET DOMAIN s |-> g[S]]
  BY <1>0, <1>4, PartialBase
<1>7. Is(iter)
  <2>1. Is(g)
    BY <1>5, <1>6
  <2> QED
    BY <2>1
<1> HIDE DEF iter
<1>8. iter[{}] = base
  BY <1>7
<1>9. ASSUME NEW S \in SUBSET DOMAIN s, S # {}, iter[S \ {Max(S)}] \in T, s[Max(S)] \in El
      PROVE  iter[S] = step[<<iter[S \ {Max(S)}], s[Max(S)]>>]
  BY <1>7, <1>9, <1>b
<1> HIDE DEF Is
<1>10. Steps(iter, T, El, s, base, step)
  BY <1>8, <1>9 DEF Steps
<1>12. PICK f : Runs(f, T, s, base, step, iter[DOMAIN s])
  BY <1>0, <1>1, <1>3, <1>10, FoldRuns
<1>13. f \in [0..Len(s) -> T] /\ f[0] = base /\ f[Len(s)] = iter[DOMAIN s]
  BY <1>12 DEF Runs
<1>11. \A k \in 1..Len(s) : f[k] = op(f[k - 1], s[k])
  BY <1>0, <1>b, <1>12, <1>13, InsideFold DEF Runs
<1> QED
  BY <1>2, <1>11, <1>13 DEF op, base, T, ThoseRun

LEMMA RangeIs == \A t, x : x \in Range(t) <=> \E j \in DOMAIN t : t[j] = x
  BY DEF Range

LEMMA RangeOfAppend ==
  ASSUME NEW E, NEW t \in Seq(E), NEW e \in E
  PROVE  \A x : x \in Range(Append(t, e)) <=> (x \in Range(t) \/ x = e)
<1> DEFINE u == Append(t, e)
<1>1. /\ DOMAIN u = 1..(Len(t) + 1) /\ DOMAIN t = 1..Len(t) /\ Len(t) \in Nat
      /\ \A j \in 1..Len(t) : u[j] = t[j]
      /\ u[Len(t) + 1] = e
  OBVIOUS
<1> HIDE DEF u
<1>2. 1..(Len(t) + 1) = (1..Len(t)) \cup {Len(t) + 1}
  BY <1>1
<1>3. ASSUME NEW x PROVE (\E j \in DOMAIN u : u[j] = x) <=> ((\E j \in DOMAIN t : t[j] = x) \/ x = e)
  BY <1>1, <1>2
<1>4. \A x : x \in Range(u) <=> (x \in Range(t) \/ x = e)
  BY <1>3, RangeIs
<1> QED
  BY <1>4 DEF u

\* What is chosen of s is what of s is among the chosen.
LEMMA RangeOfThose ==
  ASSUME NEW E, NEW s \in Seq(E), NEW chosen
  PROVE  Those(s, chosen) \in Seq(E) /\ Range(Those(s, chosen)) = Range(s) \cap chosen
<1>1. PICK f : ThoseRun(f, E, s, chosen)
  BY ThoseFold
<1> DEFINE Has(k) == \A x : x \in Range(f[k]) <=> (x \in chosen /\ \E j \in 1..k : s[j] = x)
           good == {k \in 0..Len(s) : Has(k)}
<1>2. Len(s) \in Nat /\ DOMAIN s = 1..Len(s) /\ Len(s) \in 0..Len(s) /\ 0 \in 0..Len(s)
  OBVIOUS
<1>3. 0 \in good
  <2>1. \A x : x \notin Range(f[0])
    <3>1. f[0] = <<>> /\ DOMAIN <<>> = {}
      BY <1>1 DEF ThoseRun
    <3> QED
      BY <3>1, RangeIs
  <2>2. 1..0 = {}
    OBVIOUS
  <2> QED
    BY <1>2, <2>1, <2>2
<1>4. ASSUME NEW k \in 1..Len(s), k - 1 \in good PROVE k \in good
  <2>1. Has(k - 1) /\ k - 1 \in 0..Len(s) /\ k \in 0..Len(s) /\ k \in Nat
    BY <1>4
  <2>2. \A x : (\E j \in 1..k : s[j] = x) <=> ((\E j \in 1..(k - 1) : s[j] = x) \/ x = s[k])
    <3>1. 1..k = (1..(k - 1)) \cup {k}
      BY <2>1
    <3> QED
      BY <3>1
  <2>3. f[k - 1] \in Seq(E) /\ s[k] \in E
    BY SMTT(30), <1>1, <1>2, <2>1 DEF ThoseRun
  <2>4. \A x : x \in Range(f[k]) <=> (x \in Range(f[k - 1]) \/ (x = s[k] /\ s[k] \in chosen))
    <3>1. CASE s[k] \in chosen
      <4>1. f[k] = Append(f[k - 1], s[k])
        BY <1>1, <3>1 DEF ThoseRun
      <4> QED
        BY <2>3, <3>1, <4>1, RangeOfAppend
    <3>2. CASE s[k] \notin chosen
      BY <1>1, <3>2 DEF ThoseRun
    <3> QED
      BY <3>1, <3>2
  <2>5. Has(k)
    <3>1. \A x : x \in Range(f[k - 1]) <=> (x \in chosen /\ \E j \in 1..(k - 1) : s[j] = x)
      BY <2>1
    <3> QED
      BY <2>2, <2>4, <3>1
  <2> QED
    BY <2>1, <2>5
<1> HIDE DEF good
<1>5. Len(s) \in good
  BY <1>2, <1>3, <1>4, UpTo
<1>6. Has(Len(s))
  BY <1>5 DEF good
<1>7. Those(s, chosen) = f[Len(s)] /\ f[Len(s)] \in Seq(E)
  BY <1>1, <1>2 DEF ThoseRun
<1>8. \A x : x \in Range(f[Len(s)]) <=> x \in Range(s) \cap chosen
  BY <1>2, <1>6, RangeIs
<1> QED
  BY <1>7, <1>8

-----------------------------------------------------------------------------
(* A scan that rewrites a value, byte by byte.                               *)

\* What a scan writes at each place stands for bytes that are there.
PutAt(put, T, i, n) == put.out \in Seq(T) /\ put.used \in Nat \ {0} /\ i + put.used <= n + 1

Puts(puts, T) ==
  /\ Len(puts) \in Nat /\ DOMAIN puts = 1..Len(puts)
  /\ \A i \in 1..Len(puts) : PutAt(puts[i], T, i, Len(puts))

\* What is written from each place behind the low one.
RestFrom(rest, puts, T, low, n) ==
  /\ rest \in [low..(n + 1) -> Seq(T)]
  /\ rest[n + 1] = <<>>
  /\ \A i \in low..n : rest[i] = puts[i].out \o rest[i + puts[i].used]

LEMMA RestExists ==
  ASSUME NEW T, NEW puts, NEW n \in Nat, \A i \in 1..n : PutAt(puts[i], T, i, n)
  PROVE  \E rest : RestFrom(rest, puts, T, 1, n)
<1> DEFINE good == {m \in 0..n : \E g : RestFrom(g, puts, T, n + 1 - m, n)}
<1>2. 0 \in good
  <2>1. RestFrom([i \in (n + 1)..(n + 1) |-> <<>>], puts, T, n + 1, n)
    <3>1. (n + 1)..n = {} /\ n + 1 \in (n + 1)..(n + 1)
      OBVIOUS
    <3>2. [i \in (n + 1)..(n + 1) |-> <<>>] \in [(n + 1)..(n + 1) -> Seq(T)]
      OBVIOUS
    <3>3. [i \in (n + 1)..(n + 1) |-> <<>>][n + 1] = <<>>
      BY <3>1
    <3> QED
      BY <3>1, <3>2, <3>3 DEF RestFrom
  <2>2. n + 1 - 0 = n + 1
    OBVIOUS
  <2> QED
    BY <2>1, <2>2
<1>3. ASSUME NEW m \in 1..n, m - 1 \in good PROVE m \in good
  <2>1. PICK low : low = n + 1 - m
    OBVIOUS
  <2>2. low \in 1..n /\ n + 1 - (m - 1) = low + 1
    BY <2>1
  <2>3. PICK g : RestFrom(g, puts, T, low + 1, n)
    BY <1>3, <2>2
  <2> DEFINE h == [i \in low..(n + 1) |-> IF i = low THEN puts[low].out \o g[low + puts[low].used] ELSE g[i]]
  <2>4. low + puts[low].used \in (low + 1)..(n + 1) /\ puts[low].out \in Seq(T)
    BY <2>2 DEF PutAt
  <2>5. h \in [low..(n + 1) -> Seq(T)]
    <3> SUFFICES ASSUME NEW i \in low..(n + 1) PROVE h[i] \in Seq(T)
      OBVIOUS
    <3>1. CASE i = low
      <4>1. g[low + puts[low].used] \in Seq(T)
        BY <2>3, <2>4 DEF RestFrom
      <4> QED
        BY <2>4, <3>1, <4>1
    <3>2. CASE i # low
      <4>1. i \in (low + 1)..(n + 1)
        BY <2>2, <3>2
      <4> QED
        BY <2>3, <3>2, <4>1 DEF RestFrom
    <3> QED
      BY <3>1, <3>2
  <2>6. h[n + 1] = <<>>
    BY SMTT(30), <2>2, <2>3 DEF RestFrom
  <2>7. ASSUME NEW i \in low..n PROVE h[i] = puts[i].out \o h[i + puts[i].used]
    <3>1. i \in 1..n /\ i + puts[i].used \in (low + 1)..(n + 1)
      <4>1. i \in 1..n
        BY <2>2
      <4>2. puts[i].used \in Nat \ {0} /\ i + puts[i].used <= n + 1
        BY <4>1 DEF PutAt
      <4> QED
        BY <2>2, <4>1, <4>2
    <3>2. h[i + puts[i].used] = g[i + puts[i].used]
      BY <2>2, <3>1
    <3>3. CASE i = low
      <4>1. low \in low..(n + 1)
        BY <2>2
      <4>2. h[low] = puts[low].out \o g[low + puts[low].used]
        BY <4>1
      <4> HIDE DEF h
      <4> QED
        BY <3>2, <3>3, <4>2
    <3>4. CASE i # low
      <4>1. i \in (low + 1)..n /\ h[i] = g[i]
        BY <2>2, <3>4
      <4> QED
        BY Zenon, <2>3, <3>2, <4>1 DEF RestFrom
    <3> QED
      BY <3>3, <3>4
  <2> HIDE DEF h
  <2>8. RestFrom(h, puts, T, low, n)
    BY <2>5, <2>6, <2>7 DEF RestFrom
  <2> QED
    BY <2>1, <2>8
<1> HIDE DEF good
<1>4. n \in good
  BY <1>2, <1>3, UpTo
<1>5. n + 1 - n = 1
  OBVIOUS
<1> QED
  BY <1>4, <1>5 DEF good

LEMMA RewriteRest ==
  ASSUME NEW T, NEW puts, Puts(puts, T)
  PROVE  \E rest : RestFrom(rest, puts, T, 1, Len(puts)) /\ Rewrite(puts) = rest[1]
<1> DEFINE n == Len(puts)
           Is(h) == h = [i \in 1..(n + 1) |-> IF i > n THEN <<>> ELSE puts[i].out \o h[i + puts[i].used]]
           rest == CHOOSE h : Is(h)
<1>1. n \in Nat /\ \A i \in 1..n : PutAt(puts[i], T, i, n)
  BY DEF Puts
<1>7. Rewrite(puts) = rest[1]
  BY DEF Rewrite
<1> HIDE DEF n
<1>5. PICK g : RestFrom(g, puts, T, 1, n)
  BY <1>1, RestExists
<1>6. Is(g)
  <2>1. ASSUME NEW i \in 1..(n + 1) PROVE g[i] = IF i > n THEN <<>> ELSE puts[i].out \o g[i + puts[i].used]
    <3>1. CASE i > n
      <4>1. i = n + 1
        BY <1>1, <3>1
      <4> QED
        BY <1>5, <3>1, <4>1 DEF RestFrom
    <3>2. CASE ~(i > n)
      <4>1. i \in 1..n
        BY <1>1, <3>2
      <4> QED
        BY <1>5, <3>2, <4>1 DEF RestFrom
    <3> QED
      BY <3>1, <3>2
  <2>2. g = [i \in 1..(n + 1) |-> g[i]]
    BY <1>5 DEF RestFrom
  <2> QED
    BY <2>1, <2>2
<1>8. Is(rest)
  BY Zenon, <1>6
<1> HIDE DEF rest
<1>9. rest[n + 1] = <<>>
  <2>1. n + 1 \in 1..(n + 1) /\ n + 1 > n
    BY SMTT(30), <1>1
  <2> QED
    BY <1>8, <2>1
<1>10. ASSUME NEW i \in 1..n PROVE rest[i] = puts[i].out \o rest[i + puts[i].used]
  <2>1. i \in 1..(n + 1) /\ ~(i > n)
    BY <1>1
  <2> QED
    BY Zenon, <1>8, <2>1
<1>11. rest = [i \in 1..(n + 1) |-> rest[i]]
  BY <1>8
<1> HIDE DEF Is
<1> DEFINE typed == {m \in 0..n : \A i \in (n + 1 - m)..(n + 1) : rest[i] \in Seq(T)}
<1>12. 0 \in typed
  <2>1. \A i \in (n + 1 - 0)..(n + 1) : i = n + 1
    BY <1>1
  <2>2. <<>> \in Seq(T) /\ 0 \in 0..n
    BY <1>1
  <2> QED
    BY <1>9, <2>1, <2>2
<1>13. ASSUME NEW m \in 1..n, m - 1 \in typed PROVE m \in typed
  <2>1. PICK low : low = n + 1 - m
    OBVIOUS
  <2>2. low \in 1..n /\ n + 1 - (m - 1) = low + 1 /\ m \in 0..n
    BY <1>1, <2>1
  <2>3. low + puts[low].used \in (low + 1)..(n + 1) /\ puts[low].out \in Seq(T)
    BY <1>1, <2>2 DEF PutAt
  <2>4. \A i \in (low + 1)..(n + 1) : rest[i] \in Seq(T)
    BY <1>13, <2>2
  <2>5. rest[low] \in Seq(T)
    <3>1. rest[low] = puts[low].out \o rest[low + puts[low].used]
      BY <1>10, <2>2
    <3>2. rest[low + puts[low].used] \in Seq(T)
      BY <2>3, <2>4
    <3> QED
      BY <2>3, <3>1, <3>2
  <2>6. \A i \in low..(n + 1) : i = low \/ i \in (low + 1)..(n + 1)
    BY <1>1, <2>2
  <2>7. \A i \in (n + 1 - m)..(n + 1) : rest[i] \in Seq(T)
    BY <2>1, <2>4, <2>5, <2>6
  <2> QED
    BY <2>2, <2>7
<1> HIDE DEF typed
<1>14. n \in typed
  BY <1>1, <1>12, <1>13, UpTo
<1>15. \A i \in 1..(n + 1) : rest[i] \in Seq(T)
  <2>1. n + 1 - n = 1
    BY <1>1
  <2> QED
    BY <1>14, <2>1 DEF typed
<1>16. rest \in [1..(n + 1) -> Seq(T)]
  BY <1>11, <1>15
<1>17. RestFrom(rest, puts, T, 1, n)
  BY <1>9, <1>10, <1>16 DEF RestFrom
<1> QED
  BY <1>7, <1>17 DEF n

\* So a scan that writes bytes makes a value of bytes.
LEMMA RewriteType ==
  ASSUME NEW T, NEW puts, Puts(puts, T)
  PROVE  Rewrite(puts) \in Seq(T)
<1>1. PICK rest : RestFrom(rest, puts, T, 1, Len(puts)) /\ Rewrite(puts) = rest[1]
  BY RewriteRest
<1>2. 1 \in 1..(Len(puts) + 1)
  BY DEF Puts
<1> QED
  BY <1>1, <1>2 DEF RestFrom

\* A scan that never writes more than it reads makes nothing longer.
Shrinks(puts) == \A i \in 1..Len(puts) : Len(puts[i].out) <= puts[i].used

LEMMA SumWithin ==
  ASSUME NEW a \in Nat, NEW b \in Nat, NEW c \in Nat, NEW n \in Nat, NEW low \in Nat,
         a <= c, b <= n + 1 - (low + c)
  PROVE  a + b <= n + 1 - low
  OBVIOUS

LEMMA RewriteShrinks ==
  ASSUME NEW T, NEW puts, Puts(puts, T), Shrinks(puts)
  PROVE  Len(Rewrite(puts)) <= Len(puts)
<1>1. PICK rest : RestFrom(rest, puts, T, 1, Len(puts)) /\ Rewrite(puts) = rest[1]
  BY SMTT(30), RewriteRest
<1>2. PICK n \in Nat : n = Len(puts)
  BY Zenon DEF Puts
<1> DEFINE good == {m \in 0..n : \A i \in (n + 1 - m)..(n + 1) : Len(rest[i]) <= n + 1 - i}
<1>3. 0 \in good
  <2>1. \A i \in (n + 1 - 0)..(n + 1) : i = n + 1
    OBVIOUS
  <2>2. Len(rest[n + 1]) = 0 /\ 0 \in 0..n
    BY <1>1, <1>2 DEF RestFrom
  <2> QED
    BY <2>1, <2>2
<1>4. ASSUME NEW m \in 1..n, m - 1 \in good PROVE m \in good
  <2>1. PICK low : low = n + 1 - m
    OBVIOUS
  <2>2. low \in 1..n /\ n + 1 - (m - 1) = low + 1 /\ m \in 0..n
    BY <2>1
  <2>3. /\ puts[low].used \in Nat \ {0} /\ low + puts[low].used \in (low + 1)..(n + 1)
        /\ puts[low].out \in Seq(T)
    BY <1>2, <2>2 DEF Puts, PutAt
  <2>4. Len(puts[low].out) <= puts[low].used /\ Len(puts[low].out) \in Nat
    BY <1>2, <2>2, <2>3 DEF Shrinks
  <2>5. rest[low] = puts[low].out \o rest[low + puts[low].used]
    BY <1>1, <1>2, <2>2 DEF RestFrom
  <2>6. rest[low + puts[low].used] \in Seq(T)
    BY <1>1, <1>2, <2>2, <2>3 DEF RestFrom
  <2>7. Len(rest[low + puts[low].used]) <= n + 1 - (low + puts[low].used)
    BY <1>4, <2>2, <2>3
  <2>8. Len(rest[low]) = Len(puts[low].out) + Len(rest[low + puts[low].used])
    BY <2>3, <2>5, <2>6
  <2>9. Len(rest[low]) <= n + 1 - low
    <3>1. PICK a \in Nat, b \in Nat, c \in Nat :
            a = Len(puts[low].out) /\ b = Len(rest[low + puts[low].used]) /\ c = puts[low].used
      BY <2>3, <2>4, <2>6
    <3>2. a <= c /\ b <= n + 1 - (low + c) /\ low \in Nat
      BY <2>2, <2>4, <2>7, <3>1
    <3>3. a + b <= n + 1 - low
      BY <3>2, SumWithin
    <3> QED
      BY <2>8, <3>1, <3>3
  <2>10. \A i \in low..(n + 1) : i = low \/ i \in (low + 1)..(n + 1)
    BY <2>2
  <2>11. \A i \in (n + 1 - m)..(n + 1) : Len(rest[i]) <= n + 1 - i
    BY <1>4, <2>1, <2>2, <2>9, <2>10
  <2> QED
    BY <2>2, <2>11
<1> HIDE DEF good
<1>5. n \in good
  BY <1>3, <1>4, UpTo
<1>6. 1 \in (n + 1 - n)..(n + 1) /\ n + 1 - 1 = n
  OBVIOUS
<1>7. Len(rest[1]) <= n
  BY <1>5, <1>6 DEF good
<1> QED
  BY <1>1, <1>2, <1>7

\* A scan that copies every byte changes nothing.
LEMMA RewriteCopies ==
  ASSUME NEW T, NEW s \in Seq(T), NEW puts, DOMAIN puts = DOMAIN s, Len(puts) = Len(s),
         \A i \in 1..Len(s) : puts[i] = Copy(s, i)
  PROVE  Rewrite(puts) = s
<1>0. Len(s) \in Nat /\ DOMAIN s = 1..Len(s)
  BY SMTT(30)
<1>1. PICK n \in Nat : n = Len(s)
  BY Zenon, <1>0
<1>2. ASSUME NEW i \in 1..n PROVE puts[i].out = <<s[i]>> /\ puts[i].used = 1
  <2>1. puts[i] = [out |-> <<s[i]>>, used |-> 1]
    BY <1>1 DEF Copy, Put
  <2> QED
    BY <2>1
<1>3. Puts(puts, T)
  <2>1. ASSUME NEW i \in 1..n PROVE PutAt(puts[i], T, i, n)
    <3>1. <<s[i]>> \in Seq(T) /\ i + 1 <= n + 1
      BY <1>1
    <3>2. puts[i].out = <<s[i]>> /\ puts[i].used = 1
      BY <1>2
    <3> QED
      BY <3>1, <3>2 DEF PutAt
  <2> QED
    BY <1>0, <1>1, <2>1 DEF Puts
<1>4. PICK rest : RestFrom(rest, puts, T, 1, n) /\ Rewrite(puts) = rest[1]
  BY <1>1, <1>3, RewriteRest
<1> DEFINE tail(i) == SubSeq(s, i, n)
           good == {m \in 0..n : rest[n + 1 - m] = tail(n + 1 - m)}
<1>5. 0 \in good
  <2>1. n + 1 - 0 = n + 1 /\ tail(n + 1) = <<>> /\ 0 \in 0..n
    BY <1>1
  <2> QED
    BY <1>4, <2>1 DEF RestFrom
<1>6. ASSUME NEW m \in 1..n, m - 1 \in good PROVE m \in good
  <2>1. PICK low : low = n + 1 - m
    OBVIOUS
  <2>2. low \in 1..n /\ n + 1 - (m - 1) = low + 1 /\ m \in 0..n
    BY <2>1
  <2>3. rest[low] = <<s[low]>> \o rest[low + 1]
    BY <1>2, <1>4, <2>2 DEF RestFrom
  <2>4. rest[low + 1] = tail(low + 1)
    BY <1>6, <2>2
  <2>5. <<s[low]>> \o tail(low + 1) = tail(low)
    BY <1>1, <2>2
  <2> QED
    BY <2>1, <2>2, <2>3, <2>4, <2>5
<1> HIDE DEF good, tail
<1>9. \A k \in 1..n : k - 1 \in good => k \in good
  BY <1>6
<1>10. 0..n \subseteq good
  BY <1>5, <1>9, UpTo
<1>7. n \in good
  BY <1>10
<1>8. n + 1 - n = 1 /\ tail(1) = s
  BY <1>1 DEF tail
<1> QED
  BY <1>4, <1>7, <1>8 DEF good

-----------------------------------------------------------------------------
(* Places in a value.                                                        *)

LEMMA LeastIn ==
  ASSUME NEW S \in SUBSET Nat, S # {}
  PROVE  Min(S) \in S /\ \A y \in S : Min(S) <= y
<1> DEFINE less == OpToRel(<, Nat)
<1>1. IsWellFoundedOn(less, Nat)
  BY Zenon, NatLessThanWellFounded
<1>2. \A x, y \in Nat : <<x, y>> \in less <=> x < y
  BY DEF OpToRel
<1> HIDE DEF less
<1>3. PICK n \in S : \A k \in S : ~(<<k, n>> \in less)
  BY <1>1, WFMin
<1>4. ASSUME NEW y \in S PROVE n <= y
  <2>1. n \in Nat /\ y \in Nat /\ ~(y < n)
    BY <1>2, <1>3
  <2> QED
    BY <2>1
<1> QED
  BY <1>4 DEF Min

LEMMA GreatestIn ==
  ASSUME NEW n \in Nat, NEW S \in SUBSET (0..n), S # {}
  PROVE  Max(S) \in S /\ \A y \in S : Max(S) >= y
<1> DEFINE R == {m \in Nat : \A y \in S : y <= m}
<1>1. n \in R /\ R \in SUBSET Nat /\ R # {}
  OBVIOUS
<1>2. PICK m \in R : \A y \in R : m <= y
  BY <1>1, LeastIn
<1>3. m \in S
  <2>1. SUFFICES ASSUME m \notin S PROVE FALSE
    OBVIOUS
  <2>2. PICK y : y \in S
    OBVIOUS
  <2>5. y \in Nat /\ m \in Nat /\ y <= m /\ y # m
    BY <1>2, <2>1, <2>2
  <2>3. \A z \in S : z <= m - 1
    <3> SUFFICES ASSUME NEW z \in S PROVE z <= m - 1
      OBVIOUS
    <3>1. z \in Nat /\ z <= m /\ z # m
      BY <1>2, <2>1
    <3> QED
      BY <2>5, <3>1
  <2>4. m - 1 \in R
    BY <2>3, <2>5
  <2> QED
    BY <1>2, <2>4, <2>5
<1>4. \A y \in S : m >= y
  BY <1>2
<1> QED
  BY <1>3, <1>4 DEF Max

LEMMA LeastOfTwo ==
  ASSUME NEW a \in Int, NEW b \in Int
  PROVE  Min({a, b}) = IF a <= b THEN a ELSE b
<1> DEFINE least == IF a <= b THEN a ELSE b
<1>1. least \in {a, b} /\ \A y \in {a, b} : least <= y
  OBVIOUS
<1>2. \A x \in {a, b} : (\A y \in {a, b} : x <= y) => x = least
  OBVIOUS
<1> HIDE DEF least
<1>3. Min({a, b}) = least
  BY <1>1, <1>2 DEF Min
<1> QED
  BY <1>3 DEF least

\* The end of the run of cs that begins at i.
LEMMA RunEndIs ==
  ASSUME NEW E, NEW s \in Seq(E), NEW i \in 1..(Len(s) + 1), NEW cs
  PROVE  /\ RunEnd(s, i, cs) \in i..(Len(s) + 1)
         /\ \A k \in i..(RunEnd(s, i, cs) - 1) : s[k] \in cs
         /\ RunEnd(s, i, cs) <= Len(s) => s[RunEnd(s, i, cs)] \notin cs
<1> DEFINE stops == {k \in i..Len(s) : s[k] \notin cs}
           j == RunEnd(s, i, cs)
<1>1. Len(s) \in Nat /\ stops \in SUBSET Nat
  OBVIOUS
<1>2. j = IF stops = {} THEN Len(s) + 1 ELSE Min(stops)
  BY DEF RunEnd
<1> HIDE DEF j
<1>3. CASE stops = {}
  <2>1. j = Len(s) + 1
    BY <1>2, <1>3
  <2>2. \A k \in i..Len(s) : s[k] \in cs
    BY <1>3
  <2> HIDE DEF stops
  <2>3. i..(j - 1) = i..Len(s)
    BY <1>1, <2>1
  <2> QED
    BY <1>1, <2>1, <2>2, <2>3 DEF j
<1>4. CASE stops # {}
  <2>1. j \in stops /\ \A y \in stops : j <= y
    BY <1>1, <1>2, <1>4, LeastIn
  <2>2. j \in i..Len(s) /\ s[j] \notin cs
    BY <2>1
  <2>3. ASSUME NEW k \in i..(j - 1) PROVE s[k] \in cs
    <3>1. k \in i..Len(s) /\ ~(j <= k)
      BY <1>1, <2>2
    <3> QED
      BY <2>1, <3>1
  <2> QED
    BY <1>1, <2>2, <2>3 DEF j
<1> QED
  BY <1>3, <1>4

\* The first place whose byte is in cs.
LEMMA FirstInIs ==
  ASSUME NEW E, NEW s \in Seq(E), NEW cs
  PROVE  /\ FirstIn(s, cs) \in 1..(Len(s) + 1)
         /\ \A k \in 1..(FirstIn(s, cs) - 1) : s[k] \notin cs
         /\ FirstIn(s, cs) <= Len(s) => s[FirstIn(s, cs)] \in cs
<1> DEFINE found == {k \in DOMAIN s : s[k] \in cs}
           j == FirstIn(s, cs)
<1>1. Len(s) \in Nat /\ DOMAIN s = 1..Len(s) /\ found \in SUBSET Nat
  OBVIOUS
<1>2. j = IF found = {} THEN Len(s) + 1 ELSE Min(found)
  BY DEF FirstIn
<1> HIDE DEF j
<1>3. CASE found = {}
  <2>1. j = Len(s) + 1
    BY <1>2, <1>3
  <2>2. \A k \in 1..Len(s) : s[k] \notin cs
    BY <1>1, <1>3
  <2> HIDE DEF found
  <2>3. 1..(j - 1) = 1..Len(s)
    BY <1>1, <2>1
  <2> QED
    BY <1>1, <2>1, <2>2, <2>3 DEF j
<1>4. CASE found # {}
  <2>1. j \in found /\ \A y \in found : j <= y
    BY <1>1, <1>2, <1>4, LeastIn
  <2>2. j \in 1..Len(s) /\ s[j] \in cs
    BY <1>1, <2>1
  <2>3. ASSUME NEW k \in 1..(j - 1) PROVE s[k] \notin cs
    <3>1. k \in 1..Len(s) /\ ~(j <= k)
      BY <1>1, <2>2
    <3> QED
      BY <1>1, <2>1, <3>1
  <2> QED
    BY <1>1, <2>2, <2>3 DEF j
<1> QED
  BY <1>3, <1>4

LEMMA PartOf ==
  ASSUME NEW E, NEW s \in Seq(E), NEW i \in 1..(Len(s) + 1), NEW j \in 0..Len(s)
  PROVE  /\ SubSeq(s, i, j) \in Seq(E)
         /\ Len(SubSeq(s, i, j)) = IF i <= j THEN j - i + 1 ELSE 0
         /\ \A k \in 1..(j - i + 1) : SubSeq(s, i, j)[k] = s[i + k - 1]
  OBVIOUS

\* The same, with what its members are.
LEMMA PartWithin ==
  ASSUME NEW E, NEW s \in Seq(E), NEW i \in 1..(Len(s) + 1), NEW j \in 0..Len(s), NEW cs,
         \A k \in i..j : s[k] \in cs
  PROVE  SubSeq(s, i, j) \in Seq(cs)
<1> DEFINE t == SubSeq(s, i, j)
           n == IF i <= j THEN j - i + 1 ELSE 0
<1>1. t \in Seq(E) /\ Len(t) = n /\ \A k \in 1..(j - i + 1) : t[k] = s[i + k - 1]
  BY PartOf
<1>2. \A k \in 1..n : t[k] \in cs
  <2> SUFFICES ASSUME NEW k \in 1..n PROVE t[k] \in cs
    OBVIOUS
  <2>1. k \in 1..(j - i + 1) /\ i + k - 1 \in i..j
    OBVIOUS
  <2> HIDE DEF t, n
  <2> QED
    BY <1>1, <2>1
<1>3. n \in Nat
  OBVIOUS
<1> HIDE DEF t, n
<1>4. t \in Seq(cs)
  BY <1>1, <1>2, <1>3
<1> QED
  BY <1>4 DEF t


-----------------------------------------------------------------------------
(* The transforms: values of bytes come out as values of bytes.              *)

\* What a scan writes at i is bytes, and no more than it reads.
Fits(p, i, n) == PutAt(p, Int, i, n) /\ Len(p.out) <= p.used

LEMMA FitsPut ==
  ASSUME NEW n \in Nat, NEW i \in 1..n, NEW out \in Seq(Int), NEW used \in Nat,
         Len(out) <= used, used # 0, i + used <= n + 1
  PROVE  Fits(Put(out, used), i, n)
<1> DEFINE p == Put(out, used)
<1>1. p.out = out /\ p.used = used
  BY DEF Put
<1> HIDE DEF p
<1>2. Fits(p, i, n)
  BY <1>1 DEF Fits, PutAt
<1> QED
  BY <1>2 DEF p

LEMMA FitsByte ==
  ASSUME NEW n \in Nat, NEW i \in 1..n, NEW b \in Int, NEW used \in Nat, used # 0, i + used <= n + 1
  PROVE  Fits(Put(<<b>>, used), i, n)
<1>1. <<b>> \in Seq(Int) /\ Len(<<b>>) = 1 /\ 1 <= used
  OBVIOUS
<1> QED
  BY <1>1, FitsPut

LEMMA FitsCopy ==
  ASSUME NEW s \in Seq(Int), NEW i \in 1..Len(s)
  PROVE  Fits(Copy(s, i), i, Len(s))
<1>1. Len(s) \in Nat /\ s[i] \in Int /\ i + 1 <= Len(s) + 1
  OBVIOUS
<1> QED
  BY <1>1, FitsByte DEF Copy

\* How far it is to a place further on.
LEMMA Apart ==
  ASSUME NEW n \in Nat, NEW i \in 1..n, NEW j \in (i + 1)..(n + 1)
  PROVE  j - i \in Nat /\ j - i # 0 /\ i + (j - i) = j /\ i + (j - i) <= n + 1
  OBVIOUS

LEMMA LenOfMap ==
  ASSUME NEW n \in Nat, NEW f, f = [i \in 1..n |-> f[i]]
  PROVE  Len(f) = n /\ DOMAIN f = 1..n
<1> DEFINE T == {f[i] : i \in 1..n}
<1>1. f \in [1..n -> T]
  OBVIOUS
<1> HIDE DEF T
<1>2. f \in Seq(T)
  BY <1>1
<1> QED
  BY <1>1, <1>2

\* So a scan whose writes all fit makes a value that is no longer.
LEMMA ScanIs ==
  ASSUME NEW s \in Seq(Int), NEW puts, puts = [i \in DOMAIN s |-> puts[i]],
         \A i \in 1..Len(s) : Fits(puts[i], i, Len(s))
  PROVE  Rewrite(puts) \in Seq(Int) /\ Len(Rewrite(puts)) <= Len(s)
<1>1. Len(s) \in Nat /\ DOMAIN s = 1..Len(s)
  OBVIOUS
<1>2. Len(puts) = Len(s) /\ DOMAIN puts = 1..Len(s)
  BY <1>1, LenOfMap
<1>3. Puts(puts, Int) /\ Shrinks(puts)
  BY <1>1, <1>2 DEF Puts, Shrinks, Fits
<1> QED
  BY <1>2, <1>3, RewriteType, RewriteShrinks

\* And one that copies everything leaves it alone.
LEMMA ScanCopies ==
  ASSUME NEW s \in Seq(Int), NEW puts, puts = [i \in DOMAIN s |-> puts[i]],
         \A i \in 1..Len(s) : puts[i] = Copy(s, i)
  PROVE  Rewrite(puts) = s
<1>1. Len(s) \in Nat /\ DOMAIN s = 1..Len(s)
  OBVIOUS
<1>2. Len(puts) = Len(s) /\ DOMAIN puts = 1..Len(s)
  BY <1>1, LenOfMap
<1> QED
  BY <1>1, <1>2, RewriteCopies

LEMMA DigitIs == \A b \in HexDigits : b \in Int /\ Digit[b] \in 0..15
<1> SUFFICES ASSUME NEW b \in HexDigits PROVE b \in Int /\ Digit[b] \in 0..15
  OBVIOUS
<1>1. b \in 48..57 \/ b \in 65..70 \/ b \in 97..102
  BY DEF HexDigits, Decimal
<1>2. Digit[b] = IF b \in 48..57 THEN b - 48 ELSE IF b \in 97..122 THEN b - 87 ELSE b - 55
  BY DEF Digit, Decimal, LowerCase
<1> QED
  BY <1>1, <1>2

LEMMA EscapedIs ==
  ASSUME NEW s \in Seq(Int), NEW i \in 1..Len(s), HexAt(s, i + 1, 2)
  PROVE  i + 3 <= Len(s) + 1 /\ Escaped(s, i) \in 0..255 /\ Escaped(s, i) \in Int
<1>1. i + 2 <= Len(s) /\ Len(s) \in Nat
  BY DEF HexAt, HasAt
<1>2. i + 1 \in (i + 1)..(i + 1 + 2 - 1) /\ i + 2 \in (i + 1)..(i + 1 + 2 - 1)
  OBVIOUS
<1>3. s[i + 1] \in HexDigits /\ s[i + 2] \in HexDigits
  BY <1>2 DEF HexAt
<1>4. PICK a \in 0..15, b \in 0..15 : a = Digit[s[i + 1]] /\ b = Digit[s[i + 2]]
  BY <1>3, DigitIs
<1>5. Escaped(s, i) = 16 * a + b
  BY <1>4 DEF Escaped
<1>6. 16 * a + b \in 0..255
  <2>1. a \in Nat /\ b \in Nat /\ a <= 15 /\ b <= 15
    OBVIOUS
  <2>2. 16 * a + b \in Nat /\ 16 * a + b <= 255
    BY <2>1
  <2> QED
    BY <2>2
<1>7. i + 3 <= Len(s) + 1
  BY <1>1
<1>8. 16 * a + b \in Int
  BY <1>6
<1> QED
  BY <1>5, <1>6, <1>7, <1>8

LEMMA Utf8Is ==
  ASSUME NEW r \in Nat
  PROVE  Utf8(r) \in Seq(Int) /\ Len(Utf8(r)) <= 4 /\ Len(Utf8(r)) \in Nat
<1>1. \A m \in {64, 256, 4096, 262144} : r % m \in Int /\ r \div m \in Int
  OBVIOUS
<1>2. (r \div 64) % 64 \in Int /\ (r \div 4096) % 64 \in Int /\ (240 + r \div 262144) % 256 \in Int
  BY <1>1
<1>3. CASE r < 128
  <2>1. Utf8(r) = <<r>>
    BY <1>3 DEF Utf8
  <2> QED
    BY <2>1
<1>4. CASE ~(r < 128) /\ r < 2048
  <2>1. Utf8(r) = <<192 + r \div 64, 128 + (r % 64)>>
    BY <1>4 DEF Utf8
  <2> QED
    BY <1>1, <2>1
<1>5. CASE ~(r < 128) /\ ~(r < 2048) /\ r < 65536
  <2>1. Utf8(r) = <<224 + r \div 4096, 128 + ((r \div 64) % 64), 128 + (r % 64)>>
    BY <1>5 DEF Utf8
  <2> QED
    BY <1>1, <1>2, <2>1
<1>6. CASE ~(r < 128) /\ ~(r < 2048) /\ ~(r < 65536)
  <2>1. Utf8(r) = <<(240 + r \div 262144) % 256, 128 + ((r \div 4096) % 64), 128 + ((r \div 64) % 64), 128 + (r % 64)>>
    BY <1>6 DEF Utf8
  <2> QED
    BY <1>1, <1>2, <2>1
<1> QED
  BY <1>3, <1>4, <1>5, <1>6

\* The number that digits spell.
SpelledRun(f, radix, s) ==
  /\ f \in [0..Len(s) -> Nat]
  /\ f[0] = 0
  /\ \A k \in 1..Len(s) : f[k] = f[k - 1] * radix + Digit[s[k]]
  /\ Spelled(s, radix) = f[Len(s)]

LEMMA SpelledFold ==
  ASSUME NEW radix \in Nat, NEW s \in Seq(HexDigits)
  PROVE  \E f : SpelledRun(f, radix, s)
<1> DEFINE T == Nat
           El == HexDigits
           op(v, d) == v * radix + Digit[d]
           base == 0
           step == [p \in T \X El |-> op(p[1], p[2])]
           Is(h) == h = [S \in SUBSET DOMAIN s |->
                           IF S = {} THEN base ELSE op(h[S \ {Max(S)}], s[Max(S)])]
           iter == CHOOSE h : Is(h)
<1>1. base \in T
  OBVIOUS
<1>a. \A t \in T, x \in El : op(t, x) \in T
  <2> SUFFICES ASSUME NEW t \in T, NEW x \in El PROVE op(t, x) \in T
    OBVIOUS
  <2>1. PICK n \in 0..15 : n = Digit[x]
    BY DigitIs
  <2>2. t \in Nat
    OBVIOUS
  <2>3. t * radix \in Nat
    BY <2>2
  <2> QED
    BY SMTT(30), <2>1, <2>2, <2>3
<1>2. Spelled(s, radix) = iter[DOMAIN s]
  BY DEF Spelled, FoldLeft, MapThenFoldSet
<1>0. s \in Seq(El)
  OBVIOUS
<1> HIDE DEF op, base, T, El
<1>3. step \in [T \X El -> T]
  BY <1>a
<1>b. \A t \in T, x \in El : step[<<t, x>>] = op(t, x)
  OBVIOUS
<1> HIDE DEF step
<1>4. PICK g : Partial(g, T, s, base, step, Len(s))
  BY <1>0, <1>1, <1>3, FoldExists
<1>5. ASSUME NEW S \in SUBSET DOMAIN s, S # {} PROVE g[S] = op(g[S \ {Max(S)}], s[Max(S)])
  <2>1. Max(S) \in S /\ g[S] = step[<<g[S \ {Max(S)}], s[Max(S)]>>] /\ g \in [SUBSET DOMAIN s -> T]
    BY <1>0, <1>4, <1>5, DomainOfSeq DEF Partial
  <2>2. g[S \ {Max(S)}] \in T /\ s[Max(S)] \in El
    BY <1>0, <2>1
  <2> QED
    BY <1>b, <2>1, <2>2
<1>6. g[{}] = base /\ g = [S \in SUBSET DOMAIN s |-> g[S]]
  BY <1>0, <1>4, PartialBase
<1>7. Is(iter)
  <2>1. Is(g)
    BY <1>5, <1>6
  <2> QED
    BY <2>1
<1> HIDE DEF iter
<1>8. iter[{}] = base
  BY <1>7
<1>9. ASSUME NEW S \in SUBSET DOMAIN s, S # {}, iter[S \ {Max(S)}] \in T, s[Max(S)] \in El
      PROVE  iter[S] = step[<<iter[S \ {Max(S)}], s[Max(S)]>>]
  BY <1>7, <1>9, <1>b
<1> HIDE DEF Is
<1>10. Steps(iter, T, El, s, base, step)
  BY <1>8, <1>9 DEF Steps
<1>12. PICK f : Runs(f, T, s, base, step, iter[DOMAIN s])
  BY <1>0, <1>1, <1>3, <1>10, FoldRuns
<1>13. f \in [0..Len(s) -> T] /\ f[0] = base /\ f[Len(s)] = iter[DOMAIN s]
  BY <1>12 DEF Runs
<1>11. \A k \in 1..Len(s) : f[k] = op(f[k - 1], s[k])
  BY <1>0, <1>b, <1>12, <1>13, InsideFold DEF Runs
<1> QED
  BY <1>2, <1>11, <1>13 DEF op, base, T, SpelledRun

LEMMA SpelledIs ==
  ASSUME NEW radix \in Nat, NEW s \in Seq(HexDigits)
  PROVE  Spelled(s, radix) \in Nat
<1>1. PICK f : SpelledRun(f, radix, s)
  BY SpelledFold
<1>2. Len(s) \in 0..Len(s)
  OBVIOUS
<1> QED
  BY <1>1, <1>2 DEF SpelledRun

\* The value a transform makes is one of bytes, and no longer.
Within(out, s) == out \in Seq(Int) /\ Len(out) <= Len(s)

LEMMA FoldIs == \A b \in Int : Fold(b) \in Int
  BY DEF Fold

LEMMA FoldCaseIs ==
  ASSUME NEW s \in Seq(Int)
  PROVE  /\ Within(FoldCase(s), s)
         /\ (\A i \in DOMAIN s : s[i] \notin UpperCase) => FoldCase(s) = s
<1>0. Len(s) \in Nat /\ DOMAIN s = 1..Len(s) /\ \A i \in 1..Len(s) : s[i] \in Int
  OBVIOUS
<1>1. Len(s) \in Nat /\ DOMAIN s = 1..Len(s) /\ \A i \in 1..Len(s) : s[i] \in Int /\ Fold(s[i]) \in Int
  BY <1>0, FoldIs
<1>2. FoldCase(s) = [i \in 1..Len(s) |-> Fold(s[i])]
  BY <1>1 DEF FoldCase
<1>3. FoldCase(s) \in Seq(Int) /\ Len(FoldCase(s)) = Len(s)
  BY <1>1, <1>2
<1>4. ASSUME \A i \in DOMAIN s : s[i] \notin UpperCase PROVE FoldCase(s) = s
  <2>1. \A i \in 1..Len(s) : Fold(s[i]) = s[i]
    BY <1>1, <1>4 DEF Fold
  <2>2. s = [i \in 1..Len(s) |-> s[i]]
    OBVIOUS
  <2> QED
    BY <1>2, <2>1, <2>2
<1> QED
  BY <1>1, <1>3, <1>4 DEF Within

LEMMA URLDecodeIs ==
  ASSUME NEW s \in Seq(Int)
  PROVE  /\ Within(URLDecode(s), s)
         /\ (\A i \in DOMAIN s : s[i] \notin {Percent, Plus}) => URLDecode(s) = s
<1> DEFINE puts == [i \in DOMAIN s |->
              IF s[i] = Plus THEN Put(<<Space>>, 1)
              ELSE IF EscapeAt(s, i) THEN Put(<<Escaped(s, i)>>, 3) ELSE Copy(s, i)]
<1>1. URLDecode(s) = Rewrite(puts) /\ puts = [i \in DOMAIN s |-> puts[i]]
  BY DEF URLDecode
<1>0. Len(s) \in Nat /\ DOMAIN s = 1..Len(s)
  OBVIOUS
<1>2. ASSUME NEW i \in 1..Len(s) PROVE Fits(puts[i], i, Len(s))
  <2>1. CASE s[i] = Plus
    <3>1. puts[i] = Put(<<Space>>, 1) /\ Space \in Int /\ i + 1 <= Len(s) + 1
      BY <1>0, <2>1 DEF Space
    <3> QED
      BY <1>0, <3>1, FitsByte
  <2>2. CASE s[i] # Plus /\ EscapeAt(s, i)
    <3>1. puts[i] = Put(<<Escaped(s, i)>>, 3)
      BY <1>0, <2>2
    <3>2. i + 3 <= Len(s) + 1 /\ Escaped(s, i) \in Int
      <4>1. HexAt(s, i + 1, 2)
        BY <2>2 DEF EscapeAt
      <4> QED
        BY <4>1, EscapedIs
    <3> QED
      BY <1>0, <3>1, <3>2, FitsByte
  <2>3. CASE s[i] # Plus /\ ~EscapeAt(s, i)
    <3>1. puts[i] = Copy(s, i)
      BY <1>0, <2>3
    <3> QED
      BY <3>1, FitsCopy
  <2> QED
    BY <2>1, <2>2, <2>3
<1>3. ASSUME \A i \in DOMAIN s : s[i] \notin {Percent, Plus} PROVE \A i \in 1..Len(s) : puts[i] = Copy(s, i)
  BY <1>0, <1>3 DEF EscapeAt
<1> HIDE DEF puts
<1>4. Within(URLDecode(s), s)
  BY <1>1, <1>2, ScanIs DEF Within
<1> QED
  BY <1>1, <1>3, <1>4, ScanCopies

LEMMA CompressWhitespaceIs ==
  ASSUME NEW s \in Seq(Int)
  PROVE  /\ Within(CompressWhitespace(s), s)
         /\ (\A i \in DOMAIN s : ~(s[i] \in Blanks /\ (s[i] # Space \/ (i > 1 /\ s[i - 1] \in Blanks))))
              => CompressWhitespace(s) = s
<1> DEFINE puts == [i \in DOMAIN s |->
              IF s[i] \in Blanks THEN Put(<<Space>>, RunEnd(s, i, Blanks) - i) ELSE Copy(s, i)]
<1>1. CompressWhitespace(s) = Rewrite(puts) /\ puts = [i \in DOMAIN s |-> puts[i]]
  BY DEF CompressWhitespace
<1>0. Len(s) \in Nat /\ DOMAIN s = 1..Len(s)
  OBVIOUS
<1>5. ASSUME NEW i \in 1..Len(s), s[i] \in Blanks
      PROVE  /\ puts[i] = Put(<<Space>>, RunEnd(s, i, Blanks) - i)
             /\ RunEnd(s, i, Blanks) \in (i + 1)..(Len(s) + 1)
  <2>1. puts[i] = Put(<<Space>>, RunEnd(s, i, Blanks) - i)
    BY <1>0, <1>5
  <2>2. i \in 1..(Len(s) + 1)
    BY <1>0
  <2>3. PICK e : e = RunEnd(s, i, Blanks)
    OBVIOUS
  <2>4. e \in i..(Len(s) + 1) /\ (e <= Len(s) => s[e] \notin Blanks)
    BY <2>2, <2>3, RunEndIs
  <2>5. e # i
    BY <1>0, <1>5, <2>4
  <2>6. e \in (i + 1)..(Len(s) + 1)
    BY <1>0, <2>4, <2>5
  <2> QED
    BY <2>1, <2>3, <2>6
<1>2. ASSUME NEW i \in 1..Len(s) PROVE Fits(puts[i], i, Len(s))
  <2>1. CASE s[i] \in Blanks
    <3>1. PICK e \in (i + 1)..(Len(s) + 1) : puts[i] = Put(<<Space>>, e - i)
      BY <1>5, <2>1
    <3>2. e - i \in Nat /\ e - i # 0 /\ i + (e - i) <= Len(s) + 1 /\ Space \in Int
      BY <1>0, <3>1 DEF Space
    <3> QED
      BY <1>0, <3>1, <3>2, FitsByte
  <2>2. CASE s[i] \notin Blanks
    <3>1. puts[i] = Copy(s, i)
      BY <1>0, <2>2
    <3> QED
      BY <3>1, FitsCopy
  <2> QED
    BY <2>1, <2>2
<1>3. ASSUME \A i \in DOMAIN s : ~(s[i] \in Blanks /\ (s[i] # Space \/ (i > 1 /\ s[i - 1] \in Blanks))),
             NEW i \in 1..Len(s)
      PROVE  puts[i] = Copy(s, i)
  <2>1. CASE s[i] \in Blanks
    <3>1. s[i] = Space
      BY <1>0, <1>3, <2>1
    <3>2. PICK e : e = RunEnd(s, i, Blanks)
      OBVIOUS
    <3>3. e \in (i + 1)..(Len(s) + 1) /\ puts[i] = Put(<<Space>>, e - i)
      BY <1>5, <2>1, <3>2
    <3>4. i \in 1..(Len(s) + 1) /\ \A k \in i..(e - 1) : s[k] \in Blanks
      BY <1>0, <3>2, RunEndIs
    <3>5. e = i + 1
      <4>1. SUFFICES ASSUME e # i + 1 PROVE FALSE
        OBVIOUS
      <4>2. i + 1 \in i..(e - 1) /\ i + 1 \in DOMAIN s /\ i + 1 > 1 /\ (i + 1) - 1 = i
        BY <1>0, <3>3, <4>1
      <4>3. s[i + 1] \in Blanks
        BY <3>4, <4>2
      <4> QED
        BY <1>3, <2>1, <4>2, <4>3
    <3>6. e - i = 1
      BY <3>5
    <3> QED
      BY <3>1, <3>3, <3>6 DEF Copy
  <2>2. CASE s[i] \notin Blanks
    BY <1>0, <2>2
  <2> QED
    BY <2>1, <2>2
<1> HIDE DEF puts
<1>4. Within(CompressWhitespace(s), s)
  BY <1>1, <1>2, ScanIs DEF Within
<1> QED
  BY <1>1, <1>3, <1>4, ScanCopies

\* What is chosen is never more than there is, and all of it when all is chosen.
LEMMA ThoseLength ==
  ASSUME NEW E, NEW s \in Seq(E), NEW chosen
  PROVE  /\ Len(Those(s, chosen)) <= Len(s)
         /\ (\A i \in DOMAIN s : s[i] \in chosen) => Those(s, chosen) = s
<1>0. Len(s) \in Nat /\ DOMAIN s = 1..Len(s)
  OBVIOUS
<1>1. PICK f : ThoseRun(f, E, s, chosen)
  BY ThoseFold
<1>2. f \in [0..Len(s) -> Seq(E)] /\ f[0] = <<>> /\ Those(s, chosen) = f[Len(s)]
  BY <1>1 DEF ThoseRun
<1>3. ASSUME NEW k \in 1..Len(s)
      PROVE  /\ f[k] = IF s[k] \in chosen THEN Append(f[k - 1], s[k]) ELSE f[k - 1]
             /\ f[k - 1] \in Seq(E) /\ s[k] \in E /\ k \in 0..Len(s) /\ k - 1 \in 0..Len(s)
  <2>1. k - 1 \in 0..Len(s)
    BY <1>0
  <2> QED
    BY SMTT(30), <1>0, <1>1, <1>2, <2>1 DEF ThoseRun
<1> DEFINE good == {k \in 0..Len(s) : Len(f[k]) <= k /\ Len(f[k]) \in Nat}
<1>4. 0 \in good
  BY <1>0, <1>2
<1>5. ASSUME NEW k \in 1..Len(s), k - 1 \in good PROVE k \in good
  <2>1. Len(f[k - 1]) <= k - 1 /\ Len(f[k - 1]) \in Nat
    BY <1>5
  <2>4. f[k] = Append(f[k - 1], s[k]) \/ f[k] = f[k - 1]
    BY <1>3
  <2>5. f[k - 1] \in Seq(E) /\ s[k] \in E
    BY <1>3
  <2>6. Len(Append(f[k - 1], s[k])) = Len(f[k - 1]) + 1
    BY <2>5
  <2>2. Len(f[k]) = Len(f[k - 1]) + 1 \/ f[k] = f[k - 1]
    BY <2>4, <2>6
  <2>3. Len(f[k]) <= k /\ Len(f[k]) \in Nat
    BY <1>0, <2>1, <2>2
  <2> QED
    BY <1>3, <2>3
<1> HIDE DEF good
<1>9. 0..Len(s) \subseteq good
  BY <1>0, <1>4, <1>5, UpTo
<1>6. Len(s) \in good
  BY <1>0, <1>9
<1>7. Len(Those(s, chosen)) <= Len(s)
  BY <1>2, <1>6 DEF good
<1>8. ASSUME \A i \in DOMAIN s : s[i] \in chosen PROVE Those(s, chosen) = s
  <2> DEFINE same == {k \in 0..Len(s) : f[k] = SubSeq(s, 1, k)}
  <2>1. 0 \in same
    BY <1>0, <1>2
  <2>2. ASSUME NEW k \in 1..Len(s), k - 1 \in same PROVE k \in same
    <3>1. f[k] = Append(SubSeq(s, 1, k - 1), s[k])
      BY <1>0, <1>3, <1>8, <2>2
    <3>2. Append(SubSeq(s, 1, k - 1), s[k]) = SubSeq(s, 1, k)
      BY <1>0
    <3> QED
      BY <1>3, <3>1, <3>2
  <2> HIDE DEF same
  <2>5. 0..Len(s) \subseteq same
    BY <1>0, <2>1, <2>2, UpTo
  <2>3. Len(s) \in same
    BY <1>0, <2>5
  <2>4. SubSeq(s, 1, Len(s)) = s
    BY <1>0
  <2> QED
    BY <1>2, <2>3, <2>4 DEF same
<1> QED
  BY <1>7, <1>8

LEMMA RemoveWhitespaceIs ==
  ASSUME NEW s \in Seq(Int)
  PROVE  /\ Within(RemoveWhitespace(s), s)
         /\ (\A i \in DOMAIN s : s[i] \notin Blanks) => RemoveWhitespace(s) = s
<1>1. RemoveWhitespace(s) \in Seq(Int) /\ Len(RemoveWhitespace(s)) <= Len(s)
  BY RangeOfThose, ThoseLength DEF RemoveWhitespace
<1>2. ASSUME \A i \in DOMAIN s : s[i] \notin Blanks PROVE RemoveWhitespace(s) = s
  <2>1. \A i \in DOMAIN s : s[i] \in Range(s) \ Blanks
    BY <1>2, RangeIs
  <2> QED
    BY <2>1, ThoseLength DEF RemoveWhitespace
<1> QED
  BY <1>1, <1>2 DEF Within

\* A numeric escape: its digits are there, and say a number.
LEMMA NumericIs ==
  ASSUME NEW s \in Seq(Int), NEW i \in 1..Len(s), NumericWidth(s, i) > 0, NumericAt(s, i)
  PROVE  Fits(Numeric(s, i), i, Len(s))
<1>0. Len(s) \in Nat /\ DOMAIN s = 1..Len(s)
  OBVIOUS
<1>1. PICK w \in {2, 4} : w = NumericWidth(s, i)
  BY DEF NumericWidth
<1>2. i + 1 + w <= Len(s) /\ \A k \in (i + 2)..(i + 1 + w) : s[k] \in HexDigits
  <2>1. i + 2 + w - 1 = i + 1 + w
    BY <1>1
  <2> QED
    BY <1>1, <2>1 DEF NumericAt, HexAt, HasAt
<1>3. SubSeq(s, i + 2, i + 1 + w) \in Seq(HexDigits)
  <2>1. i + 2 \in 1..(Len(s) + 1) /\ i + 1 + w \in 0..Len(s)
    BY SMTT(30), <1>0, <1>1, <1>2
  <2> QED
    BY <1>2, <2>1, PartWithin
<1>4. Spelled(SubSeq(s, i + 2, i + 1 + w), 16) \in Nat
  BY <1>3, SpelledIs
<1>5. PICK out : out = Utf8(Spelled(SubSeq(s, i + 2, i + 1 + w), 16))
  OBVIOUS
<1>6. out \in Seq(Int) /\ Len(out) <= 4 /\ Len(out) \in Nat
  BY <1>4, <1>5, Utf8Is
<1>7. 2 + w \in Nat /\ Len(out) <= 2 + w /\ 2 + w # 0 /\ i + (2 + w) <= Len(s) + 1
  <2>1. PICK n \in Nat, m \in Nat : n = Len(s) /\ m = Len(out) /\ m <= 4
    BY Zenon, <1>0, <1>6
  <2>2. w \in Nat /\ w >= 2 /\ i \in Nat /\ i + 1 + w <= n
    BY SMTT(30), <1>1, <1>2, <2>1
  <2>3. 2 + w \in Nat /\ m <= 2 + w /\ 2 + w # 0 /\ i + (2 + w) <= n + 1
    BY <2>1, <2>2
  <2> QED
    BY <2>1, <2>3
<1>8. Fits(Put(out, 2 + w), i, Len(s))
  BY <1>0, <1>6, <1>7, FitsPut
<1> QED
  BY <1>1, <1>5, <1>8 DEF Numeric

LEMMA HexEscapeDecodeIs ==
  ASSUME NEW s \in Seq(Int)
  PROVE  /\ Within(HexEscapeDecode(s), s)
         /\ (\A i \in DOMAIN s : ~(s[i] = Backslash /\ NumericWidth(s, i) > 0 /\ NumericAt(s, i)))
              => HexEscapeDecode(s) = s
<1> DEFINE puts == [i \in DOMAIN s |->
              IF s[i] = Backslash /\ NumericWidth(s, i) > 0 /\ NumericAt(s, i) THEN Numeric(s, i) ELSE Copy(s, i)]
<1>1. HexEscapeDecode(s) = Rewrite(puts) /\ puts = [i \in DOMAIN s |-> puts[i]]
  BY DEF HexEscapeDecode
<1>0. Len(s) \in Nat /\ DOMAIN s = 1..Len(s)
  OBVIOUS
<1>2. ASSUME NEW i \in 1..Len(s) PROVE Fits(puts[i], i, Len(s))
  <2>1. CASE s[i] = Backslash /\ NumericWidth(s, i) > 0 /\ NumericAt(s, i)
    <3>1. puts[i] = Numeric(s, i)
      BY <1>0, <2>1
    <3> QED
      BY <2>1, <3>1, NumericIs
  <2>2. CASE ~(s[i] = Backslash /\ NumericWidth(s, i) > 0 /\ NumericAt(s, i))
    <3>1. puts[i] = Copy(s, i)
      BY <1>0, <2>2
    <3> QED
      BY <3>1, FitsCopy
  <2> QED
    BY <2>1, <2>2
<1>3. ASSUME \A i \in DOMAIN s : ~(s[i] = Backslash /\ NumericWidth(s, i) > 0 /\ NumericAt(s, i))
      PROVE  \A i \in 1..Len(s) : puts[i] = Copy(s, i)
  BY <1>0, <1>3
<1> HIDE DEF puts
<1>4. Within(HexEscapeDecode(s), s)
  BY <1>1, <1>2, ScanIs DEF Within
<1> QED
  BY <1>1, <1>3, <1>4, ScanCopies

LEMMA SimpleEscapeIs == \A b \in DOMAIN SimpleEscape : SimpleEscape[b] \in Int
<1> SUFFICES ASSUME NEW b \in DOMAIN SimpleEscape PROVE SimpleEscape[b] \in Int
  OBVIOUS
<1>1. b \in OctetSet("nrtvfb0")
  BY DEF SimpleEscape
<1>2. SimpleEscape[b] =
        CASE b = Code["n"] -> Newline [] b = Code["r"] -> Return [] b = Code["t"] -> 9
          [] b = Code["v"] -> 11 [] b = Code["f"] -> 12 [] b = Code["b"] -> 8 [] OTHER -> 0
  BY <1>1 DEF SimpleEscape
<1> QED
  BY <1>2 DEF Newline, Return

\* Up to so many digits from i, where there is one.
LEMMA DigitsAt ==
  ASSUME NEW s \in Seq(Int), NEW i \in 1..Len(s), NEW cs \in SUBSET HexDigits, NEW most \in Nat, most > 0, s[i] \in cs
  PROVE  /\ Min({RunEnd(s, i, cs), i + most}) \in (i + 1)..(Len(s) + 1)
         /\ SubSeq(s, i, Min({RunEnd(s, i, cs), i + most}) - 1) \in Seq(HexDigits)
<1>0. Len(s) \in Nat /\ i \in 1..(Len(s) + 1)
  OBVIOUS
<1>1. PICK e : e = RunEnd(s, i, cs)
  OBVIOUS
<1>2. /\ e \in i..(Len(s) + 1) /\ \A k \in i..(e - 1) : s[k] \in cs
      /\ e <= Len(s) => s[e] \notin cs
  BY <1>0, <1>1, RunEndIs
<1>3. e # i
  BY <1>0, <1>2
<1>4. PICK j : j = Min({e, i + most})
  OBVIOUS
<1>5. j = IF e <= i + most THEN e ELSE i + most
  BY <1>0, <1>2, <1>4, LeastOfTwo
<1>6. j \in (i + 1)..(Len(s) + 1) /\ j <= e
  BY <1>0, <1>2, <1>3, <1>5
<1>7. \A k \in i..(j - 1) : s[k] \in HexDigits
  <2> SUFFICES ASSUME NEW k \in i..(j - 1) PROVE s[k] \in HexDigits
    OBVIOUS
  <2>1. k \in i..(e - 1)
    BY <1>0, <1>2, <1>6
  <2> QED
    BY <1>2, <2>1
<1>8. SubSeq(s, i, j - 1) \in Seq(HexDigits)
  <2>1. j - 1 \in 0..Len(s)
    BY <1>0, <1>6
  <2> QED
    BY <1>0, <1>7, <2>1, PartWithin
<1> QED
  BY <1>1, <1>4, <1>6, <1>8

\* An octal escape.
LEMMA OctalIs ==
  ASSUME NEW s \in Seq(Int), NEW i \in 1..Len(s), HasAt(s, i, 2), s[i + 1] \in Octal,
         NEW j, j = Min({RunEnd(s, i + 1, Octal), i + 4})
  PROVE  Fits(Put(<<Min({Spelled(SubSeq(s, i + 1, j - 1), 8), 255})>>, j - i), i, Len(s))
<1>0. Len(s) \in Nat /\ i + 1 \in 1..Len(s) /\ (i + 1) + 3 = i + 4
  BY DEF HasAt
<1>1. Octal \in SUBSET HexDigits
  BY DEF Octal, HexDigits, Decimal
<1>2. j \in (i + 2)..(Len(s) + 1) /\ SubSeq(s, i + 1, j - 1) \in Seq(HexDigits)
  <2>1. PICK k \in 1..Len(s) : k = i + 1
    BY <1>0
  <2>2. k + 1 = i + 2 /\ k + 3 = i + 4 /\ s[k] \in Octal /\ j = Min({RunEnd(s, k, Octal), k + 3})
    BY <1>0, <2>1
  <2>4. /\ Min({RunEnd(s, k, Octal), k + 3}) \in (k + 1)..(Len(s) + 1)
        /\ SubSeq(s, k, Min({RunEnd(s, k, Octal), k + 3}) - 1) \in Seq(HexDigits)
    <3>1. s[k] \in Octal /\ 3 \in Nat /\ 3 > 0
      BY <2>2
    <3> QED
      BY <1>1, <3>1, DigitsAt
  <2>3. j \in (k + 1)..(Len(s) + 1) /\ SubSeq(s, k, j - 1) \in Seq(HexDigits)
    BY <2>2, <2>4
  <2> QED
    BY <2>1, <2>2, <2>3
<1>3. PICK v \in Nat : v = Spelled(SubSeq(s, i + 1, j - 1), 8)
  BY <1>2, SpelledIs
<1>4. Min({v, 255}) \in Int
  BY SMTT(30), LeastOfTwo
<1>5. j - i \in Nat /\ j - i # 0 /\ i + (j - i) <= Len(s) + 1
  <2>1. j \in (i + 1)..(Len(s) + 1)
    BY <1>0, <1>2
  <2> QED
    BY <1>0, <2>1, Apart
<1> QED
  BY <1>0, <1>3, <1>4, <1>5, FitsByte

LEMMA EscapeDecodeIs ==
  ASSUME NEW s \in Seq(Int)
  PROVE  /\ Within(EscapeDecode(s), s)
         /\ (\A i \in DOMAIN s : s[i] # Backslash) => EscapeDecode(s) = s
<1> DEFINE puts == [i \in DOMAIN s |->
    IF s[i] # Backslash \/ ~HasAt(s, i, 2) THEN Copy(s, i)
    ELSE IF NumericWidth(s, i) > 0 THEN IF NumericAt(s, i) THEN Numeric(s, i) ELSE Copy(s, i)
    ELSE IF s[i + 1] \in Octal
      THEN LET j == Min({RunEnd(s, i + 1, Octal), i + 4})
           IN  Put(<<Min({Spelled(SubSeq(s, i + 1, j - 1), 8), 255})>>, j - i)
    ELSE IF s[i + 1] \in DOMAIN SimpleEscape THEN Put(<<SimpleEscape[s[i + 1]]>>, 2)
    ELSE Put(<<s[i + 1]>>, 2)]
<1>1. EscapeDecode(s) = Rewrite(puts) /\ puts = [i \in DOMAIN s |-> puts[i]]
  BY DEF EscapeDecode
<1>0. Len(s) \in Nat /\ DOMAIN s = 1..Len(s)
  OBVIOUS
<1>2. ASSUME NEW i \in 1..Len(s) PROVE Fits(puts[i], i, Len(s))
  <2>0. i \in DOMAIN s
    BY <1>0
  <2>1. CASE puts[i] = Copy(s, i)
    BY <2>1, FitsCopy
  <2>2. CASE s[i] = Backslash /\ HasAt(s, i, 2) /\ NumericWidth(s, i) > 0 /\ NumericAt(s, i)
    <3>1. puts[i] = Numeric(s, i)
      BY <2>0, <2>2
    <3> QED
      BY <2>2, <3>1, NumericIs
  <2>3. CASE s[i] = Backslash /\ HasAt(s, i, 2) /\ ~(NumericWidth(s, i) > 0)
    <3>0. s[i + 1] \in Int /\ i + 2 <= Len(s) + 1
      BY <1>0, <2>3 DEF HasAt
    <3>1. CASE s[i + 1] \in Octal
      <4>1. PICK j : j = Min({RunEnd(s, i + 1, Octal), i + 4})
        OBVIOUS
      <4>2. puts[i] = Put(<<Min({Spelled(SubSeq(s, i + 1, j - 1), 8), 255})>>, j - i)
        BY <2>0, <2>3, <3>1, <4>1
      <4> HIDE DEF puts
      <4> QED
        BY <2>3, <3>1, <4>1, <4>2, OctalIs
    <3>2. CASE s[i + 1] \notin Octal /\ s[i + 1] \in DOMAIN SimpleEscape
      <4>1. puts[i] = Put(<<SimpleEscape[s[i + 1]]>>, 2)
        BY <2>0, <2>3, <3>2
      <4> HIDE DEF puts
      <4>2. SimpleEscape[s[i + 1]] \in Int
        BY <3>2, SimpleEscapeIs
      <4> QED
        BY <1>0, <3>0, <4>1, <4>2, FitsByte
    <3>3. CASE s[i + 1] \notin Octal /\ s[i + 1] \notin DOMAIN SimpleEscape
      <4>1. puts[i] = Put(<<s[i + 1]>>, 2)
        BY <2>0, <2>3, <3>3
      <4> HIDE DEF puts
      <4> QED
        BY <1>0, <3>0, <4>1, FitsByte
    <3> QED
      BY <3>1, <3>2, <3>3
  <2>4. CASE s[i] # Backslash \/ ~HasAt(s, i, 2)
    BY <2>0, <2>1, <2>4
  <2>5. CASE s[i] = Backslash /\ HasAt(s, i, 2) /\ NumericWidth(s, i) > 0 /\ ~NumericAt(s, i)
    BY <2>0, <2>1, <2>5
  <2> QED
    BY <2>2, <2>3, <2>4, <2>5
<1>3. ASSUME \A i \in DOMAIN s : s[i] # Backslash PROVE \A i \in 1..Len(s) : puts[i] = Copy(s, i)
  BY <1>0, <1>3
<1> HIDE DEF puts
<1>4. Within(EscapeDecode(s), s)
  BY <1>1, <1>2, ScanIs DEF Within
<1> QED
  BY <1>1, <1>3, <1>4, ScanCopies

\* Behind a newline: one place further, or two.
LEMMA NewlineIs ==
  ASSUME NEW s \in Seq(Int), NEW i \in 1..Len(s)
  PROVE  BehindNewline(s, i) \in {i + 1, i + 2} /\ BehindNewline(s, i) \in (i + 1)..(Len(s) + 1)
<1>0. Len(s) \in Nat /\ i \in Nat
  OBVIOUS
<1>1. CASE PairAt(s, i, Return, Newline)
  <2>1. i + 1 <= Len(s)
    BY <1>0, <1>1 DEF PairAt, HasAt
  <2> QED
    BY <1>0, <1>1, <2>1 DEF BehindNewline
<1>2. CASE ~PairAt(s, i, Return, Newline)
  BY <1>0, <1>2 DEF BehindNewline
<1> QED
  BY <1>1, <1>2

LEMMA ModIs == \A v \in Nat : v % 256 \in Int
  OBVIOUS

LEMMA CSSDecodeIs ==
  ASSUME NEW s \in Seq(Int)
  PROVE  /\ Within(CSSDecode(s), s)
         /\ (\A i \in DOMAIN s : s[i] # Backslash) => CSSDecode(s) = s
<1> DEFINE last(i) == Min({RunEnd(s, i + 1, HexDigits), i + 7})
           delimited(i) == HasAt(s, last(i), 1) /\ s[last(i)] \in Blanks \ {11}
           puts == [i \in DOMAIN s |->
             IF s[i] # Backslash \/ ~HasAt(s, i, 2) THEN Copy(s, i)
             ELSE IF s[i + 1] \in {Newline, Return} THEN Put(<<>>, BehindNewline(s, i + 1) - i)
             ELSE IF s[i + 1] \notin HexDigits THEN Put(<<s[i + 1]>>, 2)
             ELSE Put(<<Spelled(SubSeq(s, i + 1, last(i) - 1), 16) % 256>>,
                      (IF delimited(i) THEN BehindNewline(s, last(i)) ELSE last(i)) - i)]
<1>1. CSSDecode(s) = Rewrite(puts) /\ puts = [i \in DOMAIN s |-> puts[i]]
  BY DEF CSSDecode
<1>0. Len(s) \in Nat /\ DOMAIN s = 1..Len(s)
  OBVIOUS
<1> HIDE DEF last, delimited
<1>2. ASSUME NEW i \in 1..Len(s) PROVE Fits(puts[i], i, Len(s))
  <2>0. i \in DOMAIN s
    BY <1>0
  <2>1. CASE s[i] # Backslash \/ ~HasAt(s, i, 2)
    <3>1. puts[i] = Copy(s, i)
      BY <2>0, <2>1
    <3> QED
      BY <3>1, FitsCopy
  <2>2. CASE ~(s[i] # Backslash \/ ~HasAt(s, i, 2))
    <3>0. PICK k \in 1..Len(s) : k = i + 1
      BY <1>0, <2>2 DEF HasAt
    <3>1. CASE s[i + 1] \in {Newline, Return}
      <4>1. puts[i] = Put(<<>>, BehindNewline(s, k) - i)
        BY <2>0, <2>2, <3>0, <3>1
      <4>2. PICK e : e = BehindNewline(s, k)
        OBVIOUS
      <4>3. e \in (k + 1)..(Len(s) + 1)
        BY <4>2, NewlineIs
      <4>4. e \in (i + 1)..(Len(s) + 1)
        BY <1>0, <3>0, <4>3
      <4>5. <<>> \in Seq(Int) /\ Len(<<>>) = 0
        OBVIOUS
      <4>6. e - i \in Nat /\ e - i # 0 /\ i + (e - i) <= Len(s) + 1
        BY <1>0, <4>4, Apart
      <4>7. Len(<<>>) <= e - i
        BY <4>5, <4>6
      <4> HIDE DEF puts
      <4> QED
        BY <1>0, <4>1, <4>2, <4>5, <4>6, <4>7, FitsPut
    <3>2. CASE s[i + 1] \notin {Newline, Return} /\ s[i + 1] \notin HexDigits
      <4>1. puts[i] = Put(<<s[i + 1]>>, 2) /\ s[i + 1] \in Int
        BY <2>0, <2>2, <3>0, <3>2
      <4>2. i + 2 <= Len(s) + 1
        BY <1>0, <3>0
      <4> HIDE DEF puts
      <4> QED
        BY <1>0, <4>1, <4>2, FitsByte
    <3>3. CASE s[i + 1] \notin {Newline, Return} /\ s[i + 1] \in HexDigits
      <4>1. PICK j : j = last(i)
        OBVIOUS
      <4>2. PICK e : e = IF delimited(i) THEN BehindNewline(s, j) ELSE j
        OBVIOUS
      <4>3. puts[i] = Put(<<Spelled(SubSeq(s, k, j - 1), 16) % 256>>, e - i)
        BY <2>0, <2>2, <3>0, <3>3, <4>1, <4>2
      <4> HIDE DEF puts
      <4>4. j = Min({RunEnd(s, k, HexDigits), k + 6})
        <5>1. k + 6 = i + 7
          BY <3>0
        <5> QED
          BY <3>0, <4>1, <5>1 DEF last
      <4>5. /\ Min({RunEnd(s, k, HexDigits), k + 6}) \in (k + 1)..(Len(s) + 1)
            /\ SubSeq(s, k, Min({RunEnd(s, k, HexDigits), k + 6}) - 1) \in Seq(HexDigits)
        <5>1. s[k] \in HexDigits /\ HexDigits \in SUBSET HexDigits /\ 6 \in Nat /\ 6 > 0
          BY <3>0, <3>3
        <5> QED
          BY <5>1, DigitsAt
      <4>6. j \in (k + 1)..(Len(s) + 1) /\ SubSeq(s, k, j - 1) \in Seq(HexDigits)
        BY <4>4, <4>5
      <4>7. e \in (k + 1)..(Len(s) + 1)
        <5>1. CASE ~delimited(i)
          BY <4>2, <4>6, <5>1
        <5>2. CASE delimited(i)
          <6>1. e = BehindNewline(s, j) /\ HasAt(s, j, 1)
            BY <4>1, <4>2, <5>2 DEF delimited
          <6>2. j \in 1..Len(s)
            BY <1>0, <4>6, <6>1 DEF HasAt
          <6>3. e \in (j + 1)..(Len(s) + 1)
            BY <6>1, <6>2, NewlineIs
          <6> QED
            BY <1>0, <4>6, <6>2, <6>3
        <5> QED
          BY <5>1, <5>2
      <4>8. e \in (i + 1)..(Len(s) + 1)
        BY <1>0, <3>0, <4>7
      <4>9. e - i \in Nat /\ e - i # 0 /\ i + (e - i) <= Len(s) + 1
        BY <1>0, <4>8, Apart
      <4>10. Spelled(SubSeq(s, k, j - 1), 16) % 256 \in Int
        <5>1. Spelled(SubSeq(s, k, j - 1), 16) \in Nat
          BY <4>6, SpelledIs
        <5> QED
          BY <5>1, ModIs
      <4> QED
        BY <1>0, <4>3, <4>9, <4>10, FitsByte
    <3> QED
      BY <3>1, <3>2, <3>3
  <2> QED
    BY <2>1, <2>2
<1>3. ASSUME \A i \in DOMAIN s : s[i] # Backslash PROVE \A i \in 1..Len(s) : puts[i] = Copy(s, i)
  BY <1>0, <1>3
<1> HIDE DEF puts
<1>4. Within(CSSDecode(s), s)
  BY <1>1, <1>2, ScanIs DEF Within
<1> QED
  BY <1>1, <1>3, <1>4, ScanCopies

LEMMA CommentEndIs ==
  ASSUME NEW s \in Seq(Int), NEW i \in 1..Len(s), HasAt(s, i, 2)
  PROVE  CommentEnd(s, i) \in (i + 1)..(Len(s) + 1)
<1> DEFINE ends == {k \in (i + 2)..Len(s) : PairAt(s, k, Code["*"], Slash)}
<1>0. Len(s) \in Nat /\ ends \in SUBSET Nat /\ i + 1 <= Len(s)
  BY DEF HasAt
<1>1. CommentEnd(s, i) = IF ends = {} THEN Len(s) + 1 ELSE Min(ends) + 2
  BY DEF CommentEnd
<1>2. CASE ends = {}
  BY <1>0, <1>1, <1>2
<1>3. CASE ends # {}
  <2>1. Min(ends) \in ends
    BY <1>0, <1>3, LeastIn
  <2>2. Min(ends) \in (i + 2)..Len(s) /\ Min(ends) + 1 <= Len(s)
    BY <1>0, <2>1 DEF PairAt, HasAt
  <2>3. PICK m : m = Min(ends)
    OBVIOUS
  <2>4. CommentEnd(s, i) = m + 2
    BY <1>1, <1>3, <2>3
  <2>5. m \in (i + 2)..Len(s) /\ m + 1 <= Len(s)
    BY <2>2, <2>3
  <2> HIDE DEF ends
  <2> QED
    BY <1>0, <2>4, <2>5
<1> QED
  BY <1>2, <1>3

LEMMA ReplaceCommentsIs ==
  ASSUME NEW s \in Seq(Int)
  PROVE  /\ Within(ReplaceComments(s), s)
         /\ (\A i \in DOMAIN s : ~PairAt(s, i, Slash, Code["*"])) => ReplaceComments(s) = s
<1> DEFINE puts == [i \in DOMAIN s |->
              IF PairAt(s, i, Slash, Code["*"]) THEN Put(<<Space>>, CommentEnd(s, i) - i) ELSE Copy(s, i)]
<1>1. ReplaceComments(s) = Rewrite(puts) /\ puts = [i \in DOMAIN s |-> puts[i]]
  BY DEF ReplaceComments
<1>0. Len(s) \in Nat /\ DOMAIN s = 1..Len(s)
  OBVIOUS
<1>2. ASSUME NEW i \in 1..Len(s) PROVE Fits(puts[i], i, Len(s))
  <2>1. CASE PairAt(s, i, Slash, Code["*"])
    <3>1. puts[i] = Put(<<Space>>, CommentEnd(s, i) - i) /\ Space \in Int
      BY <1>0, <2>1 DEF Space
    <3>2. CommentEnd(s, i) \in (i + 1)..(Len(s) + 1)
      BY <2>1, CommentEndIs DEF PairAt
    <3> HIDE DEF puts
    <3>3. /\ CommentEnd(s, i) - i \in Nat /\ CommentEnd(s, i) - i # 0
          /\ i + (CommentEnd(s, i) - i) <= Len(s) + 1
      BY <1>0, <3>2, Apart
    <3> QED
      BY <1>0, <3>1, <3>3, FitsByte
  <2>2. CASE ~PairAt(s, i, Slash, Code["*"])
    <3>1. puts[i] = Copy(s, i)
      BY <1>0, <2>2
    <3> QED
      BY <3>1, FitsCopy
  <2> QED
    BY <2>1, <2>2
<1>3. ASSUME \A i \in DOMAIN s : ~PairAt(s, i, Slash, Code["*"]) PROVE \A i \in 1..Len(s) : puts[i] = Copy(s, i)
  BY <1>0, <1>3
<1> HIDE DEF puts
<1>4. Within(ReplaceComments(s), s)
  BY <1>1, <1>2, ScanIs DEF Within
<1> QED
  BY <1>1, <1>3, <1>4, ScanCopies

LEMMA RemoveCommentsCharIs ==
  ASSUME NEW s \in Seq(Int)
  PROVE  /\ Within(RemoveCommentsChar(s), s)
         /\ (\A i \in DOMAIN s : ~(CommentMark(s, i) > 0)) => RemoveCommentsChar(s) = s
<1> DEFINE puts == [i \in DOMAIN s |-> IF CommentMark(s, i) > 0 THEN Put(<<>>, CommentMark(s, i)) ELSE Copy(s, i)]
<1>1. RemoveCommentsChar(s) = Rewrite(puts) /\ puts = [i \in DOMAIN s |-> puts[i]]
  BY DEF RemoveCommentsChar
<1>0. Len(s) \in Nat /\ DOMAIN s = 1..Len(s)
  OBVIOUS
<1>2. ASSUME NEW i \in 1..Len(s) PROVE Fits(puts[i], i, Len(s))
  <2>1. CASE CommentMark(s, i) > 0
    <3>1. puts[i] = Put(<<>>, CommentMark(s, i))
      BY <1>0, <2>1
    <3>2. PICK w : w = CommentMark(s, i)
      OBVIOUS
    <3>3. w = 1 \/ (w = 2 /\ HasAt(s, i, 2))
      BY <2>1, <3>2 DEF CommentMark, PairAt
    <3>4. w \in Nat /\ w # 0 /\ i + w <= Len(s) + 1
      BY <1>0, <3>3 DEF HasAt
    <3>5. <<>> \in Seq(Int) /\ Len(<<>>) <= w
      BY <3>4
    <3> HIDE DEF puts
    <3> QED
      BY <1>0, <3>1, <3>2, <3>4, <3>5, FitsPut
  <2>2. CASE ~(CommentMark(s, i) > 0)
    <3>1. puts[i] = Copy(s, i)
      BY <1>0, <2>2
    <3> QED
      BY <3>1, FitsCopy
  <2> QED
    BY <2>1, <2>2
<1>3. ASSUME \A i \in DOMAIN s : ~(CommentMark(s, i) > 0) PROVE \A i \in 1..Len(s) : puts[i] = Copy(s, i)
  BY <1>0, <1>3
<1> HIDE DEF puts
<1>4. Within(RemoveCommentsChar(s), s)
  BY <1>1, <1>2, ScanIs DEF Within
<1> QED
  BY <1>1, <1>3, <1>4, ScanCopies

\* What NormalizePath has in hand: what it wrote, as far as nothing is taken
\* back, and the segment it is in.
PathState(dst, base, seg) == [dst |-> dst, base |-> base, seg |-> seg]
PathStates == {st \in [dst: Seq(Int), base: Nat, seg: Seq(Int)] : st.base <= Len(st.dst)}

LEMMA SlashDot == Slash \in Int /\ Dot \in Int /\ Space \in Int
  BY DEF Slash, Dot, Space

LEMMA PathMade ==
  ASSUME NEW d, NEW b, NEW g, d \in Seq(Int), b \in Nat, b <= Len(d), g \in Seq(Int)
  PROVE  /\ PathState(d, b, g) \in PathStates
         /\ PathState(d, b, g).dst = d /\ PathState(d, b, g).base = b /\ PathState(d, b, g).seg = g
  BY DEF PathState, PathStates

LEMMA PathEmpty ==
  ASSUME NEW d, NEW b, d \in Seq(Int), b \in Nat, b <= Len(d)
  PROVE  /\ PathState(d, b, <<>>) \in PathStates
         /\ PathState(d, b, <<>>).dst = d /\ PathState(d, b, <<>>).seg = <<>>
  BY DEF PathState, PathStates

LEMMA Grown ==
  ASSUME NEW a \in Nat, NEW m \in Nat, NEW e, NEW b, b = a + m + (IF e THEN 0 ELSE 1)
  PROVE  b \in Nat /\ b >= a /\ (~e => b = a + m + 1)
  OBVIOUS

LEMMA Under == \A a, m, c \in Nat : c <= a => c <= a + m + 1
  OBVIOUS

LEMMA PathParts ==
  ASSUME NEW st \in PathStates
  PROVE  /\ st.dst \in Seq(Int) /\ st.base \in Nat /\ st.base <= Len(st.dst) /\ st.seg \in Seq(Int)
         /\ Len(st.dst) \in Nat /\ Len(st.seg) \in Nat
         /\ st = PathState(st.dst, st.base, st.seg)
         /\ \A d : [st EXCEPT !.dst = d] = PathState(d, st.base, st.seg)
         /\ \A d, b : [st EXCEPT !.dst = d, !.base = b] = PathState(d, b, st.seg)
         /\ \A g : [st EXCEPT !.seg = g] = PathState(st.dst, st.base, g)
<1>1. st \in [dst: Seq(Int), base: Nat, seg: Seq(Int)] /\ st.base <= Len(st.dst)
  BY DEF PathStates
<1>2. st.dst \in Seq(Int) /\ st.base \in Nat /\ st.seg \in Seq(Int)
  BY <1>1
<1>3. Len(st.dst) \in Nat /\ Len(st.seg) \in Nat
  BY <1>2
<1>4. /\ st = PathState(st.dst, st.base, st.seg)
      /\ \A d : [st EXCEPT !.dst = d] = PathState(d, st.base, st.seg)
  BY <1>1 DEF PathState
<1>5. \A g : [st EXCEPT !.seg = g] = PathState(st.dst, st.base, g)
  BY <1>1 DEF PathState
<1>6. ASSUME NEW d, NEW b PROVE [st EXCEPT !.dst = d, !.base = b] = PathState(d, b, st.seg)
  <2>1. [st EXCEPT !.dst = d, !.base = b] = [[st EXCEPT !.dst = d] EXCEPT !.base = b]
    OBVIOUS
  <2>2. [st EXCEPT !.dst = d] = PathState(d, st.base, st.seg)
    BY <1>4
  <2>3. [PathState(d, st.base, st.seg) EXCEPT !.base = b] = PathState(d, b, st.seg)
    BY DEF PathState
  <2> QED
    BY <2>1, <2>2, <2>3
<1> QED
  BY Zenon, <1>1, <1>2, <1>3, <1>4, <1>5, <1>6

LEMMA ClosedIs ==
  ASSUME NEW st \in PathStates, NEW absolute
  PROVE  /\ ClosedSegment(st, absolute) \in PathStates
         /\ ClosedSegment(st, absolute).seg = <<>>
         /\ Len(ClosedSegment(st, absolute).dst) <= Len(st.dst) + Len(st.seg) + (IF st.seg = <<>> THEN 0 ELSE 1)
<1> DEFINE n == Len(st.dst)
           popped == Max({st.base} \cup {k \in (st.base + 1)..(n - 1) : st.dst[k] = Slash})
           next == IF st.seg \in {<<>>, <<Dot>>} THEN st
                   ELSE IF st.seg # <<Dot, Dot>> THEN [st EXCEPT !.dst = @ \o st.seg \o <<Slash>>]
                   ELSE IF n > st.base THEN [st EXCEPT !.dst = SubSeq(@, 1, popped)]
                   ELSE IF ~absolute THEN [st EXCEPT !.dst = @ \o <<Dot, Dot, Slash>>, !.base = n + 3]
                   ELSE st
           closed == [next EXCEPT !.seg = <<>>]
           bound == n + Len(st.seg) + (IF st.seg = <<>> THEN 0 ELSE 1)
           Made(d, b) == next = PathState(d, b, st.seg) /\ d \in Seq(Int) /\ b \in Nat /\ b <= Len(d) /\ Len(d) <= bound
<1>0. ClosedSegment(st, absolute) = closed
  BY DEF ClosedSegment
<1>1. /\ st.base <= n /\ n \in Nat /\ st.base \in Nat
      /\ st.dst \in Seq(Int) /\ st.seg \in Seq(Int) /\ Len(st.seg) \in Nat
  BY Zenon, PathParts
<1>2. popped \in 0..n /\ popped >= st.base
  <2> DEFINE S == {st.base} \cup {k \in (st.base + 1)..(n - 1) : st.dst[k] = Slash}
  <2>1. S \in SUBSET (0..n) /\ S # {} /\ st.base \in S
    BY <1>1
  <2>2. popped = Max(S)
    OBVIOUS
  <2> HIDE DEF S, popped
  <2>3. popped \in S /\ popped >= st.base
    BY <1>1, <2>1, <2>2, GreatestIn
  <2> QED
    BY <2>1, <2>3
<1>6. \/ next = st
      \/ st.seg # <<>> /\ next = [st EXCEPT !.dst = st.dst \o st.seg \o <<Slash>>]
      \/ st.seg # <<>> /\ next = [st EXCEPT !.dst = SubSeq(st.dst, 1, popped)]
      \/ st.seg = <<Dot, Dot>> /\ next = [st EXCEPT !.dst = st.dst \o <<Dot, Dot, Slash>>, !.base = n + 3]
  OBVIOUS
<1>8. bound \in Nat /\ bound >= n /\ (st.seg # <<>> => bound = n + Len(st.seg) + 1)
  <2>1. PICK a \in Nat, m \in Nat : a = n /\ m = Len(st.seg)
    BY <1>1
  <2>2. bound = a + m + (IF st.seg = <<>> THEN 0 ELSE 1)
    BY <2>1
  <2> HIDE DEF bound, n
  <2>3. bound \in Nat /\ bound >= a /\ (~(st.seg = <<>>) => bound = a + m + 1)
    BY <2>2, Grown
  <2> QED
    BY <2>1, <2>3
<1> HIDE DEF next, popped, bound
<1>3. \E d, b : Made(d, b)
  <2>1. CASE next = st
    <3>2. st = PathState(st.dst, st.base, st.seg)
      BY Zenon, PathParts
    <3>1. Made(st.dst, st.base)
      BY <1>1, <1>8, <2>1, <3>2
    <3> QED
      BY <3>1
  <2>2. CASE st.seg # <<>> /\ next = [st EXCEPT !.dst = st.dst \o st.seg \o <<Slash>>]
    <3>1. PICK d : d = st.dst \o st.seg \o <<Slash>>
      OBVIOUS
    <3>2. d \in Seq(Int) /\ Len(d) = n + Len(st.seg) + 1
      BY <1>1, <3>1, SlashDot
    <3>3. next = PathState(d, st.base, st.seg)
      BY Zenon, <2>2, <3>1, PathParts
    <3>4. st.base <= Len(d) /\ Len(d) <= bound
      <4>1. PICK a \in Nat, m \in Nat, c \in Nat : a = n /\ m = Len(st.seg) /\ c = st.base
        BY <1>1
      <4>2. c <= a
        BY <1>1, <4>1
      <4>3. bound = a + m + 1
        BY <1>8, <2>2, <4>1
      <4>4. Len(d) = a + m + 1
        BY <3>2, <4>1
      <4>5. c <= Len(d)
        BY <4>2, <4>4, Under
      <4>6. Len(d) <= bound
        BY <4>3, <4>4
      <4> QED
        BY <4>1, <4>5, <4>6
    <3>5. Made(d, st.base)
      BY <1>1, <3>2, <3>3, <3>4
    <3> QED
      BY <3>5
  <2>3. CASE st.seg # <<>> /\ next = [st EXCEPT !.dst = SubSeq(st.dst, 1, popped)]
    <3>1. PICK d : d = SubSeq(st.dst, 1, popped)
      OBVIOUS
    <3>2. d \in Seq(Int) /\ Len(d) = popped
      BY <1>1, <1>2, <3>1
    <3>3. next = PathState(d, st.base, st.seg)
      BY Zenon, <2>3, <3>1, PathParts
    <3>4. st.base <= Len(d) /\ Len(d) <= bound
      BY <1>1, <1>2, <1>8, <2>3, <3>2
    <3>5. Made(d, st.base)
      BY <1>1, <3>2, <3>3, <3>4
    <3> QED
      BY <3>5
  <2>4. CASE st.seg = <<Dot, Dot>> /\ next = [st EXCEPT !.dst = st.dst \o <<Dot, Dot, Slash>>, !.base = n + 3]
    <3>1. PICK d : d = st.dst \o <<Dot, Dot, Slash>>
      OBVIOUS
    <3>2. d \in Seq(Int) /\ Len(d) = n + 3 /\ Len(st.seg) = 2 /\ st.seg # <<>>
      BY <1>1, <2>4, <3>1, SlashDot
    <3>3. next = PathState(d, n + 3, st.seg)
      BY ZenonT(40), <2>4, <3>1, PathParts
    <3>4. n + 3 \in Nat /\ n + 3 <= Len(d) /\ Len(d) <= bound
      BY <1>1, <1>8, <2>4, <3>2
    <3>5. Made(d, n + 3)
      BY <3>2, <3>3, <3>4
    <3> QED
      BY <3>5
  <2> QED
    BY <1>6, <2>1, <2>2, <2>3, <2>4
<1>4. PICK d, b : Made(d, b)
  BY <1>3
<1>5. closed = PathState(d, b, <<>>)
  <2>1. next \in PathStates /\ next.dst = d /\ next.base = b
    BY <1>1, <1>4, PathMade
  <2> QED
    BY Zenon, <2>1, PathParts
<1>7. closed \in PathStates /\ closed.dst = d /\ closed.seg = <<>>
  <2>1. <<>> \in Seq(Int)
    OBVIOUS
  <2> HIDE DEF closed
  <2>2. d \in Seq(Int) /\ b \in Nat /\ b <= Len(d)
    BY <1>4
  <2> HIDE DEF Made
  <2> HIDE DEF n
  <2>3. /\ PathState(d, b, <<>>) \in PathStates
        /\ PathState(d, b, <<>>).dst = d /\ PathState(d, b, <<>>).seg = <<>>
    BY <2>2, PathEmpty
  <2> QED
    BY <1>5, <2>3
<1> HIDE DEF closed
<1> QED
  BY <1>0, <1>4, <1>7 DEF bound

LEMMA SegmentIs ==
  ASSUME NEW st \in PathStates, NEW b \in Int
  PROVE  /\ [st EXCEPT !.seg = Append(@, b)] \in PathStates
         /\ [st EXCEPT !.seg = Append(@, b)] = PathState(st.dst, st.base, Append(st.seg, b))
<1>4. st.seg \in Seq(Int)
  BY Zenon, PathParts
<1>1. Append(st.seg, b) \in Seq(Int)
  BY <1>4
<1>2. [st EXCEPT !.seg = Append(@, b)] = PathState(st.dst, st.base, Append(st.seg, b))
  BY Zenon, PathParts
<1>3. PathState(st.dst, st.base, Append(st.seg, b)) \in PathStates
  BY Zenon, <1>1, PathParts, PathMade
<1> QED
  BY <1>2, <1>3

\* Where NormalizePath begins.
Rooted(s) == s # <<>> /\ s[1] \in Separators
PathStart(s) == IF Rooted(s) THEN [dst |-> <<Slash>>, base |-> 1, seg |-> <<>>]
                ELSE [dst |-> <<>>, base |-> 0, seg |-> <<>>]

LEMMA PathStartIs == \A s : PathStart(s) \in PathStates
<1>1. <<Slash>> \in Seq(Int) /\ Len(<<Slash>>) = 1 /\ <<>> \in Seq(Int) /\ Len(<<>>) = 0
  BY SlashDot
<1>2. PathState(<<Slash>>, 1, <<>>) \in PathStates
  <2>1. 1 \in Nat /\ 1 <= Len(<<Slash>>)
    BY <1>1
  <2> QED
    BY <1>1, <2>1, PathMade
<1>3. PathState(<<>>, 0, <<>>) \in PathStates
  <2>1. 0 \in Nat /\ 0 <= Len(<<>>)
    BY <1>1
  <2> QED
    BY <1>1, <2>1, PathMade
<1> QED
  BY <1>2, <1>3 DEF PathStart, PathState

\* What it has read.
PathRead(s) == FoldLeft(LAMBDA st, b : IF b \in Separators THEN ClosedSegment(st, Rooted(s))
                                      ELSE [st EXCEPT !.seg = Append(@, b)], PathStart(s), s)

\* One byte after the other.
PathReadRun(f, s) ==
  /\ f \in [0..Len(s) -> PathStates]
  /\ f[0] = PathStart(s)
  /\ \A k \in 1..Len(s) : f[k] = IF s[k] \in Separators THEN ClosedSegment(f[k - 1], Rooted(s)) ELSE [f[k - 1] EXCEPT !.seg = Append(@, s[k])]
  /\ PathRead(s) = f[Len(s)]

LEMMA PathReadFold ==
  ASSUME NEW s \in Seq(Int)
  PROVE  \E f : PathReadRun(f, s)
<1> DEFINE T == PathStates
           El == Int
           op(st, b) == IF b \in Separators THEN ClosedSegment(st, Rooted(s)) ELSE [st EXCEPT !.seg = Append(@, b)]
           base == PathStart(s)
           step == [p \in T \X El |-> op(p[1], p[2])]
           Is(h) == h = [S \in SUBSET DOMAIN s |->
                           IF S = {} THEN base ELSE op(h[S \ {Max(S)}], s[Max(S)])]
           iter == CHOOSE h : Is(h)
<1>1. base \in T
  BY PathStartIs
<1>a. \A t \in T, x \in El : op(t, x) \in T
  BY Zenon, ClosedIs, SegmentIs
<1>2. PathRead(s) = iter[DOMAIN s]
  BY DEF PathRead, FoldLeft, MapThenFoldSet
<1>0. s \in Seq(El)
  OBVIOUS
<1> HIDE DEF op, base, T, El
<1>3. step \in [T \X El -> T]
  BY <1>a
<1>b. \A t \in T, x \in El : step[<<t, x>>] = op(t, x)
  OBVIOUS
<1> HIDE DEF step
<1>4. PICK g : Partial(g, T, s, base, step, Len(s))
  BY <1>0, <1>1, <1>3, FoldExists
<1>5. ASSUME NEW S \in SUBSET DOMAIN s, S # {} PROVE g[S] = op(g[S \ {Max(S)}], s[Max(S)])
  <2>1. Max(S) \in S /\ g[S] = step[<<g[S \ {Max(S)}], s[Max(S)]>>] /\ g \in [SUBSET DOMAIN s -> T]
    BY <1>0, <1>4, <1>5, DomainOfSeq DEF Partial
  <2>2. g[S \ {Max(S)}] \in T /\ s[Max(S)] \in El
    BY <1>0, <2>1
  <2> QED
    BY <1>b, <2>1, <2>2
<1>6. g[{}] = base /\ g = [S \in SUBSET DOMAIN s |-> g[S]]
  BY <1>0, <1>4, PartialBase
<1>7. Is(iter)
  <2>1. Is(g)
    BY <1>5, <1>6
  <2> QED
    BY <2>1
<1> HIDE DEF iter
<1>8. iter[{}] = base
  BY <1>7
<1>9. ASSUME NEW S \in SUBSET DOMAIN s, S # {}, iter[S \ {Max(S)}] \in T, s[Max(S)] \in El
      PROVE  iter[S] = step[<<iter[S \ {Max(S)}], s[Max(S)]>>]
  BY <1>7, <1>9, <1>b
<1> HIDE DEF Is
<1>10. Steps(iter, T, El, s, base, step)
  BY <1>8, <1>9 DEF Steps
<1>12. PICK f : Runs(f, T, s, base, step, iter[DOMAIN s])
  BY <1>0, <1>1, <1>3, <1>10, FoldRuns
<1>13. f \in [0..Len(s) -> T] /\ f[0] = base /\ f[Len(s)] = iter[DOMAIN s]
  BY <1>12 DEF Runs
<1>11. \A k \in 1..Len(s) : f[k] = op(f[k - 1], s[k])
  BY <1>0, <1>b, <1>12, <1>13, InsideFold DEF Runs
<1> QED
  BY <1>2, <1>11, <1>13 DEF op, base, T, PathReadRun

\* What is written when the last segment is closed.
PathWritten(s) == ClosedSegment(PathRead(s), Rooted(s)).dst

LEMMA NormalizePathOf ==
  ASSUME NEW s
  PROVE  NormalizePath(s) =
           LET dst == PathWritten(s)
           IN  IF Len(dst) > 1 /\ Last(dst) = Slash /\ Last(s) \notin Separators THEN Front(dst) ELSE dst
  BY DEF NormalizePath, PathWritten, PathRead, PathStart, Rooted

LEMMA FrontIs ==
  ASSUME NEW E, NEW t \in Seq(E), t # <<>>
  PROVE  Front(t) \in Seq(E) /\ Len(Front(t)) = Len(t) - 1 /\ Last(t) = t[Len(t)] /\ Last(t) \in E
         /\ \A k \in 1..(Len(t) - 1) : Front(t)[k] = t[k]
<1>1. Front(t) = SubSeq(t, 1, Len(t) - 1) /\ Last(t) = t[Len(t)]
  BY DEF Front, Last
<1>2. Len(t) \in Nat /\ Len(t) # 0
  OBVIOUS
<1>3. PICK n \in Nat : n = Len(t) - 1
  BY <1>2
<1>4. SubSeq(t, 1, n) \in Seq(E) /\ Len(SubSeq(t, 1, n)) = n /\ \A k \in 1..n : SubSeq(t, 1, n)[k] = t[k]
  BY <1>2, <1>3
<1>5. t[Len(t)] \in E
  BY <1>2
<1> QED
  BY <1>1, <1>3, <1>4, <1>5

LEMMA NormalizePathType ==
  ASSUME NEW s \in Seq(Int)
  PROVE  PathRead(s) \in PathStates /\ PathWritten(s) \in Seq(Int) /\ NormalizePath(s) \in Seq(Int)
<1>1. PICK f : PathReadRun(f, s)
  BY PathReadFold
<1>2. PathRead(s) \in PathStates
  <2>1. Len(s) \in 0..Len(s)
    OBVIOUS
  <2> QED
    BY <1>1, <2>1 DEF PathReadRun
<1>3. PathWritten(s) \in Seq(Int)
  BY Zenon, <1>2, ClosedIs, PathParts DEF PathWritten
<1>4. PICK d : d = PathWritten(s)
  OBVIOUS
<1>5. NormalizePath(s) = IF Len(d) > 1 /\ Last(d) = Slash /\ Last(s) \notin Separators THEN Front(d) ELSE d
  BY <1>4, NormalizePathOf
<1>6. CASE Len(d) > 1
  <2>1. d # <<>> /\ d \in Seq(Int)
    BY <1>3, <1>4, <1>6
  <2>2. Front(d) \in Seq(Int)
    BY <2>1, FrontIs
  <2> QED
    BY <1>2, <1>3, <1>4, <1>5, <2>1, <2>2
<1>7. CASE ~(Len(d) > 1)
  BY <1>2, <1>3, <1>4, <1>5, <1>7
<1> QED
  BY <1>6, <1>7

\* What CmdLine adds for one byte.
CmdStep(dst, b) ==
  LET c == CmdChar(b)
  IN  IF b \in ShellSyntax \/ (c = Space /\ (dst = <<>> \/ Last(dst) = Space)) THEN dst
      ELSE Append(IF c \in OctetSet("/(") THEN WithoutTrailingSpace(dst) ELSE dst, c)

LEMMA WithoutTrailingSpaceIs ==
  ASSUME NEW d \in Seq(Int)
  PROVE  WithoutTrailingSpace(d) \in Seq(Int) /\ Len(WithoutTrailingSpace(d)) <= Len(d)
<1>0. Len(d) \in Nat
  OBVIOUS
<1>1. CASE d # <<>> /\ Last(d) = Space
  <2>1. WithoutTrailingSpace(d) = Front(d)
    BY <1>1 DEF WithoutTrailingSpace
  <2> QED
    BY <1>0, <1>1, <2>1, FrontIs
<1>2. CASE ~(d # <<>> /\ Last(d) = Space)
  BY <1>0, <1>2 DEF WithoutTrailingSpace
<1> QED
  BY <1>1, <1>2

LEMMA CmdStepIs ==
  ASSUME NEW d \in Seq(Int), NEW b \in Int
  PROVE  CmdStep(d, b) \in Seq(Int) /\ Len(CmdStep(d, b)) <= Len(d) + 1
<1>1. CmdChar(b) \in Int
  BY Zenon, FoldIs, SlashDot DEF CmdChar
<1>2. WithoutTrailingSpace(d) \in Seq(Int) /\ Len(WithoutTrailingSpace(d)) <= Len(d)
  BY WithoutTrailingSpaceIs
<1>3. PICK e \in Seq(Int) : /\ Len(e) <= Len(d)
                            /\ e = IF CmdChar(b) \in OctetSet("/(") THEN WithoutTrailingSpace(d) ELSE d
  BY <1>2
<1>4. CmdStep(d, b) = d \/ CmdStep(d, b) = Append(e, CmdChar(b))
  BY <1>3 DEF CmdStep
<1>5. Append(e, CmdChar(b)) \in Seq(Int) /\ Len(Append(e, CmdChar(b))) = Len(e) + 1
  BY <1>1
<1>6. Len(e) \in Nat /\ Len(d) \in Nat
  OBVIOUS
<1>7. CASE CmdStep(d, b) = d
  BY <1>6, <1>7
<1>8. CASE CmdStep(d, b) = Append(e, CmdChar(b))
  BY <1>3, <1>5, <1>6, <1>8
<1> QED
  BY <1>4, <1>7, <1>8

CmdRead(s) == FoldLeft(CmdStep, <<>>, s)

\* One byte after the other.
CmdReadRun(f, s) ==
  /\ f \in [0..Len(s) -> Seq(Int)]
  /\ f[0] = <<>>
  /\ \A k \in 1..Len(s) : f[k] = CmdStep(f[k - 1], s[k])
  /\ CmdRead(s) = f[Len(s)]

LEMMA CmdReadFold ==
  ASSUME NEW s \in Seq(Int)
  PROVE  \E f : CmdReadRun(f, s)
<1> DEFINE T == Seq(Int)
           El == Int
           op(d, b) == CmdStep(d, b)
           base == <<>>
           step == [p \in T \X El |-> op(p[1], p[2])]
           Is(h) == h = [S \in SUBSET DOMAIN s |->
                           IF S = {} THEN base ELSE op(h[S \ {Max(S)}], s[Max(S)])]
           iter == CHOOSE h : Is(h)
<1>1. base \in T
  OBVIOUS
<1>a. \A t \in T, x \in El : op(t, x) \in T
  BY CmdStepIs
<1>2. CmdRead(s) = iter[DOMAIN s]
  BY DEF CmdRead, FoldLeft, MapThenFoldSet
<1>0. s \in Seq(El)
  OBVIOUS
<1> HIDE DEF op, base, T, El
<1>3. step \in [T \X El -> T]
  BY <1>a
<1>b. \A t \in T, x \in El : step[<<t, x>>] = op(t, x)
  OBVIOUS
<1> HIDE DEF step
<1>4. PICK g : Partial(g, T, s, base, step, Len(s))
  BY <1>0, <1>1, <1>3, FoldExists
<1>5. ASSUME NEW S \in SUBSET DOMAIN s, S # {} PROVE g[S] = op(g[S \ {Max(S)}], s[Max(S)])
  <2>1. Max(S) \in S /\ g[S] = step[<<g[S \ {Max(S)}], s[Max(S)]>>] /\ g \in [SUBSET DOMAIN s -> T]
    BY <1>0, <1>4, <1>5, DomainOfSeq DEF Partial
  <2>2. g[S \ {Max(S)}] \in T /\ s[Max(S)] \in El
    BY <1>0, <2>1
  <2> QED
    BY <1>b, <2>1, <2>2
<1>6. g[{}] = base /\ g = [S \in SUBSET DOMAIN s |-> g[S]]
  BY <1>0, <1>4, PartialBase
<1>7. Is(iter)
  <2>1. Is(g)
    BY <1>5, <1>6
  <2> QED
    BY <2>1
<1> HIDE DEF iter
<1>8. iter[{}] = base
  BY <1>7
<1>9. ASSUME NEW S \in SUBSET DOMAIN s, S # {}, iter[S \ {Max(S)}] \in T, s[Max(S)] \in El
      PROVE  iter[S] = step[<<iter[S \ {Max(S)}], s[Max(S)]>>]
  BY <1>7, <1>9, <1>b
<1> HIDE DEF Is
<1>10. Steps(iter, T, El, s, base, step)
  BY <1>8, <1>9 DEF Steps
<1>12. PICK f : Runs(f, T, s, base, step, iter[DOMAIN s])
  BY <1>0, <1>1, <1>3, <1>10, FoldRuns
<1>13. f \in [0..Len(s) -> T] /\ f[0] = base /\ f[Len(s)] = iter[DOMAIN s]
  BY <1>12 DEF Runs
<1>11. \A k \in 1..Len(s) : f[k] = op(f[k - 1], s[k])
  BY <1>0, <1>b, <1>12, <1>13, InsideFold DEF Runs
<1> QED
  BY <1>2, <1>11, <1>13 DEF op, base, T, CmdReadRun

LEMMA CmdLineIs ==
  ASSUME NEW s \in Seq(Int)
  PROVE  Within(CmdLine(s), s)
<1>0. Len(s) \in Nat
  OBVIOUS
<1>1. PICK f : CmdReadRun(f, s)
  BY CmdReadFold
<1>2. CmdLine(s) = WithoutTrailingSpace(f[Len(s)])
  BY Zenon, <1>1 DEF CmdLine, CmdRead, CmdStep, CmdReadRun
<1>3. f \in [0..Len(s) -> Seq(Int)] /\ f[0] = <<>>
  BY <1>1 DEF CmdReadRun
<1> DEFINE good == {k \in 0..Len(s) : Len(f[k]) <= k}
<1>4. 0 \in good
  BY <1>0, <1>3
<1>5. ASSUME NEW k \in 1..Len(s), k - 1 \in good PROVE k \in good
  <2>1. f[k] = CmdStep(f[k - 1], s[k])
    BY <1>1 DEF CmdReadRun
  <2>2. f[k - 1] \in Seq(Int) /\ s[k] \in Int
    BY <1>3, InsideFold
  <2>3. Len(f[k]) <= Len(f[k - 1]) + 1 /\ f[k] \in Seq(Int)
    BY <2>1, <2>2, CmdStepIs
  <2>4. Len(f[k - 1]) <= k - 1
    BY <1>5
  <2>5. Len(f[k]) \in Nat /\ Len(f[k - 1]) \in Nat
    BY <2>2, <2>3
  <2>6. Len(f[k]) <= k
    BY <2>3, <2>4, <2>5
  <2> QED
    BY <1>0, <2>6
<1> HIDE DEF good
<1>6. 0..Len(s) \subseteq good
  BY <1>0, <1>4, <1>5, UpTo
<1>7. Len(s) \in good /\ Len(s) \in 0..Len(s)
  BY <1>0, <1>6
<1>8. f[Len(s)] \in Seq(Int) /\ Len(f[Len(s)]) <= Len(s)
  BY <1>3, <1>7 DEF good
<1>9. PICK d \in Seq(Int) : d = f[Len(s)]
  BY <1>8
<1>10. WithoutTrailingSpace(d) \in Seq(Int) /\ Len(WithoutTrailingSpace(d)) <= Len(d) /\ Len(d) \in Nat
  BY WithoutTrailingSpaceIs
<1>11. Len(WithoutTrailingSpace(d)) <= Len(s)
  <2>1. Len(WithoutTrailingSpace(d)) \in Nat /\ Len(d) <= Len(s)
    BY <1>8, <1>9, <1>10
  <2> QED
    BY <1>0, <1>10, <2>1
<1> QED
  BY <1>2, <1>9, <1>10, <1>11 DEF Within

(* Six bits a character, eight a byte.                                       *)
Bits(acc, bits, out) == [acc |-> acc, bits |-> bits, out |-> out]
BitStates == [acc: Nat, bits: 0..7, out: Seq(Int)]
BitStart == [acc |-> 0, bits |-> 0, out |-> <<>>]
BitStep(st, c) ==
  LET acc == st.acc * 64 + Base64Value[c]
      bits == st.bits + 6
  IN  IF c \notin DOMAIN Base64Value THEN st
      ELSE IF bits < 8 THEN [st EXCEPT !.acc = acc, !.bits = bits]
      ELSE [acc |-> acc % OneLeft[bits - 7], bits |-> bits - 8,
            out |-> Append(st.out, acc \div OneLeft[bits - 7])]
BitRead(s) == FoldLeft(BitStep, BitStart, s)

LEMMA BitsMade ==
  ASSUME NEW a \in Nat, NEW b \in 0..7, NEW o \in Seq(Int)
  PROVE  Bits(a, b, o) \in BitStates /\ Bits(a, b, o).out = o
  BY DEF Bits, BitStates

LEMMA Base64ValueIs == \A c \in DOMAIN Base64Value : Base64Value[c] \in Nat
<1> SUFFICES ASSUME NEW c \in DOMAIN Base64Value PROVE Base64Value[c] \in Nat
  OBVIOUS
<1>1. c \in Alphabetic \cup Decimal \cup {Plus, Slash}
  BY DEF Base64Value
<1>2. Base64Value[c] = IF c \in UpperCase THEN c - 65 ELSE IF c \in LowerCase THEN c - 71
                       ELSE IF c \in Decimal THEN c + 4 ELSE IF c = Plus THEN 62 ELSE 63
  BY <1>1 DEF Base64Value
<1> QED
  BY <1>1, <1>2 DEF Alphabetic, UpperCase, LowerCase, Decimal

LEMMA ShiftIs == \A a \in Nat, k \in 1..6 : a % OneLeft[k] \in Nat /\ a \div OneLeft[k] \in Nat
<1> SUFFICES ASSUME NEW a \in Nat, NEW k \in 1..6 PROVE a % OneLeft[k] \in Nat /\ a \div OneLeft[k] \in Nat
  OBVIOUS
<1>1. \E m \in {1, 2, 4, 8, 16, 32} : m = OneLeft[k]
  BY DEF OneLeft
<1>2. PICK m \in {1, 2, 4, 8, 16, 32} : m = OneLeft[k]
  BY <1>1
<1>3. a % m \in Nat /\ a \div m \in Nat
  <2>1. \A d \in {1, 2, 4, 8, 16, 32} : a % d \in Nat /\ a \div d \in Nat
    OBVIOUS
  <2> QED
    BY <2>1
<1> QED
  BY <1>2, <1>3

LEMMA BitStepIs ==
  ASSUME NEW st \in BitStates, NEW c \in Int
  PROVE  BitStep(st, c) \in BitStates /\ Len(BitStep(st, c).out) <= Len(st.out) + 1
<1>1. st.acc \in Nat /\ st.bits \in 0..7 /\ st.out \in Seq(Int)
  BY DEF BitStates
<1>9. Len(st.out) \in Nat
  BY <1>1
<1>2. CASE c \notin DOMAIN Base64Value
  BY <1>9, <1>2 DEF BitStep
<1>3. CASE c \in DOMAIN Base64Value
  <2>1. PICK acc : acc = st.acc * 64 + Base64Value[c]
    OBVIOUS
  <2>2. acc \in Nat
    <3>1. PICK a \in Nat, v \in Nat : a = st.acc /\ v = Base64Value[c]
      BY <1>1, <1>3, Base64ValueIs
    <3>2. acc = a * 64 + v
      BY <2>1, <3>1
    <3> QED
      BY <3>2
  <2>3. PICK bits : bits = st.bits + 6
    OBVIOUS
  <2>4. CASE bits < 8
    <3>0. bits \in 0..7
      <4>1. PICK b \in 0..7 : b = st.bits
        BY <1>1
      <4>2. bits = b + 6
        BY <2>3, <4>1
      <4> QED
        BY <2>4, <4>2
    <3>1. BitStep(st, c) = [st EXCEPT !.acc = acc, !.bits = bits]
      BY <1>3, <2>1, <2>3, <2>4 DEF BitStep
    <3>2. [st EXCEPT !.acc = acc, !.bits = bits] = [[st EXCEPT !.acc = acc] EXCEPT !.bits = bits]
      OBVIOUS
    <3>3. [st EXCEPT !.acc = acc] \in BitStates /\ [st EXCEPT !.acc = acc].out = st.out
      BY <2>2 DEF BitStates
    <3>4. PICK t \in BitStates : t = [st EXCEPT !.acc = acc] /\ t.out = st.out
      BY <3>3
    <3>5. [t EXCEPT !.bits = bits] \in BitStates /\ [t EXCEPT !.bits = bits].out = t.out
      BY <3>0 DEF BitStates
    <3>6. BitStep(st, c) = [t EXCEPT !.bits = bits]
      BY <3>1, <3>2, <3>4
    <3> QED
      BY <1>9, <3>4, <3>5, <3>6
  <2>5. CASE ~(bits < 8)
    <3>0. bits - 7 \in 1..6 /\ bits - 8 \in 0..7
      <4>1. PICK b \in 0..7 : b = st.bits
        BY <1>1
      <4>2. bits = b + 6
        BY <2>3, <4>1
      <4> QED
        BY <2>5, <4>2
    <3>1. PICK r, q, k : r = acc % OneLeft[bits - 7] /\ q = acc \div OneLeft[bits - 7] /\ k = bits - 8
      OBVIOUS
    <3>2. r \in Nat /\ q \in Nat /\ k \in 0..7
      BY <2>2, <3>0, <3>1, ShiftIs
    <3>3. BitStep(st, c) = Bits(r, k, Append(st.out, q))
      BY <1>3, <2>1, <2>3, <2>5, <3>1 DEF BitStep, Bits
    <3>4. Append(st.out, q) \in Seq(Int) /\ Len(Append(st.out, q)) = Len(st.out) + 1
      BY <1>1, <3>2
    <3>6. PICK o \in Seq(Int) : o = Append(st.out, q)
      BY <3>4
    <3>7. Bits(r, k, o) \in BitStates /\ Bits(r, k, o).out = o
      BY <3>2, BitsMade
    <3>8. BitStep(st, c) = Bits(r, k, o)
      BY <3>3, <3>6
    <3>5. BitStep(st, c) \in BitStates /\ BitStep(st, c).out = Append(st.out, q)
      BY <3>6, <3>7, <3>8
    <3> QED
      BY <1>9, <3>4, <3>5
  <2> QED
    BY <2>4, <2>5
<1> QED
  BY <1>2, <1>3

LEMMA BitStartIs == BitStart \in BitStates /\ BitStart.out = <<>>
  BY DEF BitStart, BitStates

\* One character after the other.
BitReadRun(f, s) ==
  /\ f \in [0..Len(s) -> BitStates]
  /\ f[0] = BitStart
  /\ \A k \in 1..Len(s) : f[k] = BitStep(f[k - 1], s[k])
  /\ BitRead(s) = f[Len(s)]

LEMMA BitReadFold ==
  ASSUME NEW s \in Seq(Int)
  PROVE  \E f : BitReadRun(f, s)
<1> DEFINE T == BitStates
           El == Int
           op(st, c) == BitStep(st, c)
           base == BitStart
           step == [p \in T \X El |-> op(p[1], p[2])]
           Is(h) == h = [S \in SUBSET DOMAIN s |->
                           IF S = {} THEN base ELSE op(h[S \ {Max(S)}], s[Max(S)])]
           iter == CHOOSE h : Is(h)
<1>1. base \in T
  BY BitStartIs
<1>a. \A t \in T, x \in El : op(t, x) \in T
  BY BitStepIs
<1>2. BitRead(s) = iter[DOMAIN s]
  BY DEF BitRead, FoldLeft, MapThenFoldSet
<1>0. s \in Seq(El)
  OBVIOUS
<1> HIDE DEF op, base, T, El
<1>3. step \in [T \X El -> T]
  BY <1>a
<1>b. \A t \in T, x \in El : step[<<t, x>>] = op(t, x)
  OBVIOUS
<1> HIDE DEF step
<1>4. PICK g : Partial(g, T, s, base, step, Len(s))
  BY <1>0, <1>1, <1>3, FoldExists
<1>5. ASSUME NEW S \in SUBSET DOMAIN s, S # {} PROVE g[S] = op(g[S \ {Max(S)}], s[Max(S)])
  <2>1. Max(S) \in S /\ g[S] = step[<<g[S \ {Max(S)}], s[Max(S)]>>] /\ g \in [SUBSET DOMAIN s -> T]
    BY <1>0, <1>4, <1>5, DomainOfSeq DEF Partial
  <2>2. g[S \ {Max(S)}] \in T /\ s[Max(S)] \in El
    BY <1>0, <2>1
  <2> QED
    BY <1>b, <2>1, <2>2
<1>6. g[{}] = base /\ g = [S \in SUBSET DOMAIN s |-> g[S]]
  BY <1>0, <1>4, PartialBase
<1>7. Is(iter)
  <2>1. Is(g)
    BY <1>5, <1>6
  <2> QED
    BY <2>1
<1> HIDE DEF iter
<1>8. iter[{}] = base
  BY <1>7
<1>9. ASSUME NEW S \in SUBSET DOMAIN s, S # {}, iter[S \ {Max(S)}] \in T, s[Max(S)] \in El
      PROVE  iter[S] = step[<<iter[S \ {Max(S)}], s[Max(S)]>>]
  BY <1>7, <1>9, <1>b
<1> HIDE DEF Is
<1>10. Steps(iter, T, El, s, base, step)
  BY <1>8, <1>9 DEF Steps
<1>12. PICK f : Runs(f, T, s, base, step, iter[DOMAIN s])
  BY <1>0, <1>1, <1>3, <1>10, FoldRuns
<1>13. f \in [0..Len(s) -> T] /\ f[0] = base /\ f[Len(s)] = iter[DOMAIN s]
  BY <1>12 DEF Runs
<1>11. \A k \in 1..Len(s) : f[k] = op(f[k - 1], s[k])
  BY <1>0, <1>b, <1>12, <1>13, InsideFold DEF Runs
<1> QED
  BY <1>2, <1>11, <1>13 DEF op, base, T, BitReadRun

LEMMA Base64DecodeIs ==
  ASSUME NEW s \in Seq(Int)
  PROVE  Within(Base64Decode(s), s)
<1>0. Len(s) \in Nat
  OBVIOUS
<1>1. PICK f : BitReadRun(f, s)
  BY BitReadFold
<1>2. Base64Decode(s) = f[Len(s)].out
  <2>1. Base64Decode(s) = BitRead(s).out
    BY Zenon DEF Base64Decode, BitRead, BitStep, BitStart
  <2> QED
    BY <1>1, <2>1 DEF BitReadRun
<1>3. f \in [0..Len(s) -> BitStates] /\ f[0] = BitStart
  BY <1>1 DEF BitReadRun
<1>10. ASSUME NEW k \in 0..Len(s) PROVE f[k].out \in Seq(Int) /\ Len(f[k].out) \in Nat
  <2>1. f[k] \in BitStates
    BY <1>3
  <2>2. f[k].out \in Seq(Int)
    BY <2>1 DEF BitStates
  <2> QED
    BY <2>2
<1> DEFINE good == {k \in 0..Len(s) : Len(f[k].out) <= k}
<1>4. 0 \in good
  BY <1>0, <1>3, BitStartIs
<1>5. ASSUME NEW k \in 1..Len(s), k - 1 \in good PROVE k \in good
  <2>1. f[k] = BitStep(f[k - 1], s[k])
    BY <1>1 DEF BitReadRun
  <2>2. f[k - 1] \in BitStates /\ s[k] \in Int
    BY <1>3, InsideFold
  <2>3. Len(f[k].out) <= Len(f[k - 1].out) + 1
    BY <2>1, <2>2, BitStepIs
  <2>4. Len(f[k - 1].out) <= k - 1 /\ k - 1 \in 0..Len(s) /\ k \in 0..Len(s)
    BY <1>5
  <2>5. PICK a \in Nat, b \in Nat : a = Len(f[k].out) /\ b = Len(f[k - 1].out)
    BY <1>10, <2>4
  <2>6. a <= b + 1 /\ b <= k - 1
    BY <2>3, <2>4, <2>5
  <2>7. a <= k
    BY <2>6
  <2> QED
    BY <2>4, <2>5, <2>7
<1> HIDE DEF good
<1>6. 0..Len(s) \subseteq good
  BY <1>0, <1>4, <1>5, UpTo
<1>7. Len(s) \in good /\ Len(s) \in 0..Len(s)
  BY <1>0, <1>6
<1>8. f[Len(s)].out \in Seq(Int) /\ Len(f[Len(s)].out) <= Len(s)
  BY <1>7, <1>10 DEF good
<1> QED
  BY <1>2, <1>8 DEF Within

\* A rule's chain makes values of bytes of values of bytes.
LEMMA SlowType ==
  ASSUME NEW t \in TransformNames, NEW s \in Seq(Int)
  PROVE  Slow(t, s) \in Seq(Int)
<1>1. CASE t = "lowercase"
  <2>1. Slow(t, s) = FoldCase(s)
    BY <1>1 DEF Slow
  <2> QED
    BY <2>1, FoldCaseIs DEF Within
<1>2. CASE t = "remove_whitespace"
  <2>1. Slow(t, s) = RemoveWhitespace(s)
    BY <1>2 DEF Slow
  <2> QED
    BY <2>1, RemoveWhitespaceIs DEF Within
<1>3. CASE t = "compress_whitespace"
  <2>1. Slow(t, s) = CompressWhitespace(s)
    BY <1>3 DEF Slow
  <2> QED
    BY <2>1, CompressWhitespaceIs DEF Within
<1>4. CASE t = "url_decode"
  <2>1. Slow(t, s) = URLDecode(s)
    BY <1>4 DEF Slow
  <2> QED
    BY <2>1, URLDecodeIs DEF Within
<1>5. CASE t = "normalize_path"
  <2>1. Slow(t, s) = NormalizePath(s)
    BY <1>5 DEF Slow
  <2> QED
    BY <2>1, NormalizePathType DEF Within
<1>6. CASE t = "escape_decode"
  <2>1. Slow(t, s) = EscapeDecode(s)
    BY <1>6 DEF Slow
  <2> QED
    BY <2>1, EscapeDecodeIs DEF Within
<1>7. CASE t = "css_decode"
  <2>1. Slow(t, s) = CSSDecode(s)
    BY <1>7 DEF Slow
  <2> QED
    BY <2>1, CSSDecodeIs DEF Within
<1>8. CASE t = "cmd_line"
  <2>1. Slow(t, s) = CmdLine(s)
    BY <1>8 DEF Slow
  <2> QED
    BY <2>1, CmdLineIs DEF Within
<1>9. CASE t = "replace_comments"
  <2>1. Slow(t, s) = ReplaceComments(s)
    BY <1>9 DEF Slow
  <2> QED
    BY <2>1, ReplaceCommentsIs DEF Within
<1>10. CASE t = "remove_comments_char"
  <2>1. Slow(t, s) = RemoveCommentsChar(s)
    BY <1>10 DEF Slow
  <2> QED
    BY <2>1, RemoveCommentsCharIs DEF Within
<1>11. CASE t = "base64_decode"
  <2>1. Slow(t, s) = Base64Decode(s)
    BY <1>11 DEF Slow
  <2> QED
    BY <2>1, Base64DecodeIs DEF Within
<1>12. CASE t = "hex_escape_decode"
  <2>1. Slow(t, s) = HexEscapeDecode(s)
    BY <1>12 DEF Slow
  <2> QED
    BY <2>1, HexEscapeDecodeIs DEF Within
<1> QED
  BY <1>1, <1>2, <1>3, <1>4, <1>5, <1>6, <1>7, <1>8, <1>9, <1>10, <1>11, <1>12 DEF TransformNames
=============================================================================
