----------------------------- MODULE TextProofs -----------------------------
(***************************************************************************)
(* Proofs about Text, for every request, every chain of transforms and     *)
(* every table of names: the steps of NormalizePath, every decoding that   *)
(* makes a reading, and two invariants of the specification, the contract  *)
(* of Transform.Apply and that a path is resolved as its segments say.     *)
(***************************************************************************)
EXTENDS Text, TransformsProofs, SequenceTheorems

\* What closing a segment does, case by case.
Skips(st, c) == st.seg \in {<<>>, <<Dot>>} /\ c.dst = st.dst /\ c.base = st.base
Pushes(st, c) ==
  /\ st.seg \notin {<<>>, <<Dot>>, <<Dot, Dot>>}
  /\ c.dst = st.dst \o st.seg \o <<Slash>> /\ c.base = st.base
PopsTo(st, c, p) ==
  /\ p \in st.base..Len(st.dst)
  /\ p = st.base \/ (p < Len(st.dst) /\ st.dst[p] = Slash)
  /\ \A k \in (p + 1)..(Len(st.dst) - 1) : st.dst[k] # Slash
  /\ c.dst = SubSeq(st.dst, 1, p)
Pops(st, c) ==
  /\ st.seg = <<Dot, Dot>> /\ Len(st.dst) > st.base /\ c.base = st.base
  /\ \E p \in Nat : PopsTo(st, c, p)
Climbs(st, c) ==
  /\ st.seg = <<Dot, Dot>> /\ Len(st.dst) <= st.base
  /\ c.dst = st.dst \o <<Dot, Dot, Slash>> /\ c.base = Len(st.dst) + 3
Stays(st, c) == st.seg = <<Dot, Dot>> /\ Len(st.dst) <= st.base /\ c.dst = st.dst /\ c.base = st.base

ClosedCases(st, c, absolute) ==
  \/ Skips(st, c) \/ Pushes(st, c) \/ Pops(st, c)
  \/ ~absolute /\ Climbs(st, c)
  \/ absolute /\ Stays(st, c)

LEMMA DotsApart == <<>> # <<Dot, Dot>> /\ <<Dot>> # <<Dot, Dot>> /\ Dot # Slash /\ Dot # Backslash /\ Slash # Backslash
<1>1. Dot # Slash /\ Dot # Backslash /\ Slash # Backslash
  BY DEF Dot, Slash, Backslash
<1>2. Len(<<>>) = 0 /\ Len(<<Dot>>) = 1 /\ Len(<<Dot, Dot>>) = 2
  OBVIOUS
<1> QED
  BY <1>1, <1>2

LEMMA Closing ==
  ASSUME NEW st \in PathStates, NEW absolute \in BOOLEAN
  PROVE  ClosedCases(st, ClosedSegment(st, absolute), absolute)
<1> DEFINE n == Len(st.dst)
           popped == Max({st.base} \cup {k \in (st.base + 1)..(n - 1) : st.dst[k] = Slash})
           next == IF st.seg \in {<<>>, <<Dot>>} THEN st
                   ELSE IF st.seg # <<Dot, Dot>> THEN [st EXCEPT !.dst = @ \o st.seg \o <<Slash>>]
                   ELSE IF n > st.base THEN [st EXCEPT !.dst = SubSeq(@, 1, popped)]
                   ELSE IF ~absolute THEN [st EXCEPT !.dst = @ \o <<Dot, Dot, Slash>>, !.base = n + 3]
                   ELSE st
           closed == [next EXCEPT !.seg = <<>>]
           c == ClosedSegment(st, absolute)
<1>0. c = closed
  BY DEF ClosedSegment
<1>1. /\ st.base <= n /\ n \in Nat /\ st.base \in Nat
      /\ st.dst \in Seq(Int) /\ st.seg \in Seq(Int)
  BY Zenon, PathParts
<1>2. st \in [dst: Seq(Int), base: Nat, seg: Seq(Int)]
  BY DEF PathStates
<1>3. closed.dst = next.dst /\ closed.base = next.base
  <2>1. \/ next = st
        \/ next = [st EXCEPT !.dst = st.dst \o st.seg \o <<Slash>>]
        \/ next = [st EXCEPT !.dst = SubSeq(st.dst, 1, popped)]
        \/ next = [st EXCEPT !.dst = st.dst \o <<Dot, Dot, Slash>>, !.base = n + 3]
    OBVIOUS
  <2> HIDE DEF next, popped, n
  <2> QED
    BY <1>2, <2>1
<1>4. \A d : [st EXCEPT !.dst = d].dst = d /\ [st EXCEPT !.dst = d].base = st.base
  BY <1>2
<1>5. \A d, b : [st EXCEPT !.dst = d, !.base = b].dst = d /\ [st EXCEPT !.dst = d, !.base = b].base = b
  BY <1>2
<1>6. ASSUME n > st.base PROVE PopsTo(st, [dst |-> SubSeq(st.dst, 1, popped)], popped) /\ popped \in Nat
  <2> DEFINE S == {st.base} \cup {k \in (st.base + 1)..(n - 1) : st.dst[k] = Slash}
  <2>1. S \in SUBSET (0..n) /\ S # {} /\ st.base \in S
    BY <1>1
  <2>2. popped = Max(S)
    OBVIOUS
  <2>5. \A k \in S : k = st.base \/ (k \in (st.base + 1)..(n - 1) /\ st.dst[k] = Slash)
    OBVIOUS
  <2>6. \A k \in (st.base + 1)..(n - 1) : st.dst[k] = Slash => k \in S
    OBVIOUS
  <2> HIDE DEF S, popped
  <2>3. popped \in S /\ \A k \in S : popped >= k
    BY <1>1, <2>1, <2>2, GreatestIn
  <2>4. PICK p \in 0..n : p = popped
    BY <2>1, <2>3
  <2>7. p >= st.base /\ (p = st.base \/ (p < n /\ st.dst[p] = Slash))
    BY <1>1, <2>1, <2>3, <2>4, <2>5
  <2>8. \A k \in (p + 1)..(n - 1) : st.dst[k] # Slash
    <3> SUFFICES ASSUME NEW k \in (p + 1)..(n - 1), st.dst[k] = Slash PROVE FALSE
      OBVIOUS
    <3>1. k \in (st.base + 1)..(n - 1)
      BY <1>1, <2>7
    <3>2. p >= k
      BY <2>3, <2>4, <2>6, <3>1
    <3> QED
      BY <1>1, <3>2
  <2>9. p \in st.base..n /\ p \in Nat
    BY <1>1, <2>7
  <2> QED
    BY <2>4, <2>7, <2>8, <2>9 DEF PopsTo
<1> HIDE DEF popped
<1>7. CASE st.seg \in {<<>>, <<Dot>>}
  <2>1. next = st
    BY <1>7
  <2> HIDE DEF next, closed, c
  <2>2. Skips(st, c)
    BY <1>0, <1>3, <1>7, <2>1 DEF Skips
  <2> QED
    BY <2>2 DEF ClosedCases, c
<1>8. CASE st.seg \notin {<<>>, <<Dot>>, <<Dot, Dot>>}
  <2>1. next = [st EXCEPT !.dst = st.dst \o st.seg \o <<Slash>>]
    BY <1>8
  <2> HIDE DEF next, closed, c
  <2>2. Pushes(st, c)
    BY <1>0, <1>3, <1>4, <1>8, <2>1 DEF Pushes
  <2> QED
    BY <2>2 DEF ClosedCases, c
<1>9. CASE st.seg = <<Dot, Dot>> /\ n > st.base
  <2>1. next = [st EXCEPT !.dst = SubSeq(st.dst, 1, popped)]
    BY <1>9, DotsApart
  <2>2. PopsTo(st, [dst |-> SubSeq(st.dst, 1, popped)], popped) /\ popped \in Nat
    BY <1>6, <1>9
  <2> HIDE DEF next, closed, c
  <2>3. c.dst = SubSeq(st.dst, 1, popped) /\ c.base = st.base
    BY <1>0, <1>3, <1>4, <2>1
  <2>4. PopsTo(st, c, popped)
    BY <2>2, <2>3 DEF PopsTo
  <2>5. Pops(st, c)
    BY <1>9, <2>2, <2>3, <2>4 DEF Pops
  <2> QED
    BY <2>5 DEF ClosedCases, c
<1>10. CASE st.seg = <<Dot, Dot>> /\ ~(n > st.base) /\ ~absolute
  <2>1. next = [st EXCEPT !.dst = st.dst \o <<Dot, Dot, Slash>>, !.base = n + 3]
    BY <1>10, DotsApart
  <2>2. Len(st.dst) <= st.base
    BY <1>1, <1>10
  <2> HIDE DEF next, closed, c
  <2>3. Climbs(st, c)
    BY <1>0, <1>3, <1>5, <1>10, <2>1, <2>2 DEF Climbs
  <2> QED
    BY <1>10, <2>3 DEF ClosedCases, c
<1>11. CASE st.seg = <<Dot, Dot>> /\ ~(n > st.base) /\ absolute
  <2>1. next = st
    BY <1>11, DotsApart
  <2>2. Len(st.dst) <= st.base
    BY <1>1, <1>11
  <2> HIDE DEF next, closed, c
  <2>3. Stays(st, c)
    BY <1>0, <1>3, <1>11, <2>1, <2>2 DEF Stays
  <2> QED
    BY <1>11, <2>3 DEF ClosedCases, c
<1> QED
  BY <1>7, <1>8, <1>9, <1>10, <1>11

\* A segment and a slash after what was written before.
IsPushed(e, d, g) == e = d \o g \o <<Slash>>

LEMMA PushedIs ==
  ASSUME NEW d \in Seq(Int), NEW g \in Seq(Int), NEW e, IsPushed(e, d, g)
  PROVE  /\ e \in Seq(Int) /\ Len(e) = Len(d) + Len(g) + 1
         /\ \A i \in 1..Len(d) : e[i] = d[i]
         /\ \A i \in 1..Len(g) : e[Len(d) + i] = g[i]
         /\ e[Len(d) + Len(g) + 1] = Slash
<1>1. PICK m \in Nat, n \in Nat : m = Len(d) /\ n = Len(g)
  OBVIOUS
<1>2. PICK h : h = d \o g
  OBVIOUS
<1>3. /\ h \in Seq(Int) /\ Len(h) = m + n
      /\ \A i \in 1..m : h[i] = d[i]
      /\ \A i \in 1..n : h[m + i] = g[i]
  BY <1>1, <1>2
<1>4. /\ e \in Seq(Int) /\ Len(e) = m + n + 1
      /\ \A i \in 1..(m + n) : e[i] = h[i]
      /\ e[m + n + 1] = Slash
  BY <1>2, <1>3, SlashDot DEF IsPushed
<1>5. \A i \in 1..m : e[i] = d[i]
  BY <1>3, <1>4
<1>6. \A i \in 1..n : e[m + i] = g[i]
  <2> SUFFICES ASSUME NEW i \in 1..n PROVE e[m + i] = g[i]
    OBVIOUS
  <2>1. m + i \in 1..(m + n)
    OBVIOUS
  <2> QED
    BY <1>3, <1>4, <2>1
<1> QED
  BY <1>1, <1>4, <1>5, <1>6

LEMMA PathSizes ==
  ASSUME NEW st \in PathStates
  PROVE  /\ st.dst \in Seq(Int) /\ st.base \in Nat /\ st.base <= Len(st.dst) /\ st.seg \in Seq(Int)
         /\ Len(st.dst) \in Nat /\ Len(st.seg) \in Nat
  BY Zenon, PathParts

LEMMA NothingIn ==
  ASSUME NEW t \in Seq(Int), Len(t) = 0
  PROVE  t = <<>>
  OBVIOUS

\* One byte of NormalizePath.
PathStep(st, b, absolute) ==
  IF b \in Separators THEN ClosedSegment(st, absolute) ELSE [st EXCEPT !.seg = Append(@, b)]

LEMMA PathStepIs ==
  ASSUME NEW st \in PathStates, NEW b \in Int, NEW absolute
  PROVE  /\ PathStep(st, b, absolute) \in PathStates
         /\ b \in Separators => PathStep(st, b, absolute) = ClosedSegment(st, absolute)
         /\ b \notin Separators =>
              /\ PathStep(st, b, absolute).dst = st.dst /\ PathStep(st, b, absolute).base = st.base
              /\ PathStep(st, b, absolute).seg = Append(st.seg, b)
<1>1. CASE b \in Separators
  BY <1>1, ClosedIs DEF PathStep
<1>2. CASE b \notin Separators
  <2>1. PathStep(st, b, absolute) = [st EXCEPT !.seg = Append(@, b)]
    BY <1>2 DEF PathStep
  <2>2. PathStep(st, b, absolute) = PathState(st.dst, st.base, Append(st.seg, b))
    BY <2>1, SegmentIs
  <2>3. st.seg \in Seq(Int) /\ st.dst \in Seq(Int) /\ st.base \in Nat /\ st.base <= Len(st.dst)
    BY PathSizes
  <2>4. PICK g : g = Append(st.seg, b)
    OBVIOUS
  <2>6. g \in Seq(Int)
    BY <2>3, <2>4
  <2>5. PICK q : q = PathState(st.dst, st.base, g)
    OBVIOUS
  <2>7. q \in PathStates /\ q.dst = st.dst /\ q.base = st.base /\ q.seg = g
    BY <2>3, <2>5, <2>6, PathMade
  <2>8. PathStep(st, b, absolute) = q
    BY <2>2, <2>4, <2>5
  <2> QED
    BY <1>2, <2>4, <2>7, <2>8
<1> QED
  BY <1>1, <1>2

LEMMA PathStepLength ==
  ASSUME NEW st \in PathStates, NEW b \in Int, NEW absolute, NEW m \in Nat,
         Len(st.dst) + Len(st.seg) <= m
  PROVE  Len(PathStep(st, b, absolute).dst) + Len(PathStep(st, b, absolute).seg) <= m + 1
<1>1. PICK x \in Nat, y \in Nat : x = Len(st.dst) /\ y = Len(st.seg)
  BY PathSizes
<1>2. x + y <= m
  BY <1>1
<1>3. CASE b \in Separators
  <2>1. PathStep(st, b, absolute) = ClosedSegment(st, absolute)
    BY <1>3, PathStepIs
  <2>2. PICK c \in PathStates : c = ClosedSegment(st, absolute)
    BY ClosedIs
  <2>3. c.seg = <<>> /\ Len(c.dst) <= x + y + (IF st.seg = <<>> THEN 0 ELSE 1)
    BY <1>1, <2>2, ClosedIs
  <2>4. PICK z \in Nat : z = Len(c.dst)
    BY Zenon, PathParts
  <2>5. z <= x + y + 1
    BY <2>3, <2>4
  <2>6. Len(c.seg) = 0
    BY <2>3
  <2>7. z + 0 <= m + 1
    BY <1>2, <2>5
  <2> QED
    BY <2>1, <2>2, <2>4, <2>6, <2>7
<1>4. CASE b \notin Separators
  <2>1. PICK q : q = PathStep(st, b, absolute)
    OBVIOUS
  <2>2. q.dst = st.dst /\ q.seg = Append(st.seg, b)
    BY <1>4, <2>1, PathStepIs
  <2>5. st.seg \in Seq(Int)
    BY PathSizes
  <2>3. Len(q.seg) = y + 1
    BY <1>1, <2>2, <2>5
  <2>4. x + (y + 1) <= m + 1
    BY <1>2
  <2> QED
    BY <1>1, <2>1, <2>2, <2>3, <2>4
<1> QED
  BY <1>3, <1>4

LEMMA PathRuns ==
  ASSUME NEW s \in Seq(Int), NEW f, PathReadRun(f, s)
  PROVE  /\ \A k \in 0..Len(s) : f[k] \in PathStates
         /\ \A k \in 1..Len(s) : f[k - 1] \in PathStates /\ s[k] \in Int
                                 /\ f[k] = PathStep(f[k - 1], s[k], Rooted(s))
         /\ f[0] = PathStart(s) /\ PathRead(s) = f[Len(s)]
<1>1. \A k \in 0..Len(s) : f[k] \in PathStates
  BY DEF PathReadRun
<1>2. \A k \in 1..Len(s) : k - 1 \in 0..Len(s) /\ s[k] \in Int
  OBVIOUS
<1>3. \A k \in 1..Len(s) : f[k] = PathStep(f[k - 1], s[k], Rooted(s))
  BY DEF PathReadRun, PathStep
<1> QED
  BY <1>1, <1>2, <1>3 DEF PathReadRun

LEMMA PathStarts ==
  ASSUME NEW s
  PROVE  /\ PathStart(s).seg = <<>>
         /\ Rooted(s) => PathStart(s).dst = <<Slash>> /\ PathStart(s).base = 1
         /\ ~Rooted(s) => PathStart(s).dst = <<>> /\ PathStart(s).base = 0
  BY DEF PathStart

\* The first byte: the one separator of a rooted path is the one written already.
LEMMA PathFirst ==
  ASSUME NEW s \in Seq(Int), NEW f, PathReadRun(f, s), Len(s) >= 1
  PROVE  /\ f[1] \in PathStates
         /\ Rooted(s) => f[1].dst = <<Slash>> /\ f[1].base = 1 /\ f[1].seg = <<>>
         /\ ~Rooted(s) => f[1].dst = <<>> /\ f[1].base = 0 /\ f[1].seg = <<s[1]>>
<1>1. 1 \in 1..Len(s) /\ 1 \in 0..Len(s) /\ 1 - 1 = 0 /\ s # <<>> /\ s[1] \in Int
  OBVIOUS
<1>2. PICK p \in PathStates : p = f[0]
  BY <1>1, PathRuns
<1>3. p = PathStart(s) /\ f[1] = PathStep(p, s[1], Rooted(s)) /\ f[1] \in PathStates
  BY <1>1, <1>2, PathRuns
<1>4. CASE Rooted(s)
  <2>1. s[1] \in Separators /\ Rooted(s) \in BOOLEAN
    BY <1>4 DEF Rooted
  <2>2. p.dst = <<Slash>> /\ p.base = 1 /\ p.seg = <<>>
    BY <1>3, <1>4, PathStarts
  <2>3. f[1] = ClosedSegment(p, Rooted(s))
    BY <1>1, <1>3, <2>1, PathStepIs
  <2>4. ClosedCases(p, f[1], Rooted(s))
    BY <2>1, <2>3, Closing
  <2>5. Skips(p, f[1])
    BY <2>2, <2>4, DotsApart DEF ClosedCases, Pushes, Pops, Climbs, Stays
  <2>6. f[1].seg = <<>>
    BY <2>3, ClosedIs
  <2> QED
    BY <1>3, <1>4, <2>2, <2>5, <2>6 DEF Skips
<1>5. CASE ~Rooted(s)
  <2>1. s[1] \notin Separators
    BY <1>1, <1>5 DEF Rooted
  <2>2. p.dst = <<>> /\ p.base = 0 /\ p.seg = <<>>
    BY <1>3, <1>5, PathStarts
  <2>3. f[1].dst = <<>> /\ f[1].base = 0 /\ f[1].seg = Append(<<>>, s[1])
    BY <1>1, <1>3, <2>1, <2>2, PathStepIs
  <2>4. Append(<<>>, s[1]) = <<s[1]>>
    OBVIOUS
  <2> QED
    BY <1>3, <1>5, <2>3, <2>4
<1> QED
  BY <1>4, <1>5

\* It never has more in its hands than it has read, but for the root.
PathShort(st, k) == k >= 1 => Len(st.dst) + Len(st.seg) <= k
LEMMA PathLength ==
  ASSUME NEW s \in Seq(Int), NEW f, PathReadRun(f, s), Len(s) >= 1
  PROVE  Len(PathRead(s).dst) + Len(PathRead(s).seg) <= Len(s)
<1>1. PICK n \in Nat : n = Len(s) /\ n >= 1
  OBVIOUS
<1> DEFINE good == {k \in 0..n : PathShort(f[k], k)}
<1>2. 0 \in good
  BY DEF PathShort
<1>3. ASSUME NEW k \in 1..n, k - 1 \in good PROVE k \in good
  <2>1. CASE k = 1
    <3>1. \/ f[1].dst = <<Slash>> /\ f[1].seg = <<>>
          \/ f[1].dst = <<>> /\ f[1].seg = <<s[1]>>
      BY PathFirst
    <3>2. Len(<<Slash>>) = 1 /\ Len(<<s[1]>>) = 1 /\ Len(<<>>) = 0
      OBVIOUS
    <3>5. ASSUME f[1].dst = <<Slash>> /\ f[1].seg = <<>> PROVE Len(f[1].dst) + Len(f[1].seg) = 1
      BY <3>2, <3>5
    <3>6. ASSUME f[1].dst = <<>> /\ f[1].seg = <<s[1]>> PROVE Len(f[1].dst) + Len(f[1].seg) = 1
      BY <3>2, <3>6
    <3>3. Len(f[1].dst) + Len(f[1].seg) = 1
      BY <3>1, <3>5, <3>6
    <3>4. PathShort(f[1], 1)
      BY <3>3 DEF PathShort
    <3> QED
      BY <2>1, <3>4
  <2>2. CASE k # 1
    <3>0. PathShort(f[k - 1], k - 1)
      BY <1>3
    <3>6. k - 1 >= 1 /\ k - 1 \in Nat
      BY <2>2
    <3>1. k - 1 >= 1 /\ k - 1 \in Nat /\ Len(f[k - 1].dst) + Len(f[k - 1].seg) <= k - 1
      BY <3>0, <3>6 DEF PathShort
    <3>2. f[k - 1] \in PathStates /\ s[k] \in Int /\ f[k] = PathStep(f[k - 1], s[k], Rooted(s))
      BY <1>1, PathRuns
    <3>3. Len(f[k].dst) + Len(f[k].seg) <= (k - 1) + 1
      BY <3>1, <3>2, PathStepLength
    <3>4. (k - 1) + 1 = k
      OBVIOUS
    <3>5. PathShort(f[k], k)
      BY <3>3, <3>4 DEF PathShort
    <3> QED
      BY <3>5
  <2> QED
    BY <2>1, <2>2
<1> HIDE DEF good
<1>4. 0..n \subseteq good
  BY <1>2, <1>3, UpTo
<1>6. n \in 0..n
  OBVIOUS
<1>7. PathShort(f[n], n)
  BY <1>4, <1>6 DEF good
<1>5. Len(f[n].dst) + Len(f[n].seg) <= n
  BY <1>1, <1>7 DEF PathShort
<1> QED
  BY <1>1, <1>5, PathRuns

LEMMA NormalizePathLength ==
  ASSUME NEW s \in Seq(Int)
  PROVE  Len(NormalizePath(s)) <= Len(s) + 1
<1>1. PICK f : PathReadRun(f, s)
  BY PathReadFold
<1>2. PICK st \in PathStates : st = PathRead(s)
  BY NormalizePathType
<1>3. PICK x \in Nat, y \in Nat, n \in Nat : x = Len(st.dst) /\ y = Len(st.seg) /\ n = Len(s)
  BY PathSizes
<1>4. PICK c \in PathStates : c = ClosedSegment(st, Rooted(s))
  BY ClosedIs
<1>5. Len(c.dst) <= x + y + (IF st.seg = <<>> THEN 0 ELSE 1)
  BY <1>3, <1>4, ClosedIs
<1>6. PICK d : d = c.dst /\ d \in Seq(Int) /\ Len(d) \in Nat
  BY Zenon, PathParts
<1>7. Len(d) <= n + 1
  <2>1. CASE n >= 1
    <3>1. x + y <= n
      BY <1>1, <1>2, <1>3, <2>1, PathLength
    <3> QED
      BY <1>5, <1>6, <3>1
  <2>2. CASE n = 0
    <3>7. Len(s) = 0
      BY <1>3, <2>2
    <3>4. s = <<>> /\ Len(s) = 0
      BY <3>7, NothingIn
    <3>5. ~Rooted(s)
      BY <3>4 DEF Rooted
    <3>6. st = f[Len(s)] /\ f[0] = PathStart(s)
      BY <1>1, <1>2, PathRuns
    <3>1. st = PathStart(s) /\ ~Rooted(s)
      BY <3>4, <3>5, <3>6
    <3>2. st.seg = <<>> /\ st.dst = <<>>
      BY <3>1, PathStarts
    <3>3. x = 0 /\ y = 0
      BY <1>3, <3>2
    <3> QED
      BY <1>5, <1>6, <2>2, <3>2, <3>3
  <2> QED
    BY <1>3, <2>1, <2>2
<1>8. PathWritten(s) = d
  BY <1>2, <1>4, <1>6 DEF PathWritten
<1>9. NormalizePath(s) = IF Len(d) > 1 /\ Last(d) = Slash /\ Last(s) \notin Separators THEN Front(d) ELSE d
  BY <1>8, NormalizePathOf
<1>10. Len(d) > 1 => Len(Front(d)) = Len(d) - 1
  <2> SUFFICES ASSUME Len(d) > 1 PROVE Len(Front(d)) = Len(d) - 1
    OBVIOUS
  <2>1. d # <<>>
    OBVIOUS
  <2> QED
    BY <1>6, <2>1, FrontIs
<1>11. NormalizePath(s) = d \/ (Len(d) > 1 /\ NormalizePath(s) = Front(d))
  BY <1>9
<1> HIDE DEF Rooted
<1> QED
  BY <1>3, <1>6, <1>7, <1>10, <1>11

\* A path in which NormalizePath sees nothing to change, and what it has read of one.
QuietPath(s) ==
  \A i \in DOMAIN s : s[i] \notin {Backslash, Dot} /\ ~(s[i] = Slash /\ i > 1 /\ s[i - 1] = Slash)

SpellsSoFar(st, s, k) ==
  /\ Len(st.dst) + Len(st.seg) = k
  /\ \A i \in 1..Len(st.dst) : st.dst[i] = s[i]
  /\ \A i \in 1..Len(st.seg) : st.seg[i] = s[Len(st.dst) + i] /\ st.seg[i] # Slash
  /\ st.dst # <<>> => st.dst[Len(st.dst)] = Slash

\* A segment that is complete is written.
LEMMA SpellsPushed ==
  ASSUME NEW st \in PathStates, NEW s \in Seq(Int), NEW k \in 1..Len(s), QuietPath(s), SpellsSoFar(st, s, k),
         st.seg # <<>>
  PROVE  st.seg \notin {<<>>, <<Dot>>, <<Dot, Dot>>} /\ s[k] # Slash /\ s[k] = st.seg[Len(st.seg)]
<1>1. PICK d \in Seq(Int), g \in Seq(Int) : d = st.dst /\ g = st.seg
  BY PathSizes
<1>2. PICK m \in Nat, n \in Nat : m = Len(d) /\ n = Len(g) /\ n >= 1 /\ m + n = k
  <2>1. PICK m \in Nat, n \in Nat : m = Len(d) /\ n = Len(g)
    OBVIOUS
  <2>2. m + n = k
    BY <1>1, <2>1 DEF SpellsSoFar
  <2>3. n >= 1
    BY <1>1, <2>1
  <2> QED
    BY <2>1, <2>2, <2>3
<1>3. \A i \in 1..n : g[i] = s[m + i] /\ g[i] # Slash
  BY <1>1, <1>2 DEF SpellsSoFar
<1>4. 1 \in 1..n /\ n \in 1..n /\ m + 1 \in DOMAIN s
  BY <1>2
<1>5. g[1] # Dot
  BY <1>3, <1>4 DEF QuietPath
<1>6. <<Dot>>[1] = Dot /\ <<Dot, Dot>>[1] = Dot
  OBVIOUS
<1>7. g \notin {<<>>, <<Dot>>, <<Dot, Dot>>}
  BY <1>1, <1>5, <1>6
<1> QED
  BY <1>1, <1>2, <1>3, <1>4, <1>7

LEMMA SpellsMore ==
  ASSUME NEW st \in PathStates, NEW s \in Seq(Int), NEW k \in 1..Len(s), QuietPath(s), SpellsSoFar(st, s, k),
         NEW e, IsPushed(e, st.dst, st.seg)
  PROVE  e \in Seq(Int) /\ Len(e) = k + 1 /\ e[k + 1] = Slash /\ \A i \in 1..k : e[i] = s[i]
<1>1. PICK d \in Seq(Int), g \in Seq(Int) : d = st.dst /\ g = st.seg
  BY PathSizes
<1>2. PICK m \in Nat, n \in Nat : m = Len(d) /\ n = Len(g) /\ m + n = k
  <2>1. PICK m \in Nat, n \in Nat : m = Len(d) /\ n = Len(g)
    OBVIOUS
  <2>2. m + n = k
    BY <1>1, <2>1 DEF SpellsSoFar
  <2> QED
    BY <2>1, <2>2
<1>3. /\ \A i \in 1..n : g[i] = s[m + i]
      /\ \A i \in 1..m : d[i] = s[i]
  BY <1>1, <1>2 DEF SpellsSoFar
<1>4. IsPushed(e, d, g)
  BY <1>1
<1>8. /\ e \in Seq(Int) /\ Len(e) = Len(d) + Len(g) + 1
      /\ \A i \in 1..Len(d) : e[i] = d[i]
      /\ \A i \in 1..Len(g) : e[Len(d) + i] = g[i]
      /\ e[Len(d) + Len(g) + 1] = Slash
  BY <1>4, PushedIs
<1>5. e \in Seq(Int) /\ Len(e) = m + n + 1 /\ e[m + n + 1] = Slash
      /\ (\A i \in 1..m : e[i] = d[i]) /\ (\A i \in 1..n : e[m + i] = g[i])
  BY <1>2, <1>8
<1>6. \A i \in 1..k : e[i] = s[i]
  <2> SUFFICES ASSUME NEW i \in 1..k PROVE e[i] = s[i]
    OBVIOUS
  <2>1. CASE i <= m
    <3>1. i \in 1..m
      BY <2>1, <1>2
    <3> QED
      BY <1>3, <1>5, <3>1
  <2>2. CASE ~(i <= m)
    <3>1. PICK j \in 1..n : i = m + j
      <4>1. i - m \in 1..n /\ i = m + (i - m)
        BY <1>2, <2>2
      <4> QED
        BY <4>1
    <3> QED
      BY <1>3, <1>5, <3>1
  <2> QED
    BY <2>1, <2>2
<1> QED
  BY <1>2, <1>5, <1>6

LEMMA SpellsStep ==
  ASSUME NEW st \in PathStates, NEW s \in Seq(Int), NEW k \in 1..Len(s), k + 1 <= Len(s), QuietPath(s),
         SpellsSoFar(st, s, k)
  PROVE  SpellsSoFar(PathStep(st, s[k + 1], Rooted(s)), s, k + 1)
<1>1. k + 1 \in DOMAIN s /\ s[k + 1] \in Int /\ k + 1 > 1 /\ (k + 1) - 1 = k
  OBVIOUS
<1>2. s[k + 1] # Backslash /\ ~(s[k + 1] = Slash /\ s[k] = Slash)
  BY <1>1 DEF QuietPath
<1>3. PICK c : c = PathStep(st, s[k + 1], Rooted(s))
  OBVIOUS
<1>4. PICK d \in Seq(Int), g \in Seq(Int) : d = st.dst /\ g = st.seg
  BY PathSizes
<1>5. PICK m \in Nat, n \in Nat : m = Len(d) /\ n = Len(g) /\ m + n = k
  <2>1. PICK m \in Nat, n \in Nat : m = Len(d) /\ n = Len(g)
    OBVIOUS
  <2>2. m + n = k
    BY <1>4, <2>1 DEF SpellsSoFar
  <2> QED
    BY <2>1, <2>2
<1>6. CASE s[k + 1] \in Separators
  <2>1. s[k + 1] = Slash /\ s[k] # Slash
    BY <1>2, <1>6 DEF Separators
  <2>2. g # <<>>
    <3> SUFFICES ASSUME g = <<>> PROVE FALSE
      OBVIOUS
    <3>1. n = 0 /\ m = k /\ d # <<>>
      BY <1>5
    <3>2. d[m] = Slash /\ d[m] = s[m]
      BY <1>4, <1>5, <3>1 DEF SpellsSoFar
    <3> QED
      BY <2>1, <3>1, <3>2
  <2>3. st.seg \notin {<<>>, <<Dot>>, <<Dot, Dot>>}
    BY <1>4, <2>2, SpellsPushed
  <2>4. c = ClosedSegment(st, Rooted(s)) /\ Rooted(s) \in BOOLEAN
    BY <1>1, <1>3, <1>6, PathStepIs DEF Rooted
  <2>5. ClosedCases(st, c, Rooted(s)) /\ c.seg = <<>>
    BY <2>4, Closing, ClosedIs
  <2>6. c.dst = st.dst \o st.seg \o <<Slash>>
    BY <2>3, <2>5 DEF ClosedCases, Skips, Pushes, Pops, Climbs, Stays
  <2>7. /\ c.dst \in Seq(Int) /\ Len(c.dst) = k + 1 /\ c.dst[k + 1] = Slash
        /\ \A i \in 1..k : c.dst[i] = s[i]
    <3>1. PICK e : e = c.dst
      OBVIOUS
    <3>2. IsPushed(e, st.dst, st.seg)
      BY <2>6, <3>1 DEF IsPushed
    <3>3. e \in Seq(Int) /\ Len(e) = k + 1 /\ e[k + 1] = Slash /\ \A i \in 1..k : e[i] = s[i]
      BY <3>2, SpellsMore
    <3> QED
      BY <3>1, <3>3
  <2>8. \A i \in 1..(k + 1) : c.dst[i] = s[i]
    <3> SUFFICES ASSUME NEW i \in 1..(k + 1) PROVE c.dst[i] = s[i]
      OBVIOUS
    <3>1. i \in 1..k \/ i = k + 1
      OBVIOUS
    <3> QED
      BY <2>1, <2>7, <3>1
  <2>9. Len(c.seg) = 0
    BY <2>5
  <2> QED
    BY <1>3, <2>7, <2>8, <2>9 DEF SpellsSoFar
<1>7. CASE s[k + 1] \notin Separators
  <2>1. c.dst = d /\ c.seg = Append(g, s[k + 1]) /\ s[k + 1] # Slash
    BY <1>1, <1>3, <1>4, <1>7, PathStepIs DEF Separators
  <2>2. PICK h : h = Append(g, s[k + 1])
    OBVIOUS
  <2>3. Len(h) = n + 1 /\ h[n + 1] = s[k + 1] /\ \A i \in 1..n : h[i] = g[i]
    BY <1>1, <1>5, <2>2
  <2>4. \A i \in 1..(n + 1) : h[i] = s[m + i] /\ h[i] # Slash
    <3> SUFFICES ASSUME NEW i \in 1..(n + 1) PROVE h[i] = s[m + i] /\ h[i] # Slash
      OBVIOUS
    <3>1. CASE i \in 1..n
      <4>1. g[i] = s[m + i] /\ g[i] # Slash
        BY <1>4, <1>5, <3>1 DEF SpellsSoFar
      <4> QED
        BY <2>3, <3>1, <4>1
    <3>2. CASE i = n + 1
      <4>1. m + i = k + 1
        BY <1>5, <3>2
      <4> QED
        BY <2>1, <2>3, <3>2, <4>1
    <3> QED
      BY <3>1, <3>2
  <2>5. m + (n + 1) = k + 1
    BY <1>5
  <2>6. (\A i \in 1..m : d[i] = s[i]) /\ (d # <<>> => d[m] = Slash)
    BY <1>4, <1>5 DEF SpellsSoFar
  <2>7. c.dst = d /\ c.seg = h /\ Len(d) = m
    BY <1>5, <2>1, <2>2
  <2>8. SpellsSoFar(c, s, k + 1)
    BY <2>3, <2>4, <2>5, <2>6, <2>7 DEF SpellsSoFar
  <2> QED
    BY <1>3, <2>8
<1> QED
  BY <1>6, <1>7

LEMMA SpellsFirst ==
  ASSUME NEW s \in Seq(Int), NEW f, PathReadRun(f, s), Len(s) >= 1, QuietPath(s)
  PROVE  SpellsSoFar(f[1], s, 1)
<1>1. 1 \in DOMAIN s /\ s # <<>> /\ s[1] \in Int
  OBVIOUS
<1>2. s[1] # Backslash
  BY <1>1 DEF QuietPath
<1>3. CASE Rooted(s)
  <2>1. s[1] = Slash
    BY <1>2, <1>3 DEF Rooted, Separators
  <2>2. f[1].dst = <<Slash>> /\ f[1].seg = <<>>
    BY <1>3, PathFirst
  <2>3. Len(<<Slash>>) = 1 /\ Len(<<>>) = 0 /\ <<Slash>>[1] = Slash
    OBVIOUS
  <2>4. Len(f[1].dst) = 1 /\ Len(f[1].seg) = 0 /\ f[1].dst[1] = Slash
    BY <2>2, <2>3
  <2> QED
    BY <2>1, <2>4 DEF SpellsSoFar
<1>4. CASE ~Rooted(s)
  <2>1. s[1] # Slash
    BY <1>1, <1>4 DEF Rooted, Separators
  <2>2. f[1].dst = <<>> /\ f[1].seg = <<s[1]>>
    BY <1>4, PathFirst
  <2>3. Len(<<s[1]>>) = 1 /\ Len(<<>>) = 0 /\ <<s[1]>>[1] = s[1]
    OBVIOUS
  <2>4. Len(f[1].dst) = 0 /\ Len(f[1].seg) = 1 /\ f[1].seg[1] = s[1] /\ f[1].dst = <<>>
    BY <2>2, <2>3
  <2> QED
    BY <2>1, <2>4 DEF SpellsSoFar
<1> QED
  BY <1>3, <1>4

SpellsFrom(st, s, k) == k >= 1 => SpellsSoFar(st, s, k)

LEMMA SpellsAll ==
  ASSUME NEW s \in Seq(Int), Len(s) >= 1, QuietPath(s)
  PROVE  SpellsSoFar(PathRead(s), s, Len(s))
<1>0. PICK f : PathReadRun(f, s)
  BY PathReadFold
<1>1. PICK n \in Nat : n = Len(s) /\ n >= 1
  OBVIOUS
<1> DEFINE good == {k \in 0..n : SpellsFrom(f[k], s, k)}
<1>2. 0 \in good
  BY DEF SpellsFrom
<1>3. ASSUME NEW k \in 1..n, k - 1 \in good PROVE k \in good
  <2>1. CASE k = 1
    <3>1. SpellsSoFar(f[1], s, 1)
      BY <1>0, SpellsFirst
    <3>2. SpellsFrom(f[k], s, k)
      BY <2>1, <3>1 DEF SpellsFrom
    <3> QED
      BY <3>2
  <2>2. CASE k # 1
    <3>1. SpellsFrom(f[k - 1], s, k - 1)
      BY <1>3
    <3>2. PICK j \in 1..Len(s) : j = k - 1 /\ j + 1 = k /\ j + 1 <= Len(s)
      BY <1>1, <2>2
    <3>3. SpellsSoFar(f[j], s, j)
      BY <3>1, <3>2 DEF SpellsFrom
    <3>4. f[j] \in PathStates /\ f[j + 1] = PathStep(f[j], s[j + 1], Rooted(s))
      BY <1>0, <1>1, <3>2, PathRuns
    <3>5. SpellsSoFar(f[j + 1], s, j + 1)
      BY <3>2, <3>3, <3>4, SpellsStep
    <3>6. SpellsFrom(f[k], s, k)
      BY <3>2, <3>5 DEF SpellsFrom
    <3> QED
      BY <3>6
  <2> QED
    BY <2>1, <2>2
<1> HIDE DEF good
<1>4. 0..n \subseteq good
  BY <1>2, <1>3, UpTo
<1>5. n \in 0..n
  OBVIOUS
<1>6. SpellsFrom(f[n], s, n)
  BY <1>4, <1>5 DEF good
<1> QED
  BY <1>0, <1>1, <1>6, PathRuns DEF SpellsFrom

\* Two values with the same bytes are the same.
LEMMA SameBytes ==
  ASSUME NEW a \in Seq(Int), NEW b \in Seq(Int), Len(a) = Len(b), \A i \in 1..Len(b) : a[i] = b[i]
  PROVE  a = b
  OBVIOUS

LEMMA NormalizePathKeeps ==
  ASSUME NEW s \in Seq(Int), QuietPath(s)
  PROVE  NormalizePath(s) = s
<1>1. PICK st \in PathStates : st = PathRead(s)
  BY NormalizePathType
<1>2. PICK c \in PathStates : c = ClosedSegment(st, Rooted(s))
  BY ClosedIs
<1>3. PICK e \in Seq(Int) : e = c.dst
  BY PathSizes
<1>4. NormalizePath(s) = IF Len(e) > 1 /\ Last(e) = Slash /\ Last(s) \notin Separators THEN Front(e) ELSE e
  <2>1. PathWritten(s) = e
    BY <1>1, <1>2, <1>3 DEF PathWritten
  <2> QED
    BY <2>1, NormalizePathOf
<1>5. ClosedCases(st, c, Rooted(s))
  BY <1>2, Closing DEF Rooted
<1>6. CASE Len(s) = 0
  <2>1. s = <<>>
    BY <1>6, NothingIn
  <2>2. ~Rooted(s)
    BY <2>1 DEF Rooted
  <2>3. st = PathStart(s)
    BY <1>1, <1>6, PathReadFold, PathRuns
  <2>4. st.seg = <<>> /\ st.dst = <<>>
    BY <2>2, <2>3, PathStarts
  <2>5. c.dst = <<>>
    BY <1>5, <2>4, DotsApart DEF ClosedCases, Skips, Pushes, Pops, Climbs, Stays
  <2>6. e = <<>> /\ Len(e) = 0
    BY <1>3, <2>5
  <2> QED
    BY <1>4, <2>1, <2>6
<1>7. CASE Len(s) >= 1
  <2>1. PICK n \in 1..Len(s) : n = Len(s) /\ s # <<>>
    BY <1>7
  <2>2. SpellsSoFar(st, s, n)
    BY <1>1, <1>7, <2>1, SpellsAll
  <2>3. Last(s) = s[n]
    BY <2>1 DEF Last
  <2>4. CASE st.seg = <<>>
    <3>1. PICK d \in Seq(Int) : d = st.dst /\ Len(d) = n /\ d # <<>>
      <4>1. Len(st.seg) = 0 /\ Len(st.dst) \in Nat /\ st.dst \in Seq(Int)
        BY <2>4, PathSizes
      <4>2. Len(st.dst) = n
        BY <2>2, <4>1 DEF SpellsSoFar
      <4> QED
        BY <2>1, <4>1, <4>2
    <3>2. (\A i \in 1..n : d[i] = s[i]) /\ d[n] = Slash
      BY <2>2, <3>1 DEF SpellsSoFar
    <3>3. d = s
      BY <2>1, <3>1, <3>2, SameBytes
    <3>4. c.dst = st.dst
      BY <1>5, <2>4, DotsApart DEF ClosedCases, Skips, Pushes, Pops, Climbs, Stays
    <3>5. e = s /\ Last(s) \in Separators
      BY <1>3, <2>3, <3>1, <3>2, <3>3, <3>4 DEF Separators
    <3> QED
      BY <1>4, <3>5
  <2>5. CASE st.seg # <<>>
    <3>1. st.seg \notin {<<>>, <<Dot>>, <<Dot, Dot>>} /\ s[n] # Slash
      BY <2>2, <2>5, SpellsPushed
    <3>2. c.dst = st.dst \o st.seg \o <<Slash>>
      BY <1>5, <3>1 DEF ClosedCases, Skips, Pushes, Pops, Climbs, Stays
    <3>9. PICK d : d = c.dst
      OBVIOUS
    <3>10. IsPushed(d, st.dst, st.seg)
      BY <3>2, <3>9 DEF IsPushed
    <3>3. Len(e) = n + 1 /\ e[n + 1] = Slash /\ \A i \in 1..n : e[i] = s[i]
      BY <1>3, <2>2, <3>9, <3>10, SpellsMore
    <3>11. n \in DOMAIN s
      BY <2>1
    <3>4. s[n] # Backslash
      BY <3>11 DEF QuietPath
    <3>5. Last(s) \notin Separators
      BY <2>3, <3>1, <3>4 DEF Separators
    <3>6. Len(e) > 1 /\ e # <<>> /\ Len(e) - 1 = n
      BY <3>3
    <3>7. Last(e) = Slash /\ Front(e) \in Seq(Int) /\ Len(Front(e)) = n /\ \A i \in 1..n : Front(e)[i] = e[i]
      BY <3>3, <3>6, FrontIs
    <3>8. Front(e) = s
      BY <2>1, <3>3, <3>7, SameBytes
    <3> QED
      BY <1>4, <3>5, <3>6, <3>7, <3>8
  <2> QED
    BY <2>4, <2>5
<1> QED
  BY <1>6, <1>7

-----------------------------------------------------------------------------
(* The readings: every decoding of bytes is bytes.                           *)

\* A function that is defined on each thing by what it is on those of less rank.
Agree(g, h, D, rank, i) == \A j \in D : rank[j] < rank[i] => g[j] = h[j]

Below(F, D, T, rank) == \A i \in D : \A g, h \in [D -> T] : Agree(g, h, D, rank, i) => F[<<i, g>>] = F[<<i, h>>]
Solved(g, F, D, T) == g \in [D -> T] /\ \A i \in D : g[i] = F[<<i, g>>]

LEMMA Recursion ==
  ASSUME NEW D, NEW T, T # {}, NEW n \in Nat, NEW rank \in [D -> 0..n],
         NEW F \in [D \X [D -> T] -> T], Below(F, D, T, rank)
  PROVE  \E g : Solved(g, F, D, T)
<1> DEFINE Solves(g, m) == g \in [D -> T] /\ \A i \in D : rank[i] < m => g[i] = F[<<i, g>>]
           good == {m \in 0..(n + 1) : \E g : Solves(g, m)}
<1>1. 0 \in good
  <2>1. PICK t \in T : TRUE
    OBVIOUS
  <2>2. [i \in D |-> t] \in [D -> T]
    OBVIOUS
  <2>3. \A i \in D : ~(rank[i] < 0)
    OBVIOUS
  <2>4. Solves([i \in D |-> t], 0)
    BY <2>2, <2>3
  <2>5. 0 \in 0..(n + 1)
    OBVIOUS
  <2> HIDE DEF Solves
  <2> QED
    BY <2>4, <2>5
<1>2. ASSUME NEW m \in 1..(n + 1), m - 1 \in good PROVE m \in good
  <2>1. PICK g : Solves(g, m - 1)
    BY <1>2
  <2> DEFINE h == [i \in D |-> F[<<i, g>>]]
  <2>2. h \in [D -> T] /\ g \in [D -> T]
    BY <2>1
  <2>3. \A i \in D : h[i] = F[<<i, g>>]
    OBVIOUS
  <2> HIDE DEF h
  <2>4. ASSUME NEW i \in D, rank[i] < m PROVE h[i] = F[<<i, h>>]
    <3>1. ASSUME NEW j \in D, rank[j] < rank[i] PROVE g[j] = h[j]
      <4>1. rank[j] \in 0..n /\ rank[i] \in 0..n
        OBVIOUS
      <4>2. rank[j] < m - 1
        BY <2>4, <3>1, <4>1
      <4> QED
        BY <2>1, <2>3, <4>2
    <3>2. Agree(g, h, D, rank, i)
      BY <3>1 DEF Agree
    <3>3. F[<<i, g>>] = F[<<i, h>>]
      BY <2>2, <3>2 DEF Below
    <3> QED
      BY <2>3, <3>3
  <2>5. Solves(h, m)
    BY <2>2, <2>4
  <2> QED
    BY <2>5
<1> HIDE DEF good
<1>3. 0..(n + 1) \subseteq good
  BY <1>1, <1>2, UpTo
<1>4. n + 1 \in good
  BY <1>3
<1>5. PICK g : Solves(g, n + 1)
  BY <1>4 DEF good
<1>6. \A i \in D : rank[i] < n + 1
  <2> SUFFICES ASSUME NEW i \in D PROVE rank[i] < n + 1
    OBVIOUS
  <2>1. rank[i] \in 0..n
    OBVIOUS
  <2> QED
    BY <2>1
<1> QED
  BY <1>5, <1>6 DEF Solved

\* What a scan of bytes writes is bytes when each of its writes is.
Writes(p, s, i) == PutAt(p, Int, i, Len(s))

LEMMA WritesPut ==
  ASSUME NEW s \in Seq(Int), NEW i \in 1..Len(s), NEW out \in Seq(Int), NEW used \in Nat,
         used # 0, i + used <= Len(s) + 1
  PROVE  Writes(Put(out, used), s, i)
<1> DEFINE p == Put(out, used)
<1>1. p.out = out /\ p.used = used
  BY DEF Put
<1> HIDE DEF p
<1>2. Writes(p, s, i)
  BY <1>1 DEF Writes, PutAt
<1> QED
  BY <1>2 DEF p

LEMMA WritesByte ==
  ASSUME NEW s \in Seq(Int), NEW i \in 1..Len(s), NEW b \in Int, NEW used \in Nat,
         used # 0, i + used <= Len(s) + 1
  PROVE  Writes(Put(<<b>>, used), s, i)
<1>1. <<b>> \in Seq(Int)
  OBVIOUS
<1> QED
  BY <1>1, WritesPut

LEMMA WritesCopy ==
  ASSUME NEW s \in Seq(Int), NEW i \in 1..Len(s)
  PROVE  Writes(Copy(s, i), s, i)
  BY FitsCopy DEF Fits, Writes

LEMMA ScanType ==
  ASSUME NEW s \in Seq(Int), NEW puts, puts = [i \in DOMAIN s |-> puts[i]],
         \A i \in 1..Len(s) : Writes(puts[i], s, i)
  PROVE  Rewrite(puts) \in Seq(Int)
<1>1. Len(s) \in Nat /\ DOMAIN s = 1..Len(s)
  OBVIOUS
<1>2. Len(puts) = Len(s) /\ DOMAIN puts = 1..Len(s)
  BY <1>1, LenOfMap
<1>3. Puts(puts, Int)
  BY <1>1, <1>2 DEF Puts, Writes
<1> QED
  BY <1>3, RewriteType

LEMMA UnescapeIs ==
  ASSUME NEW s \in Seq(Int), NEW i \in 1..Len(s)
  PROVE  Writes(Unescape(s, i), s, i)
<1>1. CASE EscapeAt(s, i)
  <2>1. HexAt(s, i + 1, 2)
    BY <1>1 DEF EscapeAt
  <2>2. Unescape(s, i) = Put(<<Escaped(s, i)>>, 3)
    BY <1>1 DEF Unescape
  <2>3. 3 \in Nat /\ 3 # 0 /\ Escaped(s, i) \in Int /\ i + 3 <= Len(s) + 1
    BY <2>1, EscapedIs
  <2> QED
    BY <2>2, <2>3, WritesByte
<1>2. CASE ~EscapeAt(s, i)
  BY <1>2, WritesCopy DEF Unescape
<1> QED
  BY <1>1, <1>2

LEMMA UrlDecodeIntoIs ==
  ASSUME NEW s \in Seq(Int)
  PROVE  UrlDecodeInto(s) \in Seq(Int)
<1> DEFINE puts == [i \in DOMAIN s |-> IF s[i] = Plus THEN Put(<<Space>>, 1) ELSE Unescape(s, i)]
<1>1. ASSUME NEW i \in 1..Len(s) PROVE Writes(puts[i], s, i)
  <2>1. i \in DOMAIN s /\ i + 1 <= Len(s) + 1
    OBVIOUS
  <2>2. puts[i] = IF s[i] = Plus THEN Put(<<Space>>, 1) ELSE Unescape(s, i)
    BY <2>1
  <2> HIDE DEF puts
  <2>3. Writes(Put(<<Space>>, 1), s, i)
    BY <2>1, SlashDot, WritesByte
  <2> QED
    BY <2>2, <2>3, UnescapeIs
<1>2. UrlDecodeInto(s) = Rewrite(puts)
  BY DEF UrlDecodeInto
<1>3. puts = [i \in DOMAIN s |-> puts[i]]
  OBVIOUS
<1> HIDE DEF puts
<1> QED
  BY <1>1, <1>2, <1>3, ScanType

LEMMA UrlDecodeInPlaceIs ==
  ASSUME NEW s \in Seq(Int)
  PROVE  UrlDecodeInPlace(s) \in Seq(Int)
<1> DEFINE puts == [i \in DOMAIN s |-> Unescape(s, i)]
<1>1. ASSUME NEW i \in 1..Len(s) PROVE Writes(puts[i], s, i)
  <2>1. i \in DOMAIN s
    OBVIOUS
  <2> QED
    BY <2>1, UnescapeIs
<1>2. UrlDecodeInPlace(s) = Rewrite(puts)
  BY DEF UrlDecodeInPlace
<1>3. puts = [i \in DOMAIN s |-> puts[i]]
  OBVIOUS
<1> HIDE DEF puts
<1> QED
  BY <1>1, <1>2, <1>3, ScanType

LEMMA UrlDecodeRepeatedIntoIs ==
  ASSUME NEW s \in Seq(Int)
  PROVE  UrlDecodeRepeatedInto(s) \in Seq(Int)
  BY UrlDecodeIntoIs, UrlDecodeInPlaceIs DEF UrlDecodeRepeatedInto

LEMMA UnwrappedIs ==
  ASSUME NEW s \in Seq(Int)
  PROVE  Unwrapped(s) \in Seq(Int)
  BY UrlDecodeIntoIs DEF Unwrapped

LEMMA DecodePercentUIntoIs ==
  ASSUME NEW s \in Seq(Int)
  PROVE  DecodePercentUInto(s) \in Seq(Int)
<1> DEFINE narrow(v) == IF v >= 128 /\ v \in DOMAIN BestFitASCII THEN BestFitASCII[v] ELSE v % 256
           spelt(i) == Spelled(SubSeq(s, i + 2, i + 5), 16)
           puts == [i \in DOMAIN s |->
                      IF s[i] = Percent /\ HexAt(s, i + 2, 4) /\ s[i + 1] \in OctetSet("uU")
                      THEN Put(<<narrow(spelt(i))>>, 6)
                      ELSE Copy(s, i)]
<1>1. ASSUME NEW i \in 1..Len(s) PROVE Writes(puts[i], s, i)
  <2>1. i \in DOMAIN s
    OBVIOUS
  <2>2. puts[i] = IF s[i] = Percent /\ HexAt(s, i + 2, 4) /\ s[i + 1] \in OctetSet("uU")
                  THEN Put(<<narrow(spelt(i))>>, 6) ELSE Copy(s, i)
    BY <2>1
  <2> HIDE DEF puts, spelt
  <2>3. ASSUME HexAt(s, i + 2, 4) PROVE Writes(Put(<<narrow(spelt(i))>>, 6), s, i)
    <3>1. i + 5 <= Len(s) /\ Len(s) \in Nat /\ \A k \in (i + 2)..(i + 5) : s[k] \in HexDigits
      BY <2>3 DEF HexAt, HasAt
    <3>2. i + 2 \in 1..(Len(s) + 1) /\ i + 5 \in 0..Len(s)
      BY <3>1
    <3>3. SubSeq(s, i + 2, i + 5) \in Seq(HexDigits)
      BY <3>1, <3>2, PartWithin
    <3>4. PICK v \in Nat : v = spelt(i)
      BY <3>3, SpelledIs DEF spelt
    <3>5. narrow(v) \in Int
      BY AmbiguityAssumption, ModIs
    <3>6. 6 \in Nat /\ 6 # 0 /\ i + 6 <= Len(s) + 1
      BY <3>1
    <3> HIDE DEF narrow
    <3> QED
      BY <3>4, <3>5, <3>6, WritesByte
  <2> QED
    BY <2>2, <2>3, WritesCopy
<1>2. DecodePercentUInto(s) = Rewrite(puts)
  BY DEF DecodePercentUInto
<1>3. puts = [i \in DOMAIN s |-> puts[i]]
  OBVIOUS
<1> HIDE DEF puts
<1> QED
  BY <1>1, <1>2, <1>3, ScanType

\* A byte that is read at a place is there.
Stands(r, s, i) ==
  /\ r.byte \in Int /\ r.width \in {0, 1, 3}
  /\ r.width > 0 => i + r.width <= Len(s) + 1

LEMMA ByteAtIs ==
  ASSUME NEW s \in Seq(Int), NEW i \in Nat, i >= 1
  PROVE  Stands(ByteAt(s, i), s, i)
<1> DEFINE Read(b, w) == [byte |-> b, width |-> w]
<1>0. ASSUME NEW b \in Int, NEW w \in {0, 1, 3}, w > 0 => i + w <= Len(s) + 1 PROVE Stands(Read(b, w), s, i)
  <2>1. Read(b, w).byte = b /\ Read(b, w).width = w
    OBVIOUS
  <2> HIDE DEF Read
  <2> QED
    BY <1>0, <2>1 DEF Stands
<1>1. CASE i > Len(s)
  <2>1. ByteAt(s, i) = Read(0, 0)
    BY <1>1 DEF ByteAt
  <2> HIDE DEF Read
  <2> QED
    BY <1>0, <2>1
<1>2. CASE ~(i > Len(s)) /\ (s[i] # Percent \/ ~HasAt(s, i, 3))
  <2>1. ByteAt(s, i) = Read(s[i], 1)
    BY <1>2 DEF ByteAt
  <2>2. i \in 1..Len(s) /\ i + 1 <= Len(s) + 1
    BY <1>2
  <2>3. s[i] \in Int
    BY <2>2
  <2> HIDE DEF Read
  <2> QED
    BY <1>0, <2>1, <2>2, <2>3
<1>3. CASE ~(i > Len(s)) /\ ~(s[i] # Percent \/ ~HasAt(s, i, 3)) /\ HexAt(s, i + 1, 2)
  <2>1. ByteAt(s, i) = Read(Escaped(s, i), 3)
    BY <1>3 DEF ByteAt
  <2>2. i \in 1..Len(s)
    BY <1>3
  <2>3. Escaped(s, i) \in Int /\ i + 3 <= Len(s) + 1
    BY <1>3, <2>2, EscapedIs
  <2> HIDE DEF Read
  <2> QED
    BY <1>0, <2>1, <2>3
<1>4. CASE ~(i > Len(s)) /\ ~(s[i] # Percent \/ ~HasAt(s, i, 3)) /\ ~HexAt(s, i + 1, 2)
  <2>1. ByteAt(s, i) = Read(0, 0)
    BY <1>4 DEF ByteAt
  <2> HIDE DEF Read
  <2> QED
    BY <1>0, <2>1
<1> QED
  BY <1>1, <1>2, <1>3, <1>4

LEMMA RawAtIs ==
  ASSUME NEW s \in Seq(Int), NEW i \in Nat, i >= 1
  PROVE  Stands(RawAt(s, i), s, i)
<1>1. CASE i > Len(s)
  <2>1. RawAt(s, i) = [byte |-> 0, width |-> 0]
    BY <1>1 DEF RawAt
  <2>2. RawAt(s, i).byte = 0 /\ RawAt(s, i).width = 0
    BY <2>1
  <2> QED
    BY <2>2 DEF Stands
<1>2. CASE ~(i > Len(s))
  <2>1. RawAt(s, i) = [byte |-> s[i], width |-> 1]
    BY <1>2 DEF RawAt
  <2>2. RawAt(s, i).byte = s[i] /\ RawAt(s, i).width = 1
    BY <2>1
  <2>3. i \in 1..Len(s) /\ i + 1 <= Len(s) + 1
    BY <1>2
  <2>4. s[i] \in Int
    BY <2>3
  <2> QED
    BY <2>2, <2>3, <2>4 DEF Stands
<1> QED
  BY <1>1, <1>2

\* A rune made of the bytes read one behind the other.
Spans(r, s, i) == r.width \in Nat /\ (r.width > 0 => i + r.width <= Len(s) + 1)

RuneOf(a, b, c) ==
  LET none == [rune |-> 0, width |-> 0]
  IN  IF a.width = 0 THEN none
      ELSE IF a.byte \in 224..239 THEN
        IF Trails(b) /\ Trails(c)
        THEN [rune |-> (a.byte % 16) * 4096 + (b.byte % 64) * 64 + (c.byte % 64),
              width |-> a.width + b.width + c.width]
        ELSE none
      ELSE IF a.byte \in 192..223 /\ Trails(b)
        THEN [rune |-> (a.byte % 32) * 64 + (b.byte % 64), width |-> a.width + b.width]
      ELSE none

LEMMA RuneOfIs ==
  ASSUME NEW a, NEW b, NEW c
  PROVE  \/ RuneOf(a, b, c).width = 0
         \/ /\ a.width # 0 /\ b.width > 0
            /\ RuneOf(a, b, c).width = a.width + b.width
         \/ /\ a.width # 0 /\ b.width > 0 /\ c.width > 0
            /\ RuneOf(a, b, c).width = a.width + b.width + c.width
<1> DEFINE r2 == (a.byte % 32) * 64 + (b.byte % 64)
           r3 == (a.byte % 16) * 4096 + (b.byte % 64) * 64 + (c.byte % 64)
           w2 == a.width + b.width
           w3 == a.width + b.width + c.width
<1>1. \/ RuneOf(a, b, c) = [rune |-> 0, width |-> 0]
      \/ a.width # 0 /\ Trails(b) /\ RuneOf(a, b, c) = [rune |-> r2, width |-> w2]
      \/ a.width # 0 /\ Trails(b) /\ Trails(c) /\ RuneOf(a, b, c) = [rune |-> r3, width |-> w3]
  BY DEF RuneOf
<1>2. \A x, y : [rune |-> x, width |-> y].width = y
  OBVIOUS
<1>3. (Trails(b) => b.width > 0) /\ (Trails(c) => c.width > 0)
  BY DEF Trails
<1>4. w2 = a.width + b.width /\ w3 = a.width + b.width + c.width
  OBVIOUS
<1> HIDE DEF r2, r3, w2, w3
<1>5. CASE RuneOf(a, b, c) = [rune |-> 0, width |-> 0]
  BY <1>2, <1>5
<1>6. CASE a.width # 0 /\ Trails(b) /\ RuneOf(a, b, c) = [rune |-> r2, width |-> w2]
  BY <1>2, <1>3, <1>4, <1>6
<1>7. CASE a.width # 0 /\ Trails(b) /\ Trails(c) /\ RuneOf(a, b, c) = [rune |-> r3, width |-> w3]
  BY <1>2, <1>3, <1>4, <1>7
<1> QED
  BY <1>1, <1>5, <1>6, <1>7

LEMMA RuneSpans ==
  ASSUME NEW s \in Seq(Int), NEW i \in 1..Len(s), NEW a, NEW b, NEW c,
         Stands(a, s, i), Stands(b, s, i + a.width), Stands(c, s, i + a.width + b.width)
  PROVE  Spans(RuneOf(a, b, c), s, i)
<1>1. PICK n \in Nat, j \in Nat : n = Len(s) /\ j = i /\ j >= 1
  OBVIOUS
<1>2. PICK x \in {0, 1, 3}, y \in {0, 1, 3}, z \in {0, 1, 3} : x = a.width /\ y = b.width /\ z = c.width
  BY DEF Stands
<1>3. /\ x > 0 => j + x <= n + 1
      /\ y > 0 => j + x + y <= n + 1
      /\ z > 0 => j + x + y + z <= n + 1
  BY <1>1, <1>2 DEF Stands
<1>4. PICK w : w = RuneOf(a, b, c).width
  OBVIOUS
<1>5. w = 0 \/ (y > 0 /\ w = x + y) \/ (y > 0 /\ z > 0 /\ w = x + y + z)
  BY <1>2, <1>4, RuneOfIs
<1>6. w \in Nat /\ (w > 0 => j + w <= n + 1)
  BY <1>3, <1>5
<1> QED
  BY <1>1, <1>4, <1>6 DEF Spans

LEMMA DecodeRuneIs ==
  ASSUME NEW s \in Seq(Int), NEW i \in 1..Len(s)
  PROVE  Spans(DecodeRune(s, i), s, i)
<1>1. PICK a : a = RawAt(s, i)
  OBVIOUS
<1>2. PICK b : b = RawAt(s, i + a.width)
  OBVIOUS
<1>3. PICK c : c = RawAt(s, i + a.width + b.width)
  OBVIOUS
<1>4. i \in Nat /\ i >= 1
  OBVIOUS
<1>5. Stands(a, s, i)
  BY <1>1, <1>4, RawAtIs
<1>6. i + a.width \in Nat /\ i + a.width >= 1
  BY <1>4, <1>5 DEF Stands
<1>7. Stands(b, s, i + a.width)
  BY <1>2, <1>6, RawAtIs
<1>8. i + a.width + b.width \in Nat /\ i + a.width + b.width >= 1
  BY <1>6, <1>7 DEF Stands
<1>9. Stands(c, s, i + a.width + b.width)
  BY <1>3, <1>8, RawAtIs
<1>10. DecodeRune(s, i) = RuneOf(a, b, c)
  BY <1>1, <1>2, <1>3 DEF DecodeRune, RuneRead, RuneOf
<1> QED
  BY <1>5, <1>7, <1>9, <1>10, RuneSpans

LEMMA PercentRuneAtIs ==
  ASSUME NEW s \in Seq(Int), NEW i \in 1..Len(s)
  PROVE  Spans(PercentRuneAt(s, i), s, i)
<1>1. PICK a : a = ByteAt(s, i)
  OBVIOUS
<1>2. PICK b : b = ByteAt(s, i + a.width)
  OBVIOUS
<1>3. PICK c : c = ByteAt(s, i + a.width + b.width)
  OBVIOUS
<1>4. i \in Nat /\ i >= 1
  OBVIOUS
<1>5. Stands(a, s, i)
  BY <1>1, <1>4, ByteAtIs
<1>6. i + a.width \in Nat /\ i + a.width >= 1
  BY <1>4, <1>5 DEF Stands
<1>7. Stands(b, s, i + a.width)
  BY <1>2, <1>6, ByteAtIs
<1>8. i + a.width + b.width \in Nat /\ i + a.width + b.width >= 1
  BY <1>6, <1>7 DEF Stands
<1>9. Stands(c, s, i + a.width + b.width)
  BY <1>3, <1>8, ByteAtIs
<1>10. PercentRuneAt(s, i) = RuneOf(a, b, c)
  BY <1>1, <1>2, <1>3 DEF PercentRuneAt, RuneRead, RuneOf
<1> QED
  BY <1>5, <1>7, <1>9, <1>10, RuneSpans

LEMMA FoldBestFitIntoIs ==
  ASSUME NEW s \in Seq(Int)
  PROVE  FoldBestFitInto(s) \in Seq(Int)
<1> DEFINE best(p, r, i) ==
             IF Folds(p) THEN Put(<<BestFitASCII[p.rune]>>, p.width)
             ELSE IF Folds(r) THEN Put(<<BestFitASCII[r.rune]>>, r.width)
             ELSE IF r.width > 0 THEN Put(SubSeq(s, i, i + r.width - 1), r.width)
             ELSE Copy(s, i)
           puts == [i \in DOMAIN s |-> best(PercentRuneAt(s, i), DecodeRune(s, i), i)]
<1>1. ASSUME NEW i \in 1..Len(s) PROVE Writes(puts[i], s, i)
  <2>1. i \in DOMAIN s
    OBVIOUS
  <2>2. puts[i] = best(PercentRuneAt(s, i), DecodeRune(s, i), i)
    BY <2>1
  <2> HIDE DEF puts
  <2>3. PICK p, r : p = PercentRuneAt(s, i) /\ r = DecodeRune(s, i) /\ Spans(p, s, i) /\ Spans(r, s, i)
    BY PercentRuneAtIs, DecodeRuneIs
  <2>4. ASSUME NEW q, Spans(q, s, i), Folds(q) PROVE Writes(Put(<<BestFitASCII[q.rune]>>, q.width), s, i)
    <3>1. q.width > 0 /\ q.rune \in DOMAIN BestFitASCII
      BY <2>4 DEF Folds
    <3>2. BestFitASCII[q.rune] \in Int
      BY <3>1, AmbiguityAssumption
    <3>3. q.width \in Nat /\ q.width # 0 /\ i + q.width <= Len(s) + 1
      BY <2>4, <3>1 DEF Spans
    <3> QED
      BY <3>2, <3>3, WritesByte
  <2>5. ASSUME r.width > 0 PROVE Writes(Put(SubSeq(s, i, i + r.width - 1), r.width), s, i)
    <3>1. PICK w \in Nat : w = r.width /\ w # 0 /\ i + w <= Len(s) + 1
      BY <2>3, <2>5 DEF Spans
    <3>2. i \in 1..(Len(s) + 1) /\ i + w - 1 \in 0..Len(s)
      BY <3>1
    <3>3. SubSeq(s, i, i + w - 1) \in Seq(Int)
      BY <3>2, PartOf
    <3> QED
      BY <3>1, <3>3, WritesPut
  <2>6. puts[i] = best(p, r, i)
    BY <2>2, <2>3
  <2> QED
    BY <2>3, <2>4, <2>5, <2>6, WritesCopy
<1>2. FoldBestFitInto(s) = Rewrite(puts)
  BY DEF FoldBestFitInto
<1>3. puts = [i \in DOMAIN s |-> puts[i]]
  OBVIOUS
<1> HIDE DEF puts
<1> QED
  BY <1>1, <1>2, <1>3, ScanType

LEMMA BackslashToSlashIntoIs ==
  ASSUME NEW s \in Seq(Int)
  PROVE  BackslashToSlashInto(s) \in Seq(Int)
<1> DEFINE puts == [i \in DOMAIN s |->
                      IF EscapedByte(s, i, Backslash) THEN Put(<<Slash>>, 3)
                      ELSE IF s[i] = Backslash THEN Put(<<Slash>>, 1) ELSE Copy(s, i)]
<1>1. ASSUME NEW i \in 1..Len(s) PROVE Writes(puts[i], s, i)
  <2>1. i \in DOMAIN s /\ i + 1 <= Len(s) + 1 /\ i \in Nat /\ i >= 1
    OBVIOUS
  <2>2. puts[i] = IF EscapedByte(s, i, Backslash) THEN Put(<<Slash>>, 3)
                  ELSE IF s[i] = Backslash THEN Put(<<Slash>>, 1) ELSE Copy(s, i)
    BY <2>1
  <2> HIDE DEF puts
  <2>3. ASSUME EscapedByte(s, i, Backslash) PROVE Writes(Put(<<Slash>>, 3), s, i)
    <3>1. ByteAt(s, i).width = 3
      BY <2>3 DEF EscapedByte
    <3>2. i + 3 <= Len(s) + 1
      BY <2>1, <3>1, ByteAtIs DEF Stands
    <3> QED
      BY <3>2, SlashDot, WritesByte
  <2>4. Writes(Put(<<Slash>>, 1), s, i)
    BY <2>1, SlashDot, WritesByte
  <2> QED
    BY <2>2, <2>3, <2>4, WritesCopy
<1>2. BackslashToSlashInto(s) = Rewrite(puts)
  BY DEF BackslashToSlashInto
<1>3. puts = [i \in DOMAIN s |-> puts[i]]
  OBVIOUS
<1> HIDE DEF puts
<1> QED
  BY <1>1, <1>2, <1>3, ScanType

LEMMA TruncateAtNullIntoIs ==
  ASSUME NEW s \in Seq(Int)
  PROVE  TruncateAtNullInto(s) \in Seq(Int)
<1> DEFINE nuls == {i \in DOMAIN s : ClaimedAt("null_truncate", s, i)}
<1>1. TruncateAtNullInto(s) = IF nuls = {} THEN s ELSE SubSeq(s, 1, Min(nuls) - 1)
  BY DEF TruncateAtNullInto
<1>2. nuls \in SUBSET (1..Len(s)) /\ nuls \in SUBSET Nat
  OBVIOUS
<1> HIDE DEF nuls
<1>3. CASE nuls # {}
  <2>1. Min(nuls) \in nuls
    BY <1>2, <1>3, LeastIn
  <2>2. Min(nuls) \in 1..Len(s)
    BY <1>2, <2>1
  <2>3. 1 \in 1..(Len(s) + 1) /\ Min(nuls) - 1 \in 0..Len(s)
    BY <2>2
  <2>4. SubSeq(s, 1, Min(nuls) - 1) \in Seq(Int)
    BY <2>3, PartOf
  <2> QED
    BY <1>1, <1>3, <2>4
<1> QED
  BY <1>1, <1>3

LEMMA DecodeOverlongIntoIs ==
  ASSUME NEW s \in Seq(Int)
  PROVE  DecodeOverlongInto(s) \in Seq(Int)
<1>0. PICK t \in Seq(Int) : t = Unwrapped(s)
  BY UnwrappedIs
<1> DEFINE two(i) == (t[i] % 32) * 64 + (t[i + 1] % 64)
           three(i) == (t[i + 1] % 64) * 64 + (t[i + 2] % 64)
           puts == [i \in DOMAIN t |->
             IF t[i] \in {192, 193} /\ HasAt(t, i, 2) /\ Trail(t, i + 1)
             THEN Put(<<two(i)>>, 2)
             ELSE IF t[i] = 224 /\ HasAt(t, i, 3) /\ t[i + 1] \in {128, 129} /\ Trail(t, i + 2)
             THEN Put(<<three(i)>>, 3)
             ELSE Copy(t, i)]
<1>1. ASSUME NEW i \in 1..Len(t) PROVE Writes(puts[i], t, i)
  <2>1. i \in DOMAIN t
    OBVIOUS
  <2>2. puts[i] = IF t[i] \in {192, 193} /\ HasAt(t, i, 2) /\ Trail(t, i + 1)
                  THEN Put(<<two(i)>>, 2)
                  ELSE IF t[i] = 224 /\ HasAt(t, i, 3) /\ t[i + 1] \in {128, 129} /\ Trail(t, i + 2)
                  THEN Put(<<three(i)>>, 3)
                  ELSE Copy(t, i)
    BY <2>1
  <2> HIDE DEF puts
  <2>3. \A x, y \in Int : (x % 32) * 64 + (y % 64) \in Int /\ (x % 64) * 64 + (y % 64) \in Int
    OBVIOUS
  <2>4. ASSUME HasAt(t, i, 2) PROVE Writes(Put(<<two(i)>>, 2), t, i)
    <3>1. i + 1 <= Len(t)
      BY <2>4 DEF HasAt
    <3>2. i + 1 \in 1..Len(t) /\ i + 2 <= Len(t) + 1
      BY <3>1
    <3>3. t[i] \in Int /\ t[i + 1] \in Int
      BY <3>2
    <3>4. two(i) \in Int
      BY <2>3, <3>3
    <3> HIDE DEF two
    <3> QED
      BY <3>2, <3>4, WritesByte
  <2>5. ASSUME HasAt(t, i, 3) PROVE Writes(Put(<<three(i)>>, 3), t, i)
    <3>1. i + 2 <= Len(t)
      BY <2>5 DEF HasAt
    <3>2. i + 1 \in 1..Len(t) /\ i + 2 \in 1..Len(t) /\ i + 3 <= Len(t) + 1
      BY <3>1
    <3>3. t[i + 1] \in Int /\ t[i + 2] \in Int
      BY <3>2
    <3>4. three(i) \in Int
      BY <2>3, <3>3
    <3> HIDE DEF three
    <3> QED
      BY <3>2, <3>4, WritesByte
  <2> HIDE DEF two, three
  <2> QED
    BY <2>2, <2>4, <2>5, WritesCopy
<1>2. DecodeOverlongInto(s) = Rewrite(puts)
  BY <1>0 DEF DecodeOverlongInto
<1>3. puts = [i \in DOMAIN t |-> puts[i]]
  OBVIOUS
<1> HIDE DEF puts
<1> QED
  BY <1>1, <1>2, <1>3, ScanType

LEMMA DecodeUTF16IntoIs ==
  ASSUME NEW s \in Seq(Int)
  PROVE  DecodeUTF16Into(s) \in Seq(Int)
<1>1. PICK t : t = IF HasBOM(s) THEN SubSeq(s, 3, Len(s)) ELSE s
  OBVIOUS
<1>2. ASSUME HasBOM(s) PROVE SubSeq(s, 3, Len(s)) \in Seq(Int)
  <2>1. HasAt(s, 1, 2) /\ Len(s) \in Nat
    BY <1>2 DEF HasBOM
  <2>2. 3 \in 1..(Len(s) + 1) /\ Len(s) \in 0..Len(s)
    BY <2>1 DEF HasAt
  <2> QED
    BY <2>2, PartOf
<1>3. t \in Seq(Int)
  BY <1>1, <1>2
<1>4. DecodeUTF16Into(s) = Those(t, Range(s) \ {0})
  BY <1>1 DEF DecodeUTF16Into
<1> QED
  BY <1>3, <1>4, RangeOfThose


(* ---- UTF-7 and entities ------------------------------------------------- *)
UnitStates == [acc : Nat, bits : 0..15, out : Seq(Int)]
UnitStart == [acc |-> 0, bits |-> 0, out |-> <<>>]
Units(a, b, o) == [acc |-> a, bits |-> b, out |-> o]
UnitStep(st, c) ==
  LET acc == st.acc * 64 + Base64Value[c]
      bits == st.bits + 6
      unit == acc \div OneLeft[bits - 15]
  IN  IF bits < 16 THEN [st EXCEPT !.acc = acc, !.bits = bits]
      ELSE [acc |-> acc % OneLeft[bits - 15], bits |-> bits - 16,
            out |-> IF unit < 128 THEN Append(st.out, unit) ELSE st.out]
UnitRead(run) == FoldLeft(UnitStep, UnitStart, run)

LEMMA UnitsMade ==
  ASSUME NEW a \in Nat, NEW b \in 0..15, NEW o \in Seq(Int)
  PROVE  Units(a, b, o) \in UnitStates
  BY DEF Units, UnitStates

LEMMA UnitStepIs ==
  ASSUME NEW st \in UnitStates, NEW c \in DOMAIN Base64Value
  PROVE  UnitStep(st, c) \in UnitStates
<1>1. st.acc \in Nat /\ st.bits \in 0..15 /\ st.out \in Seq(Int)
  BY DEF UnitStates
<1>2. PICK acc : acc = st.acc * 64 + Base64Value[c]
  OBVIOUS
<1>3. acc \in Nat
  <2>1. PICK a \in Nat, v \in Nat : a = st.acc /\ v = Base64Value[c]
    BY <1>1, Base64ValueIs
  <2>2. acc = a * 64 + v
    BY <1>2, <2>1
  <2> QED
    BY <2>2
<1>4. PICK bits : bits = st.bits + 6
  OBVIOUS
<1>5. CASE bits < 16
  <2>0. bits \in 0..15
    <3>1. PICK b \in 0..15 : b = st.bits
      BY <1>1
    <3>2. bits = b + 6
      BY <1>4, <3>1
    <3> QED
      BY <1>5, <3>2
  <2>1. UnitStep(st, c) = [st EXCEPT !.acc = acc, !.bits = bits]
    BY <1>2, <1>4, <1>5 DEF UnitStep
  <2>2. [st EXCEPT !.acc = acc, !.bits = bits] = [[st EXCEPT !.acc = acc] EXCEPT !.bits = bits]
    OBVIOUS
  <2>3. [st EXCEPT !.acc = acc] \in UnitStates
    BY <1>3 DEF UnitStates
  <2>4. PICK t \in UnitStates : t = [st EXCEPT !.acc = acc]
    BY <2>3
  <2>5. [t EXCEPT !.bits = bits] \in UnitStates
    BY <2>0 DEF UnitStates
  <2> QED
    BY <2>1, <2>2, <2>4, <2>5
<1>6. CASE ~(bits < 16)
  <2>0. bits - 15 \in 1..6 /\ bits - 16 \in 0..15
    <3>1. PICK b \in 0..15 : b = st.bits
      BY <1>1
    <3>2. bits = b + 6
      BY <1>4, <3>1
    <3> QED
      BY <1>6, <3>2
  <2>1. PICK r, q, k : r = acc % OneLeft[bits - 15] /\ q = acc \div OneLeft[bits - 15] /\ k = bits - 16
    OBVIOUS
  <2>2. r \in Nat /\ q \in Nat /\ k \in 0..15
    BY <1>3, <2>0, <2>1, ShiftIs
  <2>3. PICK o : o = IF q < 128 THEN Append(st.out, q) ELSE st.out
    OBVIOUS
  <2>4. UnitStep(st, c) = Units(r, k, o)
    BY <1>2, <1>4, <1>6, <2>1, <2>3 DEF UnitStep, Units
  <2>5. o \in Seq(Int)
    BY <1>1, <2>2, <2>3
  <2> QED
    BY <2>2, <2>4, <2>5, UnitsMade
<1> QED
  BY <1>5, <1>6

LEMMA UnitStartIs == UnitStart \in UnitStates
  BY DEF UnitStart, UnitStates

\* One character after the other.
UnitReadRun(f, run) ==
  /\ f \in [0..Len(run) -> UnitStates]
  /\ f[0] = UnitStart
  /\ \A k \in 1..Len(run) : f[k] = UnitStep(f[k - 1], run[k])
  /\ UnitRead(run) = f[Len(run)]

LEMMA UnitReadFold ==
  ASSUME NEW run \in Seq(DOMAIN Base64Value)
  PROVE  \E f : UnitReadRun(f, run)
<1> DEFINE T == UnitStates
           El == DOMAIN Base64Value
           op(st, c) == UnitStep(st, c)
           base == UnitStart
           step == [p \in T \X El |-> op(p[1], p[2])]
           Is(h) == h = [S \in SUBSET DOMAIN run |->
                           IF S = {} THEN base ELSE op(h[S \ {Max(S)}], run[Max(S)])]
           iter == CHOOSE h : Is(h)
<1>1. base \in T
  BY UnitStartIs
<1>a. \A t \in T, x \in El : op(t, x) \in T
  BY UnitStepIs
<1>2. UnitRead(run) = iter[DOMAIN run]
  BY DEF UnitRead, FoldLeft, MapThenFoldSet
<1>0. run \in Seq(El)
  OBVIOUS
<1> HIDE DEF op, base, T, El
<1>3. step \in [T \X El -> T]
  BY <1>a
<1>b. \A t \in T, x \in El : step[<<t, x>>] = op(t, x)
  OBVIOUS
<1> HIDE DEF step
<1>4. PICK g : Partial(g, T, run, base, step, Len(run))
  BY <1>0, <1>1, <1>3, FoldExists
<1>5. ASSUME NEW S \in SUBSET DOMAIN run, S # {} PROVE g[S] = op(g[S \ {Max(S)}], run[Max(S)])
  <2>1. Max(S) \in S /\ g[S] = step[<<g[S \ {Max(S)}], run[Max(S)]>>] /\ g \in [SUBSET DOMAIN run -> T]
    BY <1>0, <1>4, <1>5, DomainOfSeq DEF Partial
  <2>2. g[S \ {Max(S)}] \in T /\ run[Max(S)] \in El
    BY <1>0, <2>1
  <2> QED
    BY <1>b, <2>1, <2>2
<1>6. g[{}] = base /\ g = [S \in SUBSET DOMAIN run |-> g[S]]
  BY <1>0, <1>4, PartialBase
<1>7. Is(iter)
  <2>1. Is(g)
    BY <1>5, <1>6
  <2> QED
    BY <2>1
<1> HIDE DEF iter
<1>8. iter[{}] = base
  BY <1>7
<1>9. ASSUME NEW S \in SUBSET DOMAIN run, S # {}, iter[S \ {Max(S)}] \in T, run[Max(S)] \in El
      PROVE  iter[S] = step[<<iter[S \ {Max(S)}], run[Max(S)]>>]
  BY <1>7, <1>9, <1>b
<1> HIDE DEF Is
<1>10. Steps(iter, T, El, run, base, step)
  BY <1>8, <1>9 DEF Steps
<1>12. PICK f : Runs(f, T, run, base, step, iter[DOMAIN run])
  BY <1>0, <1>1, <1>3, <1>10, FoldRuns
<1>13. f \in [0..Len(run) -> T] /\ f[0] = base /\ f[Len(run)] = iter[DOMAIN run]
  BY <1>12 DEF Runs
<1>11. \A k \in 1..Len(run) : f[k] = op(f[k - 1], run[k])
  BY <1>0, <1>b, <1>12, <1>13, InsideFold DEF Runs
<1> QED
  BY <1>2, <1>11, <1>13 DEF op, base, T, UnitReadRun

LEMMA DecodeUTF7RunIs ==
  ASSUME NEW run \in Seq(DOMAIN Base64Value)
  PROVE  DecodeUTF7Run(run) \in Seq(Int)
<1>1. PICK f : UnitReadRun(f, run)
  BY UnitReadFold
<1>2. DecodeUTF7Run(run) = UnitRead(run).out
  BY Zenon DEF DecodeUTF7Run, UnitRead, UnitStep, UnitStart
<1>3. UnitRead(run) \in UnitStates
  <2>1. Len(run) \in 0..Len(run)
    OBVIOUS
  <2> QED
    BY <1>1, <2>1 DEF UnitReadRun
<1> QED
  BY <1>2, <1>3 DEF UnitStates

\* Up to so many symbols of cs from i on.
LEMMA RunUpTo ==
  ASSUME NEW E, NEW s \in Seq(E), NEW i \in 1..(Len(s) + 1), NEW cs, NEW most \in Nat,
         NEW j, j = Min({RunEnd(s, i, cs), i + most})
  PROVE  j \in i..(Len(s) + 1) /\ j <= i + most /\ SubSeq(s, i, j - 1) \in Seq(cs)
<1>0. Len(s) \in Nat
  OBVIOUS
<1>1. PICK e : e = RunEnd(s, i, cs)
  OBVIOUS
<1>2. e \in i..(Len(s) + 1) /\ \A k \in i..(e - 1) : s[k] \in cs
  BY <1>1, RunEndIs
<1>3. j = IF e <= i + most THEN e ELSE i + most
  BY <1>0, <1>1, <1>2, LeastOfTwo
<1>4. j \in i..(Len(s) + 1) /\ j <= e /\ j <= i + most
  BY <1>0, <1>2, <1>3
<1>5. \A k \in i..(j - 1) : s[k] \in cs
  <2> SUFFICES ASSUME NEW k \in i..(j - 1) PROVE s[k] \in cs
    OBVIOUS
  <2>1. k \in i..(e - 1)
    BY <1>0, <1>2, <1>4
  <2> QED
    BY <1>2, <2>1
<1>6. j - 1 \in 0..Len(s)
  BY <1>0, <1>4
<1> QED
  BY <1>0, <1>4, <1>5, <1>6, PartWithin

LEMMA ShiftRunIs ==
  ASSUME NEW t \in Seq(Int), NEW i \in 1..Len(t), NEW j, j = Utf7RunEnd(t, i)
  PROVE  /\ j \in (i + 1)..(Len(t) + 1)
         /\ SubSeq(t, i + 1, j - 1) \in Seq(DOMAIN Base64Value)
<1>1. i + 1 \in 1..(Len(t) + 1) /\ MaxEntityLen \in Nat /\ i + MaxEntityLen + 1 = (i + 1) + MaxEntityLen
  BY AmbiguityAssumption
<1>2. j = Min({RunEnd(t, i + 1, DOMAIN Base64Value), (i + 1) + MaxEntityLen})
  BY <1>1 DEF Utf7RunEnd
<1> QED
  BY <1>1, <1>2, RunUpTo

LEMMA DecodeUTF7IntoIs ==
  ASSUME NEW s \in Seq(Int)
  PROVE  DecodeUTF7Into(s) \in Seq(Int)
<1>0. PICK t \in Seq(Int) : t = Unwrapped(s)
  BY UnwrappedIs
<1> DEFINE shifted(i, j) == Put(DecodeUTF7Run(SubSeq(t, i + 1, j - 1)), (IF ShiftEnds(t, j) THEN j + 1 ELSE j) - i)
           puts == [i \in DOMAIN t |->
             LET j == Utf7RunEnd(t, i)
             IN  IF t[i] # Plus THEN Copy(t, i)
                 ELSE IF HasAt(t, i, 2) /\ t[i + 1] = Code["-"] THEN Put(<<Plus>>, 2)
                 ELSE IF j = i + 1 THEN Copy(t, i)
                 ELSE shifted(i, j)]
<1>1. ASSUME NEW i \in 1..Len(t) PROVE Writes(puts[i], t, i)
  <2>1. i \in DOMAIN t /\ Len(t) \in Nat
    OBVIOUS
  <2>2. PICK j : j = Utf7RunEnd(t, i)
    OBVIOUS
  <2>3. puts[i] = IF t[i] # Plus THEN Copy(t, i)
                  ELSE IF HasAt(t, i, 2) /\ t[i + 1] = Code["-"] THEN Put(<<Plus>>, 2)
                  ELSE IF j = i + 1 THEN Copy(t, i)
                  ELSE shifted(i, j)
    BY <2>1, <2>2
  <2> HIDE DEF puts
  <2>4. ASSUME HasAt(t, i, 2) PROVE Writes(Put(<<Plus>>, 2), t, i)
    <3>1. i + 2 <= Len(t) + 1 /\ Plus \in Int
      BY <2>4 DEF HasAt, Plus
    <3> QED
      BY <3>1, WritesByte
  <2>5. j \in (i + 1)..(Len(t) + 1) /\ SubSeq(t, i + 1, j - 1) \in Seq(DOMAIN Base64Value)
    BY <2>2, ShiftRunIs
  <2>6. Writes(shifted(i, j), t, i)
    <3>1. PICK out \in Seq(Int) : out = DecodeUTF7Run(SubSeq(t, i + 1, j - 1))
      BY <2>5, DecodeUTF7RunIs
    <3>2. PICK to : to = IF ShiftEnds(t, j) THEN j + 1 ELSE j
      OBVIOUS
    <3>3. to \in (i + 1)..(Len(t) + 1)
      BY <2>1, <2>5, <3>2 DEF ShiftEnds
    <3>4. to - i \in Nat /\ to - i # 0 /\ i + (to - i) <= Len(t) + 1
      BY <2>1, <3>3
    <3>5. Writes(Put(out, to - i), t, i)
      BY <3>4, WritesPut
    <3> QED
      BY <3>1, <3>2, <3>5
  <2> HIDE DEF shifted
  <2> QED
    BY <2>3, <2>4, <2>6, WritesCopy
<1>2. DecodeUTF7Into(s) = Rewrite(puts)
  BY <1>0 DEF DecodeUTF7Into
<1>3. puts = [i \in DOMAIN t |-> puts[i]]
  OBVIOUS
<1> HIDE DEF puts
<1> QED
  BY <1>1, <1>2, <1>3, ScanType

\* What an entity stands for, if there is one.
LEMMA NumericEntityIs ==
  ASSUME NEW s \in Seq(Int), NEW i \in 1..Len(s), HasAt(s, i, 3), NumericEntity(s, i).used > 0
  PROVE  Writes(NumericEntity(s, i), s, i)
<1>0. Len(s) \in Nat /\ i + 2 <= Len(s)
  BY DEF HasAt
<1> DEFINE base == IF HasAt(s, i, 3) /\ s[i + 2] \in OctetSet("xX") THEN 16 ELSE 10
           start == IF base = 16 THEN i + 3 ELSE i + 2
           cs == IF base = 16 THEN HexDigits ELSE Decimal
           j == Min({RunEnd(s, start, cs), start + 8})
           ds == SubSeq(s, start, j - 1)
           ends == HasAt(s, j, 1) /\ s[j] = Code[";"]
           to == IF ends THEN j + 1 ELSE j
           size == to - i
<1>12. NumericEntity(s, i) =
         IF ds = <<>> THEN Put(<<>>, 0)
         ELSE IF base = 16 /\ Len(ds) = 8 /\ Digit[ds[1]] >= 8
           THEN Put(<<Spelled(SubSeq(ds, 7, 8), 16)>>, size)
         ELSE IF Spelled(ds, base) > MaxRune THEN Put(<<>>, 0)
         ELSE Put(Utf8(Spelled(ds, base)), size)
  BY Zenon DEF NumericEntity
<1>1. base \in {10, 16}
  OBVIOUS
<1> HIDE DEF base
<1>3. start \in 1..(Len(s) + 1) /\ start >= i + 2
  BY <1>0, <1>1
<1>4. cs \in SUBSET HexDigits
  BY DEF HexDigits
<1> HIDE DEF start, cs
<1>5. j = Min({RunEnd(s, start, cs), start + 8})
  OBVIOUS
<1> HIDE DEF j
<1>6. j \in start..(Len(s) + 1) /\ SubSeq(s, start, j - 1) \in Seq(cs)
  BY <1>3, <1>5, RunUpTo
<1>7. ds \in Seq(HexDigits)
  <2>1. Seq(cs) \subseteq Seq(HexDigits)
    BY <1>4
  <2> QED
    BY <1>6, <2>1
<1> HIDE DEF ds
<1>8. j \in 1..(Len(s) + 1) /\ j >= i + 2
  BY <1>0, <1>3, <1>6
<1>9. to \in j..(Len(s) + 1)
  <2>2. PICK k \in 1..(Len(s) + 1) : k = j
    BY <1>8
  <2>3. HasAt(s, k, 1) => k + 1 <= Len(s) + 1
    BY <1>0 DEF HasAt
  <2>1. ends => j + 1 <= Len(s) + 1
    BY Zenon, <2>2, <2>3
  <2> HIDE DEF ends
  <2> QED
    BY <1>0, <1>8, <2>1
<1> HIDE DEF to
<1>11. size \in Nat /\ size # 0 /\ i + size <= Len(s) + 1
  BY <1>0, <1>8, <1>9
<1> HIDE DEF size
<1>13. Put(<<>>, 0).used = 0 /\ ~(0 > 0)
  BY DEF Put
<1>14. ASSUME Len(ds) = 8 PROVE Writes(Put(<<Spelled(SubSeq(ds, 7, 8), 16)>>, size), s, i)
  <2>1. 7 \in 1..(Len(ds) + 1) /\ 8 \in 0..Len(ds)
    BY <1>14
  <2>2. SubSeq(ds, 7, 8) \in Seq(HexDigits)
    BY <1>7, <2>1, PartOf
  <2>3. 16 \in Nat
    OBVIOUS
  <2>4. Spelled(SubSeq(ds, 7, 8), 16) \in Nat
    BY <2>2, <2>3, SpelledIs
  <2> QED
    BY <1>11, <2>4, WritesByte
<1>15. Writes(Put(Utf8(Spelled(ds, base)), size), s, i)
  <2>1. base \in Nat
    BY <1>1
  <2>2. Spelled(ds, base) \in Nat
    BY <1>7, <2>1, SpelledIs
  <2>3. Utf8(Spelled(ds, base)) \in Seq(Int)
    BY <2>2, Utf8Is
  <2> QED
    BY <1>11, <2>3, WritesPut
<1> QED
  BY ONLY <1>12, <1>13, <1>14, <1>15, NumericEntity(s, i).used > 0, SMT

LEMMA EntityIs ==
  ASSUME NEW s \in Seq(Int), NEW i \in 1..Len(s), DecodeEntityAt(s, i).used > 0
  PROVE  Writes(DecodeEntityAt(s, i), s, i)
<1> DEFINE names == {e \in DOMAIN NamedEntities : LiesAt(s, i, e)}
           e == CHOOSE x \in names : TRUE
<1>2. DecodeEntityAt(s, i) =
        IF s[i] # Code["&"] \/ ~HasAt(s, i, 3) THEN Put(<<>>, 0)
        ELSE IF s[i + 1] = Code["#"] THEN NumericEntity(s, i)
        ELSE IF names = {} THEN Put(<<>>, 0)
        ELSE Put(<<NamedEntities[e]>>, Len(e))
  BY DEF DecodeEntityAt
<1>1. names # {} => e \in names
  OBVIOUS
<1> HIDE DEF e
<1>3. ASSUME names # {} PROVE Writes(Put(<<NamedEntities[e]>>, Len(e)), s, i)
  <2>1. e \in names
    BY <1>1, <1>3
  <2>2. e \in DOMAIN NamedEntities /\ HasAt(s, i, Len(e))
    BY <2>1 DEF LiesAt
  <2>3. e \in Seq(Nat) \ {<<>>} /\ NamedEntities[e] \in Nat
    BY <2>2, AmbiguityAssumption
  <2>4. Len(e) \in Nat /\ Len(e) # 0
    BY <2>3
  <2>5. i + Len(e) <= Len(s) + 1
    BY <2>2, <2>4 DEF HasAt
  <2> QED
    BY <2>3, <2>4, <2>5, WritesByte
<1> HIDE DEF names
<1>4. Put(<<>>, 0).used = 0 /\ ~(0 > 0)
  BY DEF Put
<1> QED
  BY <1>2, <1>3, <1>4, NumericEntityIs

LEMMA DecodeEntitiesIntoIs ==
  ASSUME NEW s \in Seq(Int)
  PROVE  DecodeEntitiesInto(s) \in Seq(Int)
<1>0. PICK t \in Seq(Int) : t = Unwrapped(s)
  BY UnwrappedIs
<1> DEFINE puts == [i \in DOMAIN t |->
                      LET e == DecodeEntityAt(t, i) IN IF e.used > 0 THEN e ELSE Copy(t, i)]
<1>1. ASSUME NEW i \in 1..Len(t) PROVE Writes(puts[i], t, i)
  <2>1. i \in DOMAIN t
    OBVIOUS
  <2>2. puts[i] = IF DecodeEntityAt(t, i).used > 0 THEN DecodeEntityAt(t, i) ELSE Copy(t, i)
    BY <2>1
  <2> HIDE DEF puts
  <2> QED
    BY <2>2, EntityIs, WritesCopy
<1>2. DecodeEntitiesInto(s) = Rewrite(puts)
  BY <1>0 DEF DecodeEntitiesInto
<1>3. puts = [i \in DOMAIN t |-> puts[i]]
  OBVIOUS
<1> HIDE DEF puts
<1> QED
  BY <1>1, <1>2, <1>3, ScanType

(* ---- quoted pieces ------------------------------------------------------ *)
\* From the last position back to the first.
LEMMA FromTheEnd ==
  ASSUME NEW n \in Nat, NEW S, \A i \in 1..n : (\A j \in (i + 1)..n : j \in S) => i \in S
  PROVE  1..n \subseteq S
<1> DEFINE good == {m \in 0..n : \A j \in (n + 1 - m)..n : j \in S}
<1>1. 0 \in good
  OBVIOUS
<1>2. ASSUME NEW m \in 1..n, m - 1 \in good PROVE m \in good
  <2>1. PICK i \in 1..n : i = n + 1 - m
    OBVIOUS
  <2>2. \A j \in (i + 1)..n : j \in S
    BY <1>2, <2>1
  <2>3. i \in S
    BY <2>2
  <2>4. \A j \in i..n : j \in S
    BY <2>2, <2>3
  <2>5. m \in 0..n
    OBVIOUS
  <2> QED
    BY <2>1, <2>4, <2>5
<1> HIDE DEF good
<1>3. 0..n \subseteq good
  BY <1>1, <1>2, UpTo
<1>4. n \in good
  BY <1>3
<1>5. \A j \in (n + 1 - n)..n : j \in S
  BY <1>4 DEF good
<1> QED
  BY <1>5

\* Where a quoted run may end, from each position.
QuoteEnd(s, i, to, j) ==
  IF j > Len(s) \/ s[j] = s[i] THEN j
  ELSE IF s[j] = Backslash /\ HasAt(s, j, 2) THEN to[j + 2] ELSE to[j + 1]
QuoteEnds(s, i, to) == to = [j \in 1..(Len(s) + 1) |-> QuoteEnd(s, i, to, j)]

LEMMA QuoteEndsExist ==
  ASSUME NEW s \in Seq(Int), NEW i \in 1..Len(s)
  PROVE  \E to : QuoteEnds(s, i, to)
<1>0. PICK n \in Nat : n = Len(s)
  OBVIOUS
<1> DEFINE D == 1..(n + 1)
           rank == [j \in D |-> n + 1 - j]
           F == [p \in D \X [D -> D] |-> QuoteEnd(s, i, p[2], p[1])]
<1>1. ASSUME NEW j \in D PROVE /\ j <= Len(s) => j + 1 \in D /\ rank[j + 1] < rank[j]
                               /\ HasAt(s, j, 2) => j + 2 \in D /\ rank[j + 2] < rank[j]
  BY <1>0 DEF HasAt
<1>2. rank \in [D -> 0..n] /\ D # {}
  <2>1. \A j \in D : n + 1 - j \in 0..n
    OBVIOUS
  <2>2. 1 \in D
    OBVIOUS
  <2> HIDE DEF D
  <2> QED
    BY <2>1, <2>2
<1>3. ASSUME NEW j \in D, NEW g \in [D -> D] PROVE F[<<j, g>>] = QuoteEnd(s, i, g, j) /\ QuoteEnd(s, i, g, j) \in D
  <2>1. F[<<j, g>>] = QuoteEnd(s, i, g, j)
    OBVIOUS
  <2> HIDE DEF F, rank
  <2>2. j > Len(s) \/ j <= Len(s)
    BY <1>0
  <2>3. j <= Len(s) => g[j + 1] \in D
    BY <1>1
  <2>4. HasAt(s, j, 2) => g[j + 2] \in D
    BY <1>1
  <2>5. QuoteEnd(s, i, g, j) \in D
    BY <2>2, <2>3, <2>4 DEF QuoteEnd
  <2> QED
    BY <2>1, <2>5
<1> HIDE DEF F, rank
<1>4. F \in [D \X [D -> D] -> D]
  <2>1. F = [p \in D \X [D -> D] |-> QuoteEnd(s, i, p[2], p[1])]
    BY DEF F
  <2>2. ASSUME NEW p \in D \X [D -> D] PROVE QuoteEnd(s, i, p[2], p[1]) \in D
    BY <1>3
  <2> QED
    BY <2>1, <2>2
<1>5. ASSUME NEW j \in D, NEW g \in [D -> D], NEW h \in [D -> D], Agree(g, h, D, rank, j)
      PROVE  F[<<j, g>>] = F[<<j, h>>]
  <2>1. j <= Len(s) => g[j + 1] = h[j + 1]
    BY <1>1, <1>5 DEF Agree
  <2>2. HasAt(s, j, 2) => g[j + 2] = h[j + 2]
    BY <1>1, <1>5 DEF Agree
  <2>3. j > Len(s) \/ j <= Len(s)
    BY <1>0
  <2>4. QuoteEnd(s, i, g, j) = QuoteEnd(s, i, h, j)
    BY <2>1, <2>2, <2>3 DEF QuoteEnd
  <2> QED
    BY <1>3, <2>4
<1>6. PICK g \in [D -> D] : \A j \in D : g[j] = F[<<j, g>>]
  <2> HIDE DEF D
  <2>1. Below(F, D, D, rank)
    BY <1>5 DEF Below
  <2>2. PICK g : Solved(g, F, D, D)
    BY <1>2, <1>4, <2>1, Recursion
  <2> QED
    BY <2>2 DEF Solved
<1>7. \A j \in D : g[j] = QuoteEnd(s, i, g, j)
  BY <1>3, <1>6
<1>8. g = [j \in D |-> QuoteEnd(s, i, g, j)]
  BY <1>7
<1> QED
  BY <1>0, <1>8 DEF QuoteEnds

LEMMA QuoteEndsAfter ==
  ASSUME NEW s \in Seq(Int), NEW i \in 1..Len(s), NEW to, QuoteEnds(s, i, to), NEW j \in 1..(Len(s) + 1)
  PROVE  to[j] \in j..(Len(s) + 1)
<1>0. PICK n \in Nat : n = Len(s) + 1
  OBVIOUS
<1> DEFINE S == {k \in 1..n : to[k] \in k..n}
<1>1. ASSUME NEW k \in 1..n, \A l \in (k + 1)..n : l \in S PROVE k \in S
  <2>1. to[k] = QuoteEnd(s, i, to, k)
    BY <1>0 DEF QuoteEnds
  <2>2. k > Len(s) \/ k + 1 \in (k + 1)..n
    BY <1>0
  <2>3. ~HasAt(s, k, 2) \/ k + 2 \in (k + 1)..n
    BY <1>0 DEF HasAt
  <2>4. k + 1 \in (k + 1)..n => to[k + 1] \in k..n
    BY <1>1
  <2>5. k + 2 \in (k + 1)..n => to[k + 2] \in k..n
    BY <1>1
  <2>6. QuoteEnd(s, i, to, k) \in k..n
    BY <2>2, <2>3, <2>4, <2>5 DEF QuoteEnd
  <2> QED
    BY <2>1, <2>6
<1> HIDE DEF S
<1>2. 1..n \subseteq S
  BY <1>1, FromTheEnd
<1> QED
  BY <1>0, <1>2 DEF S

LEMMA ScanQuotedIs ==
  ASSUME NEW s \in Seq(Int), NEW i \in 1..Len(s)
  PROVE  /\ ScanQuoted(s, i).end \in (i + 1)..(Len(s) + 1)
         /\ ScanQuoted(s, i).content \in Seq(Int)
<1> DEFINE to == CHOOSE to : QuoteEnds(s, i, to)
           j == to[i + 1]
<1>1. ScanQuoted(s, i) = [end |-> IF j <= Len(s) THEN j + 1 ELSE j, closed |-> j <= Len(s),
                          content |-> SubSeq(s, i + 1, j - 1)]
  BY DEF ScanQuoted, QuoteEnds, QuoteEnd
<1>2. QuoteEnds(s, i, to)
  BY QuoteEndsExist
<1> HIDE DEF to
<1>3. i + 1 \in 1..(Len(s) + 1) /\ Len(s) \in Nat
  OBVIOUS
<1>4. j \in (i + 1)..(Len(s) + 1)
  BY <1>2, <1>3, QuoteEndsAfter
<1> HIDE DEF j
<1>5. PICK k \in (i + 1)..(Len(s) + 1) : k = j
  BY <1>4
<1>6. k - 1 \in 0..Len(s)
  BY <1>3
<1>7. SubSeq(s, i + 1, k - 1) \in Seq(Int)
  BY <1>3, <1>6, PartOf
<1>8. (IF k <= Len(s) THEN k + 1 ELSE k) \in (i + 1)..(Len(s) + 1)
  BY <1>3
<1> QED
  BY <1>1, <1>5, <1>7, <1>8

LEMMA JoinAtIs ==
  ASSUME NEW s \in Seq(Int), NEW i \in 1..(Len(s) + 1), NEW cs
  PROVE  JoinAt(s, i, cs) = 0 \/ JoinAt(s, i, cs) \in (i + 1)..Len(s)
<1> DEFINE op == RunEnd(s, i, {Space, 9})
           next == RunEnd(s, op + 1, {Space, 9})
<1>1. JoinAt(s, i, cs) = IF op <= Len(s) /\ s[op] \in {Dot, Plus} /\ next <= Len(s) /\ s[next] \in cs
                         THEN next ELSE 0
  BY DEF JoinAt
<1>2. op \in i..(Len(s) + 1)
  BY RunEndIs
<1> HIDE DEF op
<1>3. ASSUME op <= Len(s) PROVE next \in (i + 1)..(Len(s) + 1)
  <2>1. op + 1 \in 1..(Len(s) + 1)
    BY <1>2, <1>3
  <2>2. next \in (op + 1)..(Len(s) + 1)
    BY <2>1, RunEndIs
  <2> HIDE DEF next
  <2> QED
    BY <1>2, <2>2
<1> HIDE DEF next
<1>4. op <= Len(s) /\ next <= Len(s) => next \in (i + 1)..Len(s)
  BY <1>3
<1> QED
  BY <1>1, <1>4

LEMMA HexPairIs ==
  ASSUME NEW s \in Seq(Int), NEW i \in 1..Len(s), HexAt(s, i + 2, 2)
  PROVE  Writes(Put(<<Spelled(SubSeq(s, i + 2, i + 3), 16)>>, 4), s, i)
<1>1. i + 3 <= Len(s) /\ Len(s) \in Nat /\ \A k \in (i + 2)..(i + 3) : s[k] \in HexDigits
  BY DEF HexAt, HasAt
<1>2. i + 2 \in 1..(Len(s) + 1) /\ i + 3 \in 0..Len(s) /\ i + 4 <= Len(s) + 1 /\ 16 \in Nat
  BY <1>1
<1>3. SubSeq(s, i + 2, i + 3) \in Seq(HexDigits)
  BY <1>1, <1>2, PartWithin
<1>4. PICK v \in Nat : v = Spelled(SubSeq(s, i + 2, i + 3), 16)
  BY <1>2, <1>3, SpelledIs
<1> QED
  BY <1>2, <1>4, WritesByte

LEMMA OctalPieceIs ==
  ASSUME NEW s \in Seq(Int), NEW i \in 1..Len(s), HasAt(s, i, 2), s[i + 1] \in Octal
  PROVE  Writes(Put(<<Spelled(SubSeq(s, i + 1, OctalEnd(s, i) - 1), 8)>>, OctalEnd(s, i) - i), s, i)
<1>1. PICK k \in 1..Len(s) : k = i + 1
  BY DEF HasAt
<1>2. PICK j : j = Min({RunEnd(s, k, Octal), k + 3})
  OBVIOUS
<1>9. s[k] \in Octal /\ 3 > 0
  BY <1>1
<1>3. Octal \in SUBSET HexDigits /\ 3 \in Nat /\ 8 \in Nat
  BY DEF Octal, HexDigits, Decimal
<1>4. j \in (k + 1)..(Len(s) + 1) /\ SubSeq(s, k, j - 1) \in Seq(HexDigits)
  BY <1>2, <1>3, <1>9, DigitsAt
<1>5. OctalEnd(s, i) = j
  <2>1. i + 4 = k + 3
    BY <1>1
  <2> QED
    BY <1>1, <1>2, <2>1 DEF OctalEnd
<1>6. PICK v \in Nat : v = Spelled(SubSeq(s, k, j - 1), 8)
  BY <1>3, <1>4, SpelledIs
<1>7. j - i \in Nat /\ j - i # 0 /\ i + (j - i) <= Len(s) + 1
  BY <1>1, <1>4
<1>8. Writes(Put(<<v>>, j - i), s, i)
  BY <1>7, WritesByte
<1> QED
  BY <1>1, <1>5, <1>6, <1>8

LEMMA UnescapedIs ==
  ASSUME NEW run \in Seq(Int)
  PROVE  Unescaped(run) \in Seq(Int)
<1> DEFINE simple(i) == IF run[i + 1] = Code["n"] THEN Newline ELSE IF run[i + 1] = Code["t"] THEN 9 ELSE Return
           octal(i) == Spelled(SubSeq(run, i + 1, OctalEnd(run, i) - 1), 8)
           puts == [i \in DOMAIN run |->
             IF run[i] # Backslash \/ ~HasAt(run, i, 2) THEN Copy(run, i)
             ELSE IF run[i + 1] \in OctetSet("xX") /\ HexAt(run, i + 2, 2)
               THEN Put(<<Spelled(SubSeq(run, i + 2, i + 3), 16)>>, 4)
             ELSE IF run[i + 1] \in OctetSet("ntr") THEN Put(<<simple(i)>>, 2)
             ELSE IF run[i + 1] \in Octal /\ octal(i) < 256
               THEN Put(<<octal(i)>>, OctalEnd(run, i) - i)
             ELSE Copy(run, i)]
<1>1. ASSUME NEW i \in 1..Len(run) PROVE Writes(puts[i], run, i)
  <2>1. i \in DOMAIN run
    OBVIOUS
  <2>2. puts[i] = IF run[i] # Backslash \/ ~HasAt(run, i, 2) THEN Copy(run, i)
             ELSE IF run[i + 1] \in OctetSet("xX") /\ HexAt(run, i + 2, 2)
               THEN Put(<<Spelled(SubSeq(run, i + 2, i + 3), 16)>>, 4)
             ELSE IF run[i + 1] \in OctetSet("ntr") THEN Put(<<simple(i)>>, 2)
             ELSE IF run[i + 1] \in Octal /\ octal(i) < 256
               THEN Put(<<octal(i)>>, OctalEnd(run, i) - i)
             ELSE Copy(run, i)
    BY <2>1
  <2> HIDE DEF puts
  <2>3. ASSUME HasAt(run, i, 2) PROVE Writes(Put(<<simple(i)>>, 2), run, i)
    <3>1. simple(i) \in Int
      BY DEF Newline, Return
    <3>2. i + 2 <= Len(run) + 1
      BY <2>3 DEF HasAt
    <3> HIDE DEF simple
    <3> QED
      BY <3>1, <3>2, WritesByte
  <2>4. ASSUME HasAt(run, i, 2), run[i + 1] \in Octal PROVE Writes(Put(<<octal(i)>>, OctalEnd(run, i) - i), run, i)
    BY <2>4, OctalPieceIs
  <2> HIDE DEF simple, octal
  <2> QED
    BY <2>2, <2>3, <2>4, HexPairIs, WritesCopy
<1>2. Unescaped(run) = Rewrite(puts)
  BY DEF Unescaped
<1>3. puts = [i \in DOMAIN run |-> puts[i]]
  OBVIOUS
<1> HIDE DEF puts
<1> QED
  BY <1>1, <1>2, <1>3, ScanType

\* The pieces of a concatenation, joined, from each position.
Pieces(s) == [out : Seq(Int), end : 1..(Len(s) + 1)]
Next1(s, i) == JoinAt(s, ScanQuoted(s, i).end, AllQuotes)
Piece(out, end) == [out |-> out, end |-> end]
PieceAt(s, pieces, i) ==
  LET q == ScanQuoted(s, i)
      next == JoinAt(s, q.end, AllQuotes)
  IN  IF next = 0 THEN [out |-> Unescaped(q.content), end |-> q.end]
      ELSE [out |-> Unescaped(q.content) \o pieces[next].out, end |-> pieces[next].end]
Joins(s, pieces) == pieces = [i \in 1..Len(s) |-> PieceAt(s, pieces, i)]

LEMMA PieceMade ==
  ASSUME NEW s, NEW out \in Seq(Int), NEW end \in 1..(Len(s) + 1)
  PROVE  Piece(out, end) \in Pieces(s) /\ Piece(out, end).end = end
  BY DEF Piece, Pieces

LEMMA PieceAtIs ==
  ASSUME NEW s \in Seq(Int), NEW i \in 1..Len(s)
  PROVE  /\ Next1(s, i) = 0 \/ Next1(s, i) \in (i + 1)..Len(s)
         /\ \A g : Next1(s, i) = 0 =>
              PieceAt(s, g, i) = Piece(Unescaped(ScanQuoted(s, i).content), ScanQuoted(s, i).end)
         /\ \A g : Next1(s, i) # 0 =>
              PieceAt(s, g, i) = Piece(Unescaped(ScanQuoted(s, i).content) \o g[Next1(s, i)].out, g[Next1(s, i)].end)
         /\ Unescaped(ScanQuoted(s, i).content) \in Seq(Int)
         /\ ScanQuoted(s, i).end \in (i + 1)..(Len(s) + 1)
<1>1. ScanQuoted(s, i).end \in (i + 1)..(Len(s) + 1) /\ ScanQuoted(s, i).content \in Seq(Int)
  BY ScanQuotedIs
<1>2. PICK e \in (i + 1)..(Len(s) + 1) : e = ScanQuoted(s, i).end
  BY <1>1
<1>3. e \in 1..(Len(s) + 1)
  OBVIOUS
<1>4. JoinAt(s, e, AllQuotes) = 0 \/ JoinAt(s, e, AllQuotes) \in (e + 1)..Len(s)
  BY <1>3, JoinAtIs
<1>5. Next1(s, i) = 0 \/ Next1(s, i) \in (i + 1)..Len(s)
  BY <1>2, <1>4 DEF Next1
<1>6. ASSUME NEW g, Next1(s, i) = 0
      PROVE  PieceAt(s, g, i) = Piece(Unescaped(ScanQuoted(s, i).content), ScanQuoted(s, i).end)
  BY <1>6 DEF PieceAt, Next1, Piece
<1>7. ASSUME NEW g, Next1(s, i) # 0
      PROVE  PieceAt(s, g, i) = Piece(Unescaped(ScanQuoted(s, i).content) \o g[Next1(s, i)].out, g[Next1(s, i)].end)
  BY <1>7 DEF PieceAt, Next1, Piece
<1>8. Unescaped(ScanQuoted(s, i).content) \in Seq(Int)
  BY <1>1, UnescapedIs
<1> QED
  BY <1>1, <1>5, <1>6, <1>7, <1>8

LEMMA PieceAtType ==
  ASSUME NEW s \in Seq(Int), NEW i \in 1..Len(s), NEW g,
         Next1(s, i) # 0 => g[Next1(s, i)] \in Pieces(s)
  PROVE  PieceAt(s, g, i) \in Pieces(s)
<1>1. PICK e \in 1..(Len(s) + 1) : e = ScanQuoted(s, i).end
  <2>1. PICK e \in (i + 1)..(Len(s) + 1) : e = ScanQuoted(s, i).end
    BY ScanQuotedIs
  <2>2. e \in 1..(Len(s) + 1)
    OBVIOUS
  <2> QED
    BY <2>1, <2>2
<1>2. PICK o \in Seq(Int) : o = Unescaped(ScanQuoted(s, i).content)
  <2>1. Unescaped(ScanQuoted(s, i).content) \in Seq(Int)
    BY ScanQuotedIs, UnescapedIs
  <2> QED
    BY <2>1
<1>3. CASE Next1(s, i) = 0
  <2>1. PieceAt(s, g, i) = Piece(o, e)
    BY <1>1, <1>2, <1>3, PieceAtIs
  <2> QED
    BY <2>1, PieceMade
<1>4. CASE Next1(s, i) # 0
  <2>1. PICK r \in Pieces(s) : r = g[Next1(s, i)]
    BY <1>4
  <2>2. r.out \in Seq(Int) /\ r.end \in 1..(Len(s) + 1)
    BY DEF Pieces
  <2>3. PICK rest \in Seq(Int), end \in 1..(Len(s) + 1) : rest = r.out /\ end = r.end
    BY <2>2
  <2>4. PieceAt(s, g, i) = Piece(o \o rest, end)
    BY ZenonT(40), <1>2, <1>4, <2>1, <2>3, PieceAtIs
  <2>5. o \o rest \in Seq(Int)
    OBVIOUS
  <2> QED
    BY ZenonT(40), <2>4, <2>5, PieceMade
<1> QED
  BY <1>3, <1>4

LEMMA JoinsExist ==
  ASSUME NEW s \in Seq(Int), Len(s) > 0
  PROVE  \E pieces : Joins(s, pieces)
<1>0. PICK n \in Nat : n = Len(s) /\ n > 0
  OBVIOUS
<1> DEFINE D == 1..n
           T == Pieces(s)
           rank == [j \in D |-> n - j]
           F == [p \in D \X [D -> T] |-> PieceAt(s, p[2], p[1])]
<1>1. ASSUME NEW j \in D, Next1(s, j) # 0 PROVE Next1(s, j) \in D /\ rank[Next1(s, j)] < rank[j]
  <2>1. PICK k \in (j + 1)..n : k = Next1(s, j)
    BY <1>0, <1>1, PieceAtIs
  <2>2. k \in D /\ n - k < n - j
    OBVIOUS
  <2> QED
    BY <2>1, <2>2
<1>2. rank \in [D -> 0..n] /\ T # {}
  <2>1. \A j \in D : n - j \in 0..n
    OBVIOUS
  <2>2. <<>> \in Seq(Int) /\ 1 \in 1..(Len(s) + 1)
    OBVIOUS
  <2>3. Piece(<<>>, 1) \in T
    BY <2>2, PieceMade
  <2> HIDE DEF D, T
  <2> QED
    BY <2>1, <2>3
<1> HIDE DEF rank, T
<1>3. ASSUME NEW j \in D, NEW g \in [D -> T] PROVE F[<<j, g>>] = PieceAt(s, g, j) /\ PieceAt(s, g, j) \in T
  <2>1. F[<<j, g>>] = PieceAt(s, g, j)
    OBVIOUS
  <2> HIDE DEF F
  <2>2. Next1(s, j) # 0 => g[Next1(s, j)] \in T
    BY <1>1
  <2>3. PieceAt(s, g, j) \in T
    BY <1>0, <2>2, PieceAtType DEF T
  <2> QED
    BY <2>1, <2>3
<1>4. F \in [D \X [D -> T] -> T]
  <2>1. F = [p \in D \X [D -> T] |-> PieceAt(s, p[2], p[1])]
    BY DEF F
  <2> HIDE DEF F
  <2>2. ASSUME NEW p \in D \X [D -> T] PROVE PieceAt(s, p[2], p[1]) \in T
    BY <1>3
  <2> QED
    BY <2>1, <2>2
<1> HIDE DEF F
<1>5. ASSUME NEW j \in D, NEW g \in [D -> T], NEW h \in [D -> T], Agree(g, h, D, rank, j)
      PROVE  F[<<j, g>>] = F[<<j, h>>]
  <2>1. Next1(s, j) # 0 => g[Next1(s, j)] = h[Next1(s, j)]
    BY <1>1, <1>5 DEF Agree
  <2>2. PieceAt(s, g, j) = PieceAt(s, h, j)
    BY ZenonT(40), <1>0, <2>1, PieceAtIs
  <2> QED
    BY <1>3, <2>2
<1>6. PICK g \in [D -> T] : \A j \in D : g[j] = F[<<j, g>>]
  <2> HIDE DEF D
  <2>1. Below(F, D, T, rank)
    BY <1>5 DEF Below
  <2>2. PICK g : Solved(g, F, D, T)
    BY <1>2, <1>4, <2>1, Recursion
  <2> QED
    BY <2>2 DEF Solved
<1>7. \A j \in D : g[j] = PieceAt(s, g, j)
  BY <1>3, <1>6
<1>8. g = [j \in D |-> PieceAt(s, g, j)]
  BY <1>7
<1> QED
  BY <1>0, <1>8 DEF Joins

LEMMA JoinsAfter ==
  ASSUME NEW s \in Seq(Int), NEW pieces, Joins(s, pieces), NEW i \in 1..Len(s)
  PROVE  pieces[i] \in Pieces(s) /\ pieces[i].end \in (i + 1)..(Len(s) + 1)
<1>0. PICK n \in Nat : n = Len(s)
  OBVIOUS
<1> DEFINE S == {k \in 1..n : pieces[k] \in Pieces(s) /\ pieces[k].end \in (k + 1)..(n + 1)}
<1>1. ASSUME NEW k \in 1..n, \A l \in (k + 1)..n : l \in S PROVE k \in S
  <2>1. pieces[k] = PieceAt(s, pieces, k)
    BY <1>0 DEF Joins
  <2>2. ASSUME Next1(s, k) # 0
        PROVE  pieces[Next1(s, k)] \in Pieces(s) /\ pieces[Next1(s, k)].end \in (k + 1)..(n + 1)
    <3>1. PICK l \in (k + 1)..n : l = Next1(s, k)
      BY <1>0, <2>2, PieceAtIs
    <3>2. l \in S
      BY <1>1
    <3>3. pieces[l] \in Pieces(s) /\ pieces[l].end \in (l + 1)..(n + 1)
      BY <3>2
    <3> QED
      BY <3>1, <3>3
  <2>3. PieceAt(s, pieces, k) \in Pieces(s)
    BY <1>0, <2>2, PieceAtType
  <2>4. PieceAt(s, pieces, k).end \in (k + 1)..(n + 1)
    <3>1. CASE Next1(s, k) = 0
      <4>1. PieceAt(s, pieces, k) = Piece(Unescaped(ScanQuoted(s, k).content), ScanQuoted(s, k).end)
        BY <1>0, <3>1, PieceAtIs
      <4>2. PieceAt(s, pieces, k).end = ScanQuoted(s, k).end
        BY <4>1 DEF Piece
      <4> QED
        BY <1>0, <4>2, PieceAtIs
    <3>2. CASE Next1(s, k) # 0
      <4>1. PieceAt(s, pieces, k) = Piece(Unescaped(ScanQuoted(s, k).content) \o pieces[Next1(s, k)].out, pieces[Next1(s, k)].end)
        BY <1>0, <3>2, PieceAtIs
      <4>2. PieceAt(s, pieces, k).end = pieces[Next1(s, k)].end
        BY <4>1 DEF Piece
      <4> QED
        BY <2>2, <3>2, <4>2
    <3> QED
      BY <3>1, <3>2
  <2> QED
    BY <2>1, <2>3, <2>4
<1> HIDE DEF S
<1>2. 1..n \subseteq S
  BY <1>1, FromTheEnd
<1> QED
  BY <1>0, <1>2 DEF S

LEMMA FoldStringConcatIntoIs ==
  ASSUME NEW s \in Seq(Int)
  PROVE  FoldStringConcatInto(s) \in Seq(Int)
<1> DEFINE pieces == CHOOSE pieces : Joins(s, pieces)
           alone(i) == <<s[i]>> \o Unescaped(ScanQuoted(s, i).content)
                       \o (IF ScanQuoted(s, i).closed THEN <<s[i]>> ELSE <<>>)
           puts == [i \in DOMAIN s |->
                      IF s[i] \notin AllQuotes THEN Copy(s, i)
                      ELSE IF JoinAt(s, ScanQuoted(s, i).end, AllQuotes) > 0
                      THEN Put(pieces[i].out, pieces[i].end - i)
                      ELSE Put(alone(i), ScanQuoted(s, i).end - i)]
<1>2. FoldStringConcatInto(s) = Rewrite(puts)
  BY DEF FoldStringConcatInto, Joins, PieceAt
<1>4. Len(s) > 0 => Joins(s, pieces)
  BY JoinsExist
<1> HIDE DEF pieces
<1>1. ASSUME NEW i \in 1..Len(s) PROVE Writes(puts[i], s, i)
  <2>1. i \in DOMAIN s /\ Len(s) > 0 /\ Len(s) \in Nat
    OBVIOUS
  <2>2. puts[i] = IF s[i] \notin AllQuotes THEN Copy(s, i)
                  ELSE IF JoinAt(s, ScanQuoted(s, i).end, AllQuotes) > 0
                  THEN Put(pieces[i].out, pieces[i].end - i)
                  ELSE Put(alone(i), ScanQuoted(s, i).end - i)
    BY <2>1
  <2> HIDE DEF puts, alone
  <2>3. Writes(Put(pieces[i].out, pieces[i].end - i), s, i)
    <3>1. pieces[i] \in Pieces(s) /\ pieces[i].end \in (i + 1)..(Len(s) + 1)
      BY <1>4, <2>1, JoinsAfter
    <3>2. PICK e \in (i + 1)..(Len(s) + 1) : e = pieces[i].end
      BY <3>1
    <3>3. PICK out \in Seq(Int) : out = pieces[i].out
      BY <3>1 DEF Pieces
    <3>4. e - i \in Nat /\ e - i # 0 /\ i + (e - i) <= Len(s) + 1
      BY <2>1
    <3>5. Writes(Put(out, e - i), s, i)
      BY <3>4, WritesPut
    <3> QED
      BY <3>2, <3>3, <3>5
  <2>4. Writes(Put(alone(i), ScanQuoted(s, i).end - i), s, i)
    <3>1. ScanQuoted(s, i).end \in (i + 1)..(Len(s) + 1) /\ ScanQuoted(s, i).content \in Seq(Int)
      BY ScanQuotedIs
    <3>2. PICK e \in (i + 1)..(Len(s) + 1) : e = ScanQuoted(s, i).end
      BY <3>1
    <3>3. PICK inside \in Seq(Int) : inside = Unescaped(ScanQuoted(s, i).content)
      BY <3>1, UnescapedIs
    <3>4. PICK tail \in Seq(Int) : tail = IF ScanQuoted(s, i).closed THEN <<s[i]>> ELSE <<>>
      <4>1. <<s[i]>> \in Seq(Int) /\ <<>> \in Seq(Int)
        OBVIOUS
      <4>2. (IF ScanQuoted(s, i).closed THEN <<s[i]>> ELSE <<>>) \in Seq(Int)
        BY <4>1
      <4> QED
        BY <4>2
    <3>5. <<s[i]>> \o inside \in Seq(Int)
      OBVIOUS
    <3>6. alone(i) = (<<s[i]>> \o inside) \o tail
      BY <3>3, <3>4 DEF alone
    <3>7. alone(i) \in Seq(Int)
      BY <3>5, <3>6
    <3>8. e - i \in Nat /\ e - i # 0 /\ i + (e - i) <= Len(s) + 1
      BY <2>1
    <3>9. Writes(Put(alone(i), e - i), s, i)
      BY <3>7, <3>8, WritesPut
    <3> QED
      BY <3>2, <3>9
  <2> QED
    BY <2>2, <2>3, <2>4, WritesCopy
<1>3. puts = [i \in DOMAIN s |-> puts[i]]
  OBVIOUS
<1> HIDE DEF puts
<1> QED
  BY <1>1, <1>2, <1>3, ScanType

LEMMA DecodedIs ==
  ASSUME NEW c \in Range(Classes), NEW s \in Seq(Int)
  PROVE  Decoded(c, s) \in Seq(Int)
<1>1. c \in {"double_encoded", "multi_encoded", "percent_u", "string_concat", "best_fit",
             "separator", "null_truncate", "overlong_utf8", "utf7", "utf16", "html_entity"}
  BY DEF Classes, Range
<1>2. CASE c = "double_encoded"
  BY <1>2, UrlDecodeIntoIs DEF Decoded
<1>3. CASE c = "multi_encoded"
  BY <1>3, UrlDecodeRepeatedIntoIs DEF Decoded
<1>4. CASE c = "percent_u"
  BY <1>4, DecodePercentUIntoIs DEF Decoded
<1>5. CASE c = "string_concat"
  BY <1>5, FoldStringConcatIntoIs DEF Decoded
<1>6. CASE c = "best_fit"
  BY <1>6, FoldBestFitIntoIs DEF Decoded
<1>7. CASE c = "separator"
  BY <1>7, BackslashToSlashIntoIs DEF Decoded
<1>8. CASE c = "null_truncate"
  BY <1>8, TruncateAtNullIntoIs DEF Decoded
<1>9. CASE c = "overlong_utf8"
  BY <1>9, DecodeOverlongIntoIs DEF Decoded
<1>10. CASE c = "utf7"
  BY <1>10, DecodeUTF7IntoIs DEF Decoded
<1>11. CASE c = "utf16"
  BY <1>11, DecodeUTF16IntoIs DEF Decoded
<1>12. CASE c = "html_entity"
  BY <1>12, DecodeEntitiesIntoIs DEF Decoded
<1> QED
  BY <1>1, <1>2, <1>3, <1>4, <1>5, <1>6, <1>7, <1>8, <1>9, <1>10, <1>11, <1>12


(* ---- the readings of a value -------------------------------------------- *)
ReadingSets == [readings : Seq(Seq(Int)), truncated : BOOLEAN]

LEMMA AddDecodedIs ==
  ASSUME NEW set \in ReadingSets, NEW c \in Range(Classes), NEW s \in Seq(Int)
  PROVE  AddDecoded(set, s, c) \in ReadingSets
<1>1. set.readings \in Seq(Seq(Int))
  BY DEF ReadingSets
<1>2. [set EXCEPT !.truncated = TRUE] \in ReadingSets
  BY DEF ReadingSets
<1>3. PICK r \in Seq(Int) : r = Decoded(c, s)
  BY DecodedIs
<1>4. Append(set.readings, r) \in Seq(Seq(Int))
  BY <1>1
<1>5. PICK rs \in Seq(Seq(Int)) : rs = Append(set.readings, r)
  BY <1>4
<1>6. [set EXCEPT !.readings = rs] \in ReadingSets
  BY DEF ReadingSets
<1>7. AddReading(set, r) \in ReadingSets
  BY <1>5, <1>6 DEF AddReading
<1> QED
  BY <1>2, <1>3, <1>7 DEF AddDecoded

LEMMA ReadingStart ==
  ASSUME NEW s \in Seq(Int)
  PROVE  [readings |-> <<s>>, truncated |-> FALSE] \in ReadingSets
  BY DEF ReadingSets

BuildOver(s, claimed) ==
  FoldLeft(LAMBDA set, c : AddDecoded(set, s, c), [readings |-> <<s>>, truncated |-> FALSE], claimed)

\* One class after the other.
BuildingRun(f, s, claimed) ==
  /\ f \in [0..Len(claimed) -> ReadingSets]
  /\ f[0] = [readings |-> <<s>>, truncated |-> FALSE]
  /\ \A k \in 1..Len(claimed) : f[k] = AddDecoded(f[k - 1], s, claimed[k])
  /\ BuildOver(s, claimed) = f[Len(claimed)]

LEMMA BuildingFold ==
  ASSUME NEW s \in Seq(Int), NEW claimed \in Seq(Range(Classes))
  PROVE  \E f : BuildingRun(f, s, claimed)
<1> DEFINE T == ReadingSets
           El == Range(Classes)
           op(set, c) == AddDecoded(set, s, c)
           base == [readings |-> <<s>>, truncated |-> FALSE]
           step == [p \in T \X El |-> op(p[1], p[2])]
           Is(h) == h = [S \in SUBSET DOMAIN claimed |->
                           IF S = {} THEN base ELSE op(h[S \ {Max(S)}], claimed[Max(S)])]
           iter == CHOOSE h : Is(h)
<1>1. base \in T
  BY ReadingStart
<1>a. \A t \in T, x \in El : op(t, x) \in T
  BY AddDecodedIs
<1>2. BuildOver(s, claimed) = iter[DOMAIN claimed]
  BY DEF BuildOver, FoldLeft, MapThenFoldSet
<1>0. claimed \in Seq(El)
  OBVIOUS
<1> HIDE DEF op, base, T, El
<1>3. step \in [T \X El -> T]
  BY <1>a
<1>b. \A t \in T, x \in El : step[<<t, x>>] = op(t, x)
  OBVIOUS
<1> HIDE DEF step
<1>4. PICK g : Partial(g, T, claimed, base, step, Len(claimed))
  BY <1>0, <1>1, <1>3, FoldExists
<1>5. ASSUME NEW S \in SUBSET DOMAIN claimed, S # {} PROVE g[S] = op(g[S \ {Max(S)}], claimed[Max(S)])
  <2>1. Max(S) \in S /\ g[S] = step[<<g[S \ {Max(S)}], claimed[Max(S)]>>] /\ g \in [SUBSET DOMAIN claimed -> T]
    BY <1>0, <1>4, <1>5, DomainOfSeq DEF Partial
  <2>2. g[S \ {Max(S)}] \in T /\ claimed[Max(S)] \in El
    BY <1>0, <2>1
  <2> QED
    BY <1>b, <2>1, <2>2
<1>6. g[{}] = base /\ g = [S \in SUBSET DOMAIN claimed |-> g[S]]
  BY <1>0, <1>4, PartialBase
<1>7. Is(iter)
  <2>1. Is(g)
    BY <1>5, <1>6
  <2> QED
    BY <2>1
<1> HIDE DEF iter
<1>8. iter[{}] = base
  BY <1>7
<1>9. ASSUME NEW S \in SUBSET DOMAIN claimed, S # {}, iter[S \ {Max(S)}] \in T, claimed[Max(S)] \in El
      PROVE  iter[S] = step[<<iter[S \ {Max(S)}], claimed[Max(S)]>>]
  BY <1>7, <1>9, <1>b
<1> HIDE DEF Is
<1>10. Steps(iter, T, El, claimed, base, step)
  BY <1>8, <1>9 DEF Steps
<1>12. PICK f : Runs(f, T, claimed, base, step, iter[DOMAIN claimed])
  BY <1>0, <1>1, <1>3, <1>10, FoldRuns
<1>13. f \in [0..Len(claimed) -> T] /\ f[0] = base /\ f[Len(claimed)] = iter[DOMAIN claimed]
  BY <1>12 DEF Runs
<1>11. \A k \in 1..Len(claimed) : f[k] = op(f[k - 1], claimed[k])
  BY <1>0, <1>b, <1>12, <1>13, InsideFold DEF Runs
<1> QED
  BY <1>2, <1>11, <1>13 DEF op, base, T, BuildingRun

LEMMA BuildIs ==
  ASSUME NEW s \in Seq(Int)
  PROVE  Build(s).readings \in Seq(Seq(Int))
<1> DEFINE chosen == {c \in Detect(s) : c = "html_entity" => ~HasRawMarkup(s)}
           claimed == Those(Classes, chosen)
<1>1. Build(s) = BuildOver(s, claimed)
  BY DEF Build, BuildOver
<1> HIDE DEF chosen
<1>2. claimed \in Seq(Range(Classes))
  <2>1. Classes \in Seq(Range(Classes))
    <3>1. Len(Classes) \in Nat /\ DOMAIN Classes = 1..Len(Classes)
      BY DEF Classes
    <3>2. \A i \in 1..Len(Classes) : Classes[i] \in Range(Classes)
      BY <3>1, RangeIs
    <3>3. Classes = [i \in 1..Len(Classes) |-> Classes[i]]
      BY DEF Classes
    <3> QED
      BY <3>1, <3>2, <3>3
  <2> QED
    BY <2>1, RangeOfThose
<1> HIDE DEF claimed
<1>3. PICK f : BuildingRun(f, s, claimed)
  BY <1>2, BuildingFold
<1>4. BuildOver(s, claimed) \in ReadingSets
  <2>1. Len(claimed) \in 0..Len(claimed)
    BY <1>2
  <2> QED
    BY <1>3, <2>1 DEF BuildingRun
<1> QED
  BY <1>1, <1>4 DEF ReadingSets

(* ---- numeric hosts ------------------------------------------------------ *)
LEMMA JoinedIs ==
  ASSUME NEW T, NEW a \in Seq(T), NEW b \in Seq(T)
  PROVE  a \o b \in Seq(T) /\ Len(a \o b) = Len(a) + Len(b)
  OBVIOUS

LEMMA JoinedWithin ==
  ASSUME NEW T, NEW a \in Seq(T), NEW b \in Seq(T), NEW m \in Nat, NEW n \in Nat, Len(a) <= m, Len(b) <= n
  PROVE  a \o b \in Seq(T) /\ Len(a \o b) <= m + n
<1>1. Len(a) \in Nat /\ Len(b) \in Nat
  OBVIOUS
<1> QED
  BY <1>1, JoinedIs

LEMMA Meeting ==
  ASSUME NEW T, NEW s \in Seq(T), NEW n, n = Len(s), NEW i \in 1..n, NEW j \in (i + 1)..(n + 1)
  PROVE  SubSeq(s, i, j - 1) \o SubSeq(s, j, n) = SubSeq(s, i, n)
<1>0. n \in Nat
  OBVIOUS
<1>1. PICK a : a = SubSeq(s, i, j - 1)
  OBVIOUS
<1>2. PICK b : b = SubSeq(s, j, n)
  OBVIOUS
<1>3. PICK c : c = SubSeq(s, i, n)
  OBVIOUS
<1>4. a \in Seq(T) /\ Len(a) = j - i /\ \A k \in 1..(j - i) : a[k] = s[i + k - 1]
  <2>1. i \in 1..(Len(s) + 1) /\ j - 1 \in 0..Len(s) /\ i <= j - 1
    BY <1>0
  <2> QED
    BY SMTT(30), <1>0, <1>1, <2>1, PartOf
<1>5. b \in Seq(T) /\ Len(b) = n - j + 1 /\ \A k \in 1..(n - j + 1) : b[k] = s[j + k - 1]
  <2>1. j \in 1..(Len(s) + 1) /\ n \in 0..Len(s)
    BY <1>0
  <2> QED
    BY <1>0, <1>2, <2>1, PartOf
<1>6. c \in Seq(T) /\ Len(c) = n - i + 1 /\ \A k \in 1..(n - i + 1) : c[k] = s[i + k - 1]
  <2>1. i \in 1..(Len(s) + 1) /\ n \in 0..Len(s)
    BY <1>0
  <2> QED
    BY <1>0, <1>3, <2>1, PartOf
<1>7. PICK ab : ab = a \o b
  OBVIOUS
<1>8. ab \in Seq(T) /\ Len(ab) = n - i + 1
  <2>1. ab \in Seq(T) /\ Len(ab) = Len(a) + Len(b)
    BY <1>4, <1>5, <1>7, JoinedIs
  <2>2. (j - i) + (n - j + 1) = n - i + 1
    BY <1>0
  <2> QED
    BY <1>4, <1>5, <2>1, <2>2
<1>9. ASSUME NEW k \in 1..(n - i + 1) PROVE ab[k] = c[k]
  <2>1. CASE k <= j - i
    <3>1. ab[k] = a[k]
      BY <1>0, <1>4, <1>5, <1>7, <2>1
    <3>2. k \in 1..(j - i)
      BY <1>0, <2>1
    <3> QED
      BY <1>4, <1>6, <3>1, <3>2
  <2>2. CASE ~(k <= j - i)
    <3>1. PICK m : m = k - (j - i)
      OBVIOUS
    <3>2. m \in 1..(n - j + 1) /\ j + m - 1 = i + k - 1
      BY <1>0, <2>2, <3>1
    <3>3. ab[k] = b[m]
      BY SMTT(30), <1>0, <1>4, <1>5, <1>7, <2>2, <3>1
    <3> QED
      BY <1>5, <1>6, <3>2, <3>3
  <2> QED
    BY <2>1, <2>2
<1>10. ab = c
  BY <1>6, <1>8, <1>9
<1> QED
  BY <1>1, <1>2, <1>3, <1>7, <1>10

\* A scan that writes what it reads.
Verbatim(p, s, i) == p.out = SubSeq(s, i, i + p.used - 1)

LEMMA ScanVerbatim ==
  ASSUME NEW s \in Seq(Int), NEW puts, puts = [i \in DOMAIN s |-> puts[i]],
         \A i \in 1..Len(s) : Writes(puts[i], s, i) /\ Verbatim(puts[i], s, i)
  PROVE  Rewrite(puts) = s
<1>1. PICK n \in Nat : n = Len(s) /\ DOMAIN s = 1..n
  OBVIOUS
<1>2. Len(puts) = n /\ DOMAIN puts = 1..n
  BY <1>1, LenOfMap
<1>3. Puts(puts, Int)
  BY <1>1, <1>2 DEF Puts, Writes
<1>4. PICK rest : RestFrom(rest, puts, Int, 1, n) /\ Rewrite(puts) = rest[1]
  BY <1>2, <1>3, RewriteRest
<1> DEFINE tail(i) == SubSeq(s, i, n)
           S == {i \in 1..(n + 1) : rest[i] = tail(i)}
<1>5. ASSUME NEW i \in 1..(n + 1), \A j \in (i + 1)..(n + 1) : j \in S PROVE i \in S
  <2>1. CASE i = n + 1
    <3>1. tail(n + 1) = <<>>
      BY <1>1
    <3>2. rest[n + 1] = <<>>
      BY <1>4 DEF RestFrom
    <3> QED
      BY <2>1, <3>1, <3>2
  <2>2. CASE i # n + 1
    <3>1. i \in 1..n
      BY <2>2
    <3>2. rest[i] = puts[i].out \o rest[i + puts[i].used]
      BY <1>4, <3>1 DEF RestFrom
    <3>3. PICK j : j = i + puts[i].used
      OBVIOUS
    <3>4. j \in (i + 1)..(n + 1) /\ i + puts[i].used - 1 = j - 1
      <4>1. puts[i].used \in Nat \ {0} /\ i + puts[i].used \in (i + 1)..(n + 1)
        BY <1>2, <1>3, <3>1 DEF Puts, PutAt
      <4> QED
        BY <3>3, <4>1
    <3>5. rest[j] = tail(j)
      BY <1>5, <3>4
    <3>6. puts[i].out = SubSeq(s, i, j - 1)
      BY <1>1, <3>1, <3>4 DEF Verbatim
    <3>7. SubSeq(s, i, j - 1) \o tail(j) = tail(i)
      BY <1>1, <3>1, <3>4, Meeting
    <3> HIDE DEF tail
    <3> QED
      BY <3>2, <3>3, <3>5, <3>6, <3>7
  <2> QED
    BY <2>1, <2>2
<1> HIDE DEF S, tail
<1>6. 1..(n + 1) \subseteq S
  <2>1. n + 1 \in Nat
    OBVIOUS
  <2> QED
    BY <1>5, <2>1, FromTheEnd
<1>7. rest[1] = tail(1)
  <2>1. 1 \in S
    BY <1>6
  <2> QED
    BY <2>1 DEF S
<1>8. tail(1) = s
  BY <1>1 DEF tail
<1> QED
  BY <1>4, <1>7, <1>8

\* A byte of an address in decimal.
Written(v, g, n) == IF n < 10 THEN <<48 + n>> ELSE g[n \div 10] \o <<48 + (n % 10)>>
Writing(v, g) == g = [n \in 0..v |-> Written(v, g, n)]

LEMMA TenthIs == \A n \in Nat : n \div 10 \in Nat /\ n % 10 \in Nat /\ n \div 10 <= n /\ (n >= 10 => n \div 10 < n)
  OBVIOUS

LEMMA WritingExists ==
  ASSUME NEW v \in Nat
  PROVE  \E g : Writing(v, g) /\ g \in [0..v -> Seq(Int)]
<1> DEFINE D == 0..v
           T == Seq(Int)
           rank == [n \in D |-> n]
           F == [p \in D \X [D -> T] |-> Written(v, p[2], p[1])]
<1>1. ASSUME NEW n \in D, ~(n < 10) PROVE n \div 10 \in D /\ rank[n \div 10] < rank[n]
  <2>1. n \div 10 \in Nat /\ n \div 10 < n /\ n <= v
    BY <1>1, TenthIs
  <2>2. n \div 10 \in D
    BY <2>1
  <2> QED
    BY <2>1, <2>2
<1>2. rank \in [D -> 0..v] /\ T # {}
  <2>1. <<>> \in T
    OBVIOUS
  <2> QED
    BY <2>1
<1> HIDE DEF rank
<1>3. ASSUME NEW n \in D, NEW g \in [D -> T] PROVE F[<<n, g>>] = Written(v, g, n) /\ Written(v, g, n) \in T
  <2>1. F[<<n, g>>] = Written(v, g, n)
    OBVIOUS
  <2> HIDE DEF F
  <2>2. n % 10 \in Nat /\ n \in Nat
    BY TenthIs
  <2>3. <<48 + n>> \in Seq(Int) /\ <<48 + (n % 10)>> \in Seq(Int)
    BY <2>2
  <2>4. ~(n < 10) => g[n \div 10] \in Seq(Int)
    BY <1>1
  <2>5. ~(n < 10) => g[n \div 10] \o <<48 + (n % 10)>> \in Seq(Int)
    BY <2>3, <2>4
  <2>6. Written(v, g, n) \in T
    BY <2>3, <2>5 DEF Written
  <2> QED
    BY <2>1, <2>6
<1> HIDE DEF T
<1>4. F \in [D \X [D -> T] -> T]
  <2>1. F = [p \in D \X [D -> T] |-> Written(v, p[2], p[1])]
    BY DEF F
  <2> HIDE DEF F
  <2>2. ASSUME NEW p \in D \X [D -> T] PROVE Written(v, p[2], p[1]) \in T
    BY <1>3
  <2> QED
    BY <2>1, <2>2
<1> HIDE DEF F
<1>5. ASSUME NEW n \in D, NEW g \in [D -> T], NEW h \in [D -> T], Agree(g, h, D, rank, n)
      PROVE  F[<<n, g>>] = F[<<n, h>>]
  <2>1. ~(n < 10) => g[n \div 10] = h[n \div 10]
    BY <1>1, <1>5 DEF Agree
  <2>2. Written(v, g, n) = Written(v, h, n)
    BY <2>1 DEF Written
  <2> QED
    BY <1>3, <2>2
<1>6. PICK g : Solved(g, F, D, T)
  <2> HIDE DEF D
  <2>1. Below(F, D, T, rank)
    BY <1>5 DEF Below
  <2>2. v \in Nat /\ rank \in [D -> 0..v]
    BY <1>2
  <2> QED
    BY <1>2, <1>4, <2>1, <2>2, Recursion
<1>7. g \in [D -> T] /\ \A n \in D : g[n] = Written(v, g, n)
  BY <1>3, <1>6 DEF Solved
<1>8. g = [n \in D |-> Written(v, g, n)]
  BY <1>7
<1> QED
  BY <1>7, <1>8 DEF Writing, T

LEMMA DecimalOfIs ==
  ASSUME NEW v \in 0..255
  PROVE  DecimalOf(v) \in Seq(Int) /\ Len(DecimalOf(v)) <= 3
<1> DEFINE g == CHOOSE g : Writing(v, g)
<1>1. DecimalOf(v) = g[v]
  BY DEF DecimalOf, Writing, Written
<1>2. Writing(v, g)
  BY WritingExists
<1> HIDE DEF g
<1>3. \A n \in 0..v : g[n] = Written(v, g, n)
  BY <1>2 DEF Writing
<1>4. ASSUME NEW n \in 0..v, n < 10 PROVE g[n] \in Seq(Int) /\ Len(g[n]) = 1
  <2>1. g[n] = <<48 + n>>
    BY <1>3, <1>4 DEF Written
  <2> QED
    BY <2>1
<1>5. ASSUME NEW n \in 0..v, NEW t, t = n \div 10, ~(n < 10), NEW k \in Nat, g[t] \in Seq(Int), Len(g[t]) <= k
      PROVE  g[n] \in Seq(Int) /\ Len(g[n]) <= k + 1
  <2>1. g[n] = g[t] \o <<48 + (n % 10)>>
    BY <1>3, <1>5 DEF Written
  <2>2. PICK r \in Nat : r = n % 10
    BY TenthIs
  <2>4. <<48 + r>> \in Seq(Int) /\ Len(<<48 + r>>) = 1 /\ 1 \in Nat
    OBVIOUS
  <2>5. PICK d : d = <<48 + r>>
    OBVIOUS
  <2>3. d \in Seq(Int) /\ d = <<48 + (n % 10)>> /\ Len(d) <= 1 /\ 1 \in Nat
    BY <2>2, <2>4, <2>5
  <2> QED
    BY <1>5, <2>1, <2>3, JoinedWithin
<1>6. ASSUME NEW n \in 0..v, n < 100 PROVE g[n] \in Seq(Int) /\ Len(g[n]) <= 2
  <2>1. CASE n < 10
    <3>1. g[n] \in Seq(Int) /\ Len(g[n]) = 1
      BY <1>4, <2>1
    <3> QED
      BY <3>1
  <2>2. CASE ~(n < 10)
    <3>1. PICK t \in 0..v : t = n \div 10 /\ t < 10
      BY <1>6
    <3>4. g[t] \in Seq(Int) /\ Len(g[t]) = 1
      BY <1>4, <3>1
    <3>2. g[t] \in Seq(Int) /\ Len(g[t]) <= 1 /\ 1 \in Nat
      BY <3>4
    <3>3. Len(g[n]) <= 1 + 1 /\ g[n] \in Seq(Int)
      BY <1>5, <2>2, <3>1, <3>2
    <3> QED
      BY <3>3
  <2> QED
    BY <2>1, <2>2
<1>7. CASE v < 100
  <2>1. v \in 0..v
    OBVIOUS
  <2>2. g[v] \in Seq(Int) /\ Len(g[v]) <= 2
    BY <1>6, <1>7, <2>1
  <2>3. Len(g[v]) \in Nat
    BY <2>2
  <2> QED
    BY <1>1, <2>2, <2>3
<1>8. CASE ~(v < 100)
  <2>1. PICK t \in 0..v : t = v \div 10 /\ t < 100
    BY <1>8
  <2>2. g[t] \in Seq(Int) /\ Len(g[t]) <= 2 /\ 2 \in Nat
    BY <1>6, <2>1
  <2>3. v \in 0..v /\ ~(v < 10)
    BY <1>8
  <2>4. g[v] \in Seq(Int) /\ Len(g[v]) <= 2 + 1
    BY <1>5, <2>1, <2>2, <2>3
  <2> QED
    BY <1>1, <2>4
<1> QED
  BY <1>7, <1>8

LEMMA DottedQuadIs ==
  ASSUME NEW addr, \A k \in 1..4 : addr[k] \in 0..255
  PROVE  DottedQuad(addr) \in Seq(Int) /\ Len(DottedQuad(addr)) <= 15
<1>0. addr[1] \in 0..255 /\ addr[2] \in 0..255 /\ addr[3] \in 0..255 /\ addr[4] \in 0..255
  OBVIOUS
<1>1. PICK a : a = DecimalOf(addr[1])
  OBVIOUS
<1>2. PICK b : b = DecimalOf(addr[2])
  OBVIOUS
<1>3. PICK c : c = DecimalOf(addr[3])
  OBVIOUS
<1>4. PICK d : d = DecimalOf(addr[4])
  OBVIOUS
<1>5. /\ a \in Seq(Int) /\ Len(a) <= 3 /\ b \in Seq(Int) /\ Len(b) <= 3
      /\ c \in Seq(Int) /\ Len(c) <= 3 /\ d \in Seq(Int) /\ Len(d) <= 3
  BY <1>0, <1>1, <1>2, <1>3, <1>4, DecimalOfIs
<1>6. PICK p : p = <<Dot>>
  OBVIOUS
<1>7. p \in Seq(Int) /\ Len(p) <= 1
  <2>1. Dot \in Int
    BY SlashDot
  <2> QED
    BY <1>6, <2>1
<1>8. DottedQuad(addr) = (((((a \o p) \o b) \o p) \o c) \o p) \o d
  BY <1>1, <1>2, <1>3, <1>4, <1>6 DEF DottedQuad
<1>9. ASSUME NEW x \in Seq(Int), NEW y \in Seq(Int), NEW m \in Nat, Len(x) <= m, Len(y) <= 3
      PROVE  (x \o p) \o y \in Seq(Int) /\ Len((x \o p) \o y) <= m + 4
  <2>1. x \o p \in Seq(Int) /\ Len(x \o p) <= m + 1 /\ 1 \in Nat
    BY <1>7, <1>9, JoinedWithin
  <2>2. PICK xp \in Seq(Int) : xp = x \o p /\ Len(xp) <= m + 1
    BY <2>1
  <2>3. m + 1 \in Nat /\ 3 \in Nat /\ (m + 1) + 3 = m + 4
    OBVIOUS
  <2>4. xp \o y \in Seq(Int) /\ Len(xp \o y) <= (m + 1) + 3
    BY <1>9, <2>2, <2>3, JoinedWithin
  <2> QED
    BY <2>2, <2>3, <2>4
<1>10. PICK ab \in Seq(Int) : ab = (a \o p) \o b /\ Len(ab) <= 7
  <2>1. 3 \in Nat /\ 3 + 4 = 7
    OBVIOUS
  <2>2. (a \o p) \o b \in Seq(Int) /\ Len((a \o p) \o b) <= 3 + 4
    BY <1>5, <1>9, <2>1
  <2> QED
    BY <2>1, <2>2
<1>11. PICK abc \in Seq(Int) : abc = (ab \o p) \o c /\ Len(abc) <= 11
  <2>1. 7 \in Nat /\ 7 + 4 = 11
    OBVIOUS
  <2>2. (ab \o p) \o c \in Seq(Int) /\ Len((ab \o p) \o c) <= 7 + 4
    BY <1>5, <1>9, <1>10, <2>1
  <2> QED
    BY <2>1, <2>2
<1>12. (abc \o p) \o d \in Seq(Int) /\ Len((abc \o p) \o d) <= 15
  <2>1. 11 \in Nat /\ 11 + 4 = 15
    OBVIOUS
  <2>2. (abc \o p) \o d \in Seq(Int) /\ Len((abc \o p) \o d) <= 11 + 4
    BY <1>5, <1>9, <1>11, <2>1
  <2> QED
    BY <2>1, <2>2
<1> QED
  BY <1>8, <1>10, <1>11, <1>12


LEMMA TimesIs == \A a, b \in Nat : a * b \in Nat
  OBVIOUS

LEMMA RangesAre ==
  /\ ByteRange \in 2..256 /\ MaxHostToken \in Nat /\ AddressRange \in Nat
  /\ \A k \in 1..4 : Weight[k] \in Nat \ {0}
<1>1. ByteRange \in 2..256 /\ MaxHostToken \in Nat
  BY HostsAssumption
<1>2. PICK b \in 2..256 : b = ByteRange
  BY <1>1
<1>3. \A x, y \in Nat \ {0} : x * y \in Nat \ {0}
  OBVIOUS
<1>4. b * b \in Nat \ {0}
  BY <1>3
<1>5. b * b * b \in Nat \ {0}
  BY <1>3, <1>4
<1>6. Weight = <<b * b * b, b * b, b, 1>>
  BY <1>2 DEF Weight
<1>7. Weight[1] = b * b * b /\ Weight[2] = b * b /\ Weight[3] = b /\ Weight[4] = 1
  BY <1>6
<1>8. \A k \in 1..4 : Weight[k] \in Nat \ {0}
  BY <1>4, <1>5, <1>7
<1>9. AddressRange \in Nat
  <2>1. AddressRange = b * Weight[1]
    BY <1>2 DEF AddressRange
  <2>2. PICK w \in Nat \ {0} : w = Weight[1]
    BY <1>8
  <2>3. b * w \in Nat \ {0}
    BY <1>3
  <2> QED
    BY <2>1, <2>2, <2>3
<1> QED
  BY <1>1, <1>8, <1>9

\* The number a run of digits writes, as far as an address may go.
Counted(ds, base) == FoldLeft(LAMBDA v, d : Min({v * base + Digit[d], AddressRange}), 0, ds)

\* One digit after the other.
CountedRun(f, ds, base) ==
  /\ f \in [0..Len(ds) -> Nat]
  /\ f[0] = 0
  /\ \A k \in 1..Len(ds) : f[k] = Min({f[k - 1] * base + Digit[ds[k]], AddressRange})
  /\ Counted(ds, base) = f[Len(ds)]

LEMMA CountedFold ==
  ASSUME NEW base \in Nat, NEW ds \in Seq(HexDigits)
  PROVE  \E f : CountedRun(f, ds, base)
<1> DEFINE T == Nat
           El == HexDigits
           op(v, d) == Min({v * base + Digit[d], AddressRange})
           first == 0
           step == [p \in T \X El |-> op(p[1], p[2])]
           Is(h) == h = [S \in SUBSET DOMAIN ds |->
                           IF S = {} THEN first ELSE op(h[S \ {Max(S)}], ds[Max(S)])]
           iter == CHOOSE h : Is(h)
<1>1. first \in T
  OBVIOUS
<1>a. \A t \in T, x \in El : op(t, x) \in T
  <2> SUFFICES ASSUME NEW t \in T, NEW x \in El PROVE op(t, x) \in T
    OBVIOUS
  <2>1. PICK n \in 0..15 : n = Digit[x]
    BY DigitIs
  <2>2. PICK m \in Nat : m = t * base
    BY TimesIs
  <2>3. PICK a \in Nat : a = AddressRange
    BY RangesAre
  <2>4. m + n \in Nat /\ m + n = t * base + Digit[x]
    BY SMTT(30), <2>1, <2>2
  <2>5. Min({m + n, a}) \in Nat
    BY <2>4, LeastOfTwo
  <2> QED
    BY <2>3, <2>4, <2>5
<1>2. Counted(ds, base) = iter[DOMAIN ds]
  BY DEF Counted, FoldLeft, MapThenFoldSet
<1>0. ds \in Seq(El)
  OBVIOUS
<1> HIDE DEF op, first, T, El
<1>3. step \in [T \X El -> T]
  BY <1>a
<1>b. \A t \in T, x \in El : step[<<t, x>>] = op(t, x)
  OBVIOUS
<1> HIDE DEF step
<1>4. PICK g : Partial(g, T, ds, first, step, Len(ds))
  BY <1>0, <1>1, <1>3, FoldExists
<1>5. ASSUME NEW S \in SUBSET DOMAIN ds, S # {} PROVE g[S] = op(g[S \ {Max(S)}], ds[Max(S)])
  <2>1. Max(S) \in S /\ g[S] = step[<<g[S \ {Max(S)}], ds[Max(S)]>>] /\ g \in [SUBSET DOMAIN ds -> T]
    BY <1>0, <1>4, <1>5, DomainOfSeq DEF Partial
  <2>2. g[S \ {Max(S)}] \in T /\ ds[Max(S)] \in El
    BY <1>0, <2>1
  <2> QED
    BY <1>b, <2>1, <2>2
<1>6. g[{}] = first /\ g = [S \in SUBSET DOMAIN ds |-> g[S]]
  BY <1>0, <1>4, PartialBase
<1>7. Is(iter)
  <2>1. Is(g)
    BY <1>5, <1>6
  <2> QED
    BY <2>1
<1> HIDE DEF iter
<1>8. iter[{}] = first
  BY <1>7
<1>9. ASSUME NEW S \in SUBSET DOMAIN ds, S # {}, iter[S \ {Max(S)}] \in T, ds[Max(S)] \in El
      PROVE  iter[S] = step[<<iter[S \ {Max(S)}], ds[Max(S)]>>]
  BY <1>7, <1>9, <1>b
<1> HIDE DEF Is
<1>10. Steps(iter, T, El, ds, first, step)
  BY <1>8, <1>9 DEF Steps
<1>12. PICK f : Runs(f, T, ds, first, step, iter[DOMAIN ds])
  BY <1>0, <1>1, <1>3, <1>10, FoldRuns
<1>13. f \in [0..Len(ds) -> T] /\ f[0] = first /\ f[Len(ds)] = iter[DOMAIN ds]
  BY <1>12 DEF Runs
<1>11. \A k \in 1..Len(ds) : f[k] = op(f[k - 1], ds[k])
  BY <1>0, <1>b, <1>12, <1>13, InsideFold DEF Runs
<1> QED
  BY <1>2, <1>11, <1>13 DEF op, first, T, CountedRun

LEMMA CountedIs ==
  ASSUME NEW base \in Nat, NEW ds \in Seq(HexDigits)
  PROVE  Counted(ds, base) \in Nat
<1>1. PICK f : CountedRun(f, ds, base)
  BY CountedFold
<1>2. Len(ds) \in 0..Len(ds)
  OBVIOUS
<1> QED
  BY <1>1, <1>2 DEF CountedRun

\* A part of an address, read at i.
HostPart == [value : Nat, end : Nat, hex : BOOLEAN]
PartMade(v, e, h) == [value |-> v, end |-> e, hex |-> h]
ReadsPart(p, tok, i) ==
  /\ p \in HostPart
  /\ p.end \in i..(Len(tok) + 1)
  /\ p.hex => p.end >= i + 3

LEMMA ReadsMade ==
  ASSUME NEW tok \in Seq(Int), NEW i \in 1..Len(tok), NEW v \in Nat, NEW e \in i..(Len(tok) + 1), NEW h \in BOOLEAN,
         h => e >= i + 3
  PROVE  ReadsPart(PartMade(v, e, h), tok, i) /\ PartMade(v, e, h).hex = h
<1> DEFINE p == PartMade(v, e, h)
<1>1. p.end = e /\ p.hex = h /\ p \in HostPart
  <2>1. e \in Nat
    OBVIOUS
  <2> QED
    BY <2>1 DEF PartMade, HostPart
<1> HIDE DEF p
<1>2. ReadsPart(p, tok, i) /\ p.hex = h
  BY <1>1 DEF ReadsPart
<1> QED
  BY <1>2 DEF p

LEMMA NoPartReads ==
  ASSUME NEW tok \in Seq(Int), NEW i \in 1..Len(tok)
  PROVE  ReadsPart(NoPart(i), tok, i) /\ ~NoPart(i).hex
<1>1. NoPart(i) = PartMade(0, i, FALSE)
  BY DEF NoPart, PartMade
<1>2. 0 \in Nat /\ i \in i..(Len(tok) + 1)
  OBVIOUS
<1> QED
  BY <1>1, <1>2, ReadsMade

LEMMA DigitsRead ==
  ASSUME NEW tok \in Seq(Int), NEW i \in 1..Len(tok), NEW start \in i..(Len(tok) + 1), NEW base \in {8, 10, 16},
         base = 16 => start = i + 2
  PROVE  ReadsPart(Digits(tok, i, start, base), tok, i) /\ (base # 16 => ~Digits(tok, i, start, base).hex)
<1> DEFINE j == RunEnd(tok, start, {d \in HexDigits : Digit[d] < base})
           ds == SubSeq(tok, start, j - 1)
           num == Counted(ds, base)
<1>1. Digits(tok, i, start, base) =
        IF j = start \/ num >= AddressRange THEN NoPart(i) ELSE PartMade(num, j, base = 16)
  BY DEF Digits, Counted, PartMade
<1>2. start \in 1..(Len(tok) + 1) /\ Len(tok) \in Nat
  OBVIOUS
<1>3. j \in start..(Len(tok) + 1) /\ \A k \in start..(j - 1) : tok[k] \in HexDigits
  BY <1>2, RunEndIs
<1> HIDE DEF j
<1>4. ds \in Seq(HexDigits)
  <2>1. j - 1 \in 0..Len(tok)
    BY <1>2, <1>3
  <2> QED
    BY <1>2, <1>3, <2>1, PartWithin
<1> HIDE DEF ds
<1>5. num \in Nat
  <2>1. base \in Nat
    OBVIOUS
  <2> QED
    BY <1>4, <2>1, CountedIs
<1> HIDE DEF num
<1>6. j \in i..(Len(tok) + 1) /\ (j # start /\ base = 16 => j >= i + 3)
  BY <1>2, <1>3
<1>7. CASE j = start \/ num >= AddressRange
  BY <1>1, <1>7, NoPartReads
<1>8. CASE ~(j = start \/ num >= AddressRange)
  <2>1. (base = 16) \in BOOLEAN /\ (base = 16 => j >= i + 3)
    BY <1>6, <1>8
  <2>2. PICK h \in BOOLEAN : h = (base = 16)
    BY <2>1
  <2>3. ReadsPart(PartMade(num, j, h), tok, i) /\ PartMade(num, j, h).hex = h
    BY <1>5, <1>6, <2>1, <2>2, ReadsMade
  <2>4. Digits(tok, i, start, base) = PartMade(num, j, h)
    BY <1>1, <1>8, <2>2
  <2> QED
    BY <2>2, <2>3, <2>4
<1> QED
  BY <1>7, <1>8

LEMMA ParseHostPartIs ==
  ASSUME NEW tok \in Seq(Int), NEW i \in 1..Len(tok)
  PROVE  /\ ReadsPart(ParseHostPart(tok, i), tok, i)
         /\ (\A k \in 1..Len(tok) : tok[k] \notin HexMarks) => ~ParseHostPart(tok, i).hex
<1>0. Len(tok) \in Nat /\ i \in i..(Len(tok) + 1) /\ i + 1 \in i..(Len(tok) + 1)
  OBVIOUS
<1>1. ParseHostPart(tok, i) =
        IF tok[i] \notin Decimal THEN NoPart(i)
        ELSE IF tok[i] # Code["0"] THEN Digits(tok, i, i, 10)
        ELSE IF HasAt(tok, i, 2) /\ tok[i + 1] \in HexMarks THEN Digits(tok, i, i + 2, 16)
        ELSE IF ~HasAt(tok, i, 2) \/ tok[i + 1] = Dot THEN PartMade(0, i + 1, FALSE)
        ELSE Digits(tok, i, i + 1, 8)
  BY DEF ParseHostPart, PartMade
<1>2. ReadsPart(NoPart(i), tok, i) /\ ~NoPart(i).hex
  BY NoPartReads
<1>3. ReadsPart(Digits(tok, i, i, 10), tok, i) /\ ~Digits(tok, i, i, 10).hex
  BY <1>0, DigitsRead
<1>4. ReadsPart(Digits(tok, i, i + 1, 8), tok, i) /\ ~Digits(tok, i, i + 1, 8).hex
  BY <1>0, DigitsRead
<1>5. ReadsPart(PartMade(0, i + 1, FALSE), tok, i) /\ ~PartMade(0, i + 1, FALSE).hex
  <2>1. 0 \in Nat /\ FALSE \in BOOLEAN
    OBVIOUS
  <2> QED
    BY <1>0, <2>1, ReadsMade
<1>6. ASSUME HasAt(tok, i, 2)
      PROVE  /\ ReadsPart(Digits(tok, i, i + 2, 16), tok, i)
             /\ i + 1 \in 1..Len(tok)
  <2>1. i + 2 \in i..(Len(tok) + 1) /\ i + 1 \in 1..Len(tok)
    BY <1>0, <1>6 DEF HasAt
  <2> QED
    BY <2>1, DigitsRead
<1>7. ReadsPart(ParseHostPart(tok, i), tok, i)
  BY <1>1, <1>2, <1>3, <1>4, <1>5, <1>6
<1>8. ASSUME \A k \in 1..Len(tok) : tok[k] \notin HexMarks PROVE ~ParseHostPart(tok, i).hex
  <2>1. ~(HasAt(tok, i, 2) /\ tok[i + 1] \in HexMarks)
    BY <1>6, <1>8
  <2> QED
    BY <1>1, <1>2, <1>3, <1>4, <1>5, <2>1
<1> QED
  BY <1>7, <1>8

\* The parts of a token, from each position.
PartsAt(tok, from, i) ==
  LET p == ParseHostPart(tok, i)
  IN  IF p.end = i THEN <<>>
      ELSE IF p.end > Len(tok) THEN <<p>>
      ELSE IF tok[p.end] # Dot \/ p.end = Len(tok) THEN <<>>
      ELSE LET rest == from[p.end + 1] IN IF rest = <<>> THEN <<>> ELSE <<p>> \o rest
PartsFrom(tok, from) == from = [i \in 1..Len(tok) |-> PartsAt(tok, from, i)]
Follows(tok, i) == ParseHostPart(tok, i).end # i /\ ParseHostPart(tok, i).end < Len(tok)

LEMMA FollowsIs ==
  ASSUME NEW tok \in Seq(Int), NEW i \in 1..Len(tok), Follows(tok, i)
  PROVE  ParseHostPart(tok, i).end + 1 \in (i + 2)..Len(tok)
<1>1. ParseHostPart(tok, i).end \in i..(Len(tok) + 1)
  BY ParseHostPartIs DEF ReadsPart
<1>2. PICK e \in i..(Len(tok) + 1) : e = ParseHostPart(tok, i).end
  BY <1>1
<1>3. e # i /\ e < Len(tok)
  BY <1>2 DEF Follows
<1>4. e + 1 \in (i + 2)..Len(tok)
  BY <1>3
<1> QED
  BY <1>2, <1>4

LEMMA PartsAtIs ==
  ASSUME NEW tok \in Seq(Int), NEW i \in 1..Len(tok), NEW g,
         Follows(tok, i) => g[ParseHostPart(tok, i).end + 1] \in Seq(HostPart)
  PROVE  /\ PartsAt(tok, g, i) \in Seq(HostPart)
         /\ \/ PartsAt(tok, g, i) = <<>>
            \/ PartsAt(tok, g, i) = <<ParseHostPart(tok, i)>> /\ ParseHostPart(tok, i).end > Len(tok)
            \/ Follows(tok, i) /\ tok[ParseHostPart(tok, i).end] = Dot
<1>1. PICK p \in HostPart : p = ParseHostPart(tok, i)
  BY ParseHostPartIs DEF ReadsPart
<1>2. p.end \in i..(Len(tok) + 1) /\ Len(tok) \in Nat
  BY <1>1, ParseHostPartIs DEF ReadsPart
<1>3. <<p>> \in Seq(HostPart)
  OBVIOUS
<1>4. CASE p.end = i
  <2>1. PartsAt(tok, g, i) = <<>>
    BY <1>1, <1>4 DEF PartsAt
  <2> QED
    BY <2>1
<1>5. CASE p.end # i /\ p.end > Len(tok)
  <2>1. PartsAt(tok, g, i) = <<p>>
    BY <1>1, <1>5 DEF PartsAt
  <2> QED
    BY <1>1, <1>3, <1>5, <2>1
<1>6. CASE p.end # i /\ ~(p.end > Len(tok)) /\ (tok[p.end] # Dot \/ p.end = Len(tok))
  <2>1. PartsAt(tok, g, i) = <<>>
    BY <1>1, <1>6 DEF PartsAt
  <2> QED
    BY <2>1
<1>7. CASE p.end # i /\ ~(p.end > Len(tok)) /\ ~(tok[p.end] # Dot \/ p.end = Len(tok))
  <2>1. Follows(tok, i) /\ tok[p.end] = Dot
    BY <1>1, <1>2, <1>7 DEF Follows
  <2>2. PICK rest \in Seq(HostPart) : rest = g[p.end + 1]
    BY <1>1, <2>1
  <2>3. PartsAt(tok, g, i) = IF rest = <<>> THEN <<>> ELSE <<p>> \o rest
    BY <1>1, <1>7, <2>2 DEF PartsAt
  <2>4. <<p>> \o rest \in Seq(HostPart)
    BY <1>3, JoinedIs
  <2> QED
    BY <1>1, <2>1, <2>3, <2>4
<1> QED
  BY <1>4, <1>5, <1>6, <1>7

LEMMA PartsAgree ==
  ASSUME NEW tok \in Seq(Int), NEW i \in 1..Len(tok), NEW g, NEW h,
         Follows(tok, i) => g[ParseHostPart(tok, i).end + 1] = h[ParseHostPart(tok, i).end + 1]
  PROVE  PartsAt(tok, g, i) = PartsAt(tok, h, i)
<1>1. PICK e \in i..(Len(tok) + 1) : e = ParseHostPart(tok, i).end
  BY ParseHostPartIs DEF ReadsPart
<1>2. CASE Follows(tok, i)
  BY <1>2 DEF PartsAt
<1>3. CASE ~Follows(tok, i)
  <2>1. e = i \/ e > Len(tok) \/ e = Len(tok)
    BY <1>1, <1>3 DEF Follows
  <2> QED
    BY <1>1, <2>1 DEF PartsAt
<1> QED
  BY <1>2, <1>3

LEMMA PartsFromExists ==
  ASSUME NEW tok \in Seq(Int)
  PROVE  \E from : PartsFrom(tok, from)
<1>0. PICK n \in Nat : n = Len(tok)
  OBVIOUS
<1> DEFINE D == 1..n
           T == Seq(HostPart)
           rank == [j \in D |-> n - j]
           F == [p \in D \X [D -> T] |-> PartsAt(tok, p[2], p[1])]
           after(j) == ParseHostPart(tok, j).end + 1
<1>1. ASSUME NEW j \in D, Follows(tok, j) PROVE after(j) \in D /\ rank[after(j)] < rank[j]
  <2>1. PICK k \in (j + 2)..n : k = after(j)
    BY <1>0, <1>1, FollowsIs
  <2>2. k \in D /\ n - k < n - j
    OBVIOUS
  <2> QED
    BY <2>1, <2>2
<1>2. rank \in [D -> 0..n] /\ T # {}
  <2>1. \A j \in D : n - j \in 0..n
    OBVIOUS
  <2>2. <<>> \in T
    OBVIOUS
  <2> HIDE DEF D, T
  <2> QED
    BY <2>1, <2>2
<1> HIDE DEF rank, T
<1>3. ASSUME NEW j \in D, NEW g \in [D -> T] PROVE F[<<j, g>>] = PartsAt(tok, g, j) /\ PartsAt(tok, g, j) \in T
  <2>1. F[<<j, g>>] = PartsAt(tok, g, j)
    OBVIOUS
  <2> HIDE DEF F
  <2>2. Follows(tok, j) => g[after(j)] \in T
    BY <1>1
  <2>3. PartsAt(tok, g, j) \in T
    BY <1>0, <2>2, PartsAtIs DEF T
  <2> QED
    BY <2>1, <2>3
<1>4. F \in [D \X [D -> T] -> T]
  <2>1. F = [p \in D \X [D -> T] |-> PartsAt(tok, p[2], p[1])]
    BY DEF F
  <2> HIDE DEF F
  <2>2. ASSUME NEW p \in D \X [D -> T] PROVE PartsAt(tok, p[2], p[1]) \in T
    BY <1>3
  <2> QED
    BY <2>1, <2>2
<1> HIDE DEF F
<1>5. ASSUME NEW j \in D, NEW g \in [D -> T], NEW h \in [D -> T], Agree(g, h, D, rank, j)
      PROVE  F[<<j, g>>] = F[<<j, h>>]
  <2>1. Follows(tok, j) => g[after(j)] = h[after(j)]
    BY <1>1, <1>5 DEF Agree
  <2>2. PartsAt(tok, g, j) = PartsAt(tok, h, j)
    BY <1>0, <2>1, PartsAgree
  <2> QED
    BY <1>3, <2>2
<1>6. PICK g : Solved(g, F, D, T)
  <2> HIDE DEF D
  <2>1. Below(F, D, T, rank)
    BY <1>5 DEF Below
  <2> QED
    BY <1>2, <1>4, <2>1, Recursion
<1>7. \A j \in D : g[j] = PartsAt(tok, g, j)
  BY <1>3, <1>6 DEF Solved
<1>8. g = [j \in D |-> PartsAt(tok, g, j)]
  BY <1>6, <1>7 DEF Solved
<1> QED
  BY <1>0, <1>8 DEF PartsFrom

LEMMA PartsFromIs ==
  ASSUME NEW tok \in Seq(Int), NEW from, PartsFrom(tok, from), NEW i \in 1..Len(tok)
  PROVE  from[i] \in Seq(HostPart)
<1>0. PICK n \in Nat : n = Len(tok)
  OBVIOUS
<1> DEFINE S == {k \in 1..n : from[k] \in Seq(HostPart)}
<1>1. ASSUME NEW k \in 1..n, \A l \in (k + 1)..n : l \in S PROVE k \in S
  <2>1. from[k] = PartsAt(tok, from, k)
    BY <1>0 DEF PartsFrom
  <2>2. ASSUME Follows(tok, k) PROVE from[ParseHostPart(tok, k).end + 1] \in Seq(HostPart)
    <3>1. PICK l \in (k + 2)..n : l = ParseHostPart(tok, k).end + 1
      BY <1>0, <2>2, FollowsIs
    <3>2. l \in (k + 1)..n
      OBVIOUS
    <3>3. l \in S
      BY <1>1, <3>2
    <3> QED
      BY <3>1, <3>3
  <2>3. PartsAt(tok, from, k) \in Seq(HostPart)
    BY <1>0, <2>2, PartsAtIs
  <2> QED
    BY <2>1, <2>3
<1> HIDE DEF S
<1>2. 1..n \subseteq S
  BY <1>1, FromTheEnd
<1> QED
  BY <1>0, <1>2 DEF S

\* What a token says: nothing, one part, or more of them with a dot in between.
LEMMA HostPartsIs ==
  ASSUME NEW tok \in Seq(Int), Len(tok) > 0
  PROVE  /\ HostParts(tok) \in Seq(HostPart) /\ Len(HostParts(tok)) <= 4
         /\ \/ HostParts(tok) = <<>>
            \/ HostParts(tok) = <<ParseHostPart(tok, 1)>> /\ ParseHostPart(tok, 1).end > Len(tok)
            \/ Follows(tok, 1) /\ tok[ParseHostPart(tok, 1).end] = Dot
<1> DEFINE from == CHOOSE from : PartsFrom(tok, from)
<1>1. HostParts(tok) = IF Len(from[1]) > 4 THEN <<>> ELSE from[1]
  BY DEF HostParts, PartsFrom, PartsAt
<1>2. PartsFrom(tok, from)
  BY PartsFromExists
<1> HIDE DEF from
<1>3. 1 \in 1..Len(tok)
  OBVIOUS
<1>4. PICK parts \in Seq(HostPart) : parts = from[1]
  BY <1>2, <1>3, PartsFromIs
<1>5. from[1] = PartsAt(tok, from, 1)
  BY <1>2, <1>3 DEF PartsFrom
<1>6. Follows(tok, 1) => from[ParseHostPart(tok, 1).end + 1] \in Seq(HostPart)
  <2> SUFFICES ASSUME Follows(tok, 1) PROVE from[ParseHostPart(tok, 1).end + 1] \in Seq(HostPart)
    OBVIOUS
  <2>1. PICK l \in (1 + 2)..Len(tok) : l = ParseHostPart(tok, 1).end + 1
    BY <1>3, FollowsIs
  <2>2. l \in 1..Len(tok)
    OBVIOUS
  <2> QED
    BY <1>2, <2>1, <2>2, PartsFromIs
<1>7. \/ parts = <<>>
      \/ parts = <<ParseHostPart(tok, 1)>> /\ ParseHostPart(tok, 1).end > Len(tok)
      \/ Follows(tok, 1) /\ tok[ParseHostPart(tok, 1).end] = Dot
  BY <1>3, <1>4, <1>5, <1>6, PartsAtIs
<1>8. Len(parts) \in Nat /\ <<>> \in Seq(HostPart) /\ Len(<<>>) = 0
  OBVIOUS
<1>9. HostParts(tok) = IF Len(parts) > 4 THEN <<>> ELSE parts
  BY <1>1, <1>4
<1>10. CASE Len(parts) > 4
  BY <1>8, <1>9, <1>10
<1>11. CASE ~(Len(parts) > 4)
  BY <1>7, <1>8, <1>9, <1>11
<1> QED
  BY <1>10, <1>11

LEMMA QuotientIs == \A a \in Nat, w \in Nat \ {0} : a \div w \in Nat /\ a % w \in 0..(w - 1)
  OBVIOUS

\* What an address is made of.
LEMMA AddressIs ==
  ASSUME NEW parts \in Seq(HostPart), Len(parts) <= 4, NEW whole, Address(parts, whole) # <<>>
  PROVE  /\ Len(parts) > 0 /\ (Len(parts) = 1 => parts[1].hex)
         /\ \A k \in 1..4 : Address(parts, whole)[k] \in 0..255
<1> DEFINE last == parts[Len(parts)].value
           hex == \E k \in 1..Len(parts) : parts[k].hex
           wide == \E k \in 1..(Len(parts) - 1) : parts[k].value >= ByteRange
           beyond == last >= ByteRange * Weight[Len(parts)]
           small == Len(parts) < 4 /\ ~hex /\ last < ByteRange /\ ~whole
           quad == [k \in 1..4 |-> IF k < Len(parts) THEN parts[k].value ELSE (last \div Weight[k]) % ByteRange]
<1>1. Address(parts, whole) =
        IF Len(parts) = 0 \/ (Len(parts) = 1 /\ ~hex) \/ wide \/ beyond \/ small THEN <<>> ELSE quad
  BY DEF Address
<1> HIDE DEF beyond, small
<1>2. Len(parts) \in Nat
  OBVIOUS
<1>3. Len(parts) # 0 /\ ~(Len(parts) = 1 /\ ~hex) /\ ~wide /\ Address(parts, whole) = quad
  BY <1>1
<1>4. Len(parts) = 1 => parts[1].hex
  <2> SUFFICES ASSUME Len(parts) = 1 PROVE parts[1].hex
    OBVIOUS
  <2>1. PICK k \in 1..Len(parts) : parts[k].hex
    BY SMTT(30), <1>3
  <2> QED
    BY <2>1
<1>5. ASSUME NEW k \in 1..4 PROVE quad[k] \in 0..255
  <2>1. quad[k] = IF k < Len(parts) THEN parts[k].value ELSE (last \div Weight[k]) % ByteRange
    OBVIOUS
  <2>2. PICK b \in 2..256 : b = ByteRange
    BY SMTT(30), RangesAre
  <2>3. CASE k < Len(parts)
    <3>1. k \in 1..Len(parts) /\ k \in 1..(Len(parts) - 1)
      BY <1>2, <2>3
    <3>2. parts[k] \in HostPart
      BY <3>1
    <3>3. PICK v \in Nat : v = parts[k].value
      BY <3>2 DEF HostPart
    <3>4. ~(v >= b)
      BY <1>3, <2>2, <3>1, <3>3
    <3>5. v \in 0..255
      BY SMTT(30), <3>4
    <3> QED
      BY <2>1, <2>3, <3>3, <3>5
  <2>4. CASE ~(k < Len(parts))
    <3>1. Len(parts) \in 1..Len(parts)
      BY <1>2, <1>3
    <3>2. parts[Len(parts)] \in HostPart
      BY <3>1
    <3>3. PICK v \in Nat : v = last
      BY <3>2 DEF HostPart
    <3>4. PICK w \in Nat \ {0} : w = Weight[k]
      BY RangesAre
    <3>5. PICK q \in Nat : q = v \div w
      BY QuotientIs
    <3>6. b \in Nat \ {0}
      OBVIOUS
    <3>7. q % b \in 0..(b - 1)
      BY <3>6, QuotientIs
    <3>8. q % b \in 0..255
      BY <3>7
    <3> QED
      BY Zenon, <2>1, <2>2, <2>4, <3>3, <3>4, <3>5, <3>8
  <2> QED
    BY Zenon, <2>3, <2>4
<1> HIDE DEF quad, last, wide, hex
<1>6. Len(parts) > 0
  BY <1>2, <1>3
<1> QED
  BY <1>3, <1>4, <1>5, <1>6

LEMMA NoParts == ~(Len(<<>>) > 0) /\ <<>> \in Seq(HostPart) /\ Len(<<>>) <= 4
  OBVIOUS

\* A token that spells an address is at least three bytes long; one without a
\* dot or a hex mark spells none.
LEMMA ParseNumericHostIs ==
  ASSUME NEW tok \in Seq(Int), Len(tok) > 0, NEW whole, ParseNumericHost(tok, whole) # <<>>
  PROVE  /\ Len(tok) >= 3
         /\ \A k \in 1..4 : ParseNumericHost(tok, whole)[k] \in 0..255
         /\ \E k \in 1..Len(tok) : tok[k] \in HostMarks
<1>0. Len(tok) \in Nat /\ 1 \in 1..Len(tok)
  OBVIOUS
<1>1. PICK parts : parts = IF Len(tok) > MaxHostToken THEN <<>> ELSE HostParts(tok)
  OBVIOUS
<1>2. ParseNumericHost(tok, whole) = Address(parts, whole)
  BY <1>1 DEF ParseNumericHost
<1>3. parts \in Seq(HostPart) /\ Len(parts) <= 4
  BY <1>1, HostPartsIs, NoParts
<1>4. Len(parts) > 0 /\ (Len(parts) = 1 => parts[1].hex) /\ \A k \in 1..4 : Address(parts, whole)[k] \in 0..255
  BY <1>2, <1>3, AddressIs
<1>5. parts = HostParts(tok) /\ parts # <<>>
  BY <1>1, <1>4, NoParts
<1>6. PICK p : p = ParseHostPart(tok, 1)
  OBVIOUS
<1>7. p \in HostPart /\ p.end \in 1..(Len(tok) + 1) /\ (p.hex => p.end >= 1 + 3)
  BY <1>0, <1>6, ParseHostPartIs DEF ReadsPart
<1>8. PICK e \in 1..(Len(tok) + 1) : e = p.end
  BY <1>7
<1>9. CASE parts = <<p>> /\ p.end > Len(tok)
  <2>1. Len(parts) = 1 /\ parts[1] = p
    BY <1>9
  <2>2. p.hex
    BY <1>4, <2>1
  <2>3. e >= 4
    BY <1>7, <1>8, <2>2
  <2>4. Len(tok) >= 3
    BY <1>0, <2>3
  <2>5. \E k \in 1..Len(tok) : tok[k] \in HexMarks
    BY <1>0, <1>6, <2>2, ParseHostPartIs
  <2>6. HexMarks \subseteq HostMarks
    BY DEF HostMarks
  <2> QED
    BY <1>2, <1>4, <2>4, <2>5, <2>6
<1>10. CASE Follows(tok, 1) /\ tok[p.end] = Dot
  <2>1. p.end + 1 \in (1 + 2)..Len(tok)
    BY <1>0, <1>6, <1>10, FollowsIs
  <2>2. Len(tok) >= 3 /\ e \in 1..Len(tok)
    BY <1>0, <1>8, <2>1
  <2>3. tok[e] \in HostMarks
    BY <1>8, <1>10 DEF HostMarks
  <2> QED
    BY <1>2, <1>4, <2>2, <2>3
<1> QED
  BY <1>5, <1>6, <1>9, <1>10, HostPartsIs

HostPut(s, i) ==
  LET end == HostTokenEnd(s, i)
      tok == SubSeq(s, i, end - 1)
      addr == ParseNumericHost(tok, InHostPosition(s, i, end))
  IN  IF HostTokenStart(s, i) THEN Put(IF addr = <<>> THEN tok ELSE DottedQuad(addr), end - i) ELSE Copy(s, i)

LEMMA NumericHostOf ==
  ASSUME NEW s
  PROVE  NumericHost(s) = Rewrite([i \in DOMAIN s |-> HostPut(s, i)])
  BY DEF NumericHost, HostPut

Grows(p) == Len(p.out) <= 5 * p.used

LEMMA Copies ==
  ASSUME NEW s \in Seq(Int), NEW i \in 1..Len(s)
  PROVE  Writes(Copy(s, i), s, i) /\ Grows(Copy(s, i)) /\ Verbatim(Copy(s, i), s, i)
<1>1. Copy(s, i).out = <<s[i]>> /\ Copy(s, i).used = 1
  BY DEF Copy, Put
<1>2. Len(<<s[i]>>) = 1 /\ i + 1 - 1 = i
  OBVIOUS
<1>3. SubSeq(s, i, i) = <<s[i]>>
  <2>1. PICK t : t = SubSeq(s, i, i)
    OBVIOUS
  <2>2. i \in 1..(Len(s) + 1) /\ i \in 0..Len(s) /\ i <= i /\ i - i + 1 = 1 /\ 1 \in 1..1
    OBVIOUS
  <2>3. t \in Seq(Int) /\ Len(t) = 1 /\ t[1] = s[i + 1 - 1]
    BY <2>1, <2>2, PartOf
  <2>4. t = <<s[i]>>
    BY <1>2, <2>3
  <2> QED
    BY <2>1, <2>4
<1> QED
  BY <1>1, <1>2, <1>3, WritesCopy DEF Grows, Verbatim

LEMMA HostTokenIs ==
  ASSUME NEW s \in Seq(Int), NEW i \in 1..Len(s), HostTokenStart(s, i),
         NEW end, end = HostTokenEnd(s, i), NEW tok, tok = SubSeq(s, i, end - 1)
  PROVE  /\ end \in (i + 1)..(Len(s) + 1)
         /\ tok \in Seq(Int) /\ Len(tok) = end - i /\ Len(tok) > 0
         /\ \A k \in 1..Len(tok) : tok[k] \in Range(s)
<1>1. end = RunEnd(s, i, HexDigits \cup HostMarks)
  BY DEF HostTokenEnd
<1>2. end \in i..(Len(s) + 1) /\ (end <= Len(s) => s[end] \notin HexDigits \cup HostMarks) /\ Len(s) \in Nat
  <2>1. i \in 1..(Len(s) + 1)
    OBVIOUS
  <2> QED
    BY <1>1, <2>1, RunEndIs
<1>3. s[i] \in HexDigits \cup HostMarks
  BY Zenon DEF HostTokenStart, HexDigits
<1>4. end # i
  BY <1>2, <1>3
<1>5. end \in (i + 1)..(Len(s) + 1)
  BY <1>2, <1>4
<1>6. i \in 1..(Len(s) + 1) /\ end - 1 \in 0..Len(s) /\ i <= end - 1 /\ (end - 1) - i + 1 = end - i
  BY SMTT(30), <1>2, <1>5
<1>7. tok \in Seq(Int) /\ Len(tok) = end - i /\ \A k \in 1..(end - i) : tok[k] = s[i + k - 1]
  BY <1>6, PartOf
<1>8. ASSUME NEW k \in 1..Len(tok) PROVE tok[k] \in Range(s)
  <2>3. k \in 1..(end - i)
    BY <1>7
  <2>1. k \in 1..(end - i) /\ i + k - 1 \in 1..Len(s)
    BY <1>2, <1>5, <2>3
  <2>2. i + k - 1 \in DOMAIN s /\ tok[k] = s[i + k - 1]
    BY SMTT(30), <1>7, <2>1
  <2> QED
    BY <2>2, RangeIs
<1> QED
  BY SMTT(30), <1>5, <1>7, <1>8

LEMMA HostPutIs ==
  ASSUME NEW s \in Seq(Int), NEW i \in 1..Len(s)
  PROVE  /\ Writes(HostPut(s, i), s, i) /\ Grows(HostPut(s, i))
         /\ ~HasNumericHostCandidate(s) => Verbatim(HostPut(s, i), s, i)
<1>1. CASE ~HostTokenStart(s, i)
  BY <1>1, Copies DEF HostPut
<1>2. CASE HostTokenStart(s, i)
  <2>1. PICK end, tok : end = HostTokenEnd(s, i) /\ tok = SubSeq(s, i, end - 1)
    OBVIOUS
  <2>2. /\ end \in (i + 1)..(Len(s) + 1)
        /\ tok \in Seq(Int) /\ Len(tok) = end - i /\ Len(tok) > 0
        /\ \A k \in 1..Len(tok) : tok[k] \in Range(s)
    BY <1>2, <2>1, HostTokenIs
  <2>3. PICK whole : whole = InHostPosition(s, i, end)
    OBVIOUS
  <2>4. PICK addr : addr = ParseNumericHost(tok, whole)
    OBVIOUS
  <2>5. HostPut(s, i) = Put(IF addr = <<>> THEN tok ELSE DottedQuad(addr), end - i)
    BY <1>2, <2>1, <2>3, <2>4 DEF HostPut
  <2>6. PICK used \in Nat \ {0} : used = end - i /\ i + used <= Len(s) + 1 /\ i + used - 1 = end - 1
    BY <2>2
  <2>7. CASE addr = <<>>
    <3>1. HostPut(s, i) = Put(tok, used)
      BY <2>5, <2>6, <2>7
    <3>2. Writes(Put(tok, used), s, i)
      BY <2>2, <2>6, WritesPut
    <3>3. Len(tok) = used /\ used <= 5 * used
      BY <2>2, <2>6
    <3>4. Put(tok, used).out = tok /\ Put(tok, used).used = used
      BY DEF Put
    <3>5. Grows(Put(tok, used)) /\ Verbatim(Put(tok, used), s, i)
      BY <2>1, <2>6, <3>3, <3>4 DEF Grows, Verbatim
    <3> QED
      BY <3>1, <3>2, <3>5
  <2>8. CASE addr # <<>>
    <3>1. /\ Len(tok) >= 3 /\ \A k \in 1..4 : addr[k] \in 0..255
          /\ \E k \in 1..Len(tok) : tok[k] \in HostMarks
      BY <2>2, <2>4, <2>8, ParseNumericHostIs
    <3>2. PICK quad \in Seq(Int) : quad = DottedQuad(addr) /\ Len(quad) <= 15
      BY <3>1, DottedQuadIs
    <3>3. HostPut(s, i) = Put(quad, used)
      BY <2>5, <2>6, <2>8, <3>2
    <3>4. Writes(Put(quad, used), s, i)
      BY <2>6, WritesPut
    <3>5. used >= 3
      BY <2>2, <2>6, <3>1
    <3>6. Grows(Put(quad, used))
      <4>1. Put(quad, used).out = quad /\ Put(quad, used).used = used
        BY DEF Put
      <4>2. Len(quad) \in Nat
        OBVIOUS
      <4> QED
        BY <3>2, <3>5, <4>1, <4>2 DEF Grows
    <3>7. HasNumericHostCandidate(s)
      <4>1. Range(s) \cap HostMarks # {}
        BY <2>2, <3>1
      <4>3. s[i] \in Decimal
        BY Zenon, <1>2 DEF HostTokenStart
      <4>4. i \in DOMAIN s
        OBVIOUS
      <4>2. s[i] \in Decimal /\ s[i] \in Range(s)
        BY <4>3, <4>4, RangeIs
      <4> QED
        BY <4>1, <4>2 DEF HasNumericHostCandidate
    <3> QED
      BY <3>3, <3>4, <3>6, <3>7
  <2> QED
    BY <2>7, <2>8
<1> QED
  BY <1>1, <1>2

\* A scan that writes at most five bytes for one.
LEMMA FiveTimes ==
  ASSUME NEW a \in Nat, NEW b \in Nat, NEW u \in Nat, NEW r \in Nat, a <= 5 * u, b <= 5 * r
  PROVE  a + b <= 5 * (u + r)
  OBVIOUS

LEMMA ScanGrows ==
  ASSUME NEW s \in Seq(Int), NEW puts, puts = [i \in DOMAIN s |-> puts[i]],
         \A i \in 1..Len(s) : Writes(puts[i], s, i) /\ Grows(puts[i])
  PROVE  Len(Rewrite(puts)) <= 5 * Len(s)
<1>1. PICK n \in Nat : n = Len(s) /\ DOMAIN s = 1..n
  OBVIOUS
<1>2. Len(puts) = n /\ DOMAIN puts = 1..n
  BY <1>1, LenOfMap
<1>3. Puts(puts, Int)
  BY <1>1, <1>2 DEF Puts, Writes
<1>4. PICK rest : RestFrom(rest, puts, Int, 1, n) /\ Rewrite(puts) = rest[1]
  BY <1>2, <1>3, RewriteRest
<1>9. \A i \in 1..(n + 1) : rest[i] \in Seq(Int)
  BY <1>4 DEF RestFrom
<1> DEFINE S == {i \in 1..(n + 1) : Len(rest[i]) <= 5 * (n + 1 - i)}
<1>5. ASSUME NEW i \in 1..(n + 1), \A j \in (i + 1)..(n + 1) : j \in S PROVE i \in S
  <2>1. CASE i = n + 1
    <3>1. Len(rest[n + 1]) = 0 /\ n + 1 - (n + 1) = 0
      BY <1>4 DEF RestFrom
    <3> QED
      BY <2>1, <3>1
  <2>2. CASE i # n + 1
    <3>1. i \in 1..n
      BY <2>2
    <3>2. rest[i] = puts[i].out \o rest[i + puts[i].used]
      BY <1>4, <3>1 DEF RestFrom
    <3>3. puts[i].used \in Nat \ {0} /\ i + puts[i].used \in (i + 1)..(n + 1) /\ puts[i].out \in Seq(Int)
      BY <1>2, <1>3, <3>1 DEF Puts, PutAt
    <3>4. PICK u \in Nat : u = puts[i].used /\ i + u \in (i + 1)..(n + 1)
      BY <3>3
    <3>5. PICK out \in Seq(Int) : out = puts[i].out
      BY <3>3
    <3>15. PICK j \in (i + 1)..(n + 1) : j = i + u
      BY <3>4
    <3>16. j \in 1..(n + 1) /\ n + 1 - j \in Nat
      OBVIOUS
    <3>6. PICK tail \in Seq(Int) : tail = rest[i + u]
      BY <1>9, <3>15, <3>16
    <3>7. i + u \in S
      BY <1>5, <3>4
    <3>8. PICK r \in Nat : r = n + 1 - (i + u)
      BY <3>15, <3>16
    <3>9. Len(tail) <= 5 * r
      BY <3>6, <3>7, <3>8
    <3>10. Len(out) <= 5 * u
      BY <1>1, <3>1, <3>4, <3>5 DEF Grows
    <3>11. rest[i] = out \o tail
      BY <3>2, <3>4, <3>5, <3>6
    <3>17. PICK a \in Nat : a = Len(out)
      BY DomainOfSeq
    <3>18. PICK b \in Nat : b = Len(tail)
      BY DomainOfSeq
    <3>19. Len(out \o tail) = Len(out) + Len(tail)
      BY JoinedIs
    <3>12. a = Len(out) /\ b = Len(tail) /\ Len(rest[i]) = a + b
      BY <3>11, <3>17, <3>18, <3>19
    <3>13. a + b <= 5 * (u + r)
      BY <3>9, <3>10, <3>12, FiveTimes
    <3>14. u + r = n + 1 - i
      BY SMTT(30), <3>8
    <3> QED
      BY <3>12, <3>13, <3>14
  <2> QED
    BY <2>1, <2>2
<1> HIDE DEF S
<1>6. 1..(n + 1) \subseteq S
  <2>1. n + 1 \in Nat
    OBVIOUS
  <2> QED
    BY <1>5, <2>1, FromTheEnd
<1>7. 1 \in S
  BY <1>6
<1>8. Len(rest[1]) <= 5 * (n + 1 - 1) /\ n + 1 - 1 = n
  BY <1>7 DEF S
<1> QED
  BY <1>1, <1>4, <1>8

LEMMA NumericHostIs ==
  ASSUME NEW s \in Seq(Int)
  PROVE  /\ NumericHost(s) \in Seq(Int)
         /\ Len(NumericHost(s)) <= NumericHostMaxOutput(Len(s))
         /\ ~NumericHostNeeded(s) => NumericHost(s) = s
<1> DEFINE puts == [i \in DOMAIN s |-> HostPut(s, i)]
<1>1. puts = [i \in DOMAIN s |-> puts[i]]
  OBVIOUS
<1>2. ASSUME NEW i \in 1..Len(s) PROVE puts[i] = HostPut(s, i)
  <2>1. i \in DOMAIN s
    OBVIOUS
  <2> QED
    BY <2>1
<1>3. NumericHost(s) = Rewrite(puts)
  BY NumericHostOf
<1> HIDE DEF puts
<1>4. \A i \in 1..Len(s) : Writes(puts[i], s, i) /\ Grows(puts[i])
  BY <1>2, HostPutIs
<1>5. NumericHost(s) \in Seq(Int)
  BY <1>1, <1>3, <1>4, ScanType
<1>6. Len(NumericHost(s)) <= NumericHostMaxOutput(Len(s))
  <2>1. Len(Rewrite(puts)) <= 5 * Len(s)
    BY <1>1, <1>4, ScanGrows
  <2>2. PICK m \in Nat : m = Len(NumericHost(s))
    BY <1>5
  <2>3. PICK n \in Nat : n = Len(s)
    OBVIOUS
  <2>4. m <= 5 * n + 16
    BY <1>3, <2>1, <2>2, <2>3
  <2> QED
    BY <2>2, <2>3, <2>4 DEF NumericHostMaxOutput
<1>7. ASSUME ~NumericHostNeeded(s) PROVE NumericHost(s) = s
  <2>1. CASE HasNumericHostCandidate(s)
    BY <1>7, <2>1 DEF NumericHostNeeded
  <2>2. CASE ~HasNumericHostCandidate(s)
    <3>1. \A i \in 1..Len(s) : Writes(puts[i], s, i) /\ Verbatim(puts[i], s, i)
      BY <1>2, <2>2, HostPutIs
    <3> QED
      BY <1>1, <1>3, <3>1, ScanVerbatim
  <2> QED
    BY <2>1, <2>2
<1> QED
  BY <1>5, <1>6, <1>7

(* ---- the contract of Apply ---------------------------------------------- *)
\* What a transform makes stays within its bound, and what its first look
\* passes over it would not have changed.
LEMMA SlowContract ==
  ASSUME NEW t \in TransformNames, NEW s \in Seq(Int)
  PROVE  Len(Slow(t, s)) <= MaxOutputLen(t, Len(s)) /\ (~Needed(t, s) => Slow(t, s) = s)
<1>0. t # "normalize_path" => MaxOutputLen(t, Len(s)) = Len(s)
  BY DEF MaxOutputLen
<1>1. CASE t = "lowercase"
  <2>1. Slow(t, s) = FoldCase(s)
    BY <1>1 DEF Slow
  <2>2. Needed(t, s) = (\E i \in DOMAIN s : s[i] \in UpperCase)
    BY <1>1 DEF Needed
  <2> QED
    BY <1>0, <1>1, <2>1, <2>2, FoldCaseIs DEF Within
<1>2. CASE t = "remove_whitespace"
  <2>1. Slow(t, s) = RemoveWhitespace(s)
    BY <1>2 DEF Slow
  <2>2. Needed(t, s) = (\E i \in DOMAIN s : s[i] \in Blanks)
    BY <1>2 DEF Needed
  <2> QED
    BY <1>0, <1>2, <2>1, <2>2, RemoveWhitespaceIs DEF Within
<1>3. CASE t = "compress_whitespace"
  <2>1. Slow(t, s) = CompressWhitespace(s)
    BY <1>3 DEF Slow
  <2>2. Needed(t, s) = (\E i \in DOMAIN s : s[i] \in Blanks /\ (s[i] # Space \/ (i > 1 /\ s[i - 1] \in Blanks)))
    BY <1>3 DEF Needed
  <2> QED
    BY <1>0, <1>3, <2>1, <2>2, CompressWhitespaceIs DEF Within
<1>4. CASE t = "url_decode"
  <2>1. Slow(t, s) = URLDecode(s)
    BY <1>4 DEF Slow
  <2>2. Needed(t, s) = (\E i \in DOMAIN s : s[i] \in {Percent, Plus})
    BY <1>4 DEF Needed
  <2> QED
    BY <1>0, <1>4, <2>1, <2>2, URLDecodeIs DEF Within
<1>5. CASE t = "normalize_path"
  <2>1. Slow(t, s) = NormalizePath(s)
    BY <1>5 DEF Slow
  <2>2. Needed(t, s) = (\E i \in DOMAIN s : s[i] \in {Backslash, Dot} \/ (s[i] = Slash /\ i > 1 /\ s[i - 1] = Slash))
    BY <1>5 DEF Needed
  <2>3. MaxOutputLen(t, Len(s)) = Len(s) + 1
    BY <1>5 DEF MaxOutputLen
  <2>4. ~Needed(t, s) => QuietPath(s)
    BY <2>2 DEF QuietPath
  <2> QED
    BY <2>1, <2>3, <2>4, NormalizePathLength, NormalizePathKeeps
<1>6. CASE t = "escape_decode"
  <2>1. Slow(t, s) = EscapeDecode(s)
    BY <1>6 DEF Slow
  <2>2. Needed(t, s) = (\E i \in DOMAIN s : s[i] = Backslash)
    BY <1>6 DEF Needed
  <2> QED
    BY <1>0, <1>6, <2>1, <2>2, EscapeDecodeIs DEF Within
<1>7. CASE t = "css_decode"
  <2>1. Slow(t, s) = CSSDecode(s)
    BY <1>7 DEF Slow
  <2>2. Needed(t, s) = (\E i \in DOMAIN s : s[i] = Backslash)
    BY <1>7 DEF Needed
  <2> QED
    BY <1>0, <1>7, <2>1, <2>2, CSSDecodeIs DEF Within
<1>8. CASE t = "hex_escape_decode"
  <2>1. Slow(t, s) = HexEscapeDecode(s)
    BY <1>8 DEF Slow
  <2>2. Needed(t, s) = (\E i \in DOMAIN s : s[i] = Backslash /\ NumericWidth(s, i) > 0 /\ NumericAt(s, i))
    BY <1>8 DEF Needed
  <2> QED
    BY <1>0, <1>8, <2>1, <2>2, HexEscapeDecodeIs DEF Within
<1>9. CASE t = "replace_comments"
  <2>1. Slow(t, s) = ReplaceComments(s)
    BY <1>9 DEF Slow
  <2>2. Needed(t, s) = (\E i \in DOMAIN s : PairAt(s, i, Slash, Code["*"]))
    BY <1>9 DEF Needed
  <2> QED
    BY <1>0, <1>9, <2>1, <2>2, ReplaceCommentsIs DEF Within
<1>10. CASE t = "remove_comments_char"
  <2>1. Slow(t, s) = RemoveCommentsChar(s)
    BY <1>10 DEF Slow
  <2>2. Needed(t, s) = (\E i \in DOMAIN s : CommentMark(s, i) > 0)
    BY <1>10 DEF Needed
  <2> QED
    BY <1>0, <1>10, <2>1, <2>2, RemoveCommentsCharIs DEF Within
<1>11. CASE t = "cmd_line"
  <2>1. Slow(t, s) = CmdLine(s)
    BY <1>11 DEF Slow
  <2>2. Needed(t, s) = (Slow(t, s) # s)
    BY <1>11 DEF Needed
  <2> QED
    BY <1>0, <1>11, <2>1, <2>2, CmdLineIs DEF Within
<1>12. CASE t = "base64_decode"
  <2>1. Slow(t, s) = Base64Decode(s)
    BY <1>12 DEF Slow
  <2>2. Needed(t, s) = (Slow(t, s) # s)
    BY <1>12 DEF Needed
  <2> QED
    BY <1>0, <1>12, <2>1, <2>2, Base64DecodeIs DEF Within
<1> QED
  BY <1>1, <1>2, <1>3, <1>4, <1>5, <1>6, <1>7, <1>8, <1>9, <1>10, <1>11, <1>12 DEF TransformNames

ChainNames == TransformNames \cup {"numeric_host"}

LEMMA ApplyContract ==
  ASSUME NEW t \in ChainNames, NEW s \in Seq(Int)
  PROVE  /\ Output(t, s) \in Seq(Int)
         /\ Len(Output(t, s)) <= Bound(t, Len(s)) /\ Len(s) <= Bound(t, Len(s))
         /\ ~NeededBy(t, s) => Output(t, s) = s
<1>1. PICK n \in Nat : n = Len(s)
  OBVIOUS
<1>2. CASE t = "numeric_host"
  <2>1. Output(t, s) = NumericHost(s) /\ Bound(t, Len(s)) = NumericHostMaxOutput(Len(s))
    BY <1>2 DEF Output, Bound
  <2>2. NeededBy(t, s) = NumericHostNeeded(s)
    BY <1>2 DEF NeededBy
  <2>3. n <= 5 * n + 16
    OBVIOUS
  <2>4. Len(s) <= NumericHostMaxOutput(Len(s))
    BY <1>1, <2>3 DEF NumericHostMaxOutput
  <2> QED
    BY <2>1, <2>2, <2>4, NumericHostIs
<1>3. CASE t # "numeric_host"
  <2>1. Output(t, s) = Slow(t, s) /\ Bound(t, Len(s)) = MaxOutputLen(t, Len(s))
    BY <1>3 DEF Output, Bound
  <2>2. NeededBy(t, s) = Needed(t, s)
    BY <1>3 DEF NeededBy
  <2>3. t \in TransformNames
    BY <1>3 DEF ChainNames
  <2>4. n <= MaxOutputLen(t, n)
    BY DEF MaxOutputLen
  <2> QED
    BY <1>1, <2>1, <2>2, <2>3, <2>4, SlowContract, SlowType
<1> QED
  BY <1>2, <1>3

\* Every value on its way is one of bytes, and what is left of the chain is
\* transforms.
Typed ==
  /\ request.wire \in Seq(Int) /\ request.chain \in Seq(ChainNames)
  /\ readings \in Seq(Seq(Int)) /\ chain \in Seq(ChainNames)
  /\ before \in Seq(Int) /\ value \in Seq(Int)
TInv == Typed /\ TransformContract

LEMMA HeadAndTail ==
  ASSUME NEW T, NEW q \in Seq(T), q # <<>>
  PROVE  Head(q) \in T /\ Tail(q) \in Seq(T)
  OBVIOUS

LEMMA TextInit == Init => TInv
<1> SUFFICES ASSUME Init PROVE TInv
  OBVIOUS
<1>1. request = NoRequest /\ readings = <<>> /\ chain = <<>> /\ before = <<>> /\ value = <<>> /\ applied = ""
  BY Zenon DEF Init
<1>2. NoRequest.wire = <<>> /\ NoRequest.chain = <<>>
  BY DEF NoRequest
<1>3. \A T : <<>> \in Seq(T)
  OBVIOUS
<1>4. Typed
  BY Zenon, <1>1, <1>2, <1>3 DEF Typed
<1>5. TransformContract
  BY Zenon, <1>1 DEF TransformContract
<1> QED
  BY <1>4, <1>5 DEF TInv

LEMMA TextStep == TInv /\ [Next]_vars => TInv'
<1> SUFFICES ASSUME TInv, [Next]_vars PROVE TInv'
  OBVIOUS
<1>0. Typed /\ TransformContract
  BY DEF TInv
<1>a. /\ request.wire \in Seq(Int) /\ request.chain \in Seq(ChainNames)
      /\ readings \in Seq(Seq(Int)) /\ chain \in Seq(ChainNames)
      /\ before \in Seq(Int) /\ value \in Seq(Int)
  BY <1>0 DEF Typed
<1>b. ASSUME UNCHANGED <<before, value, applied, changed>> PROVE TransformContract'
  BY Zenon, <1>0, <1>b DEF TransformContract
<1>1. CASE Arrive
  <2>1. PICK r \in Requests : request' = r
    BY <1>1 DEF Arrive
  <2>2. r.wire \in Seq(Int) /\ r.chain \in Seq(ChainNames)
    BY TextAssumption DEF ChainNames
  <2>3. Typed'
    BY <1>1, <1>a, <2>1, <2>2 DEF Arrive, Typed
  <2>4. TransformContract'
    BY <1>1, <1>b DEF Arrive
  <2> QED
    BY <2>3, <2>4 DEF TInv
<1>2. CASE Enumerate
  <2>1. readings' = Build(request.wire).readings
    BY <1>2 DEF Enumerate
  <2>2. readings' \in Seq(Seq(Int))
    BY <1>a, <2>1, BuildIs
  <2>3. Typed'
    BY <1>2, <1>a, <2>2 DEF Enumerate, Typed
  <2>4. TransformContract'
    BY <1>2, <1>b DEF Enumerate
  <2> QED
    BY <2>3, <2>4 DEF TInv
<1>3. CASE OpenReading
  <2>1. value' = Head(readings) /\ readings' = Tail(readings) /\ readings # <<>>
    BY Zenon, <1>3 DEF OpenReading
  <2>2. value' \in Seq(Int) /\ readings' \in Seq(Seq(Int))
    BY <1>a, <2>1, HeadAndTail
  <2>3. Typed'
    BY Zenon, <1>3, <1>a, <2>2 DEF OpenReading, Typed
  <2>4. TransformContract'
    BY Zenon, <1>3 DEF OpenReading, TransformContract
  <2> QED
    BY <2>3, <2>4 DEF TInv
<1>4. CASE Apply
  <2>1. PICK t : t = Head(chain)
    OBVIOUS
  <2>2. /\ chain # <<>> /\ chain' = Tail(chain) /\ applied' = t /\ before' = value
        /\ changed' = NeededBy(t, value) /\ value' = IF changed' THEN Output(t, value) ELSE value
        /\ UNCHANGED <<request, readings>>
    BY <1>4, <2>1 DEF Apply
  <2>3. t \in ChainNames /\ chain' \in Seq(ChainNames)
    BY <1>a, <2>1, <2>2, HeadAndTail
  <2>4. PICK s \in Seq(Int) : s = value
    BY <1>a
  <2>5. /\ Output(t, s) \in Seq(Int) /\ Len(Output(t, s)) <= Bound(t, Len(s)) /\ Len(s) <= Bound(t, Len(s))
        /\ ~NeededBy(t, s) => Output(t, s) = s
    BY <2>3, ApplyContract
  <2>6. value' \in Seq(Int) /\ before' = s /\ Len(value') <= Bound(t, Len(s))
    BY <2>2, <2>4, <2>5
  <2>7. Typed'
    BY <1>a, <2>2, <2>3, <2>6 DEF Typed
  <2>8. ~changed' => Output(t, s) = s
    BY <2>2, <2>4, <2>5
  <2>9. TransformContract'
    BY Zenon, <2>2, <2>6, <2>8 DEF TransformContract
  <2> QED
    BY <2>7, <2>9 DEF TInv
<1>5. CASE Compare
  <2>1. Typed'
    BY <1>5, <1>a DEF Compare, Typed
  <2>2. TransformContract'
    BY <1>5, <1>b DEF Compare
  <2> QED
    BY <2>1, <2>2 DEF TInv
<1>6. CASE Finish
  <2>1. Typed'
    BY <1>6, <1>a DEF Finish, Typed
  <2>2. TransformContract'
    BY <1>6, <1>b DEF Finish
  <2> QED
    BY <2>1, <2>2 DEF TInv
<1>7. CASE UNCHANGED vars
  <2>1. Typed'
    BY <1>7, <1>a DEF vars, Typed
  <2>2. TransformContract'
    BY <1>7, <1>b DEF vars
  <2> QED
    BY <2>1, <2>2 DEF TInv
<1> QED
  BY <1>1, <1>2, <1>3, <1>4, <1>5, <1>6, <1>7 DEF Next

(* Transform.Apply keeps its contract on every request: what it returns is   *)
(* no longer than MaxOutputLen, which sizes the buffer it writes to, and     *)
(* when its quick look (needed, NumericHost's candidate scan) says that the  *)
(* bytes may be kept, the transform would have returned exactly those bytes. *)
THEOREM Contract == Spec => []TransformContract
<1>1. TInv => TransformContract
  BY DEF TInv
<1> QED
  BY <1>1, TextInit, TextStep, PTL DEF Spec

(* ---- what NormalizePath names ------------------------------------------- *)
\* A fold of one element more takes one step more.
LEMMA RunsMore ==
  ASSUME NEW T, NEW E, NEW s \in Seq(E), NEW x \in E, NEW base, NEW step, NEW f, NEW g, NEW a, NEW b,
         Runs(f, T, s, base, step, a), Runs(g, T, Append(s, x), base, step, b)
  PROVE  b = step[<<a, x>>] /\ a \in T
<1>1. PICK n \in Nat : n = Len(s)
  OBVIOUS
<1>0. Append(s, x) \in Seq(E) /\ Len(Append(s, x)) = Len(s) + 1
  BY SMT
<1>2. PICK t \in Seq(E) : t = Append(s, x)
  BY <1>0
<1>3. Len(t) = n + 1 /\ t[n + 1] = x /\ \A k \in 1..n : t[k] = s[k]
  BY <1>1, <1>2
<1>4. f \in [0..n -> T] /\ f[0] = base /\ f[n] = a /\ \A k \in 1..n : f[k] = step[<<f[k - 1], s[k]>>]
  BY <1>1 DEF Runs
<1>5. g[0] = base /\ g[n + 1] = b /\ \A k \in 1..(n + 1) : g[k] = step[<<g[k - 1], t[k]>>]
  BY <1>2, <1>3 DEF Runs
<1> DEFINE good == {k \in 0..n : g[k] = f[k]}
<1>6. 0 \in good
  BY <1>4, <1>5
<1>7. ASSUME NEW k \in 1..n, k - 1 \in good PROVE k \in good
  <2>1. k \in 1..(n + 1) /\ k \in 0..n /\ g[k - 1] = f[k - 1] /\ t[k] = s[k]
    BY <1>3, <1>7
  <2> QED
    BY <1>4, <1>5, <2>1
<1> HIDE DEF good
<1>8. 0..n \subseteq good
  BY <1>6, <1>7, UpTo
<1>9. g[n] = a /\ n \in 0..n
  BY <1>4, <1>8 DEF good
<1>10. n + 1 \in 1..(n + 1) /\ (n + 1) - 1 = n
  OBVIOUS
<1>11. g[n + 1] = step[<<g[n], t[n + 1]>>]
  BY <1>5, <1>10
<1> QED
  BY <1>3, <1>4, <1>5, <1>9, <1>11

\* A fold of nothing is its base.
LEMMA RunsNone ==
  ASSUME NEW T, NEW base, NEW step, NEW f, NEW a, Runs(f, T, <<>>, base, step, a)
  PROVE  a = base
<1>1. Len(<<>>) = 0
  OBVIOUS
<1> QED
  BY <1>1 DEF Runs

Strings == Seq(Int)
Cuts == [names : Seq(Strings), seg : Strings]
CutStart == [names |-> <<>>, seg |-> <<>>]
CutStep == [p \in Cuts \X Int |-> CutAt(p[1], p[2])]
Cut(s) == FoldLeft(CutAt, [names |-> <<>>, seg |-> <<>>], s)

LEMMA CutIs ==
  ASSUME NEW c \in Cuts
  PROVE  /\ c.names \in Seq(Strings) /\ c.seg \in Strings /\ NamesOf(c) \in Seq(Strings)
         /\ \A b \in Int : /\ CutAt(c, b) \in Cuts
                           /\ b \in Separators => CutAt(c, b).names = NamesOf(c) /\ CutAt(c, b).seg = <<>>
                           /\ b \notin Separators => CutAt(c, b).names = c.names /\ CutAt(c, b).seg = Append(c.seg, b)
<1>1. c.names \in Seq(Strings) /\ c.seg \in Strings
  BY DEF Cuts
<1>2. NamesOf(c) \in Seq(Strings)
  BY <1>1 DEF NamesOf
<1>3. ASSUME NEW b \in Int, b \in Separators
      PROVE  CutAt(c, b) \in Cuts /\ CutAt(c, b).names = NamesOf(c) /\ CutAt(c, b).seg = <<>>
  <2>1. CutAt(c, b) = [names |-> NamesOf(c), seg |-> <<>>]
    BY <1>3 DEF CutAt
  <2>2. <<>> \in Strings
    BY DEF Strings
  <2> QED
    BY <1>2, <2>1, <2>2 DEF Cuts
<1>4. ASSUME NEW b \in Int, b \notin Separators
      PROVE  CutAt(c, b) \in Cuts /\ CutAt(c, b).names = c.names /\ CutAt(c, b).seg = Append(c.seg, b)
  <2>1. CutAt(c, b) = [c EXCEPT !.seg = Append(@, b)]
    BY <1>4 DEF CutAt
  <2>2. PICK g : g = Append(c.seg, b)
    OBVIOUS
  <2>3. g \in Strings
    BY <1>1, <2>2 DEF Strings
  <2>4. CutAt(c, b) = [c EXCEPT !.seg = g]
    BY <2>1, <2>2
  <2>5. CutAt(c, b) \in Cuts /\ CutAt(c, b).names = c.names /\ CutAt(c, b).seg = g
    BY <2>3, <2>4 DEF Cuts
  <2> QED
    BY <2>2, <2>5
<1> QED
  BY <1>1, <1>2, <1>3, <1>4

LEMMA CutRuns ==
  ASSUME NEW s \in Seq(Int)
  PROVE  \E f : Runs(f, Cuts, s, CutStart, CutStep, Cut(s))
<1> DEFINE T == Cuts
           El == Int
           op(st, b) == CutAt(st, b)
           base == CutStart
           step == CutStep
           Is(h) == h = [S \in SUBSET DOMAIN s |->
                           IF S = {} THEN base ELSE op(h[S \ {Max(S)}], s[Max(S)])]
           iter == CHOOSE h : Is(h)
<1>1. base \in T
  BY DEF CutStart, Cuts, Strings
<1>a. \A t \in T, x \in El : op(t, x) \in T
  BY Zenon, CutIs
<1>2. Cut(s) = iter[DOMAIN s]
  BY DEF Cut, FoldLeft, MapThenFoldSet, CutStart
<1>0. s \in Seq(El)
  OBVIOUS
<1>s. step = [p \in T \X El |-> op(p[1], p[2])]
  BY DEF CutStep
<1> HIDE DEF op, base, T, El, step
<1>3. step \in [T \X El -> T]
  BY <1>a, <1>s
<1>b. \A t \in T, x \in El : step[<<t, x>>] = op(t, x)
  BY <1>s
<1>4. PICK g : Partial(g, T, s, base, step, Len(s))
  BY <1>0, <1>1, <1>3, FoldExists
<1>5. ASSUME NEW S \in SUBSET DOMAIN s, S # {} PROVE g[S] = op(g[S \ {Max(S)}], s[Max(S)])
  <2>1. Max(S) \in S /\ g[S] = step[<<g[S \ {Max(S)}], s[Max(S)]>>] /\ g \in [SUBSET DOMAIN s -> T]
    BY <1>0, <1>4, <1>5, DomainOfSeq DEF Partial
  <2>2. g[S \ {Max(S)}] \in T /\ s[Max(S)] \in El
    BY <1>0, <2>1
  <2> QED
    BY <1>b, <2>1, <2>2
<1>6. g[{}] = base /\ g = [S \in SUBSET DOMAIN s |-> g[S]]
  BY <1>0, <1>4, PartialBase
<1>7. Is(iter)
  <2>1. Is(g)
    BY <1>5, <1>6
  <2> QED
    BY <2>1
<1> HIDE DEF iter
<1>8. iter[{}] = base
  BY <1>7
<1>9. ASSUME NEW S \in SUBSET DOMAIN s, S # {}, iter[S \ {Max(S)}] \in T, s[Max(S)] \in El
      PROVE  iter[S] = step[<<iter[S \ {Max(S)}], s[Max(S)]>>]
  BY <1>7, <1>9, <1>b
<1> HIDE DEF Is
<1>10. Steps(iter, T, El, s, base, step)
  BY <1>8, <1>9 DEF Steps
<1>12. \E f : Runs(f, T, s, base, step, iter[DOMAIN s])
  BY <1>0, <1>1, <1>3, <1>10, FoldRuns
<1> QED
  BY <1>2, <1>12 DEF base, T, step

LEMMA CutMore ==
  ASSUME NEW s \in Seq(Int), NEW b \in Int
  PROVE  Cut(s) \in Cuts /\ Cut(Append(s, b)) = CutAt(Cut(s), b)
<1>1. Append(s, b) \in Seq(Int)
  OBVIOUS
<1>2. PICK f : Runs(f, Cuts, s, CutStart, CutStep, Cut(s))
  BY CutRuns
<1>3. PICK g : Runs(g, Cuts, Append(s, b), CutStart, CutStep, Cut(Append(s, b)))
  BY <1>1, CutRuns
<1>4. Cut(Append(s, b)) = CutStep[<<Cut(s), b>>] /\ Cut(s) \in Cuts
  BY <1>2, <1>3, RunsMore
<1>5. CutStep[<<Cut(s), b>>] = CutAt(Cut(s), b)
  BY <1>4 DEF CutStep
<1> QED
  BY <1>4, <1>5

LEMMA CutNone == Cut(<<>>).names = <<>> /\ Cut(<<>>).seg = <<>>
<1>1. <<>> \in Seq(Int)
  OBVIOUS
<1>2. PICK f : Runs(f, Cuts, <<>>, CutStart, CutStep, Cut(<<>>))
  BY <1>1, CutRuns
<1>3. Cut(<<>>) = CutStart
  BY <1>2, RunsNone
<1> QED
  BY <1>3 DEF CutStart

\* The stack of the segments entered so far.
Way(rooted, names) == FoldLeft(LAMBDA stack, p : Entered(stack, p, rooted), <<>>, names)
WayStep(rooted) == [p \in Seq(Strings) \X Strings |-> Entered(p[1], p[2], rooted)]

EnteredCases(stack, p, rooted, t) ==
  /\ p # <<Dot, Dot>> => t = Append(stack, p)
  /\ (p = <<Dot, Dot>> /\ stack # <<>> /\ Last(stack) # <<Dot, Dot>>) => t = Front(stack)
  /\ (p = <<Dot, Dot>> /\ ~(stack # <<>> /\ Last(stack) # <<Dot, Dot>>)) => t = IF rooted THEN stack ELSE Append(stack, p)

LEMMA EnteredIs ==
  ASSUME NEW stack \in Seq(Strings), NEW p \in Strings, NEW rooted
  PROVE  Entered(stack, p, rooted) \in Seq(Strings) /\ EnteredCases(stack, p, rooted, Entered(stack, p, rooted))
<1>1. p # <<Dot, Dot>> => Entered(stack, p, rooted) = Append(stack, p)
  BY DEF Entered
<1>2. (p = <<Dot, Dot>> /\ stack # <<>> /\ Last(stack) # <<Dot, Dot>>) => Entered(stack, p, rooted) = Front(stack)
  BY DEF Entered
<1>3. (p = <<Dot, Dot>> /\ ~(stack # <<>> /\ Last(stack) # <<Dot, Dot>>)) =>
              Entered(stack, p, rooted) = IF rooted THEN stack ELSE Append(stack, p)
  BY DEF Entered
<1>4. Append(stack, p) \in Seq(Strings)
  OBVIOUS
<1>5. stack # <<>> => Front(stack) \in Seq(Strings)
  BY FrontIs
<1>6. Entered(stack, p, rooted) \in {Append(stack, p), stack} \/ (stack # <<>> /\ Entered(stack, p, rooted) = Front(stack))
  BY <1>1, <1>2, <1>3
<1>7. Entered(stack, p, rooted) \in Seq(Strings)
  BY <1>4, <1>5, <1>6
<1> QED
  BY <1>1, <1>2, <1>3, <1>7 DEF EnteredCases

LEMMA WayRuns ==
  ASSUME NEW rooted, NEW names \in Seq(Strings)
  PROVE  \E f : Runs(f, Seq(Strings), names, <<>>, WayStep(rooted), Way(rooted, names))
<1> DEFINE T == Seq(Strings)
           El == Strings
           op(stack, p) == Entered(stack, p, rooted)
           base == <<>>
           step == WayStep(rooted)
           Is(h) == h = [S \in SUBSET DOMAIN names |->
                           IF S = {} THEN base ELSE op(h[S \ {Max(S)}], names[Max(S)])]
           iter == CHOOSE h : Is(h)
<1>1. base \in T
  OBVIOUS
<1>a. \A t \in T, x \in El : op(t, x) \in T
  BY Zenon, EnteredIs
<1>2. Way(rooted, names) = iter[DOMAIN names]
  BY DEF Way, FoldLeft, MapThenFoldSet
<1>0. names \in Seq(El)
  OBVIOUS
<1>s. step = [p \in T \X El |-> op(p[1], p[2])]
  BY DEF WayStep
<1> HIDE DEF op, base, T, El, step
<1>3. step \in [T \X El -> T]
  BY <1>a, <1>s
<1>b. \A t \in T, x \in El : step[<<t, x>>] = op(t, x)
  BY <1>s
<1>4. PICK g : Partial(g, T, names, base, step, Len(names))
  BY <1>0, <1>1, <1>3, FoldExists
<1>5. ASSUME NEW S \in SUBSET DOMAIN names, S # {} PROVE g[S] = op(g[S \ {Max(S)}], names[Max(S)])
  <2>1. Max(S) \in S /\ g[S] = step[<<g[S \ {Max(S)}], names[Max(S)]>>] /\ g \in [SUBSET DOMAIN names -> T]
    BY <1>0, <1>4, <1>5, DomainOfSeq DEF Partial
  <2>2. g[S \ {Max(S)}] \in T /\ names[Max(S)] \in El
    BY <1>0, <2>1
  <2> QED
    BY <1>b, <2>1, <2>2
<1>6. g[{}] = base /\ g = [S \in SUBSET DOMAIN names |-> g[S]]
  BY <1>0, <1>4, PartialBase
<1>7. Is(iter)
  <2>1. Is(g)
    BY <1>5, <1>6
  <2> QED
    BY <2>1
<1> HIDE DEF iter
<1>8. iter[{}] = base
  BY <1>7
<1>9. ASSUME NEW S \in SUBSET DOMAIN names, S # {}, iter[S \ {Max(S)}] \in T, names[Max(S)] \in El
      PROVE  iter[S] = step[<<iter[S \ {Max(S)}], names[Max(S)]>>]
  BY <1>7, <1>9, <1>b
<1> HIDE DEF Is
<1>10. Steps(iter, T, El, names, base, step)
  BY <1>8, <1>9 DEF Steps
<1>12. \E f : Runs(f, T, names, base, step, iter[DOMAIN names])
  BY <1>0, <1>1, <1>3, <1>10, FoldRuns
<1> QED
  BY <1>2, <1>12 DEF base, T, step

LEMMA WayMore ==
  ASSUME NEW rooted, NEW names \in Seq(Strings), NEW p \in Strings
  PROVE  /\ Way(rooted, names) \in Seq(Strings)
         /\ Way(rooted, Append(names, p)) = Entered(Way(rooted, names), p, rooted)
<1>1. Append(names, p) \in Seq(Strings)
  OBVIOUS
<1>2. PICK f : Runs(f, Seq(Strings), names, <<>>, WayStep(rooted), Way(rooted, names))
  BY WayRuns
<1>3. PICK g : Runs(g, Seq(Strings), Append(names, p), <<>>, WayStep(rooted), Way(rooted, Append(names, p)))
  BY <1>1, WayRuns
<1>4. /\ Way(rooted, Append(names, p)) = WayStep(rooted)[<<Way(rooted, names), p>>]
      /\ Way(rooted, names) \in Seq(Strings)
  BY <1>2, <1>3, RunsMore
<1>5. WayStep(rooted)[<<Way(rooted, names), p>>] = Entered(Way(rooted, names), p, rooted)
  BY <1>4 DEF WayStep
<1> QED
  BY <1>4, <1>5

LEMMA WayNone ==
  ASSUME NEW rooted
  PROVE  Way(rooted, <<>>) = <<>>
<1>1. <<>> \in Seq(Strings)
  OBVIOUS
<1>2. PICK f : Runs(f, Seq(Strings), <<>>, <<>>, WayStep(rooted), Way(rooted, <<>>))
  BY <1>1, WayRuns
<1> QED
  BY <1>2, RunsNone

\* The first bytes of a path, and what they name.
Pre(d, k) == SubSeq(d, 1, k)
At(d, k) == Cut(Pre(d, k))

LEMMA PreIs ==
  ASSUME NEW d \in Seq(Int), NEW k \in 0..Len(d)
  PROVE  Pre(d, k) \in Seq(Int) /\ Len(Pre(d, k)) = k /\ \A i \in 1..k : Pre(d, k)[i] = d[i]
<1>1. Len(d) \in Nat
  OBVIOUS
<1> QED
  BY <1>1 DEF Pre

LEMMA SameSeq ==
  ASSUME NEW E, NEW t \in Seq(E), NEW u \in Seq(E), Len(t) = Len(u), \A i \in 1..Len(t) : t[i] = u[i]
  PROVE  t = u
  OBVIOUS

LEMMA PreSame ==
  ASSUME NEW d \in Seq(Int), NEW e \in Seq(Int), NEW n \in Nat, n <= Len(d), n <= Len(e),
         \A i \in 1..n : d[i] = e[i]
  PROVE  \A k \in 0..n : At(d, k) = At(e, k)
<1> SUFFICES ASSUME NEW k \in 0..n PROVE At(d, k) = At(e, k)
  OBVIOUS
<1>1. k \in 0..Len(d) /\ k \in 0..Len(e) /\ \A i \in 1..k : i \in 1..n
  OBVIOUS
<1>2. /\ Pre(d, k) \in Seq(Int) /\ Len(Pre(d, k)) = k /\ \A i \in 1..k : Pre(d, k)[i] = d[i]
      /\ Pre(e, k) \in Seq(Int) /\ Len(Pre(e, k)) = k /\ \A i \in 1..k : Pre(e, k)[i] = e[i]
  BY <1>1, PreIs
<1>3. Pre(d, k) = Pre(e, k)
  BY <1>1, <1>2, SameSeq
<1> QED
  BY <1>3 DEF At

LEMMA CutPreNone ==
  ASSUME NEW d \in Seq(Int)
  PROVE  At(d, 0).names = <<>> /\ At(d, 0).seg = <<>>
<1>1. 0 \in 0..Len(d)
  OBVIOUS
<1>2. Pre(d, 0) \in Seq(Int) /\ Len(Pre(d, 0)) = 0
  BY <1>1, PreIs
<1>3. Pre(d, 0) = <<>>
  BY <1>2, NothingIn
<1> QED
  BY <1>3, CutNone DEF At

LEMMA CutPreAll ==
  ASSUME NEW d \in Seq(Int)
  PROVE  At(d, Len(d)) = Cut(d)
<1>1. Len(d) \in 0..Len(d)
  OBVIOUS
<1>2. Pre(d, Len(d)) \in Seq(Int) /\ Len(Pre(d, Len(d))) = Len(d) /\ \A i \in 1..Len(d) : Pre(d, Len(d))[i] = d[i]
  BY <1>1, PreIs
<1>3. Pre(d, Len(d)) = d
  BY <1>2, SameSeq
<1> QED
  BY <1>3 DEF At

LEMMA CutPre ==
  ASSUME NEW d \in Seq(Int), NEW k \in 1..Len(d)
  PROVE  /\ At(d, k - 1) \in Cuts /\ At(d, k) \in Cuts
         /\ d[k] \in Separators => At(d, k).names = NamesOf(At(d, k - 1)) /\ At(d, k).seg = <<>>
         /\ d[k] \notin Separators => At(d, k).names = At(d, k - 1).names /\ At(d, k).seg = Append(At(d, k - 1).seg, d[k])
<1>1. k \in 0..Len(d) /\ k - 1 \in 0..Len(d) /\ d[k] \in Int /\ (k - 1) + 1 = k /\ \A i \in 1..k : i # k => i \in 1..(k - 1)
  OBVIOUS
<1>2. PICK t \in Seq(Int) : t = Pre(d, k - 1)
  BY <1>1, PreIs
<1>3. Len(t) = k - 1 /\ \A i \in 1..(k - 1) : t[i] = d[i]
  BY <1>1, <1>2, PreIs
<1>4. PICK u : u = Append(t, d[k])
  OBVIOUS
<1>5. u \in Seq(Int) /\ Len(u) = k /\ \A i \in 1..k : u[i] = d[i]
  <2>1. u \in Seq(Int) /\ Len(u) = k /\ u[k] = d[k] /\ \A i \in 1..(k - 1) : u[i] = t[i]
    BY <1>1, <1>3, <1>4
  <2> QED
    BY <1>1, <1>3, <2>1
<1>6. Pre(d, k) \in Seq(Int) /\ Len(Pre(d, k)) = k /\ \A i \in 1..k : Pre(d, k)[i] = d[i]
  BY <1>1, PreIs
<1>7. Pre(d, k) = u
  BY <1>5, <1>6, SameSeq
<1>8. Cut(t) \in Cuts /\ Cut(u) = CutAt(Cut(t), d[k])
  BY <1>1, <1>4, CutMore
<1>9. At(d, k - 1) = Cut(t) /\ At(d, k) = Cut(u)
  BY <1>2, <1>7 DEF At
<1>10. PICK c \in Cuts, b \in Int : c = Cut(t) /\ b = d[k]
  BY <1>1, <1>8
<1>11. At(d, k - 1) = c /\ At(d, k) = CutAt(c, b)
  BY <1>8, <1>9, <1>10
<1>12. /\ CutAt(c, b) \in Cuts
       /\ b \in Separators => CutAt(c, b).names = NamesOf(c) /\ CutAt(c, b).seg = <<>>
       /\ b \notin Separators => CutAt(c, b).names = c.names /\ CutAt(c, b).seg = Append(c.seg, b)
  BY CutIs
<1> QED
  BY <1>10, <1>11, <1>12

\* Bytes that separate nothing only make the segment longer.
Quiet(d, p, k) ==
  /\ At(d, p + k).names = At(d, p).names
  /\ At(d, p + k).seg \in Seq(Int) /\ Len(At(d, p + k).seg) = k
  /\ \A i \in 1..k : At(d, p + k).seg[i] = d[p + i]

LEMMA CutQuiet ==
  ASSUME NEW d \in Seq(Int), NEW p \in Nat, NEW m \in Nat, p + m <= Len(d), At(d, p).seg = <<>>,
         \A i \in 1..m : d[p + i] \notin Separators
  PROVE  Quiet(d, p, m)
<1> DEFINE good == {k \in 0..m : Quiet(d, p, k)}
<1>1. 0 \in good
  <2>1. p + 0 = p /\ <<>> \in Seq(Int) /\ Len(<<>>) = 0
    OBVIOUS
  <2>3. At(d, p + 0) = At(d, p)
    BY <2>1
  <2>4. At(d, p + 0).names = At(d, p).names /\ At(d, p + 0).seg = <<>>
    BY Zenon, <2>3
  <2>5. \A i \in 1..0 : At(d, p + 0).seg[i] = d[p + i]
    OBVIOUS
  <2>6. At(d, p + 0).seg \in Seq(Int) /\ Len(At(d, p + 0).seg) = 0
    BY ONLY <2>1, <2>4
  <2>2. Quiet(d, p, 0)
    BY Zenon, <2>4, <2>5, <2>6 DEF Quiet
  <2> QED
    BY <2>2
<1>2. ASSUME NEW k \in 1..m, k - 1 \in good PROVE k \in good
  <2>1. Quiet(d, p, k - 1)
    BY <1>2
  <2>2. PICK q \in 1..Len(d) : q = p + k
    OBVIOUS
  <2>3. p + (k - 1) = q - 1 /\ d[q] \in Int /\ d[q] \notin Separators
    <3>1. p + (k - 1) = q - 1
      BY <2>2
    <3>2. d[q] \in Int
      BY <2>2
    <3>3. d[p + k] \notin Separators
      BY <1>2
    <3> QED
      BY <2>2, <3>1, <3>2, <3>3
  <2>4. PICK g : g = At(d, q - 1).seg
    OBVIOUS
  <2>5. g \in Seq(Int) /\ Len(g) = k - 1 /\ \A i \in 1..(k - 1) : g[i] = d[p + i]
    BY <2>1, <2>3, <2>4 DEF Quiet
  <2>6. At(d, q - 1).names = At(d, p).names
    BY <2>1, <2>3 DEF Quiet
  <2>7. PICK h : h = Append(g, d[q])
    OBVIOUS
  <2>8. At(d, q).names = At(d, q - 1).names /\ At(d, q).seg = h
    BY <2>3, <2>4, <2>7, CutPre
  <2>9. h \in Seq(Int) /\ Len(h) = k /\ h[k] = d[q] /\ \A i \in 1..(k - 1) : h[i] = g[i]
    BY <2>3, <2>5, <2>7
  <2>10. \A i \in 1..k : h[i] = d[p + i]
    <3> SUFFICES ASSUME NEW i \in 1..k PROVE h[i] = d[p + i]
      OBVIOUS
    <3>1. CASE i = k
      BY <2>2, <2>9, <3>1
    <3>2. CASE i # k
      <4>1. i \in 1..(k - 1)
        BY <3>2
      <4> QED
        BY <2>5, <2>9, <4>1
    <3> QED
      BY <3>1, <3>2
  <2>11. Quiet(d, p, k)
    BY <2>2, <2>6, <2>8, <2>9, <2>10 DEF Quiet
  <2> QED
    BY <2>11
<1> HIDE DEF good
<1>3. 0..m \subseteq good
  BY <1>1, <1>2, UpTo
<1>4. m \in 0..m
  OBVIOUS
<1> QED
  BY <1>3, <1>4 DEF good

\* What NormalizePath has written, read again: every segment is closed and is a
\* name or, up to base, a climb.
Up == <<Dot, Dot>>
Mark(d, base, rooted, k) ==
  /\ d[k] # Backslash
  /\ d[k] = Slash => /\ (rooted /\ k = 1) \/ At(d, k - 1).seg \notin {<<>>, <<Dot>>}
                     /\ k > base => At(d, k - 1).seg # Up
Marks(d, base, rooted) == \A k \in 1..Len(d) : Mark(d, base, rooted, k)
Foot(d, base, rooted) ==
  /\ base \in Nat /\ base <= Len(d)
  /\ rooted => base = 1 /\ d[1] = Slash
  /\ ~rooted => base = 0 \/ (d[base] = Slash /\ At(d, base - 1).seg = Up)
Shut(d) == Len(d) > 0 => d[Len(d)] = Slash
Laid(d, base, rooted, stack) ==
  Marks(d, base, rooted) /\ Foot(d, base, rooted) /\ Shut(d) /\ stack = Cut(d).names

LEMMA SegmentsAre == Up \in Strings /\ Slash \in Separators /\ \A x \in Separators : x = Slash \/ x = Backslash
  BY SlashDot DEF Up, Strings, Separators

\* Where a separator was written nothing is under way.
LEMMA ShutAt ==
  ASSUME NEW d \in Seq(Int), NEW k \in 0..Len(d), k > 0 => d[k] = Slash
  PROVE  At(d, k).seg = <<>>
<1>1. CASE k = 0
  BY <1>1, CutPreNone
<1>2. CASE k # 0
  <2>1. k \in 1..Len(d) /\ d[k] \in Separators
    BY <1>2, SegmentsAre
  <2> QED
    BY <2>1, CutPre
<1> QED
  BY <1>1, <1>2

LEMMA LaidPush ==
  ASSUME NEW d \in Seq(Int), NEW base \in Nat, NEW rooted \in BOOLEAN, NEW stack, Laid(d, base, rooted, stack),
         NEW g \in Seq(Int), \A i \in 1..Len(g) : g[i] \notin Separators, g \notin {<<>>, <<Dot>>},
         NEW e, IsPushed(e, d, g),
         NEW over \in Nat, (over = base /\ g # Up) \/ (~rooted /\ g = Up /\ over = Len(e))
  PROVE  Laid(e, over, rooted, Append(stack, g))
<1>1. PICK n \in Nat, m \in Nat : n = Len(d) /\ m = Len(g)
  OBVIOUS
<1>2. /\ e \in Seq(Int) /\ Len(e) = n + m + 1
      /\ \A i \in 1..n : e[i] = d[i]
      /\ \A i \in 1..m : e[n + i] = g[i]
      /\ e[n + m + 1] = Slash
  BY <1>1, PushedIs
<1>3. \A k \in 0..n : At(d, k) = At(e, k)
  <2>1. n <= Len(d) /\ n <= Len(e)
    BY <1>1, <1>2
  <2> QED
    BY ZenonT(40), <1>2, <2>1, PreSame
<1>4. Marks(d, base, rooted) /\ Foot(d, base, rooted) /\ Shut(d) /\ stack = Cut(d).names
  BY DEF Laid
<1>5. At(d, n).seg = <<>> /\ At(d, n).names = stack
  <2>1. n \in 0..Len(d) /\ (n > 0 => d[n] = Slash)
    BY <1>1, <1>4 DEF Shut
  <2>2. At(d, n) = Cut(d)
    BY <1>1, CutPreAll
  <2> QED
    BY <1>4, <2>1, <2>2, ShutAt
<1>6. At(e, n).seg = <<>> /\ At(e, n).names = stack
  BY <1>3, <1>5
<1>7. Quiet(e, n, m)
  <2>1. n + m <= Len(e)
    BY <1>2
  <2>2. \A i \in 1..m : e[n + i] \notin Separators
    BY <1>1, <1>2
  <2> QED
    BY <1>2, <1>6, <2>1, <2>2, CutQuiet
<1>8. At(e, n + m).names = stack /\ At(e, n + m).seg = g
  <2>1. PICK h \in Seq(Int) : h = At(e, n + m).seg
    BY <1>7 DEF Quiet
  <2>2. Len(h) = m /\ \A i \in 1..m : h[i] = e[n + i]
    BY <1>7, <2>1 DEF Quiet
  <2>3. \A i \in 1..m : h[i] = g[i]
    BY <1>2, <2>2
  <2>4. h = g
    BY <1>1, <2>2, <2>3, SameSeq
  <2>5. At(e, n + m).names = At(e, n).names
    BY <1>7 DEF Quiet
  <2> QED
    BY <1>6, <2>1, <2>4, <2>5
<1>9. At(e, n + m + 1).names = Append(stack, g)
  <2>1. n + m + 1 \in 1..Len(e) /\ (n + m + 1) - 1 = n + m
    BY <1>2
  <2>2. At(e, n + m + 1).names = NamesOf(At(e, n + m))
    BY ZenonT(40), <1>2, <2>1, CutPre, SegmentsAre
  <2>3. NamesOf(At(e, n + m)) = Append(stack, g)
    BY <1>8 DEF NamesOf
  <2> QED
    BY <2>2, <2>3
<1>10. Marks(e, over, rooted)
  <2> SUFFICES ASSUME NEW k \in 1..Len(e) PROVE Mark(e, over, rooted, k)
    BY DEF Marks
  <2>1. CASE k \in 1..n
    <3>1. k - 1 \in 0..n /\ k \in 1..Len(d) /\ k <= Len(e)
      BY SMTT(30), <1>1, <1>2, <2>1
    <3>2. Mark(d, base, rooted, k)
      BY <1>4, <3>1 DEF Marks
    <3>3. e[k] = d[k] /\ At(e, k - 1) = At(d, k - 1)
      BY <1>2, <1>3, <2>1, <3>1
    <3>4. k > over => k > base
      <4>1. CASE over = base
        BY <4>1
      <4>2. CASE over = Len(e)
        <5>1. ~(k > over)
          BY <1>2, <2>1, <4>2
        <5> QED
          BY <5>1
      <4> QED
        BY <4>1, <4>2
    <3> QED
      BY <3>2, <3>3, <3>4 DEF Mark
  <2>2. CASE k \in (n + 1)..(n + m)
    <3>1. PICK i \in 1..m : k = n + i
      <4>1. k - n \in 1..m /\ k = n + (k - n)
        BY <2>2
      <4> QED
        BY <4>1
    <3>2. e[k] = g[i] /\ g[i] \notin Separators
      BY <1>1, <1>2, <3>1
    <3> QED
      BY <3>2 DEF Mark, Separators
  <2>3. CASE k = n + m + 1
    <3>1. e[k] = Slash /\ k - 1 = n + m
      BY <1>2, <2>3
    <3>2. At(e, k - 1).seg = g
      BY <1>8, <3>1
    <3>3. k > over => g # Up
      BY <1>2, <2>3
    <3> QED
      BY <3>1, <3>2, <3>3, DotsApart DEF Mark
  <2> QED
    BY SMTT(30), <1>2, <2>1, <2>2, <2>3
<1>11. Foot(e, over, rooted)
  <2>0. /\ base \in Nat /\ base <= n
        /\ rooted => base = 1 /\ d[1] = Slash
        /\ ~rooted => base = 0 \/ (d[base] = Slash /\ At(d, base - 1).seg = Up)
    BY <1>1, <1>4 DEF Foot
  <2>1. CASE over = base /\ g # Up
    <3>1. over <= Len(e)
      BY <1>2, <2>0, <2>1
    <3>2. base # 0 => base \in 1..n /\ base - 1 \in 0..n
      BY <2>0
    <3>3. base # 0 => e[base] = d[base] /\ At(e, base - 1) = At(d, base - 1)
      BY <1>2, <1>3, <3>2
    <3> QED
      BY <2>0, <2>1, <3>1, <3>3 DEF Foot
  <2>2. CASE ~rooted /\ g = Up /\ over = Len(e)
    <3>1. over = n + m + 1 /\ over - 1 = n + m /\ over <= Len(e)
      BY <1>2, <2>2
    <3>2. e[over] = Slash /\ At(e, over - 1).seg = Up
      BY <1>2, <1>8, <2>2, <3>1
    <3> QED
      BY <2>2, <3>1, <3>2 DEF Foot
  <2> QED
    BY <2>1, <2>2
<1>12. Shut(e)
  BY <1>2 DEF Shut
<1>13. Cut(e).names = Append(stack, g)
  <2>1. At(e, Len(e)) = Cut(e)
    BY <1>2, CutPreAll
  <2> QED
    BY <1>2, <1>9, <2>1
<1> QED
  BY <1>10, <1>11, <1>12, <1>13 DEF Laid

LEMMA Gap == \A a, b \in Nat : b < a => (a - 1) - b \in Nat
  OBVIOUS

LEMMA LaidPop ==
  ASSUME NEW d \in Seq(Int), NEW base \in Nat, NEW rooted \in BOOLEAN, NEW stack, Laid(d, base, rooted, stack),
         Len(d) > base, NEW p \in base..Len(d), p = base \/ (p < Len(d) /\ d[p] = Slash),
         \A k \in (p + 1)..(Len(d) - 1) : d[k] # Slash
  PROVE  /\ stack # <<>> /\ Last(stack) # Up
         /\ Laid(SubSeq(d, 1, p), base, rooted, Front(stack))
<1>1. PICK n \in Nat : n = Len(d) /\ n > base /\ n >= 1
  OBVIOUS
<1>2. p \in Nat /\ p < n /\ p >= base /\ p \in 0..Len(d)
  BY <1>1
<1>3. Marks(d, base, rooted) /\ Foot(d, base, rooted) /\ Shut(d) /\ stack = Cut(d).names
  BY DEF Laid
<1>4. /\ rooted => base = 1 /\ d[1] = Slash
      /\ ~rooted => base = 0 \/ (d[base] = Slash /\ At(d, base - 1).seg = Up)
  BY <1>3 DEF Foot
<1>5. p > 0 => d[p] = Slash
  BY <1>4
<1>6. At(d, p).seg = <<>>
  BY <1>2, <1>5, ShutAt
<1>7. PICK m \in Nat : m = (n - 1) - p
  BY <1>2, Gap
<1>8. p + m = n - 1 /\ p + m <= Len(d)
  BY <1>1, <1>2, <1>7
<1>9. \A i \in 1..m : d[p + i] \notin Separators
  <2> SUFFICES ASSUME NEW i \in 1..m PROVE d[p + i] \notin Separators
    OBVIOUS
  <2>1. PICK k : k = p + i
    OBVIOUS
  <2>2. k \in (p + 1)..(Len(d) - 1) /\ k \in 1..Len(d)
    BY <1>1, <1>2, <1>8, <2>1
  <2>3. d[k] # Slash /\ Mark(d, base, rooted, k)
    BY <1>3, <2>2 DEF Marks
  <2> QED
    BY <2>1, <2>3 DEF Mark, Separators
<1>10. Quiet(d, p, m)
  BY <1>2, <1>6, <1>8, <1>9, CutQuiet
<1>11. At(d, n - 1).names = At(d, p).names
  BY <1>8, <1>10 DEF Quiet
<1>12. d[n] = Slash /\ n \in 1..Len(d)
  BY <1>1, <1>3 DEF Shut
<1>13. PICK g : g = At(d, n - 1).seg
  OBVIOUS
<1>14. g \notin {<<>>, <<Dot>>} /\ g # Up
  <2>1. Mark(d, base, rooted, n)
    BY <1>3, <1>12 DEF Marks
  <2>2. ~(rooted /\ n = 1)
    BY <1>1, <1>4
  <2> QED
    BY <1>1, <1>12, <1>13, <2>1, <2>2 DEF Mark
<1>15. PICK s \in Seq(Strings) : s = At(d, p).names
  <2>1. Pre(d, p) \in Seq(Int) /\ 0 \in Int
    BY <1>2, PreIs
  <2>2. Cut(Pre(d, p)) \in Cuts
    BY <2>1, CutMore
  <2>3. At(d, p).names \in Seq(Strings)
    BY <2>2, CutIs DEF At
  <2> QED
    BY <2>3
<1>16. g \in Strings
  <2>1. At(d, n - 1) \in Cuts
    BY <1>12, CutPre
  <2> QED
    BY <1>13, <2>1, CutIs
<1>17. stack = Append(s, g)
  <2>1. At(d, n).names = NamesOf(At(d, n - 1))
    BY <1>12, CutPre, SegmentsAre
  <2>2. NamesOf(At(d, n - 1)) = Append(s, g)
    BY <1>11, <1>13, <1>14, <1>15 DEF NamesOf
  <2>3. At(d, n) = Cut(d)
    BY <1>1, CutPreAll
  <2> QED
    BY <1>3, <2>1, <2>2, <2>3
<1>18. stack \in Seq(Strings) /\ stack # <<>> /\ Last(stack) = g /\ Front(stack) = s
  <2>1. stack \in Seq(Strings) /\ Len(stack) = Len(s) + 1 /\ stack[Len(stack)] = g /\ \A i \in 1..Len(s) : stack[i] = s[i]
    BY <1>16, <1>17
  <2>2. stack # <<>>
    BY <2>1
  <2>3. Front(stack) \in Seq(Strings) /\ Len(Front(stack)) = Len(stack) - 1 /\ Last(stack) = stack[Len(stack)]
        /\ \A k \in 1..(Len(stack) - 1) : Front(stack)[k] = stack[k]
    BY <2>1, <2>2, FrontIs
  <2>4. PICK f \in Seq(Strings) : f = Front(stack)
    BY <2>3
  <2>5. Len(f) = Len(s) /\ \A i \in 1..Len(f) : f[i] = s[i]
    BY <2>1, <2>3, <2>4
  <2>6. f = s
    BY <2>5, SameSeq
  <2> QED
    BY <2>1, <2>2, <2>3, <2>4, <2>6
<1>19. PICK e \in Seq(Int) : e = SubSeq(d, 1, p) /\ e = Pre(d, p)
  BY <1>2, PreIs DEF Pre
<1>20. Len(e) = p /\ \A i \in 1..p : e[i] = d[i]
  BY <1>2, <1>19, PreIs
<1>21. \A k \in 0..p : At(e, k) = At(d, k)
  <2>1. p <= Len(e) /\ p <= Len(d)
    BY <1>1, <1>2, <1>20
  <2> QED
    BY <1>2, <1>20, <2>1, PreSame
<1>22. Marks(e, base, rooted)
  <2> SUFFICES ASSUME NEW k \in 1..Len(e) PROVE Mark(e, base, rooted, k)
    BY DEF Marks
  <2>1. k \in 1..p /\ k - 1 \in 0..p /\ k \in 1..Len(d)
    BY <1>1, <1>2, <1>20
  <2>2. Mark(d, base, rooted, k) /\ e[k] = d[k] /\ At(e, k - 1) = At(d, k - 1)
    BY <1>3, <1>20, <1>21, <2>1 DEF Marks
  <2> QED
    BY <2>2 DEF Mark
<1>23. Foot(e, base, rooted)
  <2>1. base <= Len(e)
    BY <1>2, <1>20
  <2>2. base # 0 => base \in 1..p /\ base - 1 \in 0..p
    BY <1>2
  <2>3. base # 0 => e[base] = d[base] /\ At(e, base - 1) = At(d, base - 1)
    BY <1>20, <1>21, <2>2
  <2> QED
    BY SMTT(30), <1>4, <2>1, <2>3 DEF Foot
<1>24. Shut(e)
  BY <1>5, <1>20 DEF Shut
<1>25. Cut(e).names = s
  BY <1>15, <1>19 DEF At
<1>26. Laid(e, base, rooted, s)
  BY <1>22, <1>23, <1>24, <1>25 DEF Laid
<1> QED
  BY <1>14, <1>18, <1>19, <1>26

LEMMA LaidBase ==
  ASSUME NEW d \in Seq(Int), NEW base \in Nat, NEW rooted \in BOOLEAN, NEW stack, Laid(d, base, rooted, stack),
         Len(d) <= base
  PROVE  ~(stack # <<>> /\ Last(stack) # Up)
<1>1. PICK n \in Nat : n = Len(d)
  OBVIOUS
<1>2. /\ n = base
      /\ rooted => base = 1 /\ d[1] = Slash
      /\ ~rooted => base = 0 \/ (d[base] = Slash /\ At(d, base - 1).seg = Up)
  BY <1>1 DEF Laid, Foot
<1>3. stack = At(d, n).names
  BY <1>1, CutPreAll DEF Laid
<1>4. CASE rooted
  <2>1. n = 1 /\ 1 \in 1..Len(d) /\ 1 - 1 = 0 /\ d[1] \in Separators
    BY <1>1, <1>2, <1>4, SegmentsAre
  <2>2. At(d, 1).names = NamesOf(At(d, 0))
    BY <2>1, CutPre
  <2>3. NamesOf(At(d, 0)) = <<>>
    BY CutPreNone DEF NamesOf
  <2> QED
    BY <1>3, <2>1, <2>2, <2>3
<1>5. CASE ~rooted /\ base = 0
  BY <1>2, <1>3, <1>5, CutPreNone
<1>6. CASE ~rooted /\ base # 0
  <2>1. n \in 1..Len(d) /\ d[n] \in Separators /\ At(d, n - 1).seg = Up
    BY <1>1, <1>2, <1>6, SegmentsAre
  <2>2. At(d, n).names = NamesOf(At(d, n - 1)) /\ At(d, n - 1) \in Cuts
    BY <2>1, CutPre
  <2>3. PICK s \in Seq(Strings) : s = At(d, n - 1).names
    BY <2>2, CutIs
  <2>4. stack = Append(s, Up)
    BY <1>3, <2>1, <2>2, <2>3, DotsApart DEF NamesOf, Up
  <2>5. Last(stack) = Up
    <3>1. Len(stack) = Len(s) + 1 /\ stack[Len(stack)] = Up
      BY <2>4, SegmentsAre
    <3> QED
      BY <3>1 DEF Last
  <2> QED
    BY <2>5
<1> QED
  BY <1>4, <1>5, <1>6

\* What is under way never holds a separator.
Whole(g) == \A i \in 1..Len(g) : g[i] \notin Separators

LEMMA UpShut == Up \o <<Slash>> = <<Dot, Dot, Slash>>
<1>1. <<Dot, Dot>> \in Seq(Int) /\ <<Slash>> \in Seq(Int) /\ <<Dot, Dot, Slash>> \in Seq(Int)
  BY SlashDot
<1>2. PICK t \in Seq(Int), u \in Seq(Int), v \in Seq(Int) : t = <<Dot, Dot>> /\ u = <<Slash>> /\ v = <<Dot, Dot, Slash>>
  BY <1>1
<1>3. Len(t) = 2 /\ Len(u) = 1 /\ Len(v) = 3 /\ t[1] = Dot /\ t[2] = Dot /\ u[1] = Slash /\ v[1] = Dot /\ v[2] = Dot /\ v[3] = Slash
  BY <1>2
<1>4. PICK w : w = t \o u
  OBVIOUS
<1>8. /\ w \in Seq(Int) /\ Len(w) = Len(t) + Len(u)
      /\ \A i \in 1..Len(t) : w[i] = t[i]
      /\ \A i \in 1..Len(u) : w[Len(t) + i] = u[i]
  BY <1>4
<1>5. w \in Seq(Int) /\ Len(w) = 3 /\ w[1] = t[1] /\ w[2] = t[2] /\ w[3] = u[1]
  <2>1. 1 \in 1..Len(t) /\ 2 \in 1..Len(t) /\ 1 \in 1..Len(u) /\ Len(t) + 1 = 3 /\ Len(t) + Len(u) = 3
    BY <1>3
  <2> QED
    BY <1>8, <2>1
<1>6. \A i \in 1..3 : w[i] = v[i]
  BY <1>3, <1>5
<1>7. w = v
  BY <1>3, <1>5, <1>6, SameSeq
<1> QED
  BY <1>2, <1>4, <1>7 DEF Up

\* Closing a segment enters it.
LEMMA LaidClose ==
  ASSUME NEW st \in PathStates, NEW rooted \in BOOLEAN, NEW cut \in Cuts,
         st.seg = cut.seg, Whole(cut.seg), Laid(st.dst, st.base, rooted, Way(rooted, cut.names))
  PROVE  Laid(ClosedSegment(st, rooted).dst, ClosedSegment(st, rooted).base, rooted, Way(rooted, NamesOf(cut)))
<1>1. PICK d \in Seq(Int), base \in Nat, g \in Seq(Int) :
         d = st.dst /\ base = st.base /\ g = st.seg /\ base <= Len(d)
  BY PathSizes
<1>2. PICK c \in PathStates : c = ClosedSegment(st, rooted)
  BY ClosedIs
<1>3. ClosedCases(st, c, rooted)
  BY <1>2, Closing
<1>4. PICK names \in Seq(Strings) : names = cut.names /\ g \in Strings /\ cut.seg = g
  BY <1>1, CutIs
<1>5. PICK stack \in Seq(Strings) : stack = Way(rooted, names)
  BY <1>4, WayMore
<1>6. Laid(d, base, rooted, stack) /\ \A i \in 1..Len(g) : g[i] \notin Separators
  BY <1>1, <1>4, <1>5 DEF Whole
<1>7. PICK after : after = Way(rooted, NamesOf(cut))
  OBVIOUS
<1>8. g \in {<<>>, <<Dot>>} => after = stack
  BY <1>4, <1>5, <1>7 DEF NamesOf
<1>9. g \notin {<<>>, <<Dot>>} => after = Entered(stack, g, rooted)
  <2> SUFFICES ASSUME g \notin {<<>>, <<Dot>>} PROVE after = Entered(stack, g, rooted)
    OBVIOUS
  <2>1. NamesOf(cut) = Append(names, g)
    BY <1>4 DEF NamesOf
  <2> QED
    BY <1>4, <1>5, <1>7, <2>1, WayMore
<1>10. /\ g # Up => Entered(stack, g, rooted) = Append(stack, g)
       /\ (g = Up /\ stack # <<>> /\ Last(stack) # Up) => Entered(stack, g, rooted) = Front(stack)
       /\ (g = Up /\ ~(stack # <<>> /\ Last(stack) # Up)) =>
            Entered(stack, g, rooted) = IF rooted THEN stack ELSE Append(stack, g)
  <2>1. /\ g # <<Dot, Dot>> => Entered(stack, g, rooted) = Append(stack, g)
        /\ (g = <<Dot, Dot>> /\ stack # <<>> /\ Last(stack) # <<Dot, Dot>>) => Entered(stack, g, rooted) = Front(stack)
        /\ (g = <<Dot, Dot>> /\ ~(stack # <<>> /\ Last(stack) # <<Dot, Dot>>)) =>
              Entered(stack, g, rooted) = IF rooted THEN stack ELSE Append(stack, g)
    <3>1. EnteredCases(stack, g, rooted, Entered(stack, g, rooted))
      BY Zenon, <1>4, EnteredIs
    <3> QED
      BY Zenon, <3>1 DEF EnteredCases
  <2> QED
    BY Zenon, <2>1 DEF Up
<1>11. Laid(c.dst, c.base, rooted, after)
  <2>1. CASE Skips(st, c)
    <3>1. c.dst = d /\ c.base = base /\ g \in {<<>>, <<Dot>>}
      BY <1>1, <2>1 DEF Skips
    <3> QED
      BY <1>6, <1>8, <3>1
  <2>2. CASE Pushes(st, c)
    <3>1. g \notin {<<>>, <<Dot>>} /\ g # Up /\ c.base = base /\ IsPushed(c.dst, d, g)
      BY <1>1, <2>2 DEF Pushes, IsPushed, Up
    <3>2. after = Append(stack, g)
      BY <1>9, <1>10, <3>1
    <3>3. Laid(c.dst, base, rooted, Append(stack, g))
      BY <1>6, <3>1, LaidPush
    <3> QED
      BY <3>1, <3>2, <3>3
  <2>3. CASE Pops(st, c)
    <3>1. g = Up /\ Len(d) > base /\ c.base = base
      BY <1>1, <2>3 DEF Pops, Up
    <3>2. PICK p \in Nat : PopsTo(st, c, p)
      BY <2>3 DEF Pops
    <3>3. /\ p \in base..Len(d) /\ (p = base \/ (p < Len(d) /\ d[p] = Slash))
          /\ \A k \in (p + 1)..(Len(d) - 1) : d[k] # Slash
          /\ c.dst = SubSeq(d, 1, p)
      BY <1>1, <3>2 DEF PopsTo
    <3>4. stack # <<>> /\ Last(stack) # Up /\ Laid(SubSeq(d, 1, p), base, rooted, Front(stack))
      BY <1>6, <3>1, <3>3, LaidPop
    <3>5. after = Front(stack)
      BY <1>9, <1>10, <3>1, <3>4, DotsApart DEF Up
    <3> QED
      BY <3>1, <3>3, <3>4, <3>5
  <2>4. CASE ~rooted /\ Climbs(st, c)
    <3>1. g = Up /\ Len(d) <= base /\ c.dst = d \o <<Dot, Dot, Slash>> /\ c.base = Len(d) + 3
      BY <1>1, <2>4 DEF Climbs, Up
    <3>2. IsPushed(c.dst, d, g)
      <4>1. Up \in Seq(Int) /\ <<Slash>> \in Seq(Int)
        BY SlashDot, SegmentsAre DEF Strings
      <4>3. Up \o <<Slash>> = <<Dot, Dot, Slash>>
        BY UpShut
      <4>2. (d \o Up) \o <<Slash>> = d \o (Up \o <<Slash>>)
        BY SMTT(30), <4>1, ConcatAssociative
      <4> QED
        BY <3>1, <4>2, <4>3 DEF IsPushed
    <3>3. c.base = Len(c.dst)
      <4>1. Len(c.dst) = Len(d) + Len(g) + 1
        BY ZenonT(40), <3>2, PushedIs
      <4>2. Len(g) = 2
        BY <3>1 DEF Up
      <4>3. Len(d) \in Nat
        OBVIOUS
      <4> QED
        BY <3>1, <4>1, <4>2, <4>3
    <3>4. g \notin {<<>>, <<Dot>>} /\ after = Append(stack, g)
      <4>1. ~(stack # <<>> /\ Last(stack) # Up)
        BY <1>6, <3>1, LaidBase
      <4> QED
        BY <1>9, <1>10, <2>4, <3>1, <4>1, DotsApart DEF Up
    <3>5. c.base \in Nat
      BY PathSizes
    <3>6. Laid(c.dst, c.base, rooted, Append(stack, g))
      BY <1>6, <2>4, <3>1, <3>2, <3>3, <3>4, <3>5, LaidPush
    <3> QED
      BY <3>4, <3>6
  <2>5. CASE rooted /\ Stays(st, c)
    <3>1. g = Up /\ Len(d) <= base /\ c.dst = d /\ c.base = base
      BY <1>1, <2>5 DEF Stays, Up
    <3>2. ~(stack # <<>> /\ Last(stack) # Up)
      BY <1>6, <3>1, LaidBase
    <3>3. after = stack
      BY <1>9, <1>10, <2>5, <3>1, <3>2, DotsApart DEF Up
    <3> QED
      BY <1>6, <3>1, <3>3
  <2> QED
    BY <1>3, <2>1, <2>2, <2>3, <2>4, <2>5 DEF ClosedCases
<1> QED
  BY <1>2, <1>7, <1>11

\* After k bytes: what is written is where the segments so far lead.
Tracks(st, s, k) ==
  /\ st.seg = At(s, k).seg /\ Whole(At(s, k).seg)
  /\ Laid(st.dst, st.base, Rooted(s), Way(Rooted(s), At(s, k).names))

LEMMA TracksStart ==
  ASSUME NEW s \in Seq(Int)
  PROVE  Tracks(PathStart(s), s, 0)
<1>1. At(s, 0).names = <<>> /\ At(s, 0).seg = <<>>
  BY CutPreNone
<1>2. Way(Rooted(s), <<>>) = <<>>
  BY WayNone
<1>3. Whole(<<>>)
  BY DEF Whole
<1>4. PathStart(s).seg = <<>>
  BY PathStarts
<1>5. ASSUME Rooted(s) PROVE Laid(PathStart(s).dst, PathStart(s).base, Rooted(s), <<>>)
  <2>0. <<Slash>> \in Seq(Int)
    BY SlashDot
  <2>1. PICK d \in Seq(Int) : d = <<Slash>>
    BY <2>0
  <2>2. Len(d) = 1 /\ d[1] = Slash /\ 1 \in 1..Len(d) /\ 1 - 1 = 0
    BY <2>1
  <2>3. PathStart(s).dst = d /\ PathStart(s).base = 1
    BY <1>5, <2>1, PathStarts
  <2>4. Marks(d, 1, Rooted(s))
    <3> SUFFICES ASSUME NEW k \in 1..Len(d) PROVE Mark(d, 1, Rooted(s), k)
      BY DEF Marks
    <3>1. k = 1
      BY <2>2
    <3> QED
      BY <1>5, <2>2, <3>1, DotsApart DEF Mark
  <2>5. Foot(d, 1, Rooted(s)) /\ Shut(d)
    BY <1>5, <2>2 DEF Foot, Shut
  <2>6. Cut(d).names = <<>>
    <3>1. At(d, 1).names = NamesOf(At(d, 0)) /\ At(d, 1) = Cut(d)
      BY <2>2, CutPre, CutPreAll, SegmentsAre
    <3>2. NamesOf(At(d, 0)) = <<>>
      BY CutPreNone DEF NamesOf
    <3> QED
      BY <3>1, <3>2
  <2> QED
    BY <2>3, <2>4, <2>5, <2>6 DEF Laid
<1>6. ASSUME ~Rooted(s) PROVE Laid(PathStart(s).dst, PathStart(s).base, Rooted(s), <<>>)
  <2>1. PathStart(s).dst = <<>> /\ PathStart(s).base = 0
    BY <1>6, PathStarts
  <2>2. Len(<<>>) = 0
    OBVIOUS
  <2>3. Marks(<<>>, 0, Rooted(s)) /\ Foot(<<>>, 0, Rooted(s)) /\ Shut(<<>>)
    BY <1>6, <2>2 DEF Marks, Foot, Shut
  <2> QED
    BY <2>1, <2>3, CutNone DEF Laid
<1> QED
  BY <1>1, <1>2, <1>3, <1>4, <1>5, <1>6 DEF Tracks

LEMMA TracksStep ==
  ASSUME NEW s \in Seq(Int), NEW k \in 1..Len(s), NEW st \in PathStates, Tracks(st, s, k - 1)
  PROVE  Tracks(PathStep(st, s[k], Rooted(s)), s, k)
<1>1. PICK b \in Int : b = s[k]
  OBVIOUS
<1>2. PICK cut \in Cuts : cut = At(s, k - 1)
  BY CutPre
<1>3. /\ st.seg = cut.seg /\ Whole(cut.seg)
      /\ Laid(st.dst, st.base, Rooted(s), Way(Rooted(s), cut.names))
  BY <1>2 DEF Tracks
<1>4. PICK rooted \in BOOLEAN : rooted = Rooted(s)
  BY DEF Rooted
<1>5. CASE b \in Separators
  <2>1. At(s, k).names = NamesOf(cut) /\ At(s, k).seg = <<>>
    BY <1>1, <1>2, <1>5, CutPre
  <2>2. PathStep(st, b, rooted) = ClosedSegment(st, rooted)
    BY <1>5, PathStepIs
  <2>3. ClosedSegment(st, rooted).seg = <<>>
    BY ClosedIs
  <2>4. Laid(ClosedSegment(st, rooted).dst, ClosedSegment(st, rooted).base, rooted, Way(rooted, NamesOf(cut)))
    BY <1>3, <1>4, LaidClose
  <2>5. Whole(<<>>)
    BY DEF Whole
  <2> QED
    BY <1>1, <1>4, <2>1, <2>2, <2>3, <2>4, <2>5 DEF Tracks
<1>6. CASE b \notin Separators
  <2>1. At(s, k).names = cut.names /\ At(s, k).seg = Append(cut.seg, b)
    BY <1>1, <1>2, <1>6, CutPre
  <2>2. /\ PathStep(st, b, rooted).dst = st.dst /\ PathStep(st, b, rooted).base = st.base
        /\ PathStep(st, b, rooted).seg = Append(st.seg, b)
    BY <1>6, PathStepIs
  <2>3. PICK g \in Seq(Int) : g = cut.seg
    BY CutIs DEF Strings
  <2>4. Whole(Append(g, b))
    <3>1. PICK h : h = Append(g, b)
      OBVIOUS
    <3>2. Len(h) = Len(g) + 1 /\ h[Len(h)] = b /\ \A i \in 1..Len(g) : h[i] = g[i]
      BY <3>1
    <3>3. \A i \in 1..Len(g) : g[i] \notin Separators
      BY <1>3, <2>3 DEF Whole
    <3>4. Len(g) \in Nat
      OBVIOUS
    <3>5. \A i \in 1..Len(h) : i = Len(h) \/ i \in 1..Len(g)
      BY <3>2, <3>4
    <3>6. Whole(h)
      BY <1>6, <3>2, <3>3, <3>5 DEF Whole
    <3> QED
      BY <3>1, <3>6
  <2> QED
    BY <1>1, <1>3, <1>4, <2>1, <2>2, <2>3, <2>4 DEF Tracks
<1> QED
  BY <1>5, <1>6

LEMMA TracksAll ==
  ASSUME NEW s \in Seq(Int)
  PROVE  PathRead(s) \in PathStates /\ Tracks(PathRead(s), s, Len(s))
<1>1. PICK f : PathReadRun(f, s)
  BY PathReadFold
<1>2. PICK n \in Nat : n = Len(s)
  OBVIOUS
<1> DEFINE good == {k \in 0..n : Tracks(f[k], s, k)}
<1>3. 0 \in good
  BY <1>1, PathRuns, TracksStart
<1>4. ASSUME NEW k \in 1..n, k - 1 \in good PROVE k \in good
  <2>1. f[k - 1] \in PathStates /\ f[k] = PathStep(f[k - 1], s[k], Rooted(s))
    BY <1>1, <1>2, PathRuns
  <2>2. Tracks(f[k - 1], s, k - 1)
    BY <1>4
  <2>3. Tracks(f[k], s, k)
    BY <1>2, <2>1, <2>2, TracksStep
  <2> QED
    BY <2>3
<1> HIDE DEF good
<1>5. 0..n \subseteq good
  BY <1>3, <1>4, UpTo
<1>6. n \in 0..n
  OBVIOUS
<1>7. Tracks(f[n], s, n)
  BY <1>5, <1>6 DEF good
<1> QED
  BY <1>1, <1>2, <1>7, PathRuns, NormalizePathType

\* Every segment after one slash.
Clear(e) == \A i \in 1..Len(e) : e[i] # Backslash /\ ~(i + 1 \in 1..Len(e) /\ e[i] = Slash /\ e[i + 1] = Slash)

\* What a path written so far names, with its last slash or without it.
LEMMA LaidNames ==
  ASSUME NEW d \in Seq(Int), NEW base, NEW rooted \in BOOLEAN, NEW stack, Laid(d, base, rooted, stack),
         NEW e, e = d \/ (Len(d) > 1 /\ e = Front(d))
  PROVE  /\ e \in Seq(Int) /\ Names(e) = stack
         /\ Rooted(e) <=> rooted
         /\ Clear(e)
<1>1. PICK n \in Nat : n = Len(d)
  OBVIOUS
<1>2. Marks(d, base, rooted) /\ Foot(d, base, rooted) /\ Shut(d) /\ stack = Cut(d).names
  BY DEF Laid
<1>3. PICK m \in 0..n : /\ e \in Seq(Int) /\ Len(e) = m /\ \A i \in 1..m : e[i] = d[i]
                        /\ (m = n \/ m = n - 1) /\ (n >= 1 => m >= 1)
  <2>1. CASE e = d
    BY <1>1, <2>1
  <2>2. CASE Len(d) > 1 /\ e = Front(d)
    <3>1. d # <<>>
      BY <2>2
    <3>2. e \in Seq(Int) /\ Len(e) = n - 1 /\ \A i \in 1..(n - 1) : e[i] = d[i]
      BY <1>1, <2>2, <3>1, FrontIs
    <3>3. n - 1 \in 0..n /\ n - 1 >= 1
      BY <1>1, <2>2
    <3> QED
      BY <3>2, <3>3
  <2> QED
    BY <2>1, <2>2
<1>4. \A k \in 0..m : At(e, k) = At(d, k)
  <2>1. m <= Len(e) /\ m <= Len(d) /\ m \in Nat
    BY <1>1, <1>3
  <2> QED
    BY <1>3, <2>1, PreSame
<1>5. Cut(e) = At(d, m)
  <2>1. At(e, Len(e)) = Cut(e) /\ m \in 0..m
    BY <1>3, CutPreAll
  <2> QED
    BY <1>3, <1>4, <2>1
<1>6. At(d, n) = Cut(d)
  BY <1>1, CutPreAll
<1>7. Names(e) = stack
  <2>0. Names(e) = NamesOf(Cut(e))
    BY DEF Names, Cut
  <2>1. CASE m = n
    <3>1. n \in 0..Len(d) /\ (n > 0 => d[n] = Slash)
      BY <1>1, <1>2 DEF Shut
    <3>2. At(d, n).seg = <<>>
      BY <3>1, ShutAt
    <3>3. NamesOf(At(d, n)) = At(d, n).names
      BY <3>2 DEF NamesOf
    <3> QED
      BY <1>2, <1>5, <1>6, <2>0, <2>1, <3>3
  <2>2. CASE m = n - 1
    <3>1. n \in 1..Len(d) /\ d[n] \in Separators
      BY <1>1, <1>2, <1>3, <2>2, SegmentsAre DEF Shut
    <3>2. At(d, n).names = NamesOf(At(d, n - 1))
      BY <3>1, CutPre
    <3> QED
      BY <1>2, <1>5, <1>6, <2>0, <2>2, <3>2
  <2> QED
    BY <1>3, <2>1, <2>2
<1>8. ASSUME NEW i \in 1..m PROVE Mark(d, base, rooted, i) /\ e[i] = d[i]
  <2>1. i \in 1..Len(d)
    BY <1>1, <1>8
  <2> QED
    BY <1>2, <1>3, <2>1 DEF Marks
<1>9. Rooted(e) <=> rooted
  <2>1. CASE rooted
    <3>1. n >= 1 /\ d[1] = Slash
      BY <1>1, <1>2, <2>1 DEF Foot
    <3>2. m >= 1 /\ 1 \in 1..m
      BY <1>3, <3>1
    <3>3. e # <<>> /\ e[1] \in Separators
      BY <1>3, <3>1, <3>2, SegmentsAre
    <3> QED
      BY <2>1, <3>3 DEF Rooted
  <2>2. CASE ~rooted
    <3> SUFFICES ASSUME e # <<>>, e[1] \in Separators PROVE FALSE
      BY <2>2 DEF Rooted
    <3>1. 1 \in 1..m
      BY <1>3
    <3>2. Mark(d, base, rooted, 1) /\ e[1] = d[1]
      BY <1>8, <3>1
    <3>3. d[1] = Slash
      BY <3>2, SegmentsAre DEF Mark
    <3>4. At(d, 1 - 1).seg \notin {<<>>, <<Dot>>}
      BY <2>2, <3>2, <3>3 DEF Mark
    <3>5. At(d, 1 - 1) = At(d, 0)
      OBVIOUS
    <3> QED
      BY <3>4, <3>5, CutPreNone
  <2> QED
    BY <2>1, <2>2
<1>10. ASSUME NEW i \in 1..m, i + 1 \in 1..m, e[i] = Slash, e[i + 1] = Slash PROVE FALSE
  <2>1. Mark(d, base, rooted, i + 1) /\ d[i] = Slash /\ d[i + 1] = Slash /\ i \in 0..Len(d) /\ i > 0
    BY <1>1, <1>3, <1>8, <1>10
  <2>2. At(d, i).seg = <<>>
    BY <2>1, ShutAt
  <2>3. (i + 1) - 1 = i /\ i + 1 # 1
    BY <2>1
  <2>4. At(d, (i + 1) - 1).seg \notin {<<>>, <<Dot>>}
    BY <2>1, <2>3 DEF Mark
  <2> QED
    BY <2>2, <2>3, <2>4
<1>11. \A i \in 1..m : e[i] # Backslash
  BY <1>8 DEF Mark
<1>12. Clear(e)
  BY <1>3, <1>10, <1>11 DEF Clear
<1> QED
  BY Zenon, <1>3, <1>7, <1>9, <1>12

LEMMA Normalized ==
  ASSUME NEW s \in Seq(Int), NEW e, e = NormalizePath(s)
  PROVE  /\ e \in Seq(Int) /\ Names(e) = Way(Rooted(s), Names(s))
         /\ Rooted(e) <=> Rooted(s)
         /\ Clear(e)
<1>1. PICK st \in PathStates : st = PathRead(s) /\ Tracks(st, s, Len(s))
  BY TracksAll
<1>2. PICK cut \in Cuts : cut = Cut(s)
  <2>1. 0 \in Int
    OBVIOUS
  <2> QED
    BY <2>1, CutMore
<1>3. At(s, Len(s)) = cut
  BY <1>2, CutPreAll
<1>4. /\ st.seg = cut.seg /\ Whole(cut.seg)
      /\ Laid(st.dst, st.base, Rooted(s), Way(Rooted(s), cut.names))
  BY <1>1, <1>3 DEF Tracks
<1>5. PICK rooted \in BOOLEAN : rooted = Rooted(s)
  BY DEF Rooted
<1>6. PICK c \in PathStates : c = ClosedSegment(st, rooted)
  BY ClosedIs
<1>7. Laid(c.dst, c.base, rooted, Way(rooted, NamesOf(cut)))
  BY <1>4, <1>5, <1>6, LaidClose
<1>8. NamesOf(cut) = Names(s)
  BY <1>2 DEF Names, Cut
<1>9. PICK d \in Seq(Int) : d = c.dst /\ d = PathWritten(s)
  BY <1>1, <1>5, <1>6, PathSizes DEF PathWritten
<1>10. e = IF Len(d) > 1 /\ Last(d) = Slash /\ Last(s) \notin Separators THEN Front(d) ELSE d
  BY <1>9, NormalizePathOf
<1>11. e = d \/ (Len(d) > 1 /\ e = Front(d))
  BY <1>10
<1>12. Laid(d, c.base, rooted, Way(rooted, Names(s)))
  BY <1>7, <1>8, <1>9
<1>13. e \in Seq(Int) /\ Names(e) = Way(rooted, Names(s)) /\ (Rooted(e) <=> rooted) /\ Clear(e)
  BY <1>11, <1>12, LaidNames
<1> QED
  BY Zenon, <1>5, <1>13

\* The value in hand is what the last transform makes of the one before.
Made == applied # "" => value = Output(applied, before)

LEMMA MadeInit == Init => Made
BY Zenon DEF Init, Made

LEMMA MadeStep == TInv /\ Made /\ [Next]_vars => Made'
<1> SUFFICES ASSUME TInv, Made, [Next]_vars PROVE Made'
  OBVIOUS
<1>a. chain \in Seq(ChainNames) /\ value \in Seq(Int)
  BY DEF TInv, Typed
<1>b. ASSUME UNCHANGED <<before, value, applied>> PROVE Made'
  BY Zenon, <1>b DEF Made
<1>1. CASE Arrive
  BY <1>1, <1>b DEF Arrive
<1>2. CASE Enumerate
  BY <1>2, <1>b DEF Enumerate
<1>3. CASE OpenReading
  BY Zenon, <1>3 DEF OpenReading, Made
<1>4. CASE Apply
  <2>1. PICK t : t = Head(chain)
    OBVIOUS
  <2>2. /\ chain # <<>> /\ applied' = t /\ before' = value
        /\ changed' = NeededBy(t, value) /\ value' = IF changed' THEN Output(t, value) ELSE value
    BY <1>4, <2>1 DEF Apply
  <2>3. t \in ChainNames
    BY <1>a, <2>1, <2>2, HeadAndTail
  <2>4. ~NeededBy(t, value) => Output(t, value) = value
    BY <1>a, <2>3, ApplyContract
  <2> QED
    BY Zenon, <2>2, <2>4 DEF Made
<1>5. CASE Compare
  BY <1>5, <1>b DEF Compare
<1>6. CASE Finish
  BY <1>6, <1>b DEF Finish
<1>7. CASE UNCHANGED vars
  BY <1>7, <1>b DEF vars
<1> QED
  BY <1>1, <1>2, <1>3, <1>4, <1>5, <1>6, <1>7 DEF Next

LEMMA ResolvedIs ==
  ASSUME NEW s
  PROVE  Resolved(s).names = Way(Rooted(s), Names(s)) /\ Resolved(s).rooted = Rooted(s)
BY DEF Resolved, Rooted, Way

LEMMA MadeResolved == TInv /\ Made => PathResolved
<1> SUFFICES ASSUME TInv, Made, applied = "normalize_path" PROVE
      /\ Names(value) = Resolved(before).names
      /\ Resolved(value).rooted = Resolved(before).rooted
      /\ \A i \in DOMAIN value : value[i] # Backslash /\ ~PairAt(value, i, Slash, Slash)
  BY DEF PathResolved
<1>1. PICK s \in Seq(Int), e \in Seq(Int) : s = before /\ e = value
  BY DEF TInv, Typed
<1>2. e = NormalizePath(s)
  BY <1>1 DEF Made, Output, Slow
<1>3. /\ Names(e) = Way(Rooted(s), Names(s)) /\ (Rooted(e) <=> Rooted(s)) /\ Clear(e)
  BY <1>2, Normalized
<1>4. Rooted(e) = Rooted(s)
  BY <1>3 DEF Rooted
<1>5. \A i \in DOMAIN e : e[i] # Backslash /\ ~PairAt(e, i, Slash, Slash)
  <2> SUFFICES ASSUME NEW i \in 1..Len(e) PROVE e[i] # Backslash /\ ~PairAt(e, i, Slash, Slash)
    BY DomainOfSeq
  <2>1. i + 2 - 1 <= Len(e) => i + 1 \in 1..Len(e)
    OBVIOUS
  <2> QED
    BY <1>3, <2>1 DEF Clear, PairAt, HasAt
<1> QED
  BY <1>1, <1>3, <1>4, <1>5, ResolvedIs

(* NormalizePath pops a ".." by looking back through what it has written and *)
(* never below base: on every path it writes the segments a stack of them    *)
(* would end with, rooted as the path was, without a backslash or an empty   *)
(* segment; and a path its quick look leaves alone was resolved already.     *)
THEOREM Resolving == Spec => []PathResolved
<1>1. Init => TInv /\ Made
  BY TextInit, MadeInit
<1>2. (TInv /\ Made) /\ [Next]_vars => (TInv /\ Made)'
  BY TextStep, MadeStep
<1>3. TInv /\ Made => PathResolved
  BY MadeResolved
<1> QED
  BY <1>1, <1>2, <1>3, PTL DEF Spec
=============================================================================
