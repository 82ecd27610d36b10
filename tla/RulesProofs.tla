---------------------------- MODULE RulesProofs -----------------------------
(***************************************************************************)
(* Proofs about Rules, for every file, every setting and every set of      *)
(* rules: the rules stay well formed from the file to the plan, what is    *)
(* generated decides as what was imported, no rule is lost on the way or   *)
(* given another's tier, and the plan fires exactly the rules that hold.   *)
(***************************************************************************)
EXTENDS Rules, TransformsProofs

\* A removal names numbers.
LEMMA RemovalsAre ==
  ASSUME NEW d, NEW id \in Removals(d)
  PROVE  id \in Int
<1>1. \A lo, hi : lo..hi \subseteq Int
  OBVIOUS
<1>2. id \in {} \/ \E lo, hi : id \in lo..hi
  BY ONLY ZenonT(40) DEF Removals
<1> QED
  BY ONLY <1>1, <1>2, Zenon

\* The chain, transform by transform.
TransformedRun(f, bytes, chain) ==
  /\ f \in [0..Len(chain) -> Seq(Int)]
  /\ f[0] = bytes
  /\ \A k \in 1..Len(chain) : f[k] = IF Needed(chain[k], f[k - 1]) THEN Slow(chain[k], f[k - 1]) ELSE f[k - 1]
  /\ Transformed(chain, bytes) = f[Len(chain)]

LEMMA TransformedFold ==
  ASSUME NEW bytes \in Seq(Int), NEW chain \in Seq(TransformNames)
  PROVE  \E f : TransformedRun(f, bytes, chain)
<1> DEFINE T == Seq(Int)
           El == TransformNames
           op(v, name) == IF Needed(name, v) THEN Slow(name, v) ELSE v
           base == bytes
           step == [p \in T \X El |-> op(p[1], p[2])]
           Is(h) == h = [S \in SUBSET DOMAIN chain |->
                           IF S = {} THEN base ELSE op(h[S \ {Max(S)}], chain[Max(S)])]
           iter == CHOOSE h : Is(h)
<1>1. base \in T
  OBVIOUS
<1>a. \A t \in T, x \in El : op(t, x) \in T
  BY SlowType
<1>2. Transformed(chain, bytes) = iter[DOMAIN chain]
  BY DEF Transformed, FoldLeft, MapThenFoldSet
<1>0. chain \in Seq(El)
  OBVIOUS
<1> HIDE DEF op, base, T, El
<1>3. step \in [T \X El -> T]
  BY <1>a
<1>b. \A t \in T, x \in El : step[<<t, x>>] = op(t, x)
  OBVIOUS
<1> HIDE DEF step
<1>4. PICK g : Partial(g, T, chain, base, step, Len(chain))
  BY <1>0, <1>1, <1>3, FoldExists
<1>5. ASSUME NEW S \in SUBSET DOMAIN chain, S # {} PROVE g[S] = op(g[S \ {Max(S)}], chain[Max(S)])
  <2>1. Max(S) \in S /\ g[S] = step[<<g[S \ {Max(S)}], chain[Max(S)]>>] /\ g \in [SUBSET DOMAIN chain -> T]
    BY <1>0, <1>4, <1>5, DomainOfSeq DEF Partial
  <2>2. g[S \ {Max(S)}] \in T /\ chain[Max(S)] \in El
    BY <1>0, <2>1
  <2> QED
    BY <1>b, <2>1, <2>2
<1>6. g[{}] = base /\ g = [S \in SUBSET DOMAIN chain |-> g[S]]
  BY <1>0, <1>4, PartialBase
<1>7. Is(iter)
  <2>1. Is(g)
    BY <1>5, <1>6
  <2> QED
    BY <2>1
<1> HIDE DEF iter
<1>8. iter[{}] = base
  BY <1>7
<1>9. ASSUME NEW S \in SUBSET DOMAIN chain, S # {}, iter[S \ {Max(S)}] \in T, chain[Max(S)] \in El
      PROVE  iter[S] = step[<<iter[S \ {Max(S)}], chain[Max(S)]>>]
  BY <1>7, <1>9, <1>b
<1> HIDE DEF Is
<1>10. Steps(iter, T, El, chain, base, step)
  BY <1>8, <1>9 DEF Steps
<1>12. PICK f : Runs(f, T, chain, base, step, iter[DOMAIN chain])
  BY <1>0, <1>1, <1>3, <1>10, FoldRuns
<1>13. f \in [0..Len(chain) -> T] /\ f[0] = base /\ f[Len(chain)] = iter[DOMAIN chain]
  BY <1>12 DEF Runs
<1>11. \A k \in 1..Len(chain) : f[k] = op(f[k - 1], chain[k])
  BY <1>0, <1>b, <1>12, <1>13, InsideFold DEF Runs
<1> QED
  BY <1>2, <1>11, <1>13 DEF op, base, T, TransformedRun

LEMMA TransformedType ==
  ASSUME NEW bytes \in Seq(Int), NEW chain \in Seq(TransformNames)
  PROVE  Transformed(chain, bytes) \in Seq(Int)
<1>1. PICK f : TransformedRun(f, bytes, chain)
  BY TransformedFold
<1>2. Len(chain) \in 0..Len(chain)
  OBVIOUS
<1> QED
  BY <1>1, <1>2 DEF TransformedRun

-----------------------------------------------------------------------------
(* Iteration, and what it makes of a sequence of sequences.                  *)
Iterated(f, T, n, base, step) ==
  /\ f \in [0..n -> T]
  /\ f[0] = base
  /\ \A k \in 1..n : f[k] = step[<<f[k - 1], k>>]

LEMMA IterationExists ==
  ASSUME NEW T, NEW n \in Nat, NEW base \in T, NEW step \in [T \X (1..n) -> T]
  PROVE  \E f : Iterated(f, T, n, base, step)
<1> DEFINE Is(f, m) == /\ f \in [0..m -> T] /\ f[0] = base
                       /\ \A k \in 1..m : f[k] = step[<<f[k - 1], k>>]
           good == {m \in 0..n : \E f : Is(f, m)}
<1>1. 0 \in good
  <2> DEFINE f == [k \in 0..0 |-> base]
  <2>1. Is(f, 0)
    OBVIOUS
  <2> HIDE DEF f, Is
  <2>2. 0 \in 0..n
    OBVIOUS
  <2> QED
    BY <2>1, <2>2
<1>2. ASSUME NEW m \in 1..n, m - 1 \in good PROVE m \in good
  <2>1. PICK g : Is(g, m - 1)
    BY <1>2
  <2>2. m - 1 \in 0..(m - 1) /\ m \in 0..n /\ m \in Nat
    OBVIOUS
  <2>3. g[m - 1] \in T
    BY <2>1, <2>2
  <2> DEFINE f == [k \in 0..m |-> IF k = m THEN step[<<g[m - 1], m>>] ELSE g[k]]
  <2>4. f \in [0..m -> T]
    <3>1. \A k \in 0..m : k # m => k \in 0..(m - 1)
      BY <2>2
    <3> QED
      BY <2>1, <2>3, <3>1
  <2>5. f[0] = base
    BY <2>1, <2>2
  <2>6. ASSUME NEW k \in 1..m PROVE f[k] = step[<<f[k - 1], k>>]
    <3>1. k - 1 \in 0..m /\ k - 1 # m /\ k \in 0..m
      BY <2>2
    <3>2. CASE k = m
      BY <3>1, <3>2
    <3>3. CASE k # m
      <4>1. k \in 1..(m - 1)
        BY <2>2, <3>3
      <4> QED
        BY <2>1, <3>1, <3>3, <4>1
    <3> QED
      BY <3>2, <3>3
  <2> HIDE DEF f
  <2>7. Is(f, m)
    BY <2>4, <2>5, <2>6
  <2> QED
    BY <2>2, <2>7
<1> HIDE DEF good
<1>3. 0..n \subseteq good
  BY <1>1, <1>2, UpTo
<1>4. n \in good
  BY <1>3
<1> QED
  BY <1>4 DEF good, Iterated

\* The sequences of a sequence, one behind the other.
Flattens(f, seqs, n) == \A k \in 1..n : f[k] = IF k = 1 THEN seqs[k] ELSE f[k - 1] \o seqs[k]

LEMMA FlattenRuns ==
  ASSUME NEW T, NEW seqs \in Seq(Seq(T)), Len(seqs) # 0
  PROVE  \E f : Flattens(f, seqs, Len(seqs)) /\ FlattenSeq(seqs) = f[Len(seqs)]
<1> DEFINE n == Len(seqs)
           Is(f) == f = [k \in 1..n |-> IF k = 1 THEN seqs[k] ELSE f[k - 1] \o seqs[k]]
           f == CHOOSE f : Is(f)
<1>0. n \in Nat /\ n # 0 /\ \A k \in 1..n : seqs[k] \in Seq(T)
  OBVIOUS
<1>1. FlattenSeq(seqs) = f[n]
  BY DEF FlattenSeq
<1> HIDE DEF n
<1>2. \E g : Is(g)
  <2> DEFINE step == [p \in Seq(T) \X (1..n) |->
                        IF p[2] = 1 THEN seqs[1] ELSE p[1] \o seqs[p[2]]]
  <2>0. <<>> \in Seq(T) /\ 1 \in 1..n
    BY <1>0
  <2>1. \A t \in Seq(T), k \in 1..n : t \o seqs[k] \in Seq(T)
    BY <1>0
  <2>2. step \in [Seq(T) \X (1..n) -> Seq(T)]
    BY <1>0, <2>0, <2>1
  <2>3. \A t \in Seq(T), k \in 1..n : step[<<t, k>>] = IF k = 1 THEN seqs[k] ELSE t \o seqs[k]
    OBVIOUS
  <2> HIDE DEF step
  <2>4. PICK g : Iterated(g, Seq(T), n, <<>>, step)
    BY <1>0, <2>0, <2>2, IterationExists
  <2>5. \A k \in 1..n : g[k] = IF k = 1 THEN seqs[k] ELSE g[k - 1] \o seqs[k]
    <3> TAKE k \in 1..n
    <3>1. k - 1 \in 0..n
      BY <1>0
    <3>2. g[k - 1] \in Seq(T) /\ g[k] = step[<<g[k - 1], k>>]
      BY <2>4, <3>1 DEF Iterated
    <3> QED
      BY <2>3, <3>2
  <2> DEFINE h == [k \in 1..n |-> g[k]]
  <2>6. \A k \in 1..n : h[k] = IF k = 1 THEN seqs[k] ELSE h[k - 1] \o seqs[k]
    <3> TAKE k \in 1..n
    <3>1. k # 1 => k - 1 \in 1..n
      BY <1>0
    <3> QED
      BY <2>5, <3>1
  <2>7. h = [k \in 1..n |-> IF k = 1 THEN seqs[k] ELSE h[k - 1] \o seqs[k]]
    <3>1. h = [k \in 1..n |-> h[k]]
      OBVIOUS
    <3> HIDE DEF h
    <3> QED
      BY <2>6, <3>1
  <2> HIDE DEF h
  <2> QED
    BY <2>7
<1> HIDE DEF Is
<1>3. Is(f)
  BY <1>2
<1> HIDE DEF f
<1>4. Flattens(f, seqs, n)
  BY <1>3 DEF Is, Flattens
<1> QED
  BY <1>1, <1>4 DEF n

\* A sequence as long as nothing is empty, and the members of two in a row.
LEMMA EmptyIs == \A E : \A s \in Seq(E) : Len(s) = 0 <=> s = <<>>
  OBVIOUS

LEMMA RangeOfJoin ==
  ASSUME NEW E, NEW s \in Seq(E), NEW t \in Seq(E)
  PROVE  s \o t \in Seq(E) /\ \A x : x \in Range(s \o t) <=> (x \in Range(s) \/ x \in Range(t))
<1>1. s \o t \in Seq(E) /\ DOMAIN s = 1..Len(s) /\ DOMAIN t = 1..Len(t) /\ DOMAIN (s \o t) = 1..(Len(s) + Len(t))
      /\ Len(s) \in Nat /\ Len(t) \in Nat
  OBVIOUS
<1>2. /\ \A i \in 1..Len(s) : (s \o t)[i] = s[i]
      /\ \A i \in 1..Len(t) : (s \o t)[Len(s) + i] = t[i]
      /\ \A i \in 1..(Len(s) + Len(t)) : i \notin 1..Len(s) => i - Len(s) \in 1..Len(t) /\ (s \o t)[i] = t[i - Len(s)]
  OBVIOUS
<1>3. ASSUME NEW x, x \in Range(s \o t) PROVE x \in Range(s) \/ x \in Range(t)
  <2>1. PICK i \in 1..(Len(s) + Len(t)) : (s \o t)[i] = x
    BY <1>1, <1>3, RangeIs
  <2>2. CASE i \in 1..Len(s)
    BY <1>1, <1>2, <2>1, <2>2, RangeIs
  <2>3. CASE i \notin 1..Len(s)
    BY <1>1, <1>2, <2>1, <2>3, RangeIs
  <2> QED
    BY <2>2, <2>3
<1>4. ASSUME NEW x, x \in Range(s) PROVE x \in Range(s \o t)
  <2>1. PICK i \in 1..Len(s) : s[i] = x
    BY <1>1, <1>4, RangeIs
  <2>2. i \in 1..(Len(s) + Len(t))
    BY <1>1
  <2> QED
    BY <1>1, <1>2, <2>1, <2>2, RangeIs
<1>5. ASSUME NEW x, x \in Range(t) PROVE x \in Range(s \o t)
  <2>1. PICK i \in 1..Len(t) : t[i] = x
    BY <1>1, <1>5, RangeIs
  <2>2. Len(s) + i \in 1..(Len(s) + Len(t))
    BY <1>1
  <2> QED
    BY <1>1, <1>2, <2>1, <2>2, RangeIs
<1> QED
  BY <1>1, <1>3, <1>4, <1>5

\* What is in the whole is in one of the parts.
LEMMA FlattenIs ==
  ASSUME NEW T, NEW seqs \in Seq(Seq(T))
  PROVE  /\ FlattenSeq(seqs) \in Seq(T)
         /\ \A x : x \in Range(FlattenSeq(seqs)) <=> \E k \in 1..Len(seqs) : x \in Range(seqs[k])
<1>0. Len(seqs) \in Nat /\ \A k \in 1..Len(seqs) : seqs[k] \in Seq(T)
  OBVIOUS
<1>1. CASE Len(seqs) = 0
  <2>1. seqs = <<>>
    BY <1>1, EmptyIs
  <2>2. FlattenSeq(seqs) = <<>>
    BY <1>1, <2>1 DEF FlattenSeq
  <2>3. <<>> \in Seq(T) /\ \A x : x \notin Range(<<>>)
    <3>1. DOMAIN <<>> = {}
      OBVIOUS
    <3> QED
      BY <3>1, RangeIs
  <2>4. \A k : k \notin 1..Len(seqs)
    BY <1>1
  <2> QED
    BY <2>2, <2>3, <2>4
<1>2. CASE Len(seqs) # 0
  <2>1. PICK f : Flattens(f, seqs, Len(seqs)) /\ FlattenSeq(seqs) = f[Len(seqs)]
    BY <1>2, FlattenRuns
  <2> DEFINE Has(k) == f[k] \in Seq(T) /\ \A x : x \in Range(f[k]) <=> \E j \in 1..k : x \in Range(seqs[j])
             good == {k \in 0..Len(seqs) : k = 0 \/ Has(k)}
  <2>2. 0 \in good
    BY <1>0
  <2>3. ASSUME NEW k \in 1..Len(seqs), k - 1 \in good PROVE k \in good
    <3>1. f[k] = IF k = 1 THEN seqs[k] ELSE f[k - 1] \o seqs[k]
      BY <2>1 DEF Flattens
    <3>2. k \in 0..Len(seqs) /\ k \in Nat /\ (k # 1 => k - 1 # 0)
      BY <1>0
    <3>3. CASE k = 1
      <4>1. f[k] = seqs[k] /\ \A j \in 1..k : j = k
        BY <3>1, <3>3
      <4>2. k \in 1..k
        BY <3>2
      <4> QED
        BY <1>0, <3>2, <4>1, <4>2
    <3>4. CASE k # 1
      <4>1. Has(k - 1)
        BY <2>3, <3>2, <3>4
      <4>2. f[k - 1] \in Seq(T) /\ seqs[k] \in Seq(T)
        BY <1>0, <4>1
      <4>3. f[k] = f[k - 1] \o seqs[k]
        BY <3>1, <3>4
      <4>4. f[k] \in Seq(T) /\ \A x : x \in Range(f[k]) <=> (x \in Range(f[k - 1]) \/ x \in Range(seqs[k]))
        BY <4>2, <4>3, RangeOfJoin
      <4>5. 1..k = (1..(k - 1)) \cup {k}
        BY <3>2
      <4>6. \A x : x \in Range(f[k - 1]) <=> \E j \in 1..(k - 1) : x \in Range(seqs[j])
        BY <4>1
      <4>7. Has(k)
        BY <4>4, <4>5, <4>6
      <4> QED
        BY <3>2, <4>7
    <3> QED
      BY <3>3, <3>4
  <2> HIDE DEF good
  <2>4. 0..Len(seqs) \subseteq good
    BY <1>0, <2>2, <2>3, UpTo
  <2>5. Len(seqs) \in good
    BY <1>0, <2>4
  <2> QED
    BY <1>2, <2>1, <2>5 DEF good
<1> QED
  BY <1>1, <1>2

\* A sequence is one of its own members.
LEMMA OfItsMembers == \A E : \A s \in Seq(E) : s \in Seq(Range(s)) /\ \A k \in 1..Len(s) : s[k] \in Range(s)
<1> SUFFICES ASSUME NEW E, NEW s \in Seq(E)
             PROVE  s \in Seq(Range(s)) /\ \A k \in 1..Len(s) : s[k] \in Range(s)
  OBVIOUS
<1>1. \A k \in 1..Len(s) : s[k] \in Range(s)
  BY DomainOfSeq, RangeIs
<1>2. s = [k \in 1..Len(s) |-> s[k]] /\ Len(s) \in Nat
  OBVIOUS
<1> QED
  BY <1>1, <1>2

-----------------------------------------------------------------------------
(* The lexer: lines of bytes are cut into words of bytes.                    *)
LEMMA ReverseIs == \A s \in Seq(Int) : Reverse(s) \in Seq(Int)
<1> SUFFICES ASSUME NEW s \in Seq(Int) PROVE Reverse(s) \in Seq(Int)
  OBVIOUS
<1>1. Len(s) \in Nat /\ \A i \in 1..Len(s) : Len(s) - i + 1 \in 1..Len(s)
  OBVIOUS
<1>2. \A i \in 1..Len(s) : s[Len(s) - i + 1] \in Int
  BY <1>1
<1>3. Reverse(s) \in [1..Len(s) -> Int]
  BY <1>2 DEF Reverse
<1> QED
  BY <1>1, <1>3

LEMMA RestIs ==
  ASSUME NEW s \in Seq(Int), NEW n \in Nat
  PROVE  Rest(s, n) \in Seq(Int)
<1>0. Len(s) \in Nat
  OBVIOUS
<1>1. CASE n <= Len(s)
  <2>1. n + 1 \in 1..(Len(s) + 1) /\ Len(s) \in 0..Len(s)
    BY <1>0, <1>1
  <2> QED
    BY <2>1, PartOf DEF Rest
<1>2. CASE n > Len(s)
  <2>1. SubSeq(s, n + 1, Len(s)) = <<>>
    BY <1>0, <1>2
  <2> QED
    BY <2>1 DEF Rest
<1> QED
  BY <1>0, <1>1, <1>2

LEMMA TrimLeftIs ==
  ASSUME NEW s \in Seq(Int), NEW cs
  PROVE  TrimLeft(s, cs) \in Seq(Int)
<1>0. Len(s) \in Nat /\ 1 \in 1..(Len(s) + 1) /\ Len(s) \in 0..Len(s)
  OBVIOUS
<1>1. RunEnd(s, 1, cs) \in 1..(Len(s) + 1)
  BY <1>0, RunEndIs
<1> QED
  BY <1>0, <1>1, PartOf DEF TrimLeft

LEMMA TrimRightIs ==
  ASSUME NEW s \in Seq(Int), NEW cs
  PROVE  TrimRight(s, cs) \in Seq(Int)
  BY ReverseIs, TrimLeftIs DEF TrimRight

LEMMA TrimIs ==
  ASSUME NEW s \in Seq(Int), NEW cs
  PROVE  Trim(s, cs) \in Seq(Int)
  BY TrimRightIs, TrimLeftIs DEF Trim

LEMMA TrimSpaceIs == \A s \in Seq(Int) : TrimSpace(s) \in Seq(Int)
  BY TrimIs DEF TrimSpace

LEMMA BeforeIs ==
  ASSUME NEW s \in Seq(Int), NEW b
  PROVE  Before(s, b) \in Seq(Int)
<1>1. FirstIn(s, {b}) \in 1..(Len(s) + 1) /\ Len(s) \in Nat
  BY FirstInIs
<1>2. FirstIn(s, {b}) - 1 \in 0..Len(s) /\ 1 \in 1..(Len(s) + 1)
  BY <1>1
<1> QED
  BY <1>2, PartOf DEF Before

LEMMA BehindIs ==
  ASSUME NEW s \in Seq(Int), NEW b
  PROVE  Behind(s, b) \in Seq(Int)
<1>1. FirstIn(s, {b}) \in 1..(Len(s) + 1) /\ Len(s) \in Nat
  BY FirstInIs
<1>2. FirstIn(s, {b}) \in Nat
  BY <1>1
<1> QED
  BY <1>2, RestIs DEF Behind

LEMMA FrontOfBytes == \A E : \A s \in Seq(E) : Front(s) \in Seq(E)
<1> SUFFICES ASSUME NEW E, NEW s \in Seq(E) PROVE Front(s) \in Seq(E)
  OBVIOUS
<1>1. CASE s = <<>>
  <2>1. Front(<<>>) = <<>>
    BY DEF Front
  <2> QED
    BY <1>1, <2>1
<1>2. CASE s # <<>>
  BY <1>2, FrontIs
<1> QED
  BY <1>1, <1>2

\* What a directive that goes on becomes with the line it goes on in.
LEMMA ContinuedIs ==
  ASSUME NEW done \in Seq(Seq(Int)), NEW line \in Seq(Int)
  PROVE  (IF done # <<>> /\ Continues(Last(done))
          THEN Append(Front(done), Append(Front(TrimRight(Last(done), Gaps)), Space) \o TrimLeft(line, Gaps))
          ELSE Append(done, line)) \in Seq(Seq(Int))
<1>1. CASE done # <<>>
  <2>1. Front(done) \in Seq(Seq(Int)) /\ Last(done) \in Seq(Int)
    BY <1>1, FrontIs
  <2>2. Front(TrimRight(Last(done), Gaps)) \in Seq(Int)
    BY <2>1, TrimRightIs, FrontOfBytes
  <2>3. TrimLeft(line, Gaps) \in Seq(Int)
    BY TrimLeftIs
  <2>4. Append(Front(TrimRight(Last(done), Gaps)), Space) \in Seq(Int)
    BY <2>2, SlashDot
  <2>5. Append(Front(TrimRight(Last(done), Gaps)), Space) \o TrimLeft(line, Gaps) \in Seq(Int)
    BY <2>3, <2>4
  <2> QED
    BY <2>1, <2>5
<1>2. CASE done = <<>>
  BY <1>2
<1> QED
  BY <1>1, <1>2

\* Line by line.
JoinedRun(f, lines) ==
  /\ f \in [0..Len(lines) -> Seq(Seq(Int))]
  /\ f[0] = <<>>
  /\ \A k \in 1..Len(lines) : f[k] = IF f[k - 1] # <<>> /\ Continues(Last(f[k - 1])) THEN Append(Front(f[k - 1]), Append(Front(TrimRight(Last(f[k - 1]), Gaps)), Space) \o TrimLeft(lines[k], Gaps)) ELSE Append(f[k - 1], lines[k])
  /\ Joined(lines) = f[Len(lines)]

LEMMA JoinedFold ==
  ASSUME NEW lines \in Seq(Seq(Int))
  PROVE  \E f : JoinedRun(f, lines)
<1> DEFINE T == Seq(Seq(Int))
           El == Seq(Int)
           op(done, line) == IF done # <<>> /\ Continues(Last(done)) THEN Append(Front(done), Append(Front(TrimRight(Last(done), Gaps)), Space) \o TrimLeft(line, Gaps)) ELSE Append(done, line)
           base == <<>>
           step == [p \in T \X El |-> op(p[1], p[2])]
           Is(h) == h = [S \in SUBSET DOMAIN lines |->
                           IF S = {} THEN base ELSE op(h[S \ {Max(S)}], lines[Max(S)])]
           iter == CHOOSE h : Is(h)
<1>1. base \in T
  OBVIOUS
<1>a. \A t \in T, x \in El : op(t, x) \in T
  BY ContinuedIs
<1>2. Joined(lines) = iter[DOMAIN lines]
  BY DEF Joined, FoldLeft, MapThenFoldSet
<1>0. lines \in Seq(El)
  OBVIOUS
<1> HIDE DEF op, base, T, El
<1>3. step \in [T \X El -> T]
  BY <1>a
<1>b. \A t \in T, x \in El : step[<<t, x>>] = op(t, x)
  OBVIOUS
<1> HIDE DEF step
<1>4. PICK g : Partial(g, T, lines, base, step, Len(lines))
  BY <1>0, <1>1, <1>3, FoldExists
<1>5. ASSUME NEW S \in SUBSET DOMAIN lines, S # {} PROVE g[S] = op(g[S \ {Max(S)}], lines[Max(S)])
  <2>1. Max(S) \in S /\ g[S] = step[<<g[S \ {Max(S)}], lines[Max(S)]>>] /\ g \in [SUBSET DOMAIN lines -> T]
    BY <1>0, <1>4, <1>5, DomainOfSeq DEF Partial
  <2>2. g[S \ {Max(S)}] \in T /\ lines[Max(S)] \in El
    BY <1>0, <2>1
  <2> QED
    BY <1>b, <2>1, <2>2
<1>6. g[{}] = base /\ g = [S \in SUBSET DOMAIN lines |-> g[S]]
  BY <1>0, <1>4, PartialBase
<1>7. Is(iter)
  <2>1. Is(g)
    BY <1>5, <1>6
  <2> QED
    BY <2>1
<1> HIDE DEF iter
<1>8. iter[{}] = base
  BY <1>7
<1>9. ASSUME NEW S \in SUBSET DOMAIN lines, S # {}, iter[S \ {Max(S)}] \in T, lines[Max(S)] \in El
      PROVE  iter[S] = step[<<iter[S \ {Max(S)}], lines[Max(S)]>>]
  BY <1>7, <1>9, <1>b
<1> HIDE DEF Is
<1>10. Steps(iter, T, El, lines, base, step)
  BY <1>8, <1>9 DEF Steps
<1>12. PICK f : Runs(f, T, lines, base, step, iter[DOMAIN lines])
  BY <1>0, <1>1, <1>3, <1>10, FoldRuns
<1>13. f \in [0..Len(lines) -> T] /\ f[0] = base /\ f[Len(lines)] = iter[DOMAIN lines]
  BY <1>12 DEF Runs
<1>11. \A k \in 1..Len(lines) : f[k] = op(f[k - 1], lines[k])
  BY <1>0, <1>b, <1>12, <1>13, InsideFold DEF Runs
<1> QED
  BY <1>2, <1>11, <1>13 DEF op, base, T, JoinedRun

LEMMA JoinedIs ==
  ASSUME NEW lines \in Seq(Seq(Int))
  PROVE  Joined(lines) \in Seq(Seq(Int))
<1>1. PICK f : JoinedRun(f, lines)
  BY JoinedFold
<1>2. Len(lines) \in 0..Len(lines)
  OBVIOUS
<1> QED
  BY <1>1, <1>2 DEF JoinedRun

-----------------------------------------------------------------------------
\* The states of the machines.
LexStates == [out: Seq(Seq(Int)), cur: Seq(Int), quote: Int, taken: BOOLEAN, inCur: BOOLEAN, depth: Int, over: BOOLEAN]

LEMMA StartIs == Start \in LexStates
  BY DEF Start, LexStates

LEMMA LexParts ==
  ASSUME NEW st \in LexStates
  PROVE  /\ st.out \in Seq(Seq(Int)) /\ st.cur \in Seq(Int) /\ st.quote \in Int /\ st.depth \in Int
         /\ \A o \in Seq(Seq(Int)) : [st EXCEPT !.out = o] \in LexStates
         /\ \A c \in Seq(Int) : [st EXCEPT !.cur = c] \in LexStates
         /\ \A q \in Int : [st EXCEPT !.quote = q] \in LexStates
         /\ \A t \in BOOLEAN : [st EXCEPT !.taken = t] \in LexStates
         /\ \A t \in BOOLEAN : [st EXCEPT !.inCur = t] \in LexStates
         /\ \A d \in Int : [st EXCEPT !.depth = d] \in LexStates
         /\ \A t \in BOOLEAN : [st EXCEPT !.over = t] \in LexStates
<1>1. st.out \in Seq(Seq(Int)) /\ st.cur \in Seq(Int) /\ st.quote \in Int /\ st.depth \in Int
  BY DEF LexStates
<1>2. \A o \in Seq(Seq(Int)) : [st EXCEPT !.out = o] \in LexStates
  BY DEF LexStates
<1>3. \A c \in Seq(Int) : [st EXCEPT !.cur = c] \in LexStates
  BY DEF LexStates
<1>4. \A q \in Int : [st EXCEPT !.quote = q] \in LexStates
  BY DEF LexStates
<1>5. \A t \in BOOLEAN : [st EXCEPT !.taken = t] \in LexStates
  BY DEF LexStates
<1>6. \A t \in BOOLEAN : [st EXCEPT !.inCur = t] \in LexStates
  BY DEF LexStates
<1>7. \A d \in Int : [st EXCEPT !.depth = d] \in LexStates
  BY DEF LexStates
<1>8. \A t \in BOOLEAN : [st EXCEPT !.over = t] \in LexStates
  BY DEF LexStates
<1> QED
  BY <1>1, <1>2, <1>3, <1>4, <1>5, <1>6, <1>7, <1>8

LEMMA WithIs ==
  ASSUME NEW st \in LexStates, NEW b \in Int
  PROVE  With(st, b) \in LexStates
<1>1. Append(st.cur, b) \in Seq(Int)
  BY LexParts
<1>2. PICK c \in Seq(Int) : c = Append(st.cur, b)
  BY <1>1
<1>3. With(st, b) = [[[st EXCEPT !.cur = c] EXCEPT !.taken = FALSE] EXCEPT !.inCur = TRUE]
  BY <1>2 DEF With
<1>4. PICK u \in LexStates : u = [st EXCEPT !.cur = c]
  BY LexParts
<1>5. PICK w \in LexStates : w = [u EXCEPT !.taken = FALSE]
  BY LexParts
<1> QED
  BY <1>3, <1>4, <1>5, LexParts

LEMMA CutIs ==
  ASSUME NEW st \in LexStates
  PROVE  Cut(st) \in LexStates /\ Cut(st).out \in Seq(Seq(Int))
<1>1. TrimSpace(st.cur) \in Seq(Int) /\ st.out \in Seq(Seq(Int))
  BY LexParts, TrimSpaceIs
<1>2. PICK o : o = IF TrimSpace(st.cur) = <<>> THEN st.out ELSE Append(st.out, TrimSpace(st.cur))
  OBVIOUS
<1>3. o \in Seq(Seq(Int)) /\ <<>> \in Seq(Int)
  BY <1>1, <1>2
<1>4. Cut(st) = [[st EXCEPT !.out = o] EXCEPT !.cur = <<>>]
  BY <1>2 DEF Cut
<1>5. PICK u \in LexStates : u = [st EXCEPT !.out = o]
  BY <1>3, LexParts
<1>6. Cut(st) \in LexStates
  BY <1>3, <1>4, <1>5, LexParts
<1> QED
  BY <1>6, LexParts

\* What a word that ends leaves.
LEMMA EndedIs ==
  ASSUME NEW st \in LexStates
  PROVE  [st EXCEPT !.out = Append(@, st.cur), !.cur = <<>>, !.inCur = FALSE] \in LexStates
<1>0. st.out \in Seq(Seq(Int)) /\ st.cur \in Seq(Int)
  BY LexParts
<1>9. PICK p \in Seq(Seq(Int)), c \in Seq(Int) : p = st.out /\ c = st.cur
  BY <1>0
<1>8. Append(p, c) \in Seq(Seq(Int))
  OBVIOUS
<1>1. PICK o \in Seq(Seq(Int)) : o = Append(st.out, st.cur)
  BY <1>8, <1>9
<1>2. [st EXCEPT !.out = Append(@, st.cur), !.cur = <<>>, !.inCur = FALSE]
        = [[[st EXCEPT !.out = o] EXCEPT !.cur = <<>>] EXCEPT !.inCur = FALSE]
  BY <1>1
<1>3. PICK u \in LexStates : u = [st EXCEPT !.out = o]
  BY LexParts
<1>4. <<>> \in Seq(Int)
  OBVIOUS
<1>5. PICK w \in LexStates : w = [u EXCEPT !.cur = <<>>]
  BY <1>4, LexParts
<1> QED
  BY <1>2, <1>3, <1>5, LexParts

LEMMA ArgByteIs ==
  ASSUME NEW st \in LexStates, NEW b \in Int
  PROVE  ArgByte(st, b) \in LexStates
<1>1. \/ ArgByte(st, b) = st
      \/ ArgByte(st, b) = With(st, b)
      \/ ArgByte(st, b) = [With(st, b) EXCEPT !.taken = TRUE]
      \/ ArgByte(st, b) = [st EXCEPT !.quote = 0]
      \/ ArgByte(st, b) = [st EXCEPT !.out = Append(@, st.cur), !.cur = <<>>, !.inCur = FALSE]
      \/ ArgByte(st, b) = [st EXCEPT !.over = TRUE]
      \/ ArgByte(st, b) = [[st EXCEPT !.quote = b] EXCEPT !.inCur = TRUE]
  BY DEF ArgByte
<1>2. PICK u \in LexStates : u = With(st, b)
  BY WithIs
<1>3. PICK w \in LexStates : w = [st EXCEPT !.quote = b]
  BY LexParts
<1>4. [u EXCEPT !.taken = TRUE] \in LexStates
  BY LexParts
<1>5. [st EXCEPT !.quote = 0] \in LexStates
  <2>1. 0 \in Int
    OBVIOUS
  <2> QED
    BY <2>1, LexParts
<1>6. [st EXCEPT !.over = TRUE] \in LexStates
  BY LexParts
<1>7. [w EXCEPT !.inCur = TRUE] \in LexStates
  BY LexParts
<1> QED
  BY Zenon, <1>1, <1>2, <1>3, <1>4, <1>5, <1>6, <1>7, EndedIs

\* The byte of SplitActions, of SplitVariables and of Fields.
ActionByte(st, b) ==
  CASE st.quote # 0 /\ st.taken -> With(st, b)
    [] st.quote # 0 /\ b = Backslash -> [With(st, b) EXCEPT !.taken = TRUE]
    [] st.quote # 0 -> [With(st, b) EXCEPT !.quote = IF b = @ THEN 0 ELSE @]
    [] b \in Quotes -> [With(st, b) EXCEPT !.quote = b]
    [] b = Comma -> Cut(st)
    [] OTHER -> With(st, b)

VariableByte(st, b) ==
  CASE b = Code["["] -> [With(st, b) EXCEPT !.depth = @ + 1]
    [] b = Code["]"] -> [With(st, b) EXCEPT !.depth = @ - 1]
    [] b = Bar /\ st.depth <= 0 -> Cut(st)
    [] OTHER -> With(st, b)

FieldByte(st, b) == IF b \in Blanks THEN Cut(st) ELSE With(st, b)

LEMMA ActionByteIs ==
  ASSUME NEW st \in LexStates, NEW b \in Int
  PROVE  ActionByte(st, b) \in LexStates
<1>1. \/ ActionByte(st, b) = With(st, b)
      \/ ActionByte(st, b) = [With(st, b) EXCEPT !.taken = TRUE]
      \/ ActionByte(st, b) = [With(st, b) EXCEPT !.quote = IF b = @ THEN 0 ELSE @]
      \/ ActionByte(st, b) = [With(st, b) EXCEPT !.quote = b]
      \/ ActionByte(st, b) = Cut(st)
  BY DEF ActionByte
<1>2. PICK u \in LexStates : u = With(st, b)
  BY WithIs
<1>3. PICK q : q = IF b = u.quote THEN 0 ELSE u.quote
  OBVIOUS
<1>4. q \in Int
  BY <1>3, LexParts
<1>5. [u EXCEPT !.quote = IF b = @ THEN 0 ELSE @] = [u EXCEPT !.quote = q]
  BY <1>3
<1>6. /\ [u EXCEPT !.taken = TRUE] \in LexStates
      /\ [u EXCEPT !.quote = q] \in LexStates
      /\ [u EXCEPT !.quote = b] \in LexStates
  BY <1>4, LexParts
<1> QED
  BY <1>1, <1>2, <1>5, <1>6, CutIs

LEMMA VariableByteIs ==
  ASSUME NEW st \in LexStates, NEW b \in Int
  PROVE  VariableByte(st, b) \in LexStates
<1>1. \/ VariableByte(st, b) = With(st, b)
      \/ VariableByte(st, b) = [With(st, b) EXCEPT !.depth = @ + 1]
      \/ VariableByte(st, b) = [With(st, b) EXCEPT !.depth = @ - 1]
      \/ VariableByte(st, b) = Cut(st)
  BY DEF VariableByte
<1>2. PICK u \in LexStates : u = With(st, b)
  BY WithIs
<1>3. PICK d \in Int : d = u.depth
  BY LexParts
<1>4. /\ [u EXCEPT !.depth = @ + 1] = [u EXCEPT !.depth = d + 1]
      /\ [u EXCEPT !.depth = @ - 1] = [u EXCEPT !.depth = d - 1]
  BY <1>3
<1>5. [u EXCEPT !.depth = d + 1] \in LexStates /\ [u EXCEPT !.depth = d - 1] \in LexStates
  <2>1. d + 1 \in Int /\ d - 1 \in Int
    OBVIOUS
  <2> QED
    BY <2>1, LexParts
<1> QED
  BY <1>1, <1>2, <1>4, <1>5, CutIs

LEMMA FieldByteIs ==
  ASSUME NEW st \in LexStates, NEW b \in Int
  PROVE  FieldByte(st, b) \in LexStates
  BY WithIs, CutIs DEF FieldByte

ArgsRead(s) == FoldLeft(ArgByte, Start, s)
ActionsRead(s) == FoldLeft(ActionByte, Start, s)
VariablesRead(s) == FoldLeft(VariableByte, Start, s)
FieldsRead(s) == FoldLeft(FieldByte, Start, s)

\* An argument byte by byte.
ArgsReadRun(f, s) ==
  /\ f \in [0..Len(s) -> LexStates]
  /\ f[0] = Start
  /\ \A k \in 1..Len(s) : f[k] = ArgByte(f[k - 1], s[k])
  /\ ArgsRead(s) = f[Len(s)]

LEMMA ArgsReadFold ==
  ASSUME NEW s \in Seq(Int)
  PROVE  \E f : ArgsReadRun(f, s)
<1> DEFINE T == LexStates
           El == Int
           op(st, b) == ArgByte(st, b)
           base == Start
           step == [p \in T \X El |-> op(p[1], p[2])]
           Is(h) == h = [S \in SUBSET DOMAIN s |->
                           IF S = {} THEN base ELSE op(h[S \ {Max(S)}], s[Max(S)])]
           iter == CHOOSE h : Is(h)
<1>1. base \in T
  BY StartIs
<1>a. \A t \in T, x \in El : op(t, x) \in T
  BY ArgByteIs
<1>2. ArgsRead(s) = iter[DOMAIN s]
  BY DEF ArgsRead, FoldLeft, MapThenFoldSet
<1>0. s \in Seq(El)
  OBVIOUS
<1> HIDE DEF op, base, T, El
<1>3. step \in [T \X El -> T]
  BY <1>a
<1>b. \A t \in T, x \in El : step[<<t, x>>] = op(t, x)
  OBVIOUS
<1> HIDE DEF step
<1>4. PICK g : Partial(g, T, s, base, step, Len(s))
  BY <1>0, <1>1, <1>3, FoldExists
<1>5. ASSUME NEW S \in SUBSET DOMAIN s, S # {} PROVE g[S] = op(g[S \ {Max(S)}], s[Max(S)])
  <2>1. Max(S) \in S /\ g[S] = step[<<g[S \ {Max(S)}], s[Max(S)]>>] /\ g \in [SUBSET DOMAIN s -> T]
    BY <1>0, <1>4, <1>5, DomainOfSeq DEF Partial
  <2>2. g[S \ {Max(S)}] \in T /\ s[Max(S)] \in El
    BY <1>0, <2>1
  <2> QED
    BY <1>b, <2>1, <2>2
<1>6. g[{}] = base /\ g = [S \in SUBSET DOMAIN s |-> g[S]]
  BY <1>0, <1>4, PartialBase
<1>7. Is(iter)
  <2>1. Is(g)
    BY <1>5, <1>6
  <2> QED
    BY <2>1
<1> HIDE DEF iter
<1>8. iter[{}] = base
  BY <1>7
<1>9. ASSUME NEW S \in SUBSET DOMAIN s, S # {}, iter[S \ {Max(S)}] \in T, s[Max(S)] \in El
      PROVE  iter[S] = step[<<iter[S \ {Max(S)}], s[Max(S)]>>]
  BY <1>7, <1>9, <1>b
<1> HIDE DEF Is
<1>10. Steps(iter, T, El, s, base, step)
  BY <1>8, <1>9 DEF Steps
<1>12. PICK f : Runs(f, T, s, base, step, iter[DOMAIN s])
  BY <1>0, <1>1, <1>3, <1>10, FoldRuns
<1>13. f \in [0..Len(s) -> T] /\ f[0] = base /\ f[Len(s)] = iter[DOMAIN s]
  BY <1>12 DEF Runs
<1>11. \A k \in 1..Len(s) : f[k] = op(f[k - 1], s[k])
  BY <1>0, <1>b, <1>12, <1>13, InsideFold DEF Runs
<1> QED
  BY <1>2, <1>11, <1>13 DEF op, base, T, ArgsReadRun

\* The same for actions,
ActionsReadRun(f, s) ==
  /\ f \in [0..Len(s) -> LexStates]
  /\ f[0] = Start
  /\ \A k \in 1..Len(s) : f[k] = ActionByte(f[k - 1], s[k])
  /\ ActionsRead(s) = f[Len(s)]

LEMMA ActionsReadFold ==
  ASSUME NEW s \in Seq(Int)
  PROVE  \E f : ActionsReadRun(f, s)
<1> DEFINE T == LexStates
           El == Int
           op(st, b) == ActionByte(st, b)
           base == Start
           step == [p \in T \X El |-> op(p[1], p[2])]
           Is(h) == h = [S \in SUBSET DOMAIN s |->
                           IF S = {} THEN base ELSE op(h[S \ {Max(S)}], s[Max(S)])]
           iter == CHOOSE h : Is(h)
<1>1. base \in T
  BY StartIs
<1>a. \A t \in T, x \in El : op(t, x) \in T
  BY ActionByteIs
<1>2. ActionsRead(s) = iter[DOMAIN s]
  BY DEF ActionsRead, FoldLeft, MapThenFoldSet
<1>0. s \in Seq(El)
  OBVIOUS
<1> HIDE DEF op, base, T, El
<1>3. step \in [T \X El -> T]
  BY <1>a
<1>b. \A t \in T, x \in El : step[<<t, x>>] = op(t, x)
  OBVIOUS
<1> HIDE DEF step
<1>4. PICK g : Partial(g, T, s, base, step, Len(s))
  BY <1>0, <1>1, <1>3, FoldExists
<1>5. ASSUME NEW S \in SUBSET DOMAIN s, S # {} PROVE g[S] = op(g[S \ {Max(S)}], s[Max(S)])
  <2>1. Max(S) \in S /\ g[S] = step[<<g[S \ {Max(S)}], s[Max(S)]>>] /\ g \in [SUBSET DOMAIN s -> T]
    BY <1>0, <1>4, <1>5, DomainOfSeq DEF Partial
  <2>2. g[S \ {Max(S)}] \in T /\ s[Max(S)] \in El
    BY <1>0, <2>1
  <2> QED
    BY <1>b, <2>1, <2>2
<1>6. g[{}] = base /\ g = [S \in SUBSET DOMAIN s |-> g[S]]
  BY <1>0, <1>4, PartialBase
<1>7. Is(iter)
  <2>1. Is(g)
    BY <1>5, <1>6
  <2> QED
    BY <2>1
<1> HIDE DEF iter
<1>8. iter[{}] = base
  BY <1>7
<1>9. ASSUME NEW S \in SUBSET DOMAIN s, S # {}, iter[S \ {Max(S)}] \in T, s[Max(S)] \in El
      PROVE  iter[S] = step[<<iter[S \ {Max(S)}], s[Max(S)]>>]
  BY <1>7, <1>9, <1>b
<1> HIDE DEF Is
<1>10. Steps(iter, T, El, s, base, step)
  BY <1>8, <1>9 DEF Steps
<1>12. PICK f : Runs(f, T, s, base, step, iter[DOMAIN s])
  BY <1>0, <1>1, <1>3, <1>10, FoldRuns
<1>13. f \in [0..Len(s) -> T] /\ f[0] = base /\ f[Len(s)] = iter[DOMAIN s]
  BY <1>12 DEF Runs
<1>11. \A k \in 1..Len(s) : f[k] = op(f[k - 1], s[k])
  BY <1>0, <1>b, <1>12, <1>13, InsideFold DEF Runs
<1> QED
  BY <1>2, <1>11, <1>13 DEF op, base, T, ActionsReadRun

\* for variables,
VariablesReadRun(f, s) ==
  /\ f \in [0..Len(s) -> LexStates]
  /\ f[0] = Start
  /\ \A k \in 1..Len(s) : f[k] = VariableByte(f[k - 1], s[k])
  /\ VariablesRead(s) = f[Len(s)]

LEMMA VariablesReadFold ==
  ASSUME NEW s \in Seq(Int)
  PROVE  \E f : VariablesReadRun(f, s)
<1> DEFINE T == LexStates
           El == Int
           op(st, b) == VariableByte(st, b)
           base == Start
           step == [p \in T \X El |-> op(p[1], p[2])]
           Is(h) == h = [S \in SUBSET DOMAIN s |->
                           IF S = {} THEN base ELSE op(h[S \ {Max(S)}], s[Max(S)])]
           iter == CHOOSE h : Is(h)
<1>1. base \in T
  BY StartIs
<1>a. \A t \in T, x \in El : op(t, x) \in T
  BY VariableByteIs
<1>2. VariablesRead(s) = iter[DOMAIN s]
  BY DEF VariablesRead, FoldLeft, MapThenFoldSet
<1>0. s \in Seq(El)
  OBVIOUS
<1> HIDE DEF op, base, T, El
<1>3. step \in [T \X El -> T]
  BY <1>a
<1>b. \A t \in T, x \in El : step[<<t, x>>] = op(t, x)
  OBVIOUS
<1> HIDE DEF step
<1>4. PICK g : Partial(g, T, s, base, step, Len(s))
  BY <1>0, <1>1, <1>3, FoldExists
<1>5. ASSUME NEW S \in SUBSET DOMAIN s, S # {} PROVE g[S] = op(g[S \ {Max(S)}], s[Max(S)])
  <2>1. Max(S) \in S /\ g[S] = step[<<g[S \ {Max(S)}], s[Max(S)]>>] /\ g \in [SUBSET DOMAIN s -> T]
    BY <1>0, <1>4, <1>5, DomainOfSeq DEF Partial
  <2>2. g[S \ {Max(S)}] \in T /\ s[Max(S)] \in El
    BY <1>0, <2>1
  <2> QED
    BY <1>b, <2>1, <2>2
<1>6. g[{}] = base /\ g = [S \in SUBSET DOMAIN s |-> g[S]]
  BY <1>0, <1>4, PartialBase
<1>7. Is(iter)
  <2>1. Is(g)
    BY <1>5, <1>6
  <2> QED
    BY <2>1
<1> HIDE DEF iter
<1>8. iter[{}] = base
  BY <1>7
<1>9. ASSUME NEW S \in SUBSET DOMAIN s, S # {}, iter[S \ {Max(S)}] \in T, s[Max(S)] \in El
      PROVE  iter[S] = step[<<iter[S \ {Max(S)}], s[Max(S)]>>]
  BY <1>7, <1>9, <1>b
<1> HIDE DEF Is
<1>10. Steps(iter, T, El, s, base, step)
  BY <1>8, <1>9 DEF Steps
<1>12. PICK f : Runs(f, T, s, base, step, iter[DOMAIN s])
  BY <1>0, <1>1, <1>3, <1>10, FoldRuns
<1>13. f \in [0..Len(s) -> T] /\ f[0] = base /\ f[Len(s)] = iter[DOMAIN s]
  BY <1>12 DEF Runs
<1>11. \A k \in 1..Len(s) : f[k] = op(f[k - 1], s[k])
  BY <1>0, <1>b, <1>12, <1>13, InsideFold DEF Runs
<1> QED
  BY <1>2, <1>11, <1>13 DEF op, base, T, VariablesReadRun

\* and for fields.
FieldsReadRun(f, s) ==
  /\ f \in [0..Len(s) -> LexStates]
  /\ f[0] = Start
  /\ \A k \in 1..Len(s) : f[k] = FieldByte(f[k - 1], s[k])
  /\ FieldsRead(s) = f[Len(s)]

LEMMA FieldsReadFold ==
  ASSUME NEW s \in Seq(Int)
  PROVE  \E f : FieldsReadRun(f, s)
<1> DEFINE T == LexStates
           El == Int
           op(st, b) == FieldByte(st, b)
           base == Start
           step == [p \in T \X El |-> op(p[1], p[2])]
           Is(h) == h = [S \in SUBSET DOMAIN s |->
                           IF S = {} THEN base ELSE op(h[S \ {Max(S)}], s[Max(S)])]
           iter == CHOOSE h : Is(h)
<1>1. base \in T
  BY StartIs
<1>a. \A t \in T, x \in El : op(t, x) \in T
  BY FieldByteIs
<1>2. FieldsRead(s) = iter[DOMAIN s]
  BY DEF FieldsRead, FoldLeft, MapThenFoldSet
<1>0. s \in Seq(El)
  OBVIOUS
<1> HIDE DEF op, base, T, El
<1>3. step \in [T \X El -> T]
  BY <1>a
<1>b. \A t \in T, x \in El : step[<<t, x>>] = op(t, x)
  OBVIOUS
<1> HIDE DEF step
<1>4. PICK g : Partial(g, T, s, base, step, Len(s))
  BY <1>0, <1>1, <1>3, FoldExists
<1>5. ASSUME NEW S \in SUBSET DOMAIN s, S # {} PROVE g[S] = op(g[S \ {Max(S)}], s[Max(S)])
  <2>1. Max(S) \in S /\ g[S] = step[<<g[S \ {Max(S)}], s[Max(S)]>>] /\ g \in [SUBSET DOMAIN s -> T]
    BY <1>0, <1>4, <1>5, DomainOfSeq DEF Partial
  <2>2. g[S \ {Max(S)}] \in T /\ s[Max(S)] \in El
    BY <1>0, <2>1
  <2> QED
    BY <1>b, <2>1, <2>2
<1>6. g[{}] = base /\ g = [S \in SUBSET DOMAIN s |-> g[S]]
  BY <1>0, <1>4, PartialBase
<1>7. Is(iter)
  <2>1. Is(g)
    BY <1>5, <1>6
  <2> QED
    BY <2>1
<1> HIDE DEF iter
<1>8. iter[{}] = base
  BY <1>7
<1>9. ASSUME NEW S \in SUBSET DOMAIN s, S # {}, iter[S \ {Max(S)}] \in T, s[Max(S)] \in El
      PROVE  iter[S] = step[<<iter[S \ {Max(S)}], s[Max(S)]>>]
  BY <1>7, <1>9, <1>b
<1> HIDE DEF Is
<1>10. Steps(iter, T, El, s, base, step)
  BY <1>8, <1>9 DEF Steps
<1>12. PICK f : Runs(f, T, s, base, step, iter[DOMAIN s])
  BY <1>0, <1>1, <1>3, <1>10, FoldRuns
<1>13. f \in [0..Len(s) -> T] /\ f[0] = base /\ f[Len(s)] = iter[DOMAIN s]
  BY <1>12 DEF Runs
<1>11. \A k \in 1..Len(s) : f[k] = op(f[k - 1], s[k])
  BY <1>0, <1>b, <1>12, <1>13, InsideFold DEF Runs
<1> QED
  BY <1>2, <1>11, <1>13 DEF op, base, T, FieldsReadRun

\* Whatever the machine, what it has read is one of its states.
LEMMA ReadIs ==
  ASSUME NEW s \in Seq(Int)
  PROVE  /\ ArgsRead(s) \in LexStates /\ ActionsRead(s) \in LexStates
         /\ VariablesRead(s) \in LexStates /\ FieldsRead(s) \in LexStates
<1>0. Len(s) \in 0..Len(s)
  OBVIOUS
<1>1. PICK f : ArgsReadRun(f, s)
  BY ArgsReadFold
<1>2. PICK g : ActionsReadRun(g, s)
  BY ActionsReadFold
<1>3. PICK h : VariablesReadRun(h, s)
  BY VariablesReadFold
<1>4. PICK e : FieldsReadRun(e, s)
  BY FieldsReadFold
<1>5. ArgsRead(s) \in LexStates
  BY <1>0, <1>1 DEF ArgsReadRun
<1>6. ActionsRead(s) \in LexStates
  BY <1>0, <1>2 DEF ActionsReadRun
<1>7. VariablesRead(s) \in LexStates
  BY <1>0, <1>3 DEF VariablesReadRun
<1>8. FieldsRead(s) \in LexStates
  BY <1>0, <1>4 DEF FieldsReadRun
<1> QED
  BY <1>5, <1>6, <1>7, <1>8

LEMMA LexArgsIs ==
  ASSUME NEW line \in Seq(Int)
  PROVE  LexArgs(line).args \in Seq(Seq(Int))
<1>1. PICK st \in LexStates : st = FoldLeft(ArgByte, Start, line)
  BY ReadIs DEF ArgsRead
<1>2. LexArgs(line).args = IF st.inCur THEN Append(st.out, st.cur) ELSE st.out
  BY <1>1 DEF LexArgs
<1> QED
  BY <1>2, LexParts

LEMMA PiecesAre ==
  ASSUME NEW s \in Seq(Int)
  PROVE  /\ SplitActions(s) \in Seq(Seq(Int))
         /\ SplitVariables(s) \in Seq(Seq(Int))
         /\ Fields(s) \in Seq(Seq(Int))
<1>1. SplitActions(s) = Cut(ActionsRead(s)).out
  BY DEF SplitActions, ActionsRead, ActionByte
<1>2. SplitVariables(s) = Cut(VariablesRead(s)).out
  BY DEF SplitVariables, VariablesRead, VariableByte
<1>3. Fields(s) = Cut(FieldsRead(s)).out
  BY DEF Fields, FieldsRead, FieldByte
<1> QED
  BY <1>1, <1>2, <1>3, ReadIs, CutIs

-----------------------------------------------------------------------------
(* Syntax trees: a node laid over trees makes a tree.                        *)
Ordered(re) ==
  \A k \in DOMAIN re :
    /\ \A j \in DOMAIN re[k].sub : re[k].sub[j] \in 1..(k - 1)
    /\ re[k].op \in {"star", "plus", "quest", "cap"} => Len(re[k].sub) = 1

Trees == {re \in Seq(Nodes) : Tree(re)}

LEMMA TreeIs == \A re : Tree(re) <=> (re \in Seq(Nodes) /\ re # <<>> /\ Ordered(re))
  BY DEF Tree, Ordered

\* A node, n places further on.
Further(node, n) == [node EXCEPT !.sub = [j \in DOMAIN @ |-> @[j] + n]]

LEMMA FurtherIs ==
  ASSUME NEW node \in Nodes, NEW n \in Nat
  PROVE  /\ Further(node, n) \in Nodes /\ Further(node, n).op = node.op
         /\ DOMAIN Further(node, n).sub = DOMAIN node.sub /\ Len(Further(node, n).sub) = Len(node.sub)
         /\ \A j \in DOMAIN node.sub : Further(node, n).sub[j] = node.sub[j] + n
<1>1. node.sub \in Seq(Nat)
  BY DEF Nodes
<1>2. PICK sub \in Seq(Nat) : sub = node.sub
  BY <1>1
<1> DEFINE moved == [j \in DOMAIN sub |-> sub[j] + n]
<1>3. /\ moved \in Seq(Nat) /\ DOMAIN moved = DOMAIN sub /\ Len(moved) = Len(sub)
      /\ \A j \in DOMAIN sub : moved[j] = sub[j] + n
  <2>1. DOMAIN sub = 1..Len(sub) /\ Len(sub) \in Nat /\ \A j \in 1..Len(sub) : sub[j] + n \in Nat
    OBVIOUS
  <2>2. moved \in [1..Len(sub) -> Nat]
    BY <2>1
  <2>3. moved \in Seq(Nat) /\ Len(moved) = Len(sub)
    BY <2>1, <2>2
  <2> QED
    BY <2>1, <2>3
<1>4. Further(node, n) = [node EXCEPT !.sub = moved]
  BY <1>2 DEF Further
<1> HIDE DEF moved
<1>5. PICK m \in Seq(Nat) : m = moved
  BY <1>3
<1>6. [node EXCEPT !.sub = m] \in Nodes /\ [node EXCEPT !.sub = m].op = node.op /\ [node EXCEPT !.sub = m].sub = m
  BY DEF Nodes
<1> QED
  BY <1>2, <1>3, <1>4, <1>5, <1>6

LEMMA MovedIs ==
  ASSUME NEW re \in Seq(Nodes), NEW n \in Nat
  PROVE  /\ Moved(re, n) \in Seq(Nodes) /\ Len(Moved(re, n)) = Len(re)
         /\ \A k \in 1..Len(re) : Moved(re, n)[k] = Further(re[k], n)
<1>1. DOMAIN re = 1..Len(re) /\ Len(re) \in Nat
  OBVIOUS
<1>2. \A k \in 1..Len(re) : Further(re[k], n) \in Nodes
  BY <1>1, FurtherIs
<1>3. Moved(re, n) = [k \in 1..Len(re) |-> Further(re[k], n)]
  BY <1>1 DEF Moved, Further
<1> QED
  BY <1>1, <1>2, <1>3

\* What has been laid: nodes in their order, and the roots among them.
Forest(st) ==
  /\ st.nodes \in Seq(Nodes) /\ Ordered(st.nodes)
  /\ st.roots \in Seq(Nat) /\ \A j \in DOMAIN st.roots : st.roots[j] \in 1..Len(st.nodes)
Forests == {st \in [nodes: Seq(Nodes), roots: Seq(Nat)] : Forest(st)}
NoTrees == [nodes |-> <<>>, roots |-> <<>>]

LEMMA NoTreesIs == NoTrees \in Forests
<1>1. NoTrees \in [nodes: Seq(Nodes), roots: Seq(Nat)] /\ NoTrees.nodes = <<>> /\ NoTrees.roots = <<>>
  BY DEF NoTrees
<1>2. DOMAIN NoTrees.nodes = {} /\ DOMAIN NoTrees.roots = {}
  BY <1>1
<1>3. Forest(NoTrees)
  BY <1>1, <1>2 DEF Forest, Ordered
<1> QED
  BY <1>1, <1>3 DEF Forests

LEMMA JoinIs ==
  ASSUME NEW E, NEW s \in Seq(E), NEW t \in Seq(E)
  PROVE  /\ s \o t \in Seq(E) /\ Len(s \o t) = Len(s) + Len(t) /\ Len(s) \in Nat /\ Len(t) \in Nat
         /\ \A k \in 1..Len(s) : (s \o t)[k] = s[k]
         /\ \A k \in 1..Len(t) : (s \o t)[Len(s) + k] = t[k]
         /\ \A k \in 1..(Len(s) + Len(t)) : k \notin 1..Len(s) => k - Len(s) \in 1..Len(t) /\ (s \o t)[k] = t[k - Len(s)]
  OBVIOUS

LEMMA AppendIs ==
  ASSUME NEW E, NEW s \in Seq(E), NEW x \in E
  PROVE  /\ Append(s, x) \in Seq(E) /\ Len(Append(s, x)) = Len(s) + 1 /\ Len(s) \in Nat
         /\ Append(s, x)[Len(s) + 1] = x /\ Append(s, x) # <<>>
         /\ \A k \in 1..Len(s) : Append(s, x)[k] = s[k]
         /\ \A k \in 1..(Len(s) + 1) : k \notin 1..Len(s) => k = Len(s) + 1
<1>1. /\ Append(s, x) \in Seq(E) /\ Len(Append(s, x)) = Len(s) + 1 /\ Len(s) \in Nat
      /\ Append(s, x)[Len(s) + 1] = x
  OBVIOUS
<1>2. \A k \in 1..Len(s) : Append(s, x)[k] = s[k]
  OBVIOUS
<1>3. \A k \in 1..(Len(s) + 1) : k \notin 1..Len(s) => k = Len(s) + 1
  BY <1>1
<1>4. Append(s, x) # <<>>
  BY <1>1
<1> QED
  BY <1>1, <1>2, <1>3, <1>4

LEMMA OrderedAt ==
  ASSUME NEW re \in Seq(Nodes), Ordered(re), NEW k \in 1..Len(re)
  PROVE  /\ re[k] \in Nodes /\ re[k].sub \in Seq(Nat)
         /\ \A j \in DOMAIN re[k].sub : re[k].sub[j] \in 1..(k - 1)
         /\ re[k].op \in {"star", "plus", "quest", "cap"} => Len(re[k].sub) = 1
<1>1. re[k] \in Nodes /\ k \in DOMAIN re
  OBVIOUS
<1>2. re[k].sub \in Seq(Nat)
  BY <1>1 DEF Nodes
<1> QED
  BY <1>1, <1>2 DEF Ordered

LEMMA LaidIs ==
  ASSUME NEW st \in Forests, NEW re \in Trees
  PROVE  Laid(st, re) \in Forests
<1>1. /\ st.nodes \in Seq(Nodes) /\ Ordered(st.nodes)
      /\ st.roots \in Seq(Nat) /\ \A j \in DOMAIN st.roots : st.roots[j] \in 1..Len(st.nodes)
  BY DEF Forests, Forest
<1>2. re \in Seq(Nodes) /\ re # <<>> /\ Ordered(re)
  BY TreeIs DEF Trees
<1>3. PICK ns, rs : ns = st.nodes \o Moved(re, Len(st.nodes)) /\ rs = Append(st.roots, Len(st.nodes) + Len(re))
  OBVIOUS
<1>4. PICK n \in Nat, m \in Nat : n = Len(st.nodes) /\ m = Len(re) /\ m # 0
  <2>1. Len(st.nodes) \in Nat /\ Len(re) \in Nat /\ Len(re) # 0
    BY <1>1, <1>2
  <2> QED
    BY <2>1
<1>5. /\ Moved(re, n) \in Seq(Nodes) /\ Len(Moved(re, n)) = m
      /\ \A k \in 1..m : Moved(re, n)[k] = Further(re[k], n)
  BY <1>2, <1>4, MovedIs
<1>6. /\ ns \in Seq(Nodes) /\ Len(ns) = n + m
      /\ \A k \in 1..n : ns[k] = st.nodes[k]
      /\ \A k \in 1..(n + m) : k \notin 1..n => k - n \in 1..m /\ ns[k] = Further(re[k - n], n)
  <2>1. PICK a \in Seq(Nodes), b \in Seq(Nodes) : a = st.nodes /\ b = Moved(re, n)
    BY <1>1, <1>5
  <2>2. ns = a \o b /\ Len(a) = n /\ Len(b) = m
    BY <1>3, <1>4, <1>5, <2>1
  <2>3. /\ a \o b \in Seq(Nodes) /\ Len(a \o b) = n + m
        /\ \A k \in 1..n : (a \o b)[k] = a[k]
        /\ \A k \in 1..(n + m) : k \notin 1..n => k - n \in 1..m /\ (a \o b)[k] = b[k - n]
    BY ZenonT(40), <2>2, JoinIs
  <2>4. \A k \in 1..(n + m) : k \notin 1..n => k - n \in 1..m /\ ns[k] = Further(re[k - n], n)
    BY SMTT(30), <1>5, <2>1, <2>2, <2>3
  <2> QED
    BY <2>1, <2>2, <2>3, <2>4
<1>7. ASSUME NEW k \in 1..(n + m)
      PROVE  /\ \A j \in DOMAIN ns[k].sub : ns[k].sub[j] \in 1..(k - 1)
             /\ ns[k].op \in {"star", "plus", "quest", "cap"} => Len(ns[k].sub) = 1
  <2>1. CASE k \in 1..n
    <3>1. ns[k] = st.nodes[k]
      BY <1>6, <2>1
    <3>2. k \in 1..Len(st.nodes)
      BY <1>4, <2>1
    <3>3. /\ \A j \in DOMAIN st.nodes[k].sub : st.nodes[k].sub[j] \in 1..(k - 1)
          /\ st.nodes[k].op \in {"star", "plus", "quest", "cap"} => Len(st.nodes[k].sub) = 1
      BY <1>1, <3>2, OrderedAt
    <3> QED
      BY <3>1, <3>3
  <2>2. CASE k \notin 1..n
    <3>1. PICK i \in 1..m : i = k - n
      BY <1>6, <2>2
    <3>2. ns[k] = Further(re[i], n)
      BY <1>6, <2>2, <3>1
    <3>3. /\ re[i] \in Nodes /\ re[i].sub \in Seq(Nat)
          /\ \A j \in DOMAIN re[i].sub : re[i].sub[j] \in 1..(i - 1)
          /\ re[i].op \in {"star", "plus", "quest", "cap"} => Len(re[i].sub) = 1
      BY <1>2, <1>4, <3>1, OrderedAt
    <3>4. /\ ns[k].op = re[i].op /\ DOMAIN ns[k].sub = DOMAIN re[i].sub /\ Len(ns[k].sub) = Len(re[i].sub)
          /\ \A j \in DOMAIN re[i].sub : ns[k].sub[j] = re[i].sub[j] + n
      BY SMTT(30), <3>2, <3>3, FurtherIs
    <3>5. \A x \in 1..(i - 1) : x + n \in 1..(k - 1)
      BY <3>1
    <3> QED
      BY <3>3, <3>4, <3>5
  <2> QED
    BY <2>1, <2>2
<1>8. Ordered(ns)
  BY <1>6, <1>7 DEF Ordered
<1>9. rs \in Seq(Nat) /\ \A j \in DOMAIN rs : rs[j] \in 1..(n + m)
  <2>1. n + m \in Nat /\ n + m \in 1..(n + m)
    BY <1>4
  <2>2. rs = Append(st.roots, n + m)
    BY <1>3, <1>4
  <2>3. /\ rs \in Seq(Nat) /\ Len(rs) = Len(st.roots) + 1 /\ rs[Len(st.roots) + 1] = n + m
        /\ \A j \in 1..Len(st.roots) : rs[j] = st.roots[j]
        /\ \A j \in 1..(Len(st.roots) + 1) : j \notin 1..Len(st.roots) => j = Len(st.roots) + 1
    BY <1>1, <2>1, <2>2, AppendIs
  <2>4. \A j \in 1..Len(st.roots) : st.roots[j] \in 1..n
    BY <1>1, <1>4
  <2>5. \A x \in 1..n : x \in 1..(n + m)
    BY <1>4
  <2>6. ASSUME NEW j \in 1..(Len(st.roots) + 1) PROVE rs[j] \in 1..(n + m)
    <3>1. CASE j \in 1..Len(st.roots)
      <4>1. rs[j] = st.roots[j] /\ st.roots[j] \in 1..n
        BY <2>3, <2>4, <3>1
      <4> QED
        BY <2>5, <4>1
    <3>2. CASE j \notin 1..Len(st.roots)
      BY <2>1, <2>3, <3>2
    <3> QED
      BY <3>1, <3>2
  <2>7. DOMAIN rs = 1..(Len(st.roots) + 1)
    BY <2>3
  <2> QED
    BY <2>3, <2>6, <2>7
<1>10. Laid(st, re) = [nodes |-> ns, roots |-> rs]
  BY <1>3 DEF Laid
<1>11. PICK a \in Seq(Nodes), b \in Seq(Nat) : a = ns /\ b = rs
  BY <1>6, <1>9
<1>12. /\ Laid(st, re) \in [nodes: Seq(Nodes), roots: Seq(Nat)]
       /\ Laid(st, re).nodes = a /\ Laid(st, re).roots = b
  BY <1>10, <1>11
<1>13. Forest(Laid(st, re))
  BY <1>6, <1>8, <1>9, <1>11, <1>12 DEF Forest
<1> QED
  BY <1>12, <1>13 DEF Forests

Forested(res) == FoldLeft(Laid, NoTrees, res)

\* Tree by tree.
ForestedRun(f, res) ==
  /\ f \in [0..Len(res) -> Forests]
  /\ f[0] = NoTrees
  /\ \A k \in 1..Len(res) : f[k] = Laid(f[k - 1], res[k])
  /\ Forested(res) = f[Len(res)]

LEMMA ForestedFold ==
  ASSUME NEW res \in Seq(Trees)
  PROVE  \E f : ForestedRun(f, res)
<1> DEFINE T == Forests
           El == Trees
           op(st, re) == Laid(st, re)
           base == NoTrees
           step == [p \in T \X El |-> op(p[1], p[2])]
           Is(h) == h = [S \in SUBSET DOMAIN res |->
                           IF S = {} THEN base ELSE op(h[S \ {Max(S)}], res[Max(S)])]
           iter == CHOOSE h : Is(h)
<1>1. base \in T
  BY NoTreesIs
<1>a. \A t \in T, x \in El : op(t, x) \in T
  BY LaidIs
<1>2. Forested(res) = iter[DOMAIN res]
  BY DEF Forested, FoldLeft, MapThenFoldSet
<1>0. res \in Seq(El)
  OBVIOUS
<1> HIDE DEF op, base, T, El
<1>3. step \in [T \X El -> T]
  BY <1>a
<1>b. \A t \in T, x \in El : step[<<t, x>>] = op(t, x)
  OBVIOUS
<1> HIDE DEF step
<1>4. PICK g : Partial(g, T, res, base, step, Len(res))
  BY <1>0, <1>1, <1>3, FoldExists
<1>5. ASSUME NEW S \in SUBSET DOMAIN res, S # {} PROVE g[S] = op(g[S \ {Max(S)}], res[Max(S)])
  <2>1. Max(S) \in S /\ g[S] = step[<<g[S \ {Max(S)}], res[Max(S)]>>] /\ g \in [SUBSET DOMAIN res -> T]
    BY <1>0, <1>4, <1>5, DomainOfSeq DEF Partial
  <2>2. g[S \ {Max(S)}] \in T /\ res[Max(S)] \in El
    BY <1>0, <2>1
  <2> QED
    BY <1>b, <2>1, <2>2
<1>6. g[{}] = base /\ g = [S \in SUBSET DOMAIN res |-> g[S]]
  BY <1>0, <1>4, PartialBase
<1>7. Is(iter)
  <2>1. Is(g)
    BY <1>5, <1>6
  <2> QED
    BY <2>1
<1> HIDE DEF iter
<1>8. iter[{}] = base
  BY <1>7
<1>9. ASSUME NEW S \in SUBSET DOMAIN res, S # {}, iter[S \ {Max(S)}] \in T, res[Max(S)] \in El
      PROVE  iter[S] = step[<<iter[S \ {Max(S)}], res[Max(S)]>>]
  BY <1>7, <1>9, <1>b
<1> HIDE DEF Is
<1>10. Steps(iter, T, El, res, base, step)
  BY <1>8, <1>9 DEF Steps
<1>12. PICK f : Runs(f, T, res, base, step, iter[DOMAIN res])
  BY <1>0, <1>1, <1>3, <1>10, FoldRuns
<1>13. f \in [0..Len(res) -> T] /\ f[0] = base /\ f[Len(res)] = iter[DOMAIN res]
  BY <1>12 DEF Runs
<1>11. \A k \in 1..Len(res) : f[k] = op(f[k - 1], res[k])
  BY <1>0, <1>b, <1>12, <1>13, InsideFold DEF Runs
<1> QED
  BY <1>2, <1>11, <1>13 DEF op, base, T, ForestedRun

LEMMA CatIs ==
  ASSUME NEW res \in Seq(Trees)
  PROVE  Tree(Cat(res)) /\ Cat(res) \in Seq(Nodes)
<1>1. PICK f : ForestedRun(f, res)
  BY ForestedFold
<1>2. Len(res) \in 0..Len(res)
  OBVIOUS
<1>3. Forested(res) \in Forests
  BY <1>1, <1>2 DEF ForestedRun
<1>4. PICK ns, rs : ns = Forested(res).nodes /\ rs = Forested(res).roots
  OBVIOUS
<1>5. ns \in Seq(Nodes) /\ Ordered(ns) /\ rs \in Seq(Nat) /\ \A j \in DOMAIN rs : rs[j] \in 1..Len(ns)
  BY <1>3, <1>4 DEF Forests, Forest
<1>6. PICK top : top = [Node("cat") EXCEPT !.sub = rs]
  OBVIOUS
<1>7. top \in Nodes /\ top.op = "cat" /\ top.sub = rs
  <2>1. top = [op |-> "cat", s |-> <<>>, fold |-> FALSE, ranges |-> <<>>, sub |-> rs]
    BY <1>6 DEF Node
  <2>2. <<>> \in Seq(Int) /\ <<>> \in Seq(Int \X Int) /\ "cat" \in NodeNames /\ rs \in Seq(Nat)
    BY <1>5 DEF NodeNames
  <2> QED
    BY <2>1, <2>2 DEF Nodes
<1>8. Cat(res) = Append(ns, top)
  BY <1>4, <1>6 DEF Cat, Over, Forested, NoTrees
<1>9. PICK n \in Nat : n = Len(ns)
  BY <1>5
<1>10. /\ Cat(res) \in Seq(Nodes) /\ Len(Cat(res)) = n + 1 /\ Cat(res) # <<>>
       /\ Cat(res)[n + 1] = top
       /\ \A k \in 1..n : Cat(res)[k] = ns[k]
       /\ \A k \in 1..(n + 1) : k \notin 1..n => k = n + 1
  BY <1>5, <1>7, <1>8, <1>9, AppendIs
<1>11. ASSUME NEW k \in 1..(n + 1)
       PROVE  /\ \A j \in DOMAIN Cat(res)[k].sub : Cat(res)[k].sub[j] \in 1..(k - 1)
              /\ Cat(res)[k].op \in {"star", "plus", "quest", "cap"} => Len(Cat(res)[k].sub) = 1
  <2>1. CASE k \in 1..n
    <3>1. Cat(res)[k] = ns[k] /\ k \in 1..Len(ns)
      BY <1>9, <1>10, <2>1
    <3>2. /\ \A j \in DOMAIN ns[k].sub : ns[k].sub[j] \in 1..(k - 1)
          /\ ns[k].op \in {"star", "plus", "quest", "cap"} => Len(ns[k].sub) = 1
      BY <1>5, <3>1, OrderedAt
    <3> QED
      BY <3>1, <3>2
  <2>2. CASE k \notin 1..n
    <3>1. k = n + 1 /\ Cat(res)[k] = top
      BY <1>10, <2>2
    <3>2. k - 1 = n
      BY <3>1
    <3> QED
      BY <1>5, <1>7, <1>9, <3>1, <3>2
  <2> QED
    BY <2>1, <2>2
<1>12. Ordered(Cat(res))
  BY <1>10, <1>11 DEF Ordered
<1> QED
  BY <1>10, <1>12, TreeIs

\* A tree of one node.
LEMMA LeafIs ==
  ASSUME NEW node \in Nodes, node.sub = <<>>, node.op \notin {"star", "plus", "quest", "cap"}
  PROVE  <<node>> \in Trees
<1>1. <<node>> \in Seq(Nodes) /\ <<node>> # <<>> /\ DOMAIN <<node>> = {1} /\ <<node>>[1] = node
  OBVIOUS
<1>2. DOMAIN node.sub = {}
  OBVIOUS
<1>3. Ordered(<<node>>)
  BY <1>1, <1>2 DEF Ordered
<1> QED
  BY <1>1, <1>3, TreeIs DEF Trees

LEMMA LeavesAre ==
  /\ \A s \in Seq(Int) : Lit(s) \in Trees
  /\ End \in Trees /\ Boundary \in Trees
<1>1. ASSUME NEW s \in Seq(Int) PROVE Lit(s) \in Trees
  <2>1. PICK node : node = [Node("lit") EXCEPT !.s = s]
    OBVIOUS
  <2>3. node = [op |-> "lit", s |-> s, fold |-> FALSE, ranges |-> <<>>, sub |-> <<>>]
    BY <2>1 DEF Node
  <2>4. <<>> \in Seq(Nat) /\ <<>> \in Seq(Int \X Int) /\ "lit" \in NodeNames
    BY DEF NodeNames
  <2>2. node \in Nodes /\ node.sub = <<>> /\ node.op = "lit"
    BY <2>3, <2>4 DEF Nodes
  <2> QED
    BY <2>1, <2>2, LeafIs DEF Lit
<1>2. Node("end") \in Nodes /\ Node("end").sub = <<>> /\ Node("end").op = "end"
  BY DEF Node, Nodes, NodeNames
<1>3. Node("word") \in Nodes /\ Node("word").sub = <<>> /\ Node("word").op = "word"
  BY DEF Node, Nodes, NodeNames
<1> QED
  BY <1>1, <1>2, <1>3, LeafIs DEF End, Boundary

-----------------------------------------------------------------------------
(* The importer: what it makes of the arguments of a directive.              *)
ActionNames == {Word(TrimSpace(Before(s, Colon))) : s \in Seq(Int)}
ActionSet == [name: ActionNames, value: Seq(Int)]

LEMMA UnquotedIs == \A v \in Seq(Int) : Unquoted(v) \in Seq(Int)
<1> SUFFICES ASSUME NEW v \in Seq(Int) PROVE Unquoted(v) \in Seq(Int)
  OBVIOUS
<1>1. CASE Len(v) >= 2
  <2>1. 2 \in 1..(Len(v) + 1) /\ Len(v) - 1 \in 0..Len(v)
    BY <1>1
  <2>2. SubSeq(v, 2, Len(v) - 1) \in Seq(Int)
    BY <2>1, PartOf
  <2> QED
    BY <2>2 DEF Unquoted
<1>2. CASE ~(Len(v) >= 2)
  BY <1>2 DEF Unquoted
<1> QED
  BY <1>1, <1>2

LEMMA ParseActionIs == \A s \in Seq(Int) : ParseAction(s) \in ActionSet
<1> SUFFICES ASSUME NEW s \in Seq(Int) PROVE ParseAction(s) \in ActionSet
  OBVIOUS
<1>1. Unquoted(TrimSpace(Behind(s, Colon))) \in Seq(Int)
  BY BehindIs, TrimSpaceIs, UnquotedIs
<1>2. Word(TrimSpace(Before(s, Colon))) \in ActionNames
  BY DEF ActionNames
<1> QED
  BY <1>1, <1>2 DEF ParseAction, ActionSet

LEMMA MapIs ==
  ASSUME NEW E, NEW T, NEW s \in Seq(E), NEW f, f = [k \in DOMAIN s |-> f[k]], \A k \in 1..Len(s) : f[k] \in T
  PROVE  f \in Seq(T) /\ Len(f) = Len(s)
<1>1. DOMAIN s = 1..Len(s) /\ Len(s) \in Nat
  OBVIOUS
<1>2. f \in [1..Len(s) -> T]
  BY <1>1
<1> QED
  BY <1>1, <1>2

LEMMA ActionsAre == \A s \in Seq(Int) : ActionsOf(s) \in Seq(ActionSet)
<1> SUFFICES ASSUME NEW s \in Seq(Int) PROVE ActionsOf(s) \in Seq(ActionSet)
  OBVIOUS
<1>1. PICK parts \in Seq(Seq(Int)) : parts = SplitActions(s)
  BY PiecesAre
<1>2. ActionsOf(s) = [k \in DOMAIN parts |-> ParseAction(parts[k])]
  BY <1>1 DEF ActionsOf
<1>3. \A k \in 1..Len(parts) : ActionsOf(s)[k] \in ActionSet
  BY <1>2, ParseActionIs
<1>4. ActionsOf(s) = [k \in DOMAIN parts |-> ActionsOf(s)[k]]
  BY <1>2
<1> QED
  BY <1>3, <1>4, MapIs

LEMMA NumberIs == \A s \in Seq(Int) : Number(s) \in Int
<1> SUFFICES ASSUME NEW s \in Seq(Int) PROVE Number(s) \in Int
  OBVIOUS
<1>1. CASE s # <<>> /\ \A i \in DOMAIN s : s[i] \in Decimal
  <2>1. \A i \in 1..Len(s) : s[i] \in HexDigits
    BY <1>1 DEF HexDigits
  <2>2. s = [i \in 1..Len(s) |-> s[i]] /\ Len(s) \in Nat
    OBVIOUS
  <2>3. s \in Seq(HexDigits)
    BY SMTT(30), <2>1, <2>2
  <2>4. Spelled(s, 10) \in Nat
    BY <2>3, SpelledIs
  <2>5. Number(s) = Spelled(s, 10)
    BY <1>1 DEF Number
  <2> QED
    BY <2>4, <2>5
<1>2. CASE ~(s # <<>> /\ \A i \in DOMAIN s : s[i] \in Decimal)
  BY <1>2 DEF Number
<1> QED
  BY <1>1, <1>2

Directed(d) == d.args \in Seq(Seq(Int))

LEMMA ArgAtIs == \A d, k : Directed(d) => ArgAt(d, k) \in Seq(Int)
  BY DEF Directed, ArgAt

LEMMA ActsAre == \A d : Directed(d) => ActsOf(d) \in Seq(ActionSet)
  BY ArgAtIs, ActionsAre DEF ActsOf

\* The last of some places of a sequence, and the first.
LEMMA LastPlace ==
  ASSUME NEW E, NEW s \in Seq(E), NEW own \in SUBSET DOMAIN s, own # {}
  PROVE  Max(own) \in own /\ s[Max(own)] \in E
<1>1. own \in SUBSET (0..Len(s)) /\ Len(s) \in Nat
  OBVIOUS
<1>2. Max(own) \in own
  BY <1>1, GreatestIn
<1> QED
  BY <1>2

LEMMA FirstPlace ==
  ASSUME NEW E, NEW s \in Seq(E), NEW own \in SUBSET DOMAIN s, own # {}
  PROVE  Min(own) \in own /\ s[Min(own)] \in E
<1>1. own \in SUBSET Nat
  OBVIOUS
<1>2. Min(own) \in own
  BY <1>1, LeastIn
<1> QED
  BY <1>2

LEMMA ActionValueIs ==
  ASSUME NEW acts \in Seq(ActionSet), NEW name, NEW otherwise \in Seq(Int)
  PROVE  ActionValue(acts, name, otherwise) \in Seq(Int)
<1> DEFINE own == {k \in DOMAIN acts : acts[k].name = name}
<1>1. ActionValue(acts, name, otherwise) = IF own = {} THEN otherwise ELSE acts[Max(own)].value
  BY DEF ActionValue
<1>2. own \in SUBSET DOMAIN acts
  OBVIOUS
<1> HIDE DEF own
<1>3. CASE own # {}
  <2>1. acts[Max(own)] \in ActionSet
    BY <1>2, <1>3, LastPlace
  <2> QED
    BY <1>1, <1>3, <2>1 DEF ActionSet
<1>4. CASE own = {}
  BY <1>1, <1>4
<1> QED
  BY <1>3, <1>4

LEMMA RuleIDIs ==
  ASSUME NEW d, Directed(d)
  PROVE  RuleIDOf(d) \in Int
<1> DEFINE said == [k \in DOMAIN d.args |-> ActionsOf(d.args[k])]
           acts == FlattenSeq(said)
           ids == {k \in DOMAIN acts : acts[k].name = "id" /\ Number(acts[k].value) >= 0}
<1>1. RuleIDOf(d) = IF ids = {} THEN 0 ELSE Number(acts[Min(ids)].value)
  BY DEF RuleIDOf
<1>2. said \in Seq(Seq(ActionSet))
  <2>1. d.args \in Seq(Seq(Int))
    BY DEF Directed
  <2>2. PICK args \in Seq(Seq(Int)) : args = d.args
    BY <2>1
  <2>3. \A k \in 1..Len(args) : ActionsOf(args[k]) \in Seq(ActionSet)
    BY ActionsAre
  <2>4. said = [k \in DOMAIN args |-> said[k]] /\ \A k \in 1..Len(args) : said[k] \in Seq(ActionSet)
    BY <2>2, <2>3
  <2> HIDE DEF said
  <2> QED
    BY <2>4, MapIs
<1> HIDE DEF said
<1>3. acts \in Seq(ActionSet)
  BY <1>2, FlattenIs
<1> HIDE DEF acts
<1>4. ids \in SUBSET DOMAIN acts
  OBVIOUS
<1> HIDE DEF ids
<1>5. CASE ids # {}
  <2>1. acts[Min(ids)] \in ActionSet
    BY <1>3, <1>4, <1>5, FirstPlace
  <2>2. acts[Min(ids)].value \in Seq(Int)
    BY <2>1 DEF ActionSet
  <2> QED
    BY <1>1, <1>5, <2>2, NumberIs
<1>6. CASE ids = {}
  BY <1>1, <1>6
<1> QED
  BY <1>5, <1>6

-----------------------------------------------------------------------------
TargetKinds == {TargetKindOf[name] : name \in DOMAIN TargetKindOf} \cup {"REQUEST_BODY"}
Targeted == [kind: TargetKinds, name: Seq(Int)]

LEMMA TargetIs ==
  ASSUME NEW variable \in Seq(Int), TargetOf(variable).ok
  PROVE  TargetOf(variable).target \in Targeted
<1>1. PICK name, qualifier, qualified : /\ name = Written(Raised(TrimSpace(Before(variable, Colon))))
                                       /\ qualifier = TrimSpace(Behind(variable, Colon))
                                       /\ qualified = Behind(variable, Colon)
  OBVIOUS
<1>2. qualifier \in Seq(Int)
  BY <1>1, BehindIs, TrimSpaceIs
<1>3. TargetOf(variable) =
        IF name = "XML"
        THEN [ok |-> Written(qualifier) \in WholeXML, target |-> [kind |-> "REQUEST_BODY", name |-> <<>>]]
        ELSE IF name \in DOMAIN TargetKindOf /\ ~HasPrefixByte(qualified, Slash)
        THEN [ok |-> TRUE, target |-> [kind |-> TargetKindOf[name], name |-> qualifier]]
        ELSE [ok |-> FALSE, target |-> [kind |-> "", name |-> <<>>]]
  BY <1>1 DEF TargetOf
<1>4. CASE name = "XML"
  <2>1. TargetOf(variable).target = [kind |-> "REQUEST_BODY", name |-> <<>>]
    BY <1>3, <1>4
  <2>2. "REQUEST_BODY" \in TargetKinds /\ <<>> \in Seq(Int)
    BY DEF TargetKinds
  <2> QED
    BY <2>1, <2>2 DEF Targeted
<1>5. CASE name # "XML" /\ name \in DOMAIN TargetKindOf /\ ~HasPrefixByte(qualified, Slash)
  <2>1. TargetOf(variable).target = [kind |-> TargetKindOf[name], name |-> qualifier]
    BY <1>3, <1>5
  <2>2. TargetKindOf[name] \in TargetKinds
    BY <1>5 DEF TargetKinds
  <2> QED
    BY <1>2, <2>1, <2>2 DEF Targeted
<1>6. CASE name # "XML" /\ ~(name \in DOMAIN TargetKindOf /\ ~HasPrefixByte(qualified, Slash))
  <2>1. TargetOf(variable) = [ok |-> FALSE, target |-> [kind |-> "", name |-> <<>>]]
    BY Zenon, <1>3, <1>6
  <2>2. ~[ok |-> FALSE, target |-> [kind |-> "", name |-> <<>>]].ok
    OBVIOUS
  <2> QED
    BY Zenon, <2>1, <2>2
<1> QED
  BY <1>4, <1>5, <1>6

LEMMA TargetsAre ==
  ASSUME NEW variables \in Seq(Seq(Int)), TargetsOf(variables).ok
  PROVE  TargetsOf(variables).targets \in Seq(Targeted)
<1>1. PICK banged : banged = {v \in Range(variables) : HasPrefixByte(v, Bang)}
  OBVIOUS
<1>2. PICK read \in Seq(Seq(Int)) : read = Those(variables, Range(variables) \ banged)
  BY RangeOfThose
<1>3. PICK targets : targets = [k \in DOMAIN read |-> TargetOf(read[k])]
  OBVIOUS
<1>4. PICK out : out = [k \in DOMAIN Those(variables, banged) |-> ExclusionOf(Rest(Those(variables, banged)[k], 1))]
  OBVIOUS
<1>5. TargetsOf(variables) =
        [ok |-> /\ \A k \in DOMAIN targets : targets[k].ok /\ ~HasPrefixByte(read[k], Code["&"])
                /\ \A k \in DOMAIN out : out[k].ok,
         targets |-> [k \in DOMAIN targets |-> targets[k].target],
         exclusions |-> {[kind |-> out[k].kind, key |-> out[k].key] : k \in DOMAIN out}]
  BY <1>1, <1>2, <1>3, <1>4 DEF TargetsOf
<1>6. \A k \in DOMAIN targets : targets[k].ok
  BY <1>5
<1>7. DOMAIN targets = DOMAIN read /\ \A k \in DOMAIN read : targets[k] = TargetOf(read[k])
  BY <1>3
<1>8. DOMAIN read = 1..Len(read) /\ \A k \in 1..Len(read) : read[k] \in Seq(Int)
  OBVIOUS
<1>9. \A k \in 1..Len(read) : targets[k].target \in Targeted
  BY <1>6, <1>7, <1>8, TargetIs
<1>10. PICK ts : ts = [k \in DOMAIN targets |-> targets[k].target]
  OBVIOUS
<1>11. TargetsOf(variables).targets = ts
  BY <1>5, <1>10
<1>12. ts = [k \in DOMAIN read |-> ts[k]] /\ \A k \in 1..Len(read) : ts[k] \in Targeted
  BY <1>7, <1>8, <1>9, <1>10
<1>13. ts \in Seq(Targeted)
  BY <1>12, MapIs
<1> QED
  BY <1>11, <1>13

-----------------------------------------------------------------------------
ChainNames == {SecTransforms[token] : token \in DOMAIN SecTransforms} \cup {"", "url_decode"}

LEMMA ChainIs ==
  ASSUME NEW acts \in Seq(ActionSet)
  PROVE  TransformsOf(acts).chain \in Seq(ChainNames)
<1>1. PICK named \in Seq(ActionSet) : named = Those(acts, {a \in Range(acts) : a.name = "t"})
  BY RangeOfThose
<1>2. PICK tokens : tokens = [k \in DOMAIN named |-> Word(named[k].value)]
  OBVIOUS
<1>3. Tokens(acts) = tokens
  BY <1>1, <1>2 DEF Tokens
<1>4. PICK E : E = {tokens[k] : k \in 1..Len(named)}
  OBVIOUS
<1>5. tokens \in Seq(E)
  <2>1. tokens = [k \in DOMAIN named |-> tokens[k]]
    BY <1>2
  <2>2. \A k \in 1..Len(named) : tokens[k] \in E
    BY <1>4
  <2> QED
    BY <2>1, <2>2, MapIs
<1>6. PICK nones : nones = {0} \cup {k \in DOMAIN tokens : tokens[k] = "none"}
  OBVIOUS
<1>7. Max(nones) + 1 \in 1..(Len(tokens) + 1) /\ Len(tokens) \in 0..Len(tokens)
  <2>1. Len(tokens) \in Nat /\ DOMAIN tokens = 1..Len(tokens)
    BY <1>5
  <2>2. nones \in SUBSET (0..Len(tokens)) /\ nones # {}
    BY <1>6, <2>1
  <2>3. Max(nones) \in nones
    BY <2>1, <2>2, GreatestIn
  <2>6. PICK n : n = Len(tokens)
    OBVIOUS
  <2>7. PICK m : m = Max(nones)
    OBVIOUS
  <2>4. n \in Nat /\ m \in 0..n
    BY <2>1, <2>2, <2>3, <2>6, <2>7
  <2>5. m + 1 \in 1..(n + 1) /\ n \in 0..n
    BY <2>4
  <2> QED
    BY <2>5, <2>6, <2>7
<1>8. PICK behind \in Seq(E) : behind = SubSeq(tokens, Max(nones) + 1, Len(tokens))
  BY <1>5, <1>7, PartOf
<1>9. PICK kept \in Seq(E) : kept = Those(behind, Range(tokens) \ DroppedTransforms)
  BY RangeOfThose
<1>10. PICK chain : chain = [k \in DOMAIN kept |-> IF kept[k] \in DOMAIN SecTransforms THEN SecTransforms[kept[k]] ELSE ""]
  BY Zenon
<1>11. TransformsOf(acts).chain = chain
  BY Zenon, <1>3, <1>6, <1>8, <1>9, <1>10 DEF TransformsOf
<1>12. chain = [k \in DOMAIN kept |-> chain[k]] /\ \A k \in 1..Len(kept) : chain[k] \in ChainNames
  <2>1. chain = [k \in DOMAIN kept |-> chain[k]]
    BY Zenon, <1>10
  <2>2. ASSUME NEW k \in 1..Len(kept) PROVE chain[k] \in ChainNames
    <3>1. k \in DOMAIN kept
      OBVIOUS
    <3>2. chain[k] = IF kept[k] \in DOMAIN SecTransforms THEN SecTransforms[kept[k]] ELSE ""
      BY Zenon, <1>10, <3>1
    <3> QED
      BY Zenon, <3>2 DEF ChainNames
  <2> QED
    BY <2>1, <2>2
<1>13. chain \in Seq(ChainNames)
  BY <1>12, MapIs
<1> QED
  BY <1>11, <1>13

LEMMA DecodingIs ==
  ASSUME NEW targets, NEW chain \in Seq(ChainNames)
  PROVE  WithArgDecoding(targets, chain) \in Seq(ChainNames)
<1>1. "url_decode" \in ChainNames
  BY Zenon DEF ChainNames
<1>2. <<"url_decode">> \o chain \in Seq(ChainNames)
  BY <1>1
<1> QED
  BY <1>2 DEF WithArgDecoding

LEMMA TagsAre ==
  ASSUME NEW acts \in Seq(ActionSet)
  PROVE  TagsOf(acts) \in Seq(Seq(Int))
<1>1. PICK own \in Seq(ActionSet) : own = Those(acts, {a \in Range(acts) : a.name = "tag" /\ a.value # <<>>})
  BY RangeOfThose
<1>2. PICK values : values = [k \in DOMAIN own |-> own[k].value]
  OBVIOUS
<1>3. TagsOf(acts) = values
  BY <1>1, <1>2 DEF TagsOf
<1>4. values = [k \in DOMAIN own |-> values[k]]
  BY <1>2
<1>5. ASSUME NEW k \in 1..Len(own) PROVE values[k] \in Seq(Int)
  <2>1. own[k] \in ActionSet /\ k \in DOMAIN own
    OBVIOUS
  <2>2. own[k].value \in Seq(Int)
    BY <2>1 DEF ActionSet
  <2> QED
    BY <1>2, <2>1, <2>2
<1>6. values \in Seq(Seq(Int))
  BY <1>4, <1>5, MapIs
<1> QED
  BY <1>3, <1>6

LEMMA PhaseIs == \A acts : PhaseOf(acts) \in 1..4
<1> SUFFICES ASSUME NEW acts PROVE PhaseOf(acts) \in 1..4
  OBVIOUS
<1>1. PhaseOf(acts) \in {1, 2, 3, 4}
  BY DEF PhaseOf
<1> QED
  BY <1>1

LEMMA SeverityIs == \A acts : SeverityOf(acts) \in 0..3
<1> SUFFICES ASSUME NEW acts PROVE SeverityOf(acts) \in 0..3
  OBVIOUS
<1>1. SeverityOf(acts) \in {0, 1, 2, 3}
  BY DEF SeverityOf
<1> QED
  BY <1>1

ImportedActions == {"block", "allow", "score"}
LEMMA ActionIs == \A acts : ActionOf(acts) \in ImportedActions
  BY DEF ActionOf, ImportedActions

LEMMA TierIs == \A level : TierOfLevel(level) \in 0..4
<1> SUFFICES ASSUME NEW level PROVE TierOfLevel(level) \in 0..4
  OBVIOUS
<1>1. TierOfLevel(level) \in {0, 1, 2, 3}
  BY DEF TierOfLevel
<1> QED
  BY <1>1
-----------------------------------------------------------------------------
(* The operators that an importer makes, and the calls that make them again. *)
LEMMA OperationIs ==
  ASSUME NEW name \in OperatorNames, NEW words \in Seq(Seq(Int)), NEW re \in Seq(Nodes), NEW negated \in BOOLEAN
  PROVE  /\ Operator(name, words, re, negated) \in Operations
         /\ Operator(name, words, re, negated).name = name
         /\ Operator(name, words, re, negated).words = words
         /\ Operator(name, words, re, negated).re = re
         /\ Operator(name, words, re, negated).negated = negated
  BY DEF Operator, Operations

LEMMA NoneIs == \A S : <<>> \in Seq(S)
  OBVIOUS

LEMMA NoPatternIs == NoPattern \in Seq(Nodes) /\ NoPattern \in Trees
<1>1. PICK none : none = <<>>
  OBVIOUS
<1>2. none \in Seq(Trees)
  BY <1>1, NoneIs
<1> QED
  BY <1>1, <1>2, CatIs DEF NoPattern, Trees

\* One or more words, no pattern: contains, equals, has_prefix.
LEMMA WordedIs ==
  ASSUME NEW name \in OperatorNames \ {"rx"}, NEW words \in Seq(Seq(Int)),
         name \in {"equals", "has_prefix"} => Len(words) = 1
  PROVE  /\ Operator(name, words, NoPattern, FALSE) \in Operations
         /\ OperatorShape(Operator(name, words, NoPattern, FALSE))
         /\ Operator(name, words, NoPattern, FALSE).name = name
         /\ Operator(name, words, NoPattern, FALSE).words = words
<1>1. PICK no \in BOOLEAN : no = FALSE
  OBVIOUS
<1>2. name \in OperatorNames /\ NoPattern \in Seq(Nodes)
  BY NoPatternIs
<1>4. /\ Operator(name, words, NoPattern, no) \in Operations
      /\ Operator(name, words, NoPattern, no).name = name
      /\ Operator(name, words, NoPattern, no).words = words
  BY <1>2, OperationIs
<1>3. /\ Operator(name, words, NoPattern, FALSE) \in Operations
      /\ Operator(name, words, NoPattern, FALSE).name = name
      /\ Operator(name, words, NoPattern, FALSE).words = words
  BY <1>1, <1>4
<1> QED
  BY <1>3 DEF OperatorShape

LEMMA OneWord == \A w \in Seq(Int) : <<w>> \in Seq(Seq(Int)) /\ Len(<<w>>) = 1 /\ <<w>>[1] = w
  OBVIOUS

LEMMA PatternedIs ==
  ASSUME NEW re \in Trees, NEW negated \in BOOLEAN
  PROVE  /\ Rx(re, negated) \in Operations /\ OperatorShape(Rx(re, negated))
         /\ Rx(re, negated).name = "rx" /\ Rx(re, negated).re = re /\ Rx(re, negated).negated = negated
<1>0. PICK none : none = <<>>
  OBVIOUS
<1>1. none \in Seq(Seq(Int))
  BY <1>0, NoneIs
<1>2. "rx" \in OperatorNames /\ re \in Seq(Nodes) /\ Tree(re)
  BY DEF OperatorNames, Trees
<1>3. Rx(re, negated) = Operator("rx", none, re, negated)
  BY <1>0 DEF Rx
<1>4. /\ Rx(re, negated) \in Operations
      /\ Rx(re, negated).name = "rx" /\ Rx(re, negated).re = re /\ Rx(re, negated).negated = negated
  BY <1>1, <1>2, <1>3, OperationIs
<1> QED
  BY <1>2, <1>4 DEF OperatorShape

LEMMA DetectingIs ==
  ASSUME NEW re \in Trees, NEW words \in Seq(Seq(Int))
  PROVE  /\ FuncOf(re, words) \in Operations /\ OperatorShape(FuncOf(re, words))
         /\ FuncOf(re, words).name = "func" /\ FuncOf(re, words).re = re /\ FuncOf(re, words).words = words
<1>1. FALSE \in BOOLEAN /\ "func" \in OperatorNames /\ re \in Seq(Nodes)
  BY DEF OperatorNames, Trees
<1>2. /\ FuncOf(re, words) \in Operations
      /\ FuncOf(re, words).name = "func" /\ FuncOf(re, words).re = re /\ FuncOf(re, words).words = words
  BY ZenonT(40), <1>1, OperationIs DEF FuncOf
<1> QED
  BY <1>2 DEF OperatorShape

\* The ways to make an operator.
Constructed(op) ==
  \/ \E w \in Seq(Int) : op \in {ContainsOne(w), Equals(w), HasPrefix(w)}
  \/ \E ws \in Seq(Seq(Int)) : op = ContainsAny(ws)
  \/ \E re \in Trees, negated \in BOOLEAN : op = Rx(re, negated)
  \/ \E name \in DOMAIN Detectors : op = FuncOf(Detectors[name].holds, Detectors[name].literals)
Constructions == {op \in Operations : OperatorShape(op) /\ Constructed(op)}

LEMMA DetectorIs ==
  \A name \in DOMAIN Detectors : Detectors[name].holds \in Trees /\ Detectors[name].literals \in Seq(Seq(Int))
  BY SeclangAssumption, TreeIs DEF Trees

LEMMA ConstructedIs == \A op : Constructed(op) => op \in Constructions
<1> SUFFICES ASSUME NEW op, Constructed(op) PROVE op \in Operations /\ OperatorShape(op)
  BY DEF Constructions
<1>1. ASSUME NEW w \in Seq(Int), op \in {ContainsOne(w), Equals(w), HasPrefix(w)}
      PROVE  op \in Operations /\ OperatorShape(op)
  <2>1. <<w>> \in Seq(Seq(Int)) /\ Len(<<w>>) = 1
    BY OneWord
  <2>2. {"contains", "equals", "has_prefix"} \subseteq OperatorNames \ {"rx"}
    BY DEF OperatorNames
  <2>3. PICK name \in {"contains", "equals", "has_prefix"} : op = Operator(name, <<w>>, NoPattern, FALSE)
    BY <1>1 DEF ContainsOne, Equals, HasPrefix
  <2> QED
    BY <2>1, <2>2, <2>3, WordedIs
<1>2. ASSUME NEW ws \in Seq(Seq(Int)), op = ContainsAny(ws)
      PROVE  op \in Operations /\ OperatorShape(op)
  <2>1. PICK words \in Seq(Seq(Int)) : words = Those(ws, Range(ws) \ {<<>>})
    BY RangeOfThose
  <2>2. "contains_any" \in OperatorNames \ {"rx"} /\ "contains_any" \notin {"equals", "has_prefix"}
    BY DEF OperatorNames
  <2> QED
    BY <1>2, <2>1, <2>2, WordedIs DEF ContainsAny
<1>3. ASSUME NEW name \in DOMAIN Detectors, op = FuncOf(Detectors[name].holds, Detectors[name].literals)
      PROVE  op \in Operations /\ OperatorShape(op)
  BY <1>3, DetectorIs, DetectingIs
<1> QED
  BY <1>1, <1>2, <1>3, PatternedIs DEF Constructed

-----------------------------------------------------------------------------
LEMMA PhrasesAre ==
  ASSUME NEW name, NEW arg \in Seq(Int)
  PROVE  Phrases(name, arg) \in Seq(Seq(Int))
<1>1. Fields(arg) \in Seq(Seq(Int))
  BY PiecesAre
<1>2. ASSUME NEW lines \in Seq(Seq(Int)) PROVE PhraseList(lines) \in Seq(Seq(Int))
  <2>1. PICK trimmed : trimmed = [k \in DOMAIN lines |-> TrimSpace(lines[k])]
    OBVIOUS
  <2>2. trimmed = [k \in DOMAIN lines |-> trimmed[k]]
    BY <2>1
  <2>3. ASSUME NEW k \in 1..Len(lines) PROVE trimmed[k] \in Seq(Int)
    <3>1. lines[k] \in Seq(Int) /\ k \in DOMAIN lines
      OBVIOUS
    <3>2. trimmed[k] = TrimSpace(lines[k])
      BY <2>1, <3>1
    <3> QED
      BY <3>1, <3>2, TrimSpaceIs
  <2>4. trimmed \in Seq(Seq(Int))
    BY <2>2, <2>3, MapIs
  <2> QED
    BY <2>1, <2>4, RangeOfThose DEF PhraseList
<1>3. \A file_ \in DOMAIN DataFiles : DataFiles[file_] \in Seq(Seq(Int))
  BY SeclangAssumption
<1>4. <<>> \in Seq(Seq(Int))
  OBVIOUS
<1> QED
  BY <1>1, <1>2, <1>3, <1>4 DEF Phrases

SaidOf(said) == said.arg \in Seq(Int) /\ said.negated \in BOOLEAN

LEMMA SaidIs ==
  ASSUME NEW name, NEW arg \in Seq(Int), NEW negated \in BOOLEAN
  PROVE  SaidOf([name |-> name, arg |-> arg, negated |-> negated])
  BY DEF SaidOf

LEMMA ParseOperatorIs ==
  ASSUME NEW text \in Seq(Int)
  PROVE  SaidOf(ParseOperator(text))
<1>1. PICK trimmed \in Seq(Int) : trimmed = TrimSpace(text)
  BY TrimSpaceIs
<1>2. PICK negated \in BOOLEAN : negated = HasPrefixByte(trimmed, Bang)
  BY DEF HasPrefixByte
<1>3. TrimSpace(Rest(trimmed, 1)) \in Seq(Int)
  BY RestIs, TrimSpaceIs
<1>4. PICK s \in Seq(Int) : s = IF negated THEN TrimSpace(Rest(trimmed, 1)) ELSE trimmed
  BY <1>3
<1>5. TrimSpace(Behind(Rest(s, 1), Space)) \in Seq(Int)
  BY RestIs, BehindIs, TrimSpaceIs
<1>6. ParseOperator(text) = IF ~HasPrefixByte(s, Code["@"]) THEN [name |-> "rx", arg |-> s, negated |-> negated]
                            ELSE [name |-> Word(TrimSpace(Before(Rest(s, 1), Space))),
                                  arg |-> TrimSpace(Behind(Rest(s, 1), Space)), negated |-> negated]
  BY <1>1, <1>2, <1>4 DEF ParseOperator
<1> QED
  BY <1>5, <1>6, SaidIs

LEMMA AcceptedIs == \A op : Accepted(op).ok /\ Accepted(op).op = op
  BY DEF Accepted
LEMMA RefusedIs == ~Refused.ok
  BY DEF Refused

LEMMA OperatorOfIs ==
  ASSUME NEW name, NEW arg \in Seq(Int), NEW negated \in BOOLEAN, OperatorOf(name, arg, negated).ok
  PROVE  OperatorOf(name, arg, negated).op \in Constructions
<1>1. PICK said : said = OperatorOf(name, arg, negated)
  OBVIOUS
<1>2. \/ said = Refused
      \/ name = "rx" /\ Written(arg) \in DOMAIN Syntax /\ said = Accepted(Rx(Syntax[Written(arg)], negated))
      \/ said = Accepted(Rx(Cat(<<Lit(arg), End>>), negated))
      \/ said = Accepted(ContainsOne(arg))
      \/ said = Accepted(Rx(Cat(<<Boundary, Lit(arg), Boundary>>), FALSE))
      \/ said = Accepted(Equals(arg))
      \/ said = Accepted(HasPrefix(arg))
      \/ said = Accepted(ContainsAny(Phrases(name, arg)))
      \/ /\ name \in {"detectsqli", "detectxss"}
         /\ said = Accepted(FuncOf(Detectors[name].holds, Detectors[name].literals))
  <2>0. PICK r : r = Refused
    OBVIOUS
  <2>1. PICK p0 \in BOOLEAN : p0 <=> (Len(arg) > PatternLimit \/ HasMacro(arg) \/ (negated /\ name \in Unnegatable))
    OBVIOUS
  <2>11. PICK a0 : a0 = Refused
    OBVIOUS
  <2>2. PICK p1 \in BOOLEAN : p1 <=> (name = "rx" /\ Written(arg) \in DOMAIN Syntax)
    OBVIOUS
  <2>12. PICK a1 : a1 = Accepted(Rx(Syntax[Written(arg)], negated))
    OBVIOUS
  <2>3. PICK p2 \in BOOLEAN : p2 <=> (name = "endswith")
    OBVIOUS
  <2>13. PICK a2 : a2 = Accepted(Rx(Cat(<<Lit(arg), End>>), negated))
    OBVIOUS
  <2>4. PICK p3 \in BOOLEAN : p3 <=> (name = "contains" /\ ~negated)
    OBVIOUS
  <2>14. PICK a3 : a3 = Accepted(ContainsOne(arg))
    OBVIOUS
  <2>5. PICK p4 \in BOOLEAN : p4 <=> (name = "containsword" /\ ~negated)
    OBVIOUS
  <2>15. PICK a4 : a4 = Accepted(Rx(Cat(<<Boundary, Lit(arg), Boundary>>), FALSE))
    OBVIOUS
  <2>6. PICK p5 \in BOOLEAN : p5 <=> (name = "streq")
    OBVIOUS
  <2>16. PICK a5 : a5 = Accepted(Equals(arg))
    OBVIOUS
  <2>7. PICK p6 \in BOOLEAN : p6 <=> (name = "beginswith")
    OBVIOUS
  <2>17. PICK a6 : a6 = Accepted(HasPrefix(arg))
    OBVIOUS
  <2>8. PICK p7 \in BOOLEAN : p7 <=> (name \in {"pm", "pmf", "pmfromfile", "within"} /\ Phrases(name, arg) # <<>>)
    OBVIOUS
  <2>18. PICK a7 : a7 = Accepted(ContainsAny(Phrases(name, arg)))
    OBVIOUS
  <2>9. PICK p8 \in BOOLEAN : p8 <=> (name \in {"detectsqli", "detectxss"})
    OBVIOUS
  <2>19. PICK a8 : a8 = Accepted(FuncOf(Detectors[name].holds, Detectors[name].literals))
    OBVIOUS
  <2>31. said = CASE p0 -> a0
           [] p1 -> a1
           [] p2 -> a2
           [] p3 -> a3
           [] p4 -> a4
           [] p5 -> a5
           [] p6 -> a6
           [] p7 -> a7
           [] p8 -> a8
           [] OTHER -> r
    BY Zenon, <1>1, <2>0, <2>1, <2>11, <2>2, <2>12, <2>3, <2>13, <2>4, <2>14, <2>5, <2>15, <2>6, <2>16, <2>7, <2>17, <2>8, <2>18, <2>9, <2>19 DEF OperatorOf
  <2>32. said \in {r, a0, a2, a3, a4, a5, a6, a7} \/ (said = a1 /\ p1) \/ (said = a8 /\ p8)
    BY <2>31
  <2> QED
    BY <2>32, <2>0, <2>2, <2>9, <2>11, <2>12, <2>13, <2>14, <2>15, <2>16, <2>17, <2>18, <2>19
<1>3. said # Refused
  BY <1>1, RefusedIs
<1>4. FALSE \in BOOLEAN
  OBVIOUS
<1>5. ASSUME NEW op, said = Accepted(op), Constructed(op) PROVE said.op \in Constructions
  BY <1>5, AcceptedIs, ConstructedIs
<1>6. CASE Written(arg) \in DOMAIN Syntax /\ said = Accepted(Rx(Syntax[Written(arg)], negated))
  <2>1. Syntax[Written(arg)] \in Trees
    BY <1>6, SeclangAssumption, TreeIs DEF Trees
  <2>2. Constructed(Rx(Syntax[Written(arg)], negated))
    BY <2>1 DEF Constructed
  <2> QED
    BY <1>1, <1>5, <1>6, <2>2
<1>7. CASE said = Accepted(Rx(Cat(<<Lit(arg), End>>), negated))
  <2>1. <<Lit(arg), End>> \in Seq(Trees)
    BY LeavesAre
  <2>2. Cat(<<Lit(arg), End>>) \in Trees
    BY <2>1, CatIs DEF Trees
  <2>3. Constructed(Rx(Cat(<<Lit(arg), End>>), negated))
    BY <2>2 DEF Constructed
  <2> QED
    BY <1>1, <1>5, <1>7, <2>3
<1>8. CASE said = Accepted(Rx(Cat(<<Boundary, Lit(arg), Boundary>>), FALSE))
  <2>1. <<Boundary, Lit(arg), Boundary>> \in Seq(Trees)
    BY LeavesAre
  <2>2. Cat(<<Boundary, Lit(arg), Boundary>>) \in Trees
    BY <2>1, CatIs DEF Trees
  <2>3. Constructed(Rx(Cat(<<Boundary, Lit(arg), Boundary>>), FALSE))
    BY <1>4, <2>2 DEF Constructed
  <2> QED
    BY <1>1, <1>5, <1>8, <2>3
<1>9. CASE said \in {Accepted(ContainsOne(arg)), Accepted(Equals(arg)), Accepted(HasPrefix(arg))}
  <2>1. Constructed(ContainsOne(arg)) /\ Constructed(Equals(arg)) /\ Constructed(HasPrefix(arg))
    BY DEF Constructed
  <2> QED
    BY <1>1, <1>5, <1>9, <2>1
<1>10. CASE said = Accepted(ContainsAny(Phrases(name, arg)))
  <2>1. Constructed(ContainsAny(Phrases(name, arg)))
    BY PhrasesAre DEF Constructed
  <2> QED
    BY <1>1, <1>5, <1>10, <2>1
<1>11. CASE /\ name \in {"detectsqli", "detectxss"}
            /\ said = Accepted(FuncOf(Detectors[name].holds, Detectors[name].literals))
  <2>1. name \in DOMAIN Detectors
    BY <1>11, SeclangAssumption
  <2>3. Constructed(FuncOf(Detectors[name].holds, Detectors[name].literals))
    BY <2>1 DEF Constructed
  <2> QED
    BY <1>1, <1>5, <1>11, <2>3
<1> QED
  BY <1>1, <1>2, <1>3, <1>6, <1>7, <1>8, <1>9, <1>10, <1>11
-----------------------------------------------------------------------------
(* What an importer makes is written as Go source and read back the same.    *)
LEMMA CallIs == \A make, words, re : Call(make, words, re).make = make /\ Call(make, words, re).words = words /\ Call(make, words, re).re = re
  BY DEF Call

LEMMA CalledWorded ==
  ASSUME NEW words
  PROVE  /\ Called(Call("contains", words, NoPattern)) = ContainsOne(words[1])
         /\ Called(Call("contains_any", words, NoPattern)) = ContainsAny(words)
         /\ Called(Call("equals", words, NoPattern)) = Equals(words[1])
         /\ Called(Call("has_prefix", words, NoPattern)) = HasPrefix(words[1])
<1>1. PICK call : call = Call("contains", words, NoPattern)
  OBVIOUS
<1>2. Called(call) = ContainsOne(words[1])
  <2>1. call.make = "contains" /\ call.words = words
    BY <1>1, CallIs
  <2> QED
    BY <2>1 DEF Called
<1>3. PICK any : any = Call("contains_any", words, NoPattern)
  OBVIOUS
<1>4. Called(any) = ContainsAny(words)
  <2>1. any.make = "contains_any" /\ any.words = words
    BY <1>3, CallIs
  <2> QED
    BY <2>1 DEF Called
<1>5. PICK same : same = Call("equals", words, NoPattern)
  OBVIOUS
<1>6. Called(same) = Equals(words[1])
  <2>1. same.make = "equals" /\ same.words = words
    BY <1>5, CallIs
  <2> QED
    BY <2>1 DEF Called
<1>7. PICK front : front = Call("has_prefix", words, NoPattern)
  OBVIOUS
<1>8. Called(front) = HasPrefix(words[1])
  <2>1. front.make = "has_prefix" /\ front.words = words
    BY <1>7, CallIs
  <2> QED
    BY <2>1 DEF Called
<1> QED
  BY <1>1, <1>2, <1>3, <1>4, <1>5, <1>6, <1>7, <1>8

LEMMA CalledPattern ==
  ASSUME NEW re, NEW words
  PROVE  /\ Called(Call("MustRegex", words, re)) = Rx(re, FALSE)
         /\ Called(Call("MustRegexNegated", words, re)) = Rx(re, TRUE)
         /\ Called(Call("detector", words, re)) = FuncOf(re, words)
<1>1. PICK call : call = Call("MustRegex", words, re)
  OBVIOUS
<1>2. Called(call) = Rx(re, FALSE)
  <2>1. call.make = "MustRegex" /\ call.re = re
    BY <1>1, CallIs
  <2>2. (call.make = "MustRegexNegated") = FALSE
    BY <2>1
  <2>3. Called(call) = Rx(call.re, call.make = "MustRegexNegated")
    BY <2>1 DEF Called
  <2> QED
    BY <2>1, <2>2, <2>3
<1>3. PICK not : not = Call("MustRegexNegated", words, re)
  OBVIOUS
<1>4. Called(not) = Rx(re, TRUE)
  <2>1. not.make = "MustRegexNegated" /\ not.re = re
    BY <1>3, CallIs
  <2>2. (not.make = "MustRegexNegated") = TRUE
    BY <2>1
  <2>3. Called(not) = Rx(not.re, not.make = "MustRegexNegated")
    BY <2>1 DEF Called
  <2> QED
    BY <2>1, <2>2, <2>3
<1>5. PICK own : own = Call("detector", words, re)
  OBVIOUS
<1>6. Called(own) = FuncOf(re, words)
  <2>1. own.make = "detector" /\ own.words = words /\ own.re = re
    BY <1>5, CallIs
  <2> QED
    BY <2>1 DEF Called
<1> QED
  BY Zenon, <1>1, <1>2, <1>3, <1>4, <1>5, <1>6

\* The words of contains_any are what they were after a second reading.
LEMMA ThoseTwice ==
  ASSUME NEW ws \in Seq(Seq(Int))
  PROVE  ContainsAny(Those(ws, Range(ws) \ {<<>>})) = ContainsAny(ws)
<1>1. PICK words \in Seq(Seq(Int)) : words = Those(ws, Range(ws) \ {<<>>}) /\ Range(words) = Range(ws) \cap (Range(ws) \ {<<>>})
  BY RangeOfThose
<1>2. \A i \in DOMAIN words : words[i] \in Range(words)
  BY OfItsMembers
<1>3. \A i \in DOMAIN words : words[i] \in Range(words) \ {<<>>}
  BY <1>1, <1>2
<1>4. PICK chosen : chosen = Range(words) \ {<<>>}
  OBVIOUS
<1>5. Those(words, chosen) = words
  BY <1>3, <1>4, ThoseLength
<1> QED
  BY <1>1, <1>4, <1>5 DEF ContainsAny

LEMMA RenderedWorded ==
  ASSUME NEW op, NEW w, op.name \in {"contains", "equals", "has_prefix"}, op.words = <<w>>, Rendered(op) # NoCall
  PROVE  Rendered(op) = Call(op.name, <<w>>, NoPattern)
<1>1. PICK lits : lits = Literals(op)
  OBVIOUS
<1>2. lits = <<w>> \/ lits = <<>>
  BY <1>1 DEF Literals
<1>3. CASE lits = <<w>>
  <2>1. Len(lits) = 1
    BY <1>3
  <2> QED
    BY <1>1, <1>3, <2>1 DEF Rendered
<1>4. CASE lits = <<>>
  <2>1. Len(lits) # 1
    BY <1>4
  <2> QED
    BY <1>1, <2>1 DEF Rendered
<1> QED
  BY <1>2, <1>3, <1>4

LEMMA CalledIs ==
  ASSUME NEW op \in Constructions, Rendered(op) # NoCall
  PROVE  Called(Rendered(op)) = op
<1>0. Constructed(op)
  BY DEF Constructions
<1>1. ASSUME NEW w \in Seq(Int), op \in {ContainsOne(w), Equals(w), HasPrefix(w)}
      PROVE  Called(Rendered(op)) = op
  <2>1. <<w>> \in Seq(Seq(Int)) /\ Len(<<w>>) = 1 /\ <<w>>[1] = w
    BY OneWord
  <2>2. {"contains", "equals", "has_prefix"} \subseteq OperatorNames \ {"rx"}
    BY DEF OperatorNames
  <2>3. PICK name \in {"contains", "equals", "has_prefix"} : op = Operator(name, <<w>>, NoPattern, FALSE)
    BY <1>1 DEF ContainsOne, Equals, HasPrefix
  <2>4. op.name = name /\ op.words = <<w>>
    BY <2>1, <2>2, <2>3, WordedIs
  <2>5. Rendered(op) = Call(name, <<w>>, NoPattern)
    BY <2>4, RenderedWorded
  <2>6. CASE name = "contains"
    <3>1. Called(Rendered(op)) = ContainsOne(w)
      BY <2>1, <2>5, <2>6, CalledWorded
    <3> QED
      BY <2>3, <2>6, <3>1 DEF ContainsOne
  <2>7. CASE name = "equals"
    <3>1. Called(Rendered(op)) = Equals(w)
      BY <2>1, <2>5, <2>7, CalledWorded
    <3> QED
      BY <2>3, <2>7, <3>1 DEF Equals
  <2>8. CASE name = "has_prefix"
    <3>1. Called(Rendered(op)) = HasPrefix(w)
      BY <2>1, <2>5, <2>8, CalledWorded
    <3> QED
      BY <2>3, <2>8, <3>1 DEF HasPrefix
  <2> QED
    BY <2>6, <2>7, <2>8
<1>2. ASSUME NEW ws \in Seq(Seq(Int)), op = ContainsAny(ws)
      PROVE  Called(Rendered(op)) = op
  <2>1. PICK words \in Seq(Seq(Int)) : words = Those(ws, Range(ws) \ {<<>>})
    BY RangeOfThose
  <2>2. "contains_any" \in OperatorNames \ {"rx"} /\ "contains_any" \notin {"equals", "has_prefix"}
    BY DEF OperatorNames
  <2>3. op = Operator("contains_any", words, NoPattern, FALSE)
    BY <1>2, <2>1 DEF ContainsAny
  <2>4. op.name = "contains_any" /\ op.words = words
    BY <2>2, <2>3, WordedIs
  <2>5. Literals(op) = words
    BY <2>4 DEF Literals
  <2>6. Rendered(op) = Call("contains_any", words, NoPattern)
    BY <2>4, <2>5 DEF Rendered
  <2>7. Called(Rendered(op)) = ContainsAny(words)
    BY <2>6, CalledWorded
  <2> QED
    BY <1>2, <2>1, <2>7, ThoseTwice
<1>3. ASSUME NEW re \in Trees, NEW negated \in BOOLEAN, op = Rx(re, negated)
      PROVE  Called(Rendered(op)) = op
  <2>1. op.name = "rx" /\ op.re = re /\ op.negated = negated
    BY <1>3, PatternedIs
  <2>2. Rendered(op) = Call(IF negated THEN "MustRegexNegated" ELSE "MustRegex", <<>>, re)
    BY <2>1 DEF Rendered
  <2>3. CASE negated = TRUE
    <3>1. Rendered(op) = Call("MustRegexNegated", <<>>, re)
      BY <2>2, <2>3
    <3> QED
      BY <1>3, <2>3, <3>1, CalledPattern
  <2>4. CASE negated = FALSE
    <3>1. Rendered(op) = Call("MustRegex", <<>>, re)
      BY <2>2, <2>4
    <3> QED
      BY <1>3, <2>4, <3>1, CalledPattern
  <2> QED
    BY <2>3, <2>4
<1>4. ASSUME NEW name \in DOMAIN Detectors, op = FuncOf(Detectors[name].holds, Detectors[name].literals)
      PROVE  Called(Rendered(op)) = op
  <2>0. PICK re \in Trees, ws \in Seq(Seq(Int)) : re = Detectors[name].holds /\ ws = Detectors[name].literals
    BY DetectorIs
  <2>1. op.name = "func" /\ op.re = re /\ op.words = ws
    BY <1>4, <2>0, DetectingIs
  <2>2. Rendered(op) = Call("detector", ws, re)
    BY <2>1 DEF Rendered
  <2> QED
    BY <1>4, <2>0, <2>2, CalledPattern
<1> QED
  BY <1>0, <1>1, <1>2, <1>3, <1>4 DEF Constructed

-----------------------------------------------------------------------------
Imports == [id: Int, from: {0}, phase: 1..4, targets: Seq(Targeted), chain: Seq(ChainNames), op: Constructions,
            action: ImportedActions, severity: 0..3, confidence: 0..5, msg: Seq(Int), tags: Seq(Seq(Int))]

LEMMA ImportIs ==
  ASSUME NEW id \in Int, NEW phase \in 1..4, NEW targets \in Seq(Targeted), NEW chain \in Seq(ChainNames),
         NEW op \in Constructions, NEW action \in ImportedActions, NEW severity \in 0..3,
         NEW confidence \in 0..5, NEW msg \in Seq(Int), NEW tags \in Seq(Seq(Int))
  PROVE  [id |-> id, from |-> 0, phase |-> phase, targets |-> targets, chain |-> chain, op |-> op, action |-> action,
          severity |-> severity, confidence |-> confidence, msg |-> msg, tags |-> tags] \in Imports
<1>1. 0 \in {0}
  OBVIOUS
<1> QED
  BY <1>1 DEF Imports

LEMMA AssembledIs ==
  ASSUME NEW d, NEW acts, NEW all \in Seq(ActionSet), NEW id \in Int, NEW read, NEW op, NEW tf,
         NEW prefix \in Nat, NEW tier \in 0..5,
         read.ok => read.targets \in Seq(Targeted), op.ok => op.op \in Constructions,
         tf.chain \in Seq(ChainNames)
  PROVE  Assembled(d, acts, all, id, read, op, tf, prefix, tier).rule \in Seq(Imports)
<1>1. PICK rule : rule = [id |-> prefix + id, from |-> 0, phase |-> PhaseOf(all), targets |-> read.targets,
                          chain |-> WithArgDecoding(read.targets, tf.chain), op |-> op.op,
                          action |-> ActionOf(all), severity |-> SeverityOf(all), confidence |-> tier,
                          msg |-> ActionValue(all, "msg", <<>>), tags |-> TagsOf(all)]
  OBVIOUS
<1>2. PICK result : result = Assembled(d, acts, all, id, read, op, tf, prefix, tier).rule
  OBVIOUS
<1>3. result = <<>> \/ (result = <<rule>> /\ read.ok /\ op.ok)
  BY <1>1, <1>2 DEF Assembled
<1>4. ASSUME read.ok, op.ok PROVE rule \in Imports
  <2>1. PICK number \in Int : number = prefix + id
    OBVIOUS
  <2>2. PICK phase \in 1..4 : phase = PhaseOf(all)
    BY PhaseIs
  <2>3. PICK targets \in Seq(Targeted) : targets = read.targets
    BY <1>4
  <2>4. PICK chain \in Seq(ChainNames) : chain = WithArgDecoding(targets, tf.chain)
    BY DecodingIs
  <2>5. PICK does \in Constructions : does = op.op
    BY <1>4
  <2>6. PICK action \in ImportedActions : action = ActionOf(all)
    BY ActionIs
  <2>7. PICK severity \in 0..3 : severity = SeverityOf(all)
    BY SeverityIs
  <2>8. PICK none : none = <<>>
    OBVIOUS
  <2>9. none \in Seq(Int)
    BY <2>8, NoneIs
  <2>10. PICK msg \in Seq(Int) : msg = ActionValue(all, "msg", none)
    BY <2>9, ActionValueIs
  <2>11. PICK tags \in Seq(Seq(Int)) : tags = TagsOf(all)
    BY TagsAre
  <2>12. rule = [id |-> number, from |-> 0, phase |-> phase, targets |-> targets, chain |-> chain, op |-> does,
                 action |-> action, severity |-> severity, confidence |-> tier, msg |-> msg, tags |-> tags]
    BY <1>1, <2>1, <2>2, <2>3, <2>4, <2>5, <2>6, <2>7, <2>8, <2>10, <2>11
  <2> QED
    BY <2>12, ImportIs
<1>5. CASE result = <<>>
  BY <1>2, <1>5, NoneIs
<1>6. CASE result = <<rule>> /\ read.ok /\ op.ok
  <2>1. rule \in Imports
    BY <1>4, <1>6
  <2>2. <<rule>> \in Seq(Imports)
    BY <2>1
  <2> QED
    BY <1>2, <1>6, <2>2
<1> QED
  BY <1>3, <1>5, <1>6

LEMMA TranslatedIs ==
  ASSUME NEW d, Directed(d), NEW inherited \in Seq(ActionSet), NEW prefix \in Nat, NEW tier \in 0..5
  PROVE  Translated(d, inherited, prefix, tier).rule \in Seq(Imports)
<1>1. PICK acts \in Seq(ActionSet) : acts = ActsOf(d)
  BY ActsAre
<1>2. PICK all \in Seq(ActionSet) : all = inherited \o acts
  BY RangeOfJoin
<1>3. PICK id \in Int : id = RuleIDOf(d)
  BY RuleIDIs
<1>4. SplitVariables(ArgAt(d, 1)) \in Seq(Seq(Int))
  BY ArgAtIs, PiecesAre
<1>5. PICK read : read = TargetsOf(SplitVariables(ArgAt(d, 1)))
  OBVIOUS
<1>6. read.ok => read.targets \in Seq(Targeted)
  BY <1>4, <1>5, TargetsAre
<1>7. PICK said : said = ParseOperator(ArgAt(d, 2))
  OBVIOUS
<1>8. said.arg \in Seq(Int) /\ said.negated \in BOOLEAN
  BY <1>7, ArgAtIs, ParseOperatorIs DEF SaidOf
<1>9. PICK op : op = OperatorOf(said.name, said.arg, said.negated)
  OBVIOUS
<1>10. op.ok => op.op \in Constructions
  BY <1>8, <1>9, OperatorOfIs
<1>11. PICK tf : tf = TransformsOf(acts)
  OBVIOUS
<1>12. tf.chain \in Seq(ChainNames)
  BY <1>11, ChainIs
<1>13. Translated(d, inherited, prefix, tier) = Assembled(d, acts, all, id, read, op, tf, prefix, tier)
  BY <1>1, <1>2, <1>3, <1>5, <1>7, <1>9, <1>11 DEF Translated
<1> QED
  BY <1>6, <1>10, <1>12, <1>13, AssembledIs

\* A tier that has no name is written as the lowest.
Clamped(rule) == [rule EXCEPT !.confidence = IF rule.confidence \in 0..4 THEN rule.confidence ELSE 0]

\* What two rules have in common that differ in how they are written.
Alike(one, other) ==
  [one EXCEPT !.op = NoPattern, !.confidence = 0] = [other EXCEPT !.op = NoPattern, !.confidence = 0]

LEMMA ClampedIs ==
  ASSUME NEW rule \in Imports
  PROVE  /\ Clamped(rule) \in Imports /\ Clamped(rule).op = rule.op /\ Alike(Clamped(rule), rule)
         /\ Clamped(rule).confidence = IF rule.confidence \in 0..4 THEN rule.confidence ELSE 0
<1>1. PICK id, phase, targets, chain, op, action, severity, confidence, msg, tags :
        rule = [id |-> id, from |-> 0, phase |-> phase, targets |-> targets, chain |-> chain, op |-> op, action |-> action,
                severity |-> severity, confidence |-> confidence, msg |-> msg, tags |-> tags]
  BY DEF Imports
<1>2. PICK tier : tier = IF confidence \in 0..4 THEN confidence ELSE 0
  OBVIOUS
<1>3. rule.confidence = confidence /\ rule.op = op
  BY <1>1
<1>4. Clamped(rule) = [rule EXCEPT !.confidence = tier]
  BY <1>2, <1>3 DEF Clamped
<1>5. Clamped(rule) = [id |-> id, from |-> 0, phase |-> phase, targets |-> targets, chain |-> chain, op |-> op, action |-> action,
                       severity |-> severity, confidence |-> tier, msg |-> msg, tags |-> tags]
  BY <1>1, <1>4
<1>6. Clamped(rule).op = op /\ Clamped(rule).confidence = tier
  BY <1>5
<1>7. tier \in 0..5
  BY <1>2
<1>8. Clamped(rule) \in Imports
  BY <1>4, <1>7 DEF Imports
<1>9. PICK other : other = Clamped(rule)
  OBVIOUS
<1>10. PICK none : none = NoPattern
  OBVIOUS
<1>11. [other EXCEPT !.op = none, !.confidence = 0] = [rule EXCEPT !.op = none, !.confidence = 0]
  BY ONLY <1>4, <1>9, Zenon
<1>12. Alike(other, rule)
  BY <1>10, <1>11 DEF Alike
<1> QED
  BY <1>2, <1>3, <1>6, <1>8, <1>9, <1>12

\* The constants of the generated source are the numbers of the rule.
LEMMA RegeneratedIs ==
  ASSUME NEW rule \in Imports, Rendered(rule.op) # NoCall
  PROVE  Regenerated(rule) = Clamped(rule)
<1>1. PICK id, phase, targets, chain, op, action, severity, confidence, msg, tags :
        rule = [id |-> id, from |-> 0, phase |-> phase, targets |-> targets, chain |-> chain, op |-> op, action |-> action,
                severity |-> severity, confidence |-> confidence, msg |-> msg, tags |-> tags]
        /\ phase \in 1..4 /\ op \in Constructions /\ action \in ImportedActions /\ severity \in 0..3 /\ confidence \in 0..5
  BY DEF Imports
<1>2. rule.op = op /\ rule.phase = phase /\ rule.severity = severity /\ rule.confidence = confidence /\ rule.action = action
  BY <1>1
<1>3. Called(Rendered(op)) = op
  BY <1>1, <1>2, CalledIs
<1>4. (IF phase \in 1..4 THEN phase ELSE 2) = phase
  BY <1>1
<1>5. (IF severity \in 1..3 THEN severity ELSE 0) = severity
  BY <1>1
<1>9. PICK tier : tier = IF confidence \in 0..4 THEN confidence ELSE 0
  OBVIOUS
<1>6. (IF confidence \in 1..4 THEN confidence ELSE 0) = tier
  BY <1>1, <1>9
<1>7. (IF action \in {"block", "allow", "log"} THEN action ELSE "score") = action
  BY <1>1 DEF ImportedActions
<1>8. Regenerated(rule) = [rule EXCEPT !.op = op, !.phase = phase, !.severity = severity, !.confidence = tier, !.action = action]
  BY <1>2, <1>3, <1>4, <1>5, <1>6, <1>7 DEF Regenerated
<1>10. Clamped(rule) = [rule EXCEPT !.confidence = tier]
  BY <1>2, <1>9 DEF Clamped
<1>11. [rule EXCEPT !.op = op, !.phase = phase, !.severity = severity, !.confidence = tier, !.action = action]
         = [rule EXCEPT !.confidence = tier]
  BY ONLY <1>2, Zenon
<1> QED
  BY <1>8, <1>10, <1>11
-----------------------------------------------------------------------------
(* The directives of a file.                                                 *)
DirectiveNames == {Word(s) : s \in Seq(Int)}
Directives == [name: DirectiveNames, args: Seq(Seq(Int))]
Lexed == {LexArgs(line) : line \in Seq(Int)}

LEMMA LinesAre ==
  ASSUME NEW f \in Files
  PROVE  LinesOf(f) \in Seq(Seq(Int))
<1>1. Len(f) \in Nat /\ DOMAIN f = 1..Len(f) /\ \A k \in 1..Len(f) : f[k].lines \in Seq(Seq(Int))
  BY SMTT(30), RulesAssumption
<1>2. PICK n \in Nat : n = Len(f)
  BY Zenon, <1>1
<1>3. PICK T : T = Seq(Int)
  OBVIOUS
<1>4. PICK parts : parts = [k \in 1..n |-> f[k].lines]
  OBVIOUS
<1>5. \A k \in 1..n : f[k].lines \in Seq(T)
  BY <1>1, <1>2, <1>3
<1>6. parts \in Seq(Seq(T))
  BY <1>4, <1>5
<1>7. FlattenSeq(parts) \in Seq(T)
  BY <1>6, FlattenIs
<1> QED
  BY <1>1, <1>2, <1>3, <1>4, <1>7 DEF LinesOf

LEMMA DirectiveIs ==
  ASSUME NEW line \in Lexed, line.args # <<>>
  PROVE  [name |-> Word(line.args[1]), args |-> Tail(line.args)] \in Directives
<1>1. PICK text \in Seq(Int) : line = LexArgs(text)
  BY DEF Lexed
<1>2. PICK args \in Seq(Seq(Int)) : args = line.args
  BY <1>1, LexArgsIs
<1>3. args[1] \in Seq(Int) /\ Tail(args) \in Seq(Seq(Int))
  BY <1>2
<1>4. Word(args[1]) \in DirectiveNames
  BY <1>3 DEF DirectiveNames
<1> QED
  BY <1>2, <1>3, <1>4 DEF Directives

LEMMA ParseIs ==
  ASSUME NEW lines \in Seq(Seq(Int))
  PROVE  Parse(lines).directives \in Seq(Directives)
<1>1. PICK joined \in Seq(Seq(Int)) : joined = Joined(lines)
  BY JoinedIs
<1>2. PICK lexed : lexed = [k \in DOMAIN joined |-> LexArgs(joined[k])]
  OBVIOUS
<1>3. lexed \in Seq(Lexed)
  <2>1. lexed = [k \in DOMAIN joined |-> lexed[k]]
    BY <1>2
  <2>2. ASSUME NEW k \in 1..Len(joined) PROVE lexed[k] \in Lexed
    <3>1. k \in DOMAIN joined /\ joined[k] \in Seq(Int)
      OBVIOUS
    <3>2. lexed[k] = LexArgs(joined[k])
      BY <1>2, <3>1
    <3> QED
      BY <3>1, <3>2 DEF Lexed
  <2> QED
    BY <2>1, <2>2, MapIs
<1>4. PICK chosen : chosen = {d \in Range(lexed) : d.args # <<>>}
  OBVIOUS
<1>5. PICK said \in Seq(Lexed) : said = Those(lexed, chosen) /\ Range(said) = Range(lexed) \cap chosen
  BY <1>3, RangeOfThose
<1>6. PICK found : found = [k \in DOMAIN said |-> [name |-> Word(said[k].args[1]), args |-> Tail(said[k].args)]]
  OBVIOUS
<1>7. Parse(lines).directives = found
  BY <1>1, <1>2, <1>4, <1>5, <1>6 DEF Parse
<1>8. found = [k \in DOMAIN said |-> found[k]]
  BY <1>6
<1>9. ASSUME NEW k \in 1..Len(said) PROVE found[k] \in Directives
  <2>1. k \in DOMAIN said /\ said[k] \in Lexed /\ said[k] \in Range(said)
    BY OfItsMembers
  <2>2. said[k].args # <<>>
    BY <1>4, <1>5, <2>1
  <2>3. found[k] = [name |-> Word(said[k].args[1]), args |-> Tail(said[k].args)]
    BY <1>6, <2>1
  <2> QED
    BY <2>1, <2>2, <2>3, DirectiveIs
<1>10. found \in Seq(Directives)
  BY <1>8, <1>9, MapIs
<1> QED
  BY <1>7, <1>10

LEMMA DirectedIs == \A s \in Seq(Directives) : \A i \in 1..Len(s) : Directed(s[i])
<1> SUFFICES ASSUME NEW s \in Seq(Directives), NEW i \in 1..Len(s) PROVE Directed(s[i])
  OBVIOUS
<1>1. s[i] \in Directives
  OBVIOUS
<1> QED
  BY <1>1 DEF Directives, Directed

LEMMA ConsumedIs ==
  ASSUME NEW s \in Seq(Directives), NEW i \in 1..Len(s)
  PROVE  Consumed(s, i) \in Nat
<1>0. Len(s) \in Nat
  OBVIOUS
<1>1. PICK ends : ends = {j \in (i + 1)..Len(s) : s[j].name # "secrule" \/ ~HasAction(ActsOf(s[j]), "chain")}
  OBVIOUS
<1>2. CASE ends = {}
  <2>1. Consumed(s, i) = Len(s) - i \/ Consumed(s, i) = 0
    BY <1>1, <1>2 DEF Consumed
  <2> QED
    BY <1>0, <2>1
<1>3. CASE ends # {}
  <2>1. ends \in SUBSET Nat
    BY <1>0, <1>1
  <2>2. Min(ends) \in ends
    BY <1>3, <2>1, LeastIn
  <2>3. PICK m : m = Min(ends)
    OBVIOUS
  <2>4. m \in Nat /\ m >= i + 1
    BY <1>0, <1>1, <2>2, <2>3
  <2>5. Consumed(s, i) = m - i \/ Consumed(s, i) = (m - 1) - i \/ Consumed(s, i) = 0
    BY <1>1, <1>3, <2>3 DEF Consumed
  <2>6. m - i \in Nat /\ (m - 1) - i \in Nat
    BY <2>4
  <2> QED
    BY <2>5, <2>6
<1> QED
  BY <1>2, <1>3

-----------------------------------------------------------------------------
(***************************************************************************)
(* The inductive invariant.                                                *)
(***************************************************************************)
Set(own) == SelectByConfidence(WithResponsePhase(WithBodyPhase(Authored)) \o own, opts.least)

Typed ==
  /\ file \in Files /\ opts \in Settings
  /\ ds \in Seq(Directives) /\ at \in Nat \ {0}
  /\ defaults \in Seq(ActionSet)
  /\ imported \in Seq(Imports)

\* The source that was generated says the rules themselves, but for the tiers without a name.
Generated == stage = "generated" => ready = [k \in DOMAIN imported |-> Clamped(imported[k])]

\* The plan is the one of the chosen set, and the set is valid.
SetOf(own) == ready = Set(own) /\ Valid(ready, FALSE) /\ plan = Compile(ready)
Planned == Compiled => \E own \in Seq(Imports) : SetOf(own)

IInv == Typed /\ Generated /\ Planned

LEMMA InitIInv == Init => IInv
<1> SUFFICES ASSUME Init PROVE IInv
  OBVIOUS
<1>1. <<>> \in Seq(Directives) /\ <<>> \in Seq(ActionSet) /\ <<>> \in Seq(Imports)
  BY NoneIs
<1>2. Typed
  BY <1>1 DEF Init, Typed
<1>3. stage = "read"
  BY DEF Init
<1> QED
  BY <1>2, <1>3 DEF IInv, Generated, Planned, Compiled

LEMMA SettingsAre == \A o \in Settings : o.prefix \in Nat /\ o.conf \in 1..5 /\ o.least \in Int
  BY RulesAssumption

LEMMA TierTyped == Typed => Tier \in 0..5
<1> SUFFICES ASSUME Typed PROVE Tier \in 0..5
  OBVIOUS
<1>1. opts.conf \in 1..5
  BY SettingsAre DEF Typed
<1>2. TierOfLevel(gate.level) \in 0..4
  BY TierIs
<1>3. PICK given \in 1..5, level \in 0..4 : given = opts.conf /\ level = TierOfLevel(gate.level)
  BY <1>1, <1>2
<1>4. Tier = level \/ Tier = given
  BY <1>3 DEF Tier
<1> QED
  BY <1>4

LEMMA OnwardIs ==
  ASSUME Typed, NEW n \in Nat \ {0}, Onward(n), defaults' \in Seq(ActionSet), imported' \in Seq(Imports),
         stage = "translate"
  PROVE  IInv'
<1>1. at + n \in Nat \ {0}
  BY DEF Typed
<1>2. Typed'
  BY <1>1 DEF Typed, Onward
<1>3. stage' = "translate"
  BY DEF Onward
<1> QED
  BY <1>2, <1>3 DEF IInv, Generated, Planned, Compiled

LEMMA ReadStep == IInv /\ Read => IInv'
<1> SUFFICES ASSUME IInv, Read PROVE IInv'
  OBVIOUS
<1>0. Typed
  BY DEF IInv
<1>1. LinesOf(file) \in Seq(Seq(Int))
  BY <1>0, LinesAre DEF Typed
<1>2. Parse(LinesOf(file)).directives \in Seq(Directives) /\ <<>> \in Seq(Directives)
  BY <1>1, ParseIs, NoneIs
<1>3. (stage' = "collect" /\ ds' = Parse(LinesOf(file)).directives) \/ (stage' = "refused" /\ ds' = <<>>)
  BY DEF Read
<1>4. UNCHANGED <<file, opts, at, defaults, imported>>
  BY DEF Read
<1>5. Typed'
  BY <1>0, <1>2, <1>3, <1>4 DEF Typed
<1> QED
  BY <1>3, <1>5 DEF IInv, Generated, Planned, Compiled

LEMMA CollectStep == IInv /\ Collect => IInv'
<1> SUFFICES ASSUME IInv, Collect PROVE IInv'
  OBVIOUS
<1>1. stage' = "translate" /\ UNCHANGED <<file, opts, ds, at, defaults, imported>>
  BY DEF Collect
<1>2. Typed'
  BY <1>1 DEF IInv, Typed
<1> QED
  BY <1>1, <1>2 DEF IInv, Generated, Planned, Compiled

LEMMA SecRuleStep == IInv /\ SecRule => IInv'
<1> SUFFICES ASSUME IInv, SecRule PROVE IInv'
  OBVIOUS
<1>0. Typed
  BY DEF IInv
<1>1. stage = "translate" /\ at <= Len(ds)
  BY Zenon DEF SecRule, Reading
<1>2. at \in 1..Len(ds) /\ ds \in Seq(Directives)
  BY <1>0, <1>1 DEF Typed
<1>3. Directed(Here)
  BY <1>2, DirectedIs DEF Here
<1>4. opts.prefix \in Nat /\ defaults \in Seq(ActionSet) /\ Tier \in 0..5
  BY <1>0, SettingsAre, TierTyped DEF Typed
<1>5. Translated(Here, defaults, opts.prefix, Tier).rule \in Seq(Imports)
  BY <1>3, <1>4, TranslatedIs
<1>6. imported' = imported \o Translated(Here, defaults, opts.prefix, Tier).rule
  BY Zenon DEF SecRule
<1>7. imported' \in Seq(Imports)
  BY <1>0, <1>5, <1>6, RangeOfJoin DEF Typed
<1>8. Consumed(ds, at) \in Nat
  BY <1>2, ConsumedIs
<1>9. 1 + Consumed(ds, at) \in Nat \ {0}
  BY <1>8
<1>10. Onward(1 + Consumed(ds, at)) /\ defaults' = defaults
  BY Zenon DEF SecRule
<1> QED
  BY <1>0, <1>1, <1>4, <1>7, <1>9, <1>10, OnwardIs

LEMMA DefaultStep == IInv /\ SecDefaultAction => IInv'
<1> SUFFICES ASSUME IInv, SecDefaultAction PROVE IInv'
  OBVIOUS
<1>0. Typed
  BY DEF IInv
<1>1. stage = "translate" /\ at <= Len(ds)
  BY DEF SecDefaultAction, Reading
<1>2. at \in 1..Len(ds) /\ ds \in Seq(Directives)
  BY <1>0, <1>1 DEF Typed
<1>3. PICK args \in Seq(Seq(Int)) : args = Here.args
  BY <1>2, DirectedIs DEF Here, Directed
<1>4. args # <<>> => Last(args) \in Seq(Int)
  BY DEF Last
<1>5. args # <<>> => ActionsOf(Last(args)) \in Seq(ActionSet)
  BY <1>4, ActionsAre
<1>6. defaults' = IF args = <<>> THEN defaults ELSE ActionsOf(Last(args))
  BY <1>3 DEF SecDefaultAction
<1>7. defaults' \in Seq(ActionSet)
  BY <1>0, <1>5, <1>6 DEF Typed
<1>8. Onward(1) /\ imported' = imported /\ 1 \in Nat \ {0}
  BY DEF SecDefaultAction
<1>9. imported' \in Seq(Imports)
  BY <1>0, <1>8 DEF Typed
<1> QED
  BY <1>0, <1>1, <1>7, <1>8, <1>9, OnwardIs

LEMMA PassedStep == IInv /\ (OpenGate \/ SecMarker \/ Collected \/ Untranslatable) => IInv'
<1> SUFFICES ASSUME IInv, OpenGate \/ SecMarker \/ Collected \/ Untranslatable PROVE IInv'
  OBVIOUS
<1>0. Typed
  BY DEF IInv
<1>1. stage = "translate" /\ Onward(1) /\ defaults' = defaults /\ imported' = imported
  BY DEF OpenGate, SecMarker, Collected, Untranslatable, Reading
<1>2. defaults' \in Seq(ActionSet) /\ imported' \in Seq(Imports) /\ 1 \in Nat \ {0}
  BY <1>0, <1>1 DEF Typed
<1> QED
  BY <1>0, <1>1, <1>2, OnwardIs

LEMMA ImportedStep == IInv /\ Imported => IInv'
<1> SUFFICES ASSUME IInv, Imported PROVE IInv'
  OBVIOUS
<1>0. Typed
  BY DEF IInv
<1>1. imported' = Spared(imported, removed, opts.prefix) /\ stage' \in {"refused", "imported"}
      /\ UNCHANGED <<file, opts, ds, at, defaults>>
  BY DEF Imported
<1>2. imported' \in Seq(Imports)
  BY <1>0, <1>1, RangeOfThose DEF Typed, Spared
<1>3. Typed'
  BY <1>0, <1>1, <1>2 DEF Typed
<1> QED
  BY <1>1, <1>3 DEF IInv, Generated, Planned, Compiled

LEMMA GenerateStep == IInv /\ Generate => IInv'
<1> SUFFICES ASSUME IInv, Generate PROVE IInv'
  OBVIOUS
<1>0. Typed /\ imported \in Seq(Imports)
  BY DEF IInv, Typed
<1>1. UNCHANGED <<file, opts, ds, at, defaults, imported>>
  BY DEF Generate
<1>2. Typed'
  BY <1>0, <1>1 DEF Typed
<1>3. CASE \A k \in DOMAIN imported : Renderable(imported[k])
  <2>1. stage' = "generated" /\ ready' = [k \in DOMAIN imported |-> Regenerated(imported[k])]
    BY <1>3 DEF Generate
  <2>2. \A k \in DOMAIN imported : Regenerated(imported[k]) = Clamped(imported[k])
    BY <1>0, <1>3, RegeneratedIs DEF Renderable
  <2>4. ready' = [k \in DOMAIN imported |-> Clamped(imported[k])]
    BY <2>1, <2>2
  <2> QED
    BY <1>1, <1>2, <2>1, <2>4 DEF IInv, Generated, Planned, Compiled
<1>4. CASE ~\A k \in DOMAIN imported : Renderable(imported[k])
  <2>1. stage' = "refused"
    BY <1>4 DEF Generate
  <2> QED
    BY <1>2, <2>1 DEF IInv, Generated, Planned, Compiled
<1> QED
  BY <1>3, <1>4

LEMMA NewStep == IInv /\ New => IInv'
<1> SUFFICES ASSUME IInv, New PROVE IInv'
  OBVIOUS
<1>0. Typed /\ Generated
  BY DEF IInv
<1>1. UNCHANGED <<file, opts, ds, at, defaults, imported>>
  BY DEF New
<1>2. Typed'
  BY <1>0, <1>1 DEF Typed
<1>3. PICK own : own = IF stage = "generated" THEN ready ELSE imported
  OBVIOUS
<1>7. own \in Seq(Imports)
  <2>1. imported \in Seq(Imports)
    BY <1>0 DEF Typed
  <2>2. CASE stage # "generated"
    BY <1>3, <2>1, <2>2
  <2>3. CASE stage = "generated"
    <3>1. own = [k \in DOMAIN imported |-> Clamped(imported[k])]
      BY <1>0, <1>3, <2>3 DEF Generated
    <3>2. own = [k \in DOMAIN imported |-> own[k]]
      BY <3>1
    <3>3. \A k \in 1..Len(imported) : own[k] \in Imports
      BY <2>1, <3>1, ClampedIs
    <3> QED
      BY ONLY <2>1, <3>2, <3>3, MapIs
  <2> QED
    BY <2>2, <2>3
<1>4. ready' = Set(own)
  BY <1>3 DEF New, Set
<1>5. (stage' = "compiled" /\ Valid(ready', FALSE) /\ plan' = Compile(ready')) \/ stage' = "refused"
  BY DEF New
<1>8. \A e : (e = own) => Set(e)' = Set(own)
  BY <1>1 DEF Set
<1>6. stage' = "compiled" => \E e \in Seq(Imports) : ready' = Set(e)' /\ Valid(ready', FALSE) /\ plan' = Compile(ready')
  BY Zenon, <1>4, <1>5, <1>7, <1>8
<1>9. Planned'
  BY Zenon, <1>6 DEF Planned, SetOf, Compiled
<1>10. Generated'
  BY <1>5 DEF Generated
<1> QED
  BY <1>2, <1>9, <1>10 DEF IInv

LEMMA IInvNext == IInv /\ [Next]_vars => IInv'
<1> SUFFICES ASSUME IInv, [Next]_vars PROVE IInv'
  OBVIOUS
<1>1. CASE UNCHANGED vars
  BY <1>1 DEF IInv, Typed, Generated, Planned, SetOf, Compiled, Set, vars
<1> QED
  BY <1>1, ReadStep, CollectStep, SecRuleStep, DefaultStep, PassedStep, ImportedStep, GenerateStep, NewStep DEF Next

\* The rules in hand are well formed wherever the import stands, what was
\* generated is what was imported, and a plan is the one of its valid set
\* (the types of parser.go, compile.go and generate.go, New).
THEOREM Typing == Spec => []IInv
  BY InitIInv, IInvNext, PTL DEF Spec

\* The generated source is the imported ruleset: same numbers, phases and
\* tiers, the tier that types does not have aside, and every operator decides
\* every value alike (Generate, renderOperator and the rules they are read
\* back as).
THEOREM Generating == Spec => []GeneratedSame
<1>1. IInv => GeneratedSame
  <2> SUFFICES ASSUME IInv, stage = "generated" PROVE GeneratedSame
    BY DEF GeneratedSame
  <2>1. ready = [k \in DOMAIN imported |-> Clamped(imported[k])] /\ imported \in Seq(Imports)
    BY DEF IInv, Generated, Typed
  <2>2. \A k \in DOMAIN imported : imported[k] \in Imports
    BY <2>1
  <2>3. ready = [k \in DOMAIN imported |-> ready[k]] /\ DOMAIN ready = DOMAIN imported
    BY <2>1
  <2>4. \A k \in 1..Len(imported) : ready[k] \in Imports
    BY <2>1, <2>2, ClampedIs
  <2>5. imported \in Seq(Imports)
    BY <2>1
  <2>6. ready \in Seq(Imports)
    BY ONLY <2>3, <2>4, <2>5, MapIs
  <2>7. Len(ready) = Len(imported)
    BY <2>3, <2>5, <2>6
  <2>8. ASSUME NEW k \in DOMAIN ready
        PROVE  /\ Alike(ready[k], imported[k]) /\ ready[k].op = imported[k].op
               /\ ready[k].confidence = IF imported[k].confidence \in 0..4 THEN imported[k].confidence ELSE 0
    <3>1. ready[k] = Clamped(imported[k]) /\ imported[k] \in Imports
      BY <2>1, <2>2, <2>3
    <3> QED
      BY <3>1, ClampedIs
  <2> QED
    BY <2>7, <2>8 DEF GeneratedSame, Alike
<1> QED
  BY <1>1, Typing, PTL
-----------------------------------------------------------------------------
(***************************************************************************)
(* Patterns: what a matched value must contain.                            *)
(***************************************************************************)
\* w lies in v at i, whatever the case of its letters.
Lies(v, i, w) == i + Len(w) - 1 <= Len(v) /\ \A k \in DOMAIN w : Fold(v[i + k - 1]) = Fold(w[k])

\* One of ws lies in v somewhere.
Somewhere(v, ws) == \E k \in 1..Len(ws), j \in 1..(Len(v) + 1) : Lies(v, j, ws[k])

\* One of ws lies in v at i.
AnyAt(v, i, ws) == \E k \in 1..Len(ws) : Lies(v, i, ws[k])

LEMMA LiesNothing ==
  ASSUME NEW v \in Seq(Int), NEW i \in 1..(Len(v) + 1)
  PROVE  Lies(v, i, <<>>)
<1>1. Len(v) \in Nat /\ Len(<<>>) = 0 /\ DOMAIN <<>> = {}
  OBVIOUS
<1> QED
  BY <1>1 DEF Lies

LEMMA LiesJoined ==
  ASSUME NEW v \in Seq(Int), NEW i \in Nat \ {0}, NEW p \in Seq(Int), NEW q \in Seq(Int),
         Lies(v, i, p), Lies(v, i + Len(p), q)
  PROVE  Lies(v, i, p \o q)
<1>1. PICK n \in Nat, a \in Nat, b \in Nat : n = Len(v) /\ a = Len(p) /\ b = Len(q)
  OBVIOUS
<1>2. /\ p \o q \in Seq(Int) /\ Len(p \o q) = a + b
      /\ \A k \in 1..a : (p \o q)[k] = p[k]
      /\ \A k \in 1..(a + b) : k \notin 1..a => (k - a \in 1..b /\ (p \o q)[k] = q[k - a])
  BY <1>1, JoinIs
<1>0. DOMAIN p = 1..a /\ DOMAIN q = 1..b
  BY <1>1, DomainOfSeq
<1>3. \A k \in 1..a : Fold(v[i + k - 1]) = Fold(p[k])
  BY <1>0, <1>1 DEF Lies
<1>4. (i + a) + b - 1 <= n /\ \A k \in 1..b : Fold(v[(i + a) + k - 1]) = Fold(q[k])
  <2>1. PICK at_ \in Nat : at_ = i + a
    OBVIOUS
  <2>2. Lies(v, at_, q)
    BY <1>1, <2>1
  <2>3. at_ + b - 1 <= n /\ \A k \in 1..b : Fold(v[at_ + k - 1]) = Fold(q[k])
    BY <1>0, <1>1, <2>2 DEF Lies
  <2> QED
    BY <2>1, <2>3
<1>5. ASSUME NEW k \in 1..(a + b) PROVE Fold(v[i + k - 1]) = Fold((p \o q)[k])
  <2>1. CASE k \in 1..a
    BY <1>2, <1>3, <2>1
  <2>2. CASE k \notin 1..a
    <3>1. k - a \in 1..b /\ (p \o q)[k] = q[k - a]
      BY <1>2, <2>2
    <3>2. Fold(v[(i + a) + (k - a) - 1]) = Fold(q[k - a])
      BY <1>4, <3>1
    <3>3. (i + a) + (k - a) - 1 = i + k - 1
      OBVIOUS
    <3> QED
      BY <3>1, <3>2, <3>3
  <2> QED
    BY <2>1, <2>2
<1>6. i + (a + b) - 1 <= n
  BY <1>4
<1>7. DOMAIN (p \o q) = 1..(a + b)
  BY <1>1, <1>2, DomainOfSeq
<1> QED
  BY <1>1, <1>2, <1>5, <1>6, <1>7 DEF Lies

LEMMA LiteralLies ==
  ASSUME NEW v \in Seq(Int), NEW node, NEW i \in Nat \ {0}, node.s \in Seq(Int),
         HasAt(v, i, Len(node.s)), \A k \in DOMAIN node.s : SameByte(node, v[i + k - 1], node.s[k])
  PROVE  Lies(v, i, node.s)
<1>1. \A a, b : SameByte(node, a, b) => Fold(a) = Fold(b)
  BY DEF SameByte
<1> QED
  BY <1>1 DEF Lies, HasAt

-----------------------------------------------------------------------------
(* The tables that Upward builds.                                            *)
Table(f, T, n, row) ==
  /\ f \in [0..n -> Seq(T)]
  /\ f[0] = <<>>
  /\ \A k \in 1..n : f[k] = Append(f[k - 1], row[k]) /\ row[k] \in T

Kept(f, n, row) == \A k \in 0..n : \A j \in 1..k : f[k][j] = row[j]

LEMMA TableIs ==
  ASSUME NEW T, NEW n \in Nat, NEW f, NEW row, Table(f, T, n, row)
  PROVE  Kept(f, n, row)
<1>1. f[0] = <<>> /\ \A k \in 1..n : f[k] = Append(f[k - 1], row[k]) /\ row[k] \in T
  BY DEF Table
<1>2. \A k \in 0..n : f[k] \in Seq(T)
  BY DEF Table
<1> DEFINE good == {k \in 0..n : Len(f[k]) = k /\ \A j \in 1..k : f[k][j] = row[j]}
<1>3. 0 \in good
  BY <1>1
<1>4. ASSUME NEW k \in 1..n, k - 1 \in good PROVE k \in good
  <2>1. PICK s \in Seq(T) : s = f[k - 1]
    BY <1>2
  <2>2. Len(s) = k - 1 /\ \A j \in 1..(k - 1) : s[j] = row[j]
    BY <1>4, <2>1
  <2>3. f[k] = Append(s, row[k]) /\ row[k] \in T
    BY <1>1, <2>1
  <2>4. /\ Len(Append(s, row[k])) = Len(s) + 1 /\ Append(s, row[k])[Len(s) + 1] = row[k]
        /\ \A j \in 1..Len(s) : Append(s, row[k])[j] = s[j]
    BY <2>3, AppendIs
  <2>5. Len(f[k]) = k
    BY <2>2, <2>3, <2>4
  <2>6. ASSUME NEW j \in 1..k PROVE f[k][j] = row[j]
    <3>1. CASE j = k
      BY <2>2, <2>3, <2>4, <3>1
    <3>2. CASE j # k
      <4>1. j \in 1..(k - 1)
        BY <3>2
      <4> QED
        BY <2>2, <2>3, <2>4, <4>1
    <3> QED
      BY <3>1, <3>2
  <2> QED
    BY <2>5, <2>6
<1> HIDE DEF good
<1>5. 0..n \subseteq good
  BY <1>3, <1>4, UpTo
<1>6. \A k \in 0..n : \A j \in 1..k : f[k][j] = row[j]
  BY <1>5 DEF good
<1> QED
  BY <1>6 DEF Kept
-----------------------------------------------------------------------------
PlacesOf(v) == 1..(Len(v) + 1)

LEMMA AfterIs ==
  ASSUME NEW P, NEW ends \in [P -> SUBSET P], NEW here \in SUBSET P
  PROVE  /\ After(ends, here) \in SUBSET P
         /\ \A e : e \in After(ends, here) <=> \E j \in here : e \in ends[j]
  BY DEF After

Turns(node, done, v, i) == FoldLeft(LAMBDA here, b : here \cup After(done[node.sub[1]], here), {i}, v)
\* done says for the members of K where a match can end.
Spanned(done, K, P) == \A k \in K : done[k] \in [P -> SUBSET P]

Along(done, sub, i) == FoldLeft(LAMBDA here, k : After(done[k], here), {i}, sub)

\* What f makes of a repetition: every pass adds where one more turn can end.
TurnsRun(f, P, node, done, v, i) ==
  /\ f \in [0..Len(v) -> SUBSET P]
  /\ f[0] = {i}
  /\ \A k \in 1..Len(v) : f[k] = f[k - 1] \cup After(done[node.sub[1]], f[k - 1])
  /\ Turns(node, done, v, i) = f[Len(v)]

LEMMA TurnsFold ==
  ASSUME NEW P, NEW node, NEW done, done[node.sub[1]] \in [P -> SUBSET P], NEW i \in P, NEW v \in Seq(Int)
  PROVE  \E f : TurnsRun(f, P, node, done, v, i)
<1> DEFINE T == SUBSET P
           El == Int
           op(here, b) == here \cup After(done[node.sub[1]], here)
           base == {i}
           step == [p \in T \X El |-> op(p[1], p[2])]
           Is(h) == h = [S \in SUBSET DOMAIN v |->
                           IF S = {} THEN base ELSE op(h[S \ {Max(S)}], v[Max(S)])]
           iter == CHOOSE h : Is(h)
<1>1. base \in T
  OBVIOUS
<1>a. \A t \in T, x \in El : op(t, x) \in T
  BY AfterIs
<1>2. Turns(node, done, v, i) = iter[DOMAIN v]
  BY DEF Turns, FoldLeft, MapThenFoldSet
<1>0. v \in Seq(El)
  OBVIOUS
<1> HIDE DEF op, base, T, El
<1>3. step \in [T \X El -> T]
  BY <1>a
<1>b. \A t \in T, x \in El : step[<<t, x>>] = op(t, x)
  OBVIOUS
<1> HIDE DEF step
<1>4. PICK g : Partial(g, T, v, base, step, Len(v))
  BY <1>0, <1>1, <1>3, FoldExists
<1>5. ASSUME NEW S \in SUBSET DOMAIN v, S # {} PROVE g[S] = op(g[S \ {Max(S)}], v[Max(S)])
  <2>1. Max(S) \in S /\ g[S] = step[<<g[S \ {Max(S)}], v[Max(S)]>>] /\ g \in [SUBSET DOMAIN v -> T]
    BY <1>0, <1>4, <1>5, DomainOfSeq DEF Partial
  <2>2. g[S \ {Max(S)}] \in T /\ v[Max(S)] \in El
    BY <1>0, <2>1
  <2> QED
    BY <1>b, <2>1, <2>2
<1>6. g[{}] = base /\ g = [S \in SUBSET DOMAIN v |-> g[S]]
  BY <1>0, <1>4, PartialBase
<1>7. Is(iter)
  <2>1. Is(g)
    BY <1>5, <1>6
  <2> QED
    BY <2>1
<1> HIDE DEF iter
<1>8. iter[{}] = base
  BY <1>7
<1>9. ASSUME NEW S \in SUBSET DOMAIN v, S # {}, iter[S \ {Max(S)}] \in T, v[Max(S)] \in El
      PROVE  iter[S] = step[<<iter[S \ {Max(S)}], v[Max(S)]>>]
  BY <1>7, <1>9, <1>b
<1> HIDE DEF Is
<1>10. Steps(iter, T, El, v, base, step)
  BY <1>8, <1>9 DEF Steps
<1>12. PICK f : Runs(f, T, v, base, step, iter[DOMAIN v])
  BY <1>0, <1>1, <1>3, <1>10, FoldRuns
<1>13. f \in [0..Len(v) -> T] /\ f[0] = base /\ f[Len(v)] = iter[DOMAIN v]
  BY <1>12 DEF Runs
<1>11. \A k \in 1..Len(v) : f[k] = op(f[k - 1], v[k])
  BY <1>0, <1>b, <1>12, <1>13, InsideFold DEF Runs
<1> QED
  BY <1>2, <1>11, <1>13 DEF op, base, T, TurnsRun

\* What f makes of a concatenation: from part to part.
AlongRun(f, P, done, sub, i) ==
  /\ f \in [0..Len(sub) -> SUBSET P]
  /\ f[0] = {i}
  /\ \A k \in 1..Len(sub) : f[k] = After(done[sub[k]], f[k - 1])
  /\ Along(done, sub, i) = f[Len(sub)]

LEMMA AlongFold ==
  ASSUME NEW P, NEW K, NEW done, Spanned(done, K, P), NEW i \in P, NEW sub \in Seq(K)
  PROVE  \E f : AlongRun(f, P, done, sub, i)
<1> DEFINE T == SUBSET P
           El == K
           op(here, k) == After(done[k], here)
           base == {i}
           step == [p \in T \X El |-> op(p[1], p[2])]
           Is(h) == h = [S \in SUBSET DOMAIN sub |->
                           IF S = {} THEN base ELSE op(h[S \ {Max(S)}], sub[Max(S)])]
           iter == CHOOSE h : Is(h)
<1>1. base \in T
  OBVIOUS
<1>a. \A t \in T, x \in El : op(t, x) \in T
  BY AfterIs DEF Spanned
<1>2. Along(done, sub, i) = iter[DOMAIN sub]
  BY DEF Along, FoldLeft, MapThenFoldSet
<1>0. sub \in Seq(El)
  OBVIOUS
<1> HIDE DEF op, base, T, El
<1>3. step \in [T \X El -> T]
  BY <1>a
<1>b. \A t \in T, x \in El : step[<<t, x>>] = op(t, x)
  OBVIOUS
<1> HIDE DEF step
<1>4. PICK g : Partial(g, T, sub, base, step, Len(sub))
  BY <1>0, <1>1, <1>3, FoldExists
<1>5. ASSUME NEW S \in SUBSET DOMAIN sub, S # {} PROVE g[S] = op(g[S \ {Max(S)}], sub[Max(S)])
  <2>1. Max(S) \in S /\ g[S] = step[<<g[S \ {Max(S)}], sub[Max(S)]>>] /\ g \in [SUBSET DOMAIN sub -> T]
    BY <1>0, <1>4, <1>5, DomainOfSeq DEF Partial
  <2>2. g[S \ {Max(S)}] \in T /\ sub[Max(S)] \in El
    BY <1>0, <2>1
  <2> QED
    BY <1>b, <2>1, <2>2
<1>6. g[{}] = base /\ g = [S \in SUBSET DOMAIN sub |-> g[S]]
  BY <1>0, <1>4, PartialBase
<1>7. Is(iter)
  <2>1. Is(g)
    BY <1>5, <1>6
  <2> QED
    BY <2>1
<1> HIDE DEF iter
<1>8. iter[{}] = base
  BY <1>7
<1>9. ASSUME NEW S \in SUBSET DOMAIN sub, S # {}, iter[S \ {Max(S)}] \in T, sub[Max(S)] \in El
      PROVE  iter[S] = step[<<iter[S \ {Max(S)}], sub[Max(S)]>>]
  BY <1>7, <1>9, <1>b
<1> HIDE DEF Is
<1>10. Steps(iter, T, El, sub, base, step)
  BY <1>8, <1>9 DEF Steps
<1>12. PICK f : Runs(f, T, sub, base, step, iter[DOMAIN sub])
  BY <1>0, <1>1, <1>3, <1>10, FoldRuns
<1>13. f \in [0..Len(sub) -> T] /\ f[0] = base /\ f[Len(sub)] = iter[DOMAIN sub]
  BY <1>12 DEF Runs
<1>11. \A k \in 1..Len(sub) : f[k] = op(f[k - 1], sub[k])
  BY <1>0, <1>b, <1>12, <1>13, InsideFold DEF Runs
<1> QED
  BY <1>2, <1>11, <1>13 DEF op, base, T, AlongRun

LEMMA TurnsAre ==
  ASSUME NEW P, NEW node, NEW done, done[node.sub[1]] \in [P -> SUBSET P], NEW i \in P, NEW v \in Seq(Int)
  PROVE  Turns(node, done, v, i) \in SUBSET P /\ (done[node.sub[1]][i] = {} => Turns(node, done, v, i) = {i})
<1>1. PICK f : TurnsRun(f, P, node, done, v, i)
  BY TurnsFold
<1>2. PICK n \in Nat : n = Len(v)
  OBVIOUS
<1>3. f \in [0..n -> SUBSET P] /\ f[0] = {i} /\ Turns(node, done, v, i) = f[n]
  BY <1>1, <1>2 DEF TurnsRun
<1>4. \A k \in 1..n : f[k] = f[k - 1] \cup After(done[node.sub[1]], f[k - 1])
  BY <1>1, <1>2 DEF TurnsRun
<1>5. Turns(node, done, v, i) \in SUBSET P
  BY <1>3
<1>6. ASSUME done[node.sub[1]][i] = {} PROVE Turns(node, done, v, i) = {i}
  <2> DEFINE good == {k \in 0..n : f[k] = {i}}
  <2>1. 0 \in good
    BY <1>3
  <2>2. After(done[node.sub[1]], {i}) = {}
    BY <1>6 DEF After
  <2>3. ASSUME NEW k \in 1..n, k - 1 \in good PROVE k \in good
    <3>1. f[k - 1] = {i}
      BY <2>3
    <3>2. f[k] = f[k - 1] \cup After(done[node.sub[1]], f[k - 1])
      BY <1>4
    <3>3. f[k] = {i}
      BY <2>2, <3>1, <3>2
    <3> QED
      BY <3>3
  <2> HIDE DEF good
  <2>4. 0..n \subseteq good
    BY <2>1, <2>3, UpTo
  <2>5. n \in good
    BY <2>4
  <2> QED
    BY <1>3, <2>5 DEF good
<1> QED
  BY <1>5, <1>6

LEMMA AlongIs ==
  ASSUME NEW P, NEW K, NEW done, Spanned(done, K, P), NEW i \in P, NEW sub \in Seq(K)
  PROVE  Along(done, sub, i) \in SUBSET P
<1>1. PICK f : AlongRun(f, P, done, sub, i)
  BY AlongFold
<1>2. Len(sub) \in 0..Len(sub)
  OBVIOUS
<1> QED
  BY <1>1, <1>2 DEF AlongRun

\* The subexpressions of the node are members of K.
Reaches(node, K) ==
  /\ \A j \in DOMAIN node.sub : node.sub[j] \in K
  /\ node.op \in {"star", "plus", "quest", "cap"} => Len(node.sub) = 1

LEMMA EndsAtIs ==
  ASSUME NEW v \in Seq(Int), NEW node \in Nodes, NEW P, P = PlacesOf(v), NEW i \in P,
         NEW K, NEW done, Spanned(done, K, P),
         Reaches(node, K)
  PROVE  EndsAt(node, done, v, i) \in SUBSET P
<1>0. node.op \in NodeNames /\ node.s \in Seq(Int) /\ node.sub \in Seq(Nat)
  BY DEF Nodes
<1>1. PICK sub \in Seq(Nat) : sub = node.sub
  BY <1>0
<1>2. \A j \in 1..Len(sub) : sub[j] \in K
  BY <1>1 DEF Reaches
<1>3. sub \in Seq(K)
  BY SMTT(30), <1>2
<1>4. PICK n \in Nat : n = Len(v) /\ P = 1..(n + 1)
  BY DEF PlacesOf
<1>5. PICK ends : ends = EndsAt(node, done, v, i)
  OBVIOUS
<1>6. PICK op \in NodeNames : op = node.op
  BY <1>0
<1>7. CASE op \in {"star", "plus", "quest", "cap"}
  <2>1. Len(sub) = 1
    BY <1>1, <1>6, <1>7 DEF Reaches
  <2>2. sub[1] \in K
    BY <1>2, <2>1
  <2>3. PICK own \in [P -> SUBSET P] : own = done[node.sub[1]]
    BY <1>1, <2>2 DEF Spanned
  <2>7. PICK grown \in SUBSET P : grown = Turns(node, done, v, i)
    BY <2>3, TurnsAre
  <2>4. own[i] \in SUBSET P
    OBVIOUS
  <2>5. After(own, grown) \in SUBSET P
    BY AfterIs
  <2>6. ends \in {grown, After(own, grown), {i} \cup own[i], own[i]}
    <3>2. CASE op = "star"
      BY Zenon, <1>5, <1>6, <2>7, <3>2 DEF EndsAt, Turns
    <3>3. CASE op = "plus"
      BY Zenon, <1>5, <1>6, <2>3, <2>7, <3>3 DEF EndsAt, Turns
    <3>4. CASE op = "quest"
      BY Zenon, <1>5, <1>6, <2>3, <3>4 DEF EndsAt
    <3>5. CASE op = "cap"
      BY Zenon, <1>5, <1>6, <2>3, <3>5 DEF EndsAt
    <3> QED
      BY <1>7, <3>2, <3>3, <3>4, <3>5
  <2> QED
    BY <1>5, <2>4, <2>5, <2>6
<1>8. CASE op = "lit"
  <2>1. ends \in {{}, {i + Len(node.s)}} /\ (ends = {} \/ HasAt(v, i, Len(node.s)))
    BY Zenon, <1>5, <1>6, <1>8 DEF EndsAt
  <2>2. PICK m \in Nat : m = Len(node.s)
    BY <1>0
  <2>3. ends = {} \/ i + m - 1 <= n
    BY <1>4, <2>1, <2>2 DEF HasAt
  <2>4. i + m - 1 <= n => i + m \in P
    BY <1>4
  <2> QED
    BY <1>5, <2>1, <2>2, <2>3, <2>4
<1>9. CASE op = "class"
  <2>1. ends = {} \/ (ends = {i + 1} /\ i <= n)
    BY Zenon, <1>4, <1>5, <1>6, <1>9 DEF EndsAt
  <2>2. i <= n => i + 1 \in P
    BY <1>4
  <2> QED
    BY <1>5, <2>1, <2>2
<1>10. CASE op = "cat"
  <2>1. ends = Along(done, node.sub, i)
    BY Zenon, <1>5, <1>6, <1>10 DEF EndsAt, Along
  <2>2. Along(done, sub, i) \in SUBSET P
    <3>1. PICK parts \in Seq(K) : parts = sub
      BY <1>3
    <3>2. i \in P /\ Spanned(done, K, P)
      OBVIOUS
    <3>3. Along(done, parts, i) \in SUBSET P
      BY ONLY <3>2, parts \in Seq(K), AlongIs
    <3> QED
      BY <3>1, <3>3
  <2> QED
    BY <1>1, <1>5, <2>1, <2>2
<1>11. CASE op = "alt"
  <2>1. ends = UNION {done[node.sub[k]][i] : k \in DOMAIN node.sub}
    BY Zenon, <1>5, <1>6, <1>11 DEF EndsAt
  <2>2. ASSUME NEW k \in DOMAIN node.sub PROVE done[node.sub[k]][i] \in SUBSET P
    <3>1. done[node.sub[k]] \in [P -> SUBSET P]
      BY DEF Spanned, Reaches
    <3> QED
      BY <3>1
  <2> QED
    BY <1>5, <2>1, <2>2
<1>12. CASE op \in {"begin", "end", "word"}
  <2>1. ends = {} \/ ends = {i}
    BY Zenon, <1>5, <1>6, <1>12 DEF EndsAt
  <2> QED
    BY <1>5, <2>1
<1> QED
  BY <1>7, <1>8, <1>9, <1>10, <1>11, <1>12 DEF NodeNames
-----------------------------------------------------------------------------
\* What f makes of the ends of matches: node by node.
EndsRun(f, row, re, v) ==
  /\ Table(f, [1..(Len(v) + 1) -> SUBSET (1..(Len(v) + 1))], Len(re), row)
  /\ \A k \in 1..Len(re) : row[k] = [i \in 1..(Len(v) + 1) |-> EndsAt(re[k], f[k - 1], v, i)]
  /\ Ends(re, v) = f[Len(re)]

LEMMA EndsTable ==
  ASSUME NEW v \in Seq(Int), NEW re \in Seq(Nodes), Ordered(re)
  PROVE  \E f, row : EndsRun(f, row, re, v)
<1> DEFINE T == [1..(Len(v) + 1) -> SUBSET (1..(Len(v) + 1))]
           At(node, done) == [i \in 1..(Len(v) + 1) |-> EndsAt(node, done, v, i)]
           Is(h) == h = [k \in 0..Len(re) |-> IF k = 0 THEN <<>> ELSE Append(h[k - 1], At(re[k], h[k - 1]))]
           upTo == CHOOSE h : Is(h)
<1>1. ASSUME NEW k \in 1..Len(re), NEW done \in Seq(T), Len(done) = k - 1 PROVE At(re[k], done) \in T
  <2>1. PICK P : P = 1..(Len(v) + 1)
    OBVIOUS
  <2>7. P = PlacesOf(v)
    BY <2>1 DEF PlacesOf
  <2>2. PICK K : K = 1..(k - 1)
    OBVIOUS
  <2>3. Spanned(done, K, P)
    BY <1>1, <2>1, <2>2 DEF Spanned
  <2>4. PICK node \in Nodes : node = re[k]
    BY OrderedAt
  <2>5. Reaches(node, K)
    BY <2>2, <2>4, OrderedAt DEF Reaches
  <2>6. ASSUME NEW i \in P PROVE EndsAt(node, done, v, i) \in SUBSET P
    <3>1. v \in Seq(Int)
      OBVIOUS
    <3> QED
      BY ONLY node \in Nodes, i \in P, <2>7, <2>3, <2>5, <3>1, EndsAtIs
  <2> QED
    BY <2>1, <2>4, <2>6
<1>2. Ends(re, v) = upTo[Len(re)]
  BY DEF Ends, Upward
<1>0. PICK n \in Nat : n = Len(re)
  OBVIOUS
<1> HIDE DEF At, T
<1> DEFINE step == [p \in Seq(T) \X (1..n) |-> IF Len(p[1]) = p[2] - 1 THEN Append(p[1], At(re[p[2]], p[1])) ELSE <<>>]
<1>3. step \in [Seq(T) \X (1..n) -> Seq(T)]
  <2>1. ASSUME NEW d \in Seq(T), NEW k \in 1..n PROVE (IF Len(d) = k - 1 THEN Append(d, At(re[k], d)) ELSE <<>>) \in Seq(T)
    <3>1. Len(d) = k - 1 => At(re[k], d) \in T
      BY <1>0, <1>1
    <3> QED
      BY <3>1, AppendIs, NoneIs
  <2> QED
    BY <2>1
<1>4. \A d \in Seq(T), k \in 1..n : Len(d) = k - 1 => step[<<d, k>>] = Append(d, At(re[k], d))
  OBVIOUS
<1> HIDE DEF step
<1>b. PICK none \in Seq(T) : none = <<>>
  BY NoneIs
<1>5. PICK g : Iterated(g, Seq(T), n, none, step)
  BY <1>3, IterationExists
<1>6. g \in [0..n -> Seq(T)] /\ g[0] = none /\ \A k \in 1..n : g[k] = step[<<g[k - 1], k>>]
  BY <1>5 DEF Iterated
<1>7. \A k \in 0..n : Len(g[k]) = k
  <2> DEFINE good == {k \in 0..n : Len(g[k]) = k}
  <2>1. 0 \in good
    BY <1>b, <1>6
  <2>2. ASSUME NEW k \in 1..n, k - 1 \in good PROVE k \in good
    <3>1. PICK d \in Seq(T) : d = g[k - 1]
      BY <1>6
    <3>2. Len(d) = k - 1
      BY <2>2, <3>1
    <3>3. g[k] = Append(d, At(re[k], d)) /\ At(re[k], d) \in T
      BY <1>0, <1>1, <1>4, <1>6, <3>1, <3>2
    <3>4. Len(Append(d, At(re[k], d))) = Len(d) + 1
      BY <3>3, AppendIs
    <3> QED
      BY <3>2, <3>3, <3>4
  <2> HIDE DEF good
  <2>3. 0..n \subseteq good
    BY <2>1, <2>2, UpTo
  <2> QED
    BY <2>3 DEF good
<1>8. \A k \in 1..n : g[k - 1] \in Seq(T) /\ Len(g[k - 1]) = k - 1
  BY SMTT(30), <1>6, <1>7
<1>9. \A k \in 1..n : g[k] = Append(g[k - 1], At(re[k], g[k - 1]))
  BY <1>4, <1>6, <1>8
<1>10. Is(g)
  <2>1. g = [k \in 0..n |-> g[k]]
    BY <1>6
  <2>2. ASSUME NEW k \in 0..n PROVE g[k] = IF k = 0 THEN <<>> ELSE Append(g[k - 1], At(re[k], g[k - 1]))
    <3>1. CASE k = 0
      BY <1>b, <1>6, <3>1
    <3>2. CASE k # 0
      <4>1. k \in 1..n
        BY <3>2
      <4> QED
        BY SMTT(30), <1>9, <3>2, <4>1
    <3> QED
      BY <3>1, <3>2
  <2> QED
    BY <1>0, <2>1, <2>2
<1>11. Is(upTo)
  BY Zenon, <1>10
<1> HIDE DEF upTo
<1>12. /\ upTo = [k \in 0..n |-> upTo[k]] /\ upTo[0] = <<>>
       /\ \A k \in 1..n : upTo[k] = Append(upTo[k - 1], At(re[k], upTo[k - 1]))
  <2>1. upTo = [k \in 0..n |-> IF k = 0 THEN <<>> ELSE Append(upTo[k - 1], At(re[k], upTo[k - 1]))]
    BY <1>0, <1>11
  <2>2. upTo = [k \in 0..n |-> upTo[k]]
    BY <2>1
  <2>3. upTo[0] = <<>>
    BY <2>1
  <2>4. ASSUME NEW k \in 1..n PROVE upTo[k] = Append(upTo[k - 1], At(re[k], upTo[k - 1]))
    <3>1. k \in 0..n /\ k # 0
      OBVIOUS
    <3> QED
      BY <2>1, <3>1
  <2> QED
    BY <2>2, <2>3, <2>4
<1> HIDE DEF Is
<1>13. upTo = g
  <2> DEFINE good == {k \in 0..n : upTo[k] = g[k]}
  <2>1. 0 \in good
    BY <1>b, <1>6, <1>12
  <2>2. ASSUME NEW k \in 1..n, k - 1 \in good PROVE k \in good
    <3>1. upTo[k - 1] = g[k - 1]
      BY <2>2
    <3>2. upTo[k] = Append(upTo[k - 1], At(re[k], upTo[k - 1])) /\ g[k] = Append(g[k - 1], At(re[k], g[k - 1]))
      BY <1>9, <1>12
    <3>3. upTo[k] = g[k]
      BY <3>1, <3>2
    <3> QED
      BY <3>3
  <2> HIDE DEF good
  <2>3. 0..n \subseteq good
    BY <2>1, <2>2, UpTo
  <2>4. \A k \in 0..n : upTo[k] = g[k]
    BY <2>3 DEF good
  <2> QED
    BY <1>6, <1>12, <2>4
<1> DEFINE row == [k \in 1..n |-> At(re[k], g[k - 1])]
<1>14. \A k \in 1..n : row[k] = At(re[k], g[k - 1]) /\ row[k] \in T
  BY <1>0, <1>1, <1>8
<1> HIDE DEF row
<1>15. Table(g, T, n, row)
  BY <1>b, <1>6, <1>9, <1>14 DEF Table
<1>16. Ends(re, v) = g[n]
  BY <1>0, <1>2, <1>13
<1> QED
  BY ZenonT(40), <1>0, <1>14, <1>15, <1>16 DEF EndsRun, At, T

-----------------------------------------------------------------------------
(* The sets of literals.                                                     *)
LiteralSets == Seq(Seq(Int))

LEMMA AnyIs ==
  ASSUME NEW v, NEW i, NEW ws \in LiteralSets
  PROVE  /\ AnyAt(v, i, ws) <=> \E w \in Range(ws) : Lies(v, i, w)
         /\ Somewhere(v, ws) <=> \E w \in Range(ws), j \in 1..(Len(v) + 1) : Lies(v, j, w)
<1>1. DOMAIN ws = 1..Len(ws)
  BY DEF LiteralSets
<1>2. \A x : x \in Range(ws) <=> \E j \in 1..Len(ws) : ws[j] = x
  BY <1>1, RangeIs
<1>3. AnyAt(v, i, ws) <=> \E w \in Range(ws) : Lies(v, i, w)
  BY <1>2 DEF AnyAt
<1>4. Somewhere(v, ws) <=> \E w \in Range(ws), j \in 1..(Len(v) + 1) : Lies(v, j, w)
  BY <1>2 DEF Somewhere
<1> QED
  BY <1>3, <1>4

LEMMA AnySomewhere ==
  ASSUME NEW v, NEW i \in 1..(Len(v) + 1), NEW ws, AnyAt(v, i, ws)
  PROVE  Somewhere(v, ws)
  BY DEF AnyAt, Somewhere

LEMMA NoLiterals == <<>> \in LiteralSets
  BY NoneIs DEF LiteralSets

LEMMA OneLiteral ==
  ASSUME NEW w \in Seq(Int)
  PROVE  /\ <<w>> \in LiteralSets /\ <<w>> # <<>>
         /\ \A v, i : Lies(v, i, w) => AnyAt(v, i, <<w>>)
<1>1. <<w>> \in LiteralSets /\ Len(<<w>>) = 1 /\ <<w>>[1] = w
  BY OneWord DEF LiteralSets
<1>2. <<w>> # <<>>
  OBVIOUS
<1> QED
  BY <1>1, <1>2 DEF AnyAt

LEMMA ItselfIs ==
  ASSUME NEW w \in Seq(Int)
  PROVE  /\ Itself(w) \in LiteralSets
         /\ \A v, i : (Lies(v, i, w) /\ Itself(w) # <<>>) => AnyAt(v, i, Itself(w))
<1>1. Itself(w) = <<>> \/ Itself(w) = <<w>>
  BY DEF Itself
<1> QED
  BY <1>1, OneLiteral, NoLiterals

LEMMA ExtendAllIs ==
  ASSUME NEW p \in Seq(Int), NEW ws \in LiteralSets
  PROVE  /\ ExtendAll(p, ws) \in LiteralSets
         /\ ExtendAll(p, ws) # <<>> => ws # <<>>
         /\ \A v \in Seq(Int), i \in Nat \ {0} :
              (Lies(v, i, p) /\ AnyAt(v, i + Len(p), ws) /\ ExtendAll(p, ws) # <<>>) => AnyAt(v, i, ExtendAll(p, ws))
<1>1. PICK all : all = [k \in DOMAIN ws |-> p \o ws[k]]
  OBVIOUS
<1>2. all = [k \in DOMAIN ws |-> all[k]] /\ ws \in Seq(Seq(Int))
  BY <1>1 DEF LiteralSets
<1>3. ASSUME NEW k \in 1..Len(ws) PROVE all[k] = p \o ws[k] /\ all[k] \in Seq(Int) /\ ws[k] \in Seq(Int)
  <2>1. k \in DOMAIN ws /\ ws[k] \in Seq(Int)
    BY <1>2
  <2>2. all[k] = p \o ws[k]
    BY <1>1, <2>1
  <2> QED
    BY <2>1, <2>2, JoinIs
<1>4. all \in Seq(Seq(Int)) /\ Len(all) = Len(ws)
  <2>1. \A k \in 1..Len(ws) : all[k] \in Seq(Int)
    BY <1>3
  <2>2. PICK E : E = Seq(Int)
    OBVIOUS
  <2>3. ws \in Seq(E) /\ all = [k \in DOMAIN ws |-> all[k]] /\ \A k \in 1..Len(ws) : all[k] \in E
    BY <1>2, <2>1, <2>2
  <2>4. all \in Seq(E)
    BY ONLY <2>3, MapIs
  <2>5. Len(all) = Len(ws)
    BY <1>2, <2>2, <2>4
  <2> QED
    BY <2>2, <2>4, <2>5
<1>5. ExtendAll(p, ws) = <<>> \/ ExtendAll(p, ws) = all
  BY <1>1 DEF ExtendAll
<1>6. ExtendAll(p, ws) \in LiteralSets
  BY <1>4, <1>5, NoLiterals DEF LiteralSets
<1>7. ASSUME ExtendAll(p, ws) # <<>> PROVE ws # <<>>
  <2>1. Len(all) # 0
    BY <1>4, <1>5, <1>7, EmptyIs
  <2> QED
    BY <1>2, <1>4, <2>1, EmptyIs
<1>8. ASSUME NEW v \in Seq(Int), NEW i \in Nat \ {0}, Lies(v, i, p), AnyAt(v, i + Len(p), ws), ExtendAll(p, ws) # <<>>
      PROVE  AnyAt(v, i, ExtendAll(p, ws))
  <2>1. PICK k \in 1..Len(ws) : Lies(v, i + Len(p), ws[k])
    BY <1>8 DEF AnyAt
  <2>2. Lies(v, i, p \o ws[k])
    BY <1>3, <1>8, <2>1, LiesJoined
  <2>3. k \in 1..Len(all) /\ Lies(v, i, all[k])
    BY <1>3, <1>4, <2>2
  <2>4. AnyAt(v, i, all)
    BY <2>3 DEF AnyAt
  <2> QED
    BY <1>5, <1>8, <2>4
<1> QED
  BY <1>6, <1>7, <1>8

LEMMA UnionIs ==
  ASSUME NEW parts \in Seq(LiteralSets)
  PROVE  /\ Union(parts) \in LiteralSets
         /\ \A k \in 1..Len(parts) : Union(parts) # <<>> =>
              parts[k] # <<>> /\ \A x \in Range(parts[k]) : x \in Range(Union(parts))
<1>1. PICK T : T = Seq(Int)
  OBVIOUS
<1>2. parts \in Seq(Seq(T)) /\ LiteralSets = Seq(T)
  BY <1>1 DEF LiteralSets
<1>3. PICK flat : flat = FlattenSeq(parts)
  OBVIOUS
<1>4. flat \in Seq(T) /\ \A x : x \in Range(flat) <=> \E k \in 1..Len(parts) : x \in Range(parts[k])
  BY <1>2, <1>3, FlattenIs
<1>5. DOMAIN parts = 1..Len(parts)
  OBVIOUS
<1>6. Union(parts) = <<>> \/ (Union(parts) = flat /\ \A k \in 1..Len(parts) : parts[k] # <<>>)
  BY <1>3, <1>5 DEF Union
<1>7. Union(parts) \in LiteralSets
  BY <1>2, <1>4, <1>6, NoLiterals
<1> QED
  BY <1>4, <1>6, <1>7

LEMMA UnionHolds ==
  ASSUME NEW v, NEW i, NEW parts \in Seq(LiteralSets), NEW k \in 1..Len(parts), Union(parts) # <<>>
  PROVE  /\ AnyAt(v, i, parts[k]) => AnyAt(v, i, Union(parts))
         /\ Somewhere(v, parts[k]) => Somewhere(v, Union(parts))
<1>1. Union(parts) \in LiteralSets /\ parts[k] \in LiteralSets /\ \A x \in Range(parts[k]) : x \in Range(Union(parts))
  BY UnionIs
<1> QED
  BY <1>1, AnyIs

LEMMA ClassLiteralsAre ==
  ASSUME NEW ranges \in Seq(Int \X Int)
  PROVE  /\ ClassLiterals(ranges) \in LiteralSets
         /\ \A v \in Seq(Int) : \A i \in 1..Len(v), k \in 1..Len(ranges) :
              (v[i] \in ranges[k][1]..ranges[k][2] /\ ClassLiterals(ranges) # <<>>) => AnyAt(v, i, ClassLiterals(ranges))
<1> DEFINE one(r) == [k \in 1..(r[2] - r[1] + 1) |-> <<r[1] + k - 1>>]
<1>1. ASSUME NEW a \in Int, NEW b \in Int
      PROVE  /\ [k \in 1..(b - a + 1) |-> <<a + k - 1>>] \in LiteralSets
             /\ \A x \in a..b : <<x>> \in Range([k \in 1..(b - a + 1) |-> <<a + k - 1>>])
  <2>1. PICK own : own = [k \in 1..(b - a + 1) |-> <<a + k - 1>>]
    OBVIOUS
  <2>2. own \in LiteralSets
    <3>1. PICK m \in Nat : 1..m = 1..(b - a + 1)
      <4>1. CASE b - a + 1 >= 0
        <5>1. b - a + 1 \in Nat /\ 1..(b - a + 1) = 1..(b - a + 1)
          BY <4>1
        <5> QED
          BY <5>1
      <4>2. CASE b - a + 1 < 0
        <5>1. 1..0 = 1..(b - a + 1)
          BY <4>2
        <5> QED
          BY <5>1
      <4> QED
        BY <4>1, <4>2
    <3>2. \A k \in 1..m : <<a + k - 1>> \in Seq(Int)
      OBVIOUS
    <3>3. own = [k \in 1..m |-> <<a + k - 1>>]
      BY <2>1, <3>1
    <3> QED
      BY <3>2, <3>3 DEF LiteralSets
  <2>3. ASSUME NEW x \in a..b PROVE <<x>> \in Range(own)
    <3>1. PICK k \in 1..(b - a + 1) : k = x - a + 1
      OBVIOUS
    <3>2. a + k - 1 = x
      BY <3>1
    <3>3. k \in DOMAIN own /\ own[k] = <<x>>
      BY <2>1, <3>2
    <3> QED
      BY <3>3, RangeIs
  <2> QED
    BY <2>1, <2>2, <2>3
<1>2. PICK T : T = Seq(Int)
  OBVIOUS
<1>3. PICK parts : parts = [k \in DOMAIN ranges |-> one(ranges[k])]
  OBVIOUS
<1>4. ASSUME NEW k \in 1..Len(ranges)
      PROVE  /\ parts[k] \in LiteralSets
             /\ \A x \in ranges[k][1]..ranges[k][2] : <<x>> \in Range(parts[k])
  <2>1. k \in DOMAIN ranges /\ ranges[k] \in Int \X Int
    OBVIOUS
  <2>2. parts[k] = one(ranges[k])
    BY <1>3, <2>1
  <2>3. PICK a \in Int, b \in Int : a = ranges[k][1] /\ b = ranges[k][2]
    BY <2>1
  <2>4. parts[k] = [j \in 1..(b - a + 1) |-> <<a + j - 1>>]
    BY <2>2, <2>3
  <2> QED
    BY <1>1, <2>3, <2>4
<1>5. parts = [k \in DOMAIN ranges |-> parts[k]]
  BY <1>3
<1>6. parts \in Seq(LiteralSets) /\ Len(parts) = Len(ranges)
  <2>1. \A k \in 1..Len(ranges) : parts[k] \in LiteralSets
    BY <1>4
  <2>2. PICK E : E = Int \X Int
    OBVIOUS
  <2>3. ranges \in Seq(E)
    BY <2>2
  <2>4. parts \in Seq(LiteralSets)
    BY <1>5, <2>1, <2>3, MapIs
  <2>5. Len(parts) = Len(ranges)
    BY <1>5, <2>3, <2>4
  <2> QED
    BY <2>4, <2>5
<1>7. parts \in Seq(Seq(T)) /\ LiteralSets = Seq(T)
  BY <1>2, <1>6 DEF LiteralSets
<1>8. PICK flat : flat = FlattenSeq(parts)
  OBVIOUS
<1>9. flat \in LiteralSets /\ \A x : x \in Range(flat) <=> \E k \in 1..Len(parts) : x \in Range(parts[k])
  BY <1>7, <1>8, FlattenIs
<1>10. ClassLiterals(ranges) = <<>> \/ ClassLiterals(ranges) = flat
  BY <1>3, <1>8 DEF ClassLiterals
<1>11. ClassLiterals(ranges) \in LiteralSets
  BY <1>9, <1>10, NoLiterals
<1>12. ASSUME NEW v \in Seq(Int), NEW i \in 1..Len(v), NEW k \in 1..Len(ranges), v[i] \in ranges[k][1]..ranges[k][2],
              ClassLiterals(ranges) # <<>>
       PROVE  AnyAt(v, i, ClassLiterals(ranges))
  <2>1. PICK b \in Int : b = v[i]
    OBVIOUS
  <2>2. <<b>> \in Range(flat)
    BY <1>4, <1>6, <1>9, <1>12, <2>1
  <2>3. Len(<<b>>) = 1 /\ DOMAIN <<b>> = {1} /\ <<b>>[1] = b
    OBVIOUS
  <2>4. i + 1 - 1 <= Len(v) /\ i + 1 - 1 = i
    OBVIOUS
  <2>5. Lies(v, i, <<b>>)
    BY <2>1, <2>3, <2>4 DEF Lies
  <2>6. AnyAt(v, i, flat)
    BY <1>9, <2>2, <2>5, AnyIs
  <2> QED
    BY <1>10, <1>12, <2>6
<1> QED
  BY <1>11, <1>12

LEMMA ConsideredIs == \A best, c : Considered(best, c) \in {best, c}
  BY DEF Considered

LEMMA FlushedIs ==
  ASSUME NEW st, NEW run \in Seq(Int), NEW best \in LiteralSets, st.run = run, st.best = best, NEW next \in LiteralSets
  PROVE  /\ Flushed(st, next) \in LiteralSets
         /\ \/ Flushed(st, next) = best
            \/ Flushed(st, next) = <<run>>
            \/ Flushed(st, next) = ExtendAll(run, next) /\ ExtendAll(run, next) # <<>>
<1>1. PICK glued \in LiteralSets : glued = ExtendAll(run, next)
  BY ExtendAllIs
<1>2. Flushed(st, next) = IF run = <<>> THEN best ELSE Considered(best, IF glued # <<>> THEN glued ELSE <<run>>)
  BY <1>1 DEF Flushed
<1>3. <<run>> \in LiteralSets
  BY OneLiteral
<1> QED
  BY <1>1, <1>2, <1>3, ConsideredIs
-----------------------------------------------------------------------------
\* done has the literals of the members of K, for every depth.
Lettered(done, K) == \A k \in K : done[k] \in [Depths -> LiteralSets]

\* The literals of those nodes.
Known(re, K) == \A k \in K : re[k].s \in Seq(Int)

LEMMA DepthIs == \A depth \in Depths : depth \in Nat /\ (~(depth > MaxLiteralDepth) => depth + 1 \in Depths)
  BY DEF Depths, MaxLiteralDepth

LEMMA LetteredAt ==
  ASSUME NEW K, NEW done, Lettered(done, K), NEW k \in K, NEW depth \in Depths
  PROVE  done[k][depth] \in LiteralSets
<1>1. done[k] \in [Depths -> LiteralSets]
  BY DEF Lettered
<1> QED
  BY <1>1

\* What the branches say, one behind the other.
Branches(done, sub, depth) == [k \in DOMAIN sub |-> done[sub[k]][depth]]

LEMMA BranchesAre ==
  ASSUME NEW K, NEW done, Lettered(done, K), NEW sub \in Seq(K), NEW depth \in Depths
  PROVE  /\ Branches(done, sub, depth) \in Seq(LiteralSets)
         /\ Len(Branches(done, sub, depth)) = Len(sub)
         /\ \A k \in 1..Len(sub) : Branches(done, sub, depth)[k] = done[sub[k]][depth]
<1>1. PICK all : all = Branches(done, sub, depth)
  OBVIOUS
<1>2. all = [k \in DOMAIN sub |-> done[sub[k]][depth]]
  BY <1>1 DEF Branches
<1>3. all = [k \in DOMAIN sub |-> all[k]]
  BY <1>2
<1>4. \A k \in 1..Len(sub) : all[k] = done[sub[k]][depth] /\ sub[k] \in K
  BY <1>2
<1>5. \A k \in 1..Len(sub) : all[k] \in LiteralSets
  BY <1>4, LetteredAt
<1>6. all \in Seq(LiteralSets)
  BY <1>3, <1>5, MapIs
<1>7. Len(all) = Len(sub)
  BY <1>3, <1>6
<1> QED
  BY <1>1, <1>4, <1>6, <1>7

PrefixCases(re, node, done, depth, ps) ==
  \/ node.op = "lit" /\ ps = Itself(node.s)
  \/ node.op \in {"cap", "plus"} /\ ps = done[node.sub[1]][depth + 1]
  \/ node.op = "class" /\ ps = ClassLiterals(node.ranges)
  \/ node.op = "alt" /\ ps = Union(Branches(done, node.sub, depth + 1))
  \/ node.op = "cat" /\ node.sub # <<>> /\ ps = done[node.sub[1]][depth + 1]
  \/ /\ node.op = "cat" /\ node.sub # <<>> /\ re[node.sub[1]].op = "lit" /\ Len(node.sub) > 1
     /\ ps = ExtendAll(re[node.sub[1]].s, done[node.sub[2]][depth + 1])

LEMMA PrefixesSaid ==
  ASSUME NEW re, NEW node \in Nodes, NEW done, NEW depth \in Depths
  PROVE  \/ PrefixesAt(re, node, done, depth) = <<>>
         \/ depth + 1 \in Depths /\ PrefixCases(re, node, done, depth, PrefixesAt(re, node, done, depth))
<1>1. PICK ps : ps = PrefixesAt(re, node, done, depth)
  OBVIOUS
<1>2. PICK op : op = node.op
  OBVIOUS
<1>3. CASE depth > MaxLiteralDepth
  BY <1>1, <1>3 DEF PrefixesAt
<1>4. CASE ~(depth > MaxLiteralDepth)
  <2>0. depth + 1 \in Depths
    BY <1>4, DepthIs
  <2>1. CASE op = "lit"
    BY <1>1, <1>2, <1>4, <2>0, <2>1 DEF PrefixesAt, PrefixCases
  <2>2. CASE op \in {"cap", "plus"}
    BY <1>1, <1>2, <1>4, <2>0, <2>2 DEF PrefixesAt, PrefixCases
  <2>3. CASE op = "class"
    BY <1>1, <1>2, <1>4, <2>0, <2>3 DEF PrefixesAt, PrefixCases
  <2>4. CASE op = "alt"
    <3>1. ps = <<>> \/ ps = Union(Branches(done, node.sub, depth + 1))
      BY <1>1, <1>2, <1>4, <2>4 DEF PrefixesAt, Branches
    <3> QED
      BY <1>1, <1>2, <2>0, <2>4, <3>1 DEF PrefixCases
  <2>5. CASE op = "cat" /\ node.sub # <<>>
    <3>1. \/ ps = done[node.sub[1]][depth + 1]
          \/ /\ re[node.sub[1]].op = "lit" /\ Len(node.sub) > 1
             /\ ps = ExtendAll(re[node.sub[1]].s, done[node.sub[2]][depth + 1])
      BY <1>1, <1>2, <1>4, <2>5 DEF PrefixesAt
    <3> QED
      BY <1>1, <1>2, <2>0, <2>5, <3>1 DEF PrefixCases
  <2>6. CASE op \notin {"lit", "cap", "plus", "class", "alt"} /\ ~(op = "cat" /\ node.sub # <<>>)
    BY <1>1, <1>2, <1>4, <2>6 DEF PrefixesAt
  <2> QED
    BY <2>1, <2>2, <2>3, <2>4, <2>5, <2>6
<1> QED
  BY <1>3, <1>4

LEMMA SubIs ==
  ASSUME NEW node \in Nodes, NEW K, Reaches(node, K)
  PROVE  /\ node.sub \in Seq(K) /\ node.s \in Seq(Int) /\ node.ranges \in Seq(Int \X Int)
         /\ node.op \in {"star", "plus", "quest", "cap"} => node.sub[1] \in K /\ 1 \in DOMAIN node.sub
         /\ node.sub # <<>> => node.sub[1] \in K /\ 1 \in DOMAIN node.sub
         /\ Len(node.sub) > 1 => node.sub[2] \in K /\ 2 \in DOMAIN node.sub
<1>1. PICK sub \in Seq(Nat) : sub = node.sub
  BY DEF Nodes
<1>2. \A j \in 1..Len(sub) : sub[j] \in K
  BY <1>1 DEF Reaches
<1>3. sub \in Seq(K)
  BY <1>2
<1>4. node.op \in {"star", "plus", "quest", "cap"} => Len(sub) = 1
  BY <1>1 DEF Reaches
<1>5. sub # <<>> => 1 \in 1..Len(sub)
  BY EmptyIs
<1>6. (Len(sub) = 1 => 1 \in 1..Len(sub)) /\ (Len(sub) > 1 => 2 \in 1..Len(sub))
  OBVIOUS
<1>7. node.s \in Seq(Int) /\ node.ranges \in Seq(Int \X Int)
  BY DEF Nodes
<1>8. DOMAIN sub = 1..Len(sub)
  OBVIOUS
<1> QED
  BY <1>1, <1>2, <1>3, <1>4, <1>5, <1>6, <1>7, <1>8

LEMMA PrefixesAre ==
  ASSUME NEW re, NEW node \in Nodes, NEW K, Known(re, K), Reaches(node, K), NEW done, Lettered(done, K), NEW depth \in Depths
  PROVE  PrefixesAt(re, node, done, depth) \in LiteralSets
<1>1. PICK ps : ps = PrefixesAt(re, node, done, depth)
  OBVIOUS
<1>2. CASE ps = <<>>
  BY <1>1, <1>2, NoLiterals
<1>3. CASE ps # <<>>
  <2>1. depth + 1 \in Depths /\ PrefixCases(re, node, done, depth, ps)
    BY <1>1, <1>3, PrefixesSaid
  <2>2. PICK d \in Depths : d = depth + 1
    BY <2>1
  <2>3. node.s \in Seq(Int) /\ node.ranges \in Seq(Int \X Int) /\ node.sub \in Seq(K)
    BY SubIs
  <2>4. CASE ps = Itself(node.s)
    BY <1>1, <2>3, <2>4, ItselfIs
  <2>5. CASE ps = ClassLiterals(node.ranges)
    BY <1>1, <2>3, <2>5, ClassLiteralsAre
  <2>6. CASE ps = done[node.sub[1]][depth + 1] /\ (node.op \in {"cap", "plus"} \/ node.sub # <<>>)
    <3>1. node.sub[1] \in K
      BY <2>6, SubIs
    <3> QED
      BY <1>1, <2>2, <2>6, <3>1, LetteredAt
  <2>7. CASE ps = Union(Branches(done, node.sub, depth + 1))
    <3>1. Branches(done, node.sub, d) \in Seq(LiteralSets)
      BY <2>3, BranchesAre
    <3> QED
      BY <1>1, <2>2, <2>7, <3>1, UnionIs
  <2>8. CASE node.sub # <<>> /\ Len(node.sub) > 1 /\ ps = ExtendAll(re[node.sub[1]].s, done[node.sub[2]][depth + 1])
    <3>1. node.sub[1] \in K /\ node.sub[2] \in K
      BY <2>8, SubIs
    <3>2. re[node.sub[1]].s \in Seq(Int) /\ done[node.sub[2]][d] \in LiteralSets
      BY <3>1, LetteredAt DEF Known
    <3> QED
      BY <1>1, <2>2, <2>8, <3>2, ExtendAllIs
  <2> QED
    BY <2>1, <2>4, <2>5, <2>6, <2>7, <2>8 DEF PrefixCases
<1> QED
  BY <1>2, <1>3

\* What f makes of the prefixes: node by node.
PrefixRun(f, row, re) ==
  /\ Table(f, [Depths -> LiteralSets], Len(re), row)
  /\ \A k \in 1..Len(re) : row[k] = [depth \in Depths |-> PrefixesAt(re, re[k], f[k - 1], depth)]
  /\ LiteralPrefixes(re) = f[Len(re)]

LEMMA PrefixTable ==
  ASSUME NEW re \in Seq(Nodes), Ordered(re)
  PROVE  \E f, row : PrefixRun(f, row, re)
<1> DEFINE T == [Depths -> LiteralSets]
           At(node, done) == [depth \in Depths |-> PrefixesAt(re, node, done, depth)]
           Is(h) == h = [k \in 0..Len(re) |-> IF k = 0 THEN <<>> ELSE Append(h[k - 1], At(re[k], h[k - 1]))]
           upTo == CHOOSE h : Is(h)
<1>1. ASSUME NEW k \in 1..Len(re), NEW done \in Seq(T), Len(done) = k - 1 PROVE At(re[k], done) \in T
  <2>1. PICK K : K = 1..(k - 1)
    OBVIOUS
  <2>2. Lettered(done, K)
    BY <1>1, <2>1 DEF Lettered
  <2>3. PICK node \in Nodes : node = re[k]
    BY OrderedAt
  <2>4. Reaches(node, K)
    BY <2>1, <2>3, OrderedAt DEF Reaches
  <2>5. Known(re, K)
    <3>1. ASSUME NEW j \in K PROVE re[j].s \in Seq(Int)
      <4>1. j \in 1..Len(re)
        BY <2>1
      <4>2. PICK x \in Nodes : x = re[j]
        BY <4>1
      <4>3. x.s \in Seq(Int)
        BY DEF Nodes
      <4> QED
        BY <4>2, <4>3
    <3> QED
      BY <3>1 DEF Known
  <2>6. ASSUME NEW depth \in Depths PROVE PrefixesAt(re, node, done, depth) \in LiteralSets
    BY ONLY node \in Nodes, depth \in Depths, <2>2, <2>4, <2>5, PrefixesAre
  <2> QED
    BY <2>3, <2>6
<1>2. LiteralPrefixes(re) = upTo[Len(re)]
  BY DEF LiteralPrefixes, Upward
<1>0. PICK n \in Nat : n = Len(re)
  OBVIOUS
<1> HIDE DEF At, T
<1> DEFINE step == [p \in Seq(T) \X (1..n) |-> IF Len(p[1]) = p[2] - 1 THEN Append(p[1], At(re[p[2]], p[1])) ELSE <<>>]
<1>3. step \in [Seq(T) \X (1..n) -> Seq(T)]
  <2>1. ASSUME NEW d \in Seq(T), NEW k \in 1..n PROVE (IF Len(d) = k - 1 THEN Append(d, At(re[k], d)) ELSE <<>>) \in Seq(T)
    <3>1. Len(d) = k - 1 => At(re[k], d) \in T
      BY <1>0, <1>1
    <3> QED
      BY <3>1, AppendIs, NoneIs
  <2> QED
    BY <2>1
<1>4. \A d \in Seq(T), k \in 1..n : Len(d) = k - 1 => step[<<d, k>>] = Append(d, At(re[k], d))
  OBVIOUS
<1> HIDE DEF step
<1>b. PICK none \in Seq(T) : none = <<>>
  BY NoneIs
<1>5. PICK g : Iterated(g, Seq(T), n, none, step)
  BY <1>3, IterationExists
<1>6. g \in [0..n -> Seq(T)] /\ g[0] = none /\ \A k \in 1..n : g[k] = step[<<g[k - 1], k>>]
  BY <1>5 DEF Iterated
<1>7. \A k \in 0..n : Len(g[k]) = k
  <2> DEFINE good == {k \in 0..n : Len(g[k]) = k}
  <2>1. 0 \in good
    BY <1>b, <1>6
  <2>2. ASSUME NEW k \in 1..n, k - 1 \in good PROVE k \in good
    <3>1. PICK d \in Seq(T) : d = g[k - 1]
      BY <1>6
    <3>2. Len(d) = k - 1
      BY <2>2, <3>1
    <3>3. g[k] = Append(d, At(re[k], d)) /\ At(re[k], d) \in T
      BY <1>0, <1>1, <1>4, <1>6, <3>1, <3>2
    <3>4. Len(Append(d, At(re[k], d))) = Len(d) + 1
      BY <3>3, AppendIs
    <3> QED
      BY <3>2, <3>3, <3>4
  <2> HIDE DEF good
  <2>3. 0..n \subseteq good
    BY <2>1, <2>2, UpTo
  <2> QED
    BY <2>3 DEF good
<1>8. \A k \in 1..n : g[k - 1] \in Seq(T) /\ Len(g[k - 1]) = k - 1
  BY SMTT(30), <1>6, <1>7
<1>9. \A k \in 1..n : g[k] = Append(g[k - 1], At(re[k], g[k - 1]))
  BY <1>4, <1>6, <1>8
<1>10. Is(g)
  <2>1. g = [k \in 0..n |-> g[k]]
    BY <1>6
  <2>2. ASSUME NEW k \in 0..n PROVE g[k] = IF k = 0 THEN <<>> ELSE Append(g[k - 1], At(re[k], g[k - 1]))
    <3>1. CASE k = 0
      BY <1>b, <1>6, <3>1
    <3>2. CASE k # 0
      <4>1. k \in 1..n
        BY <3>2
      <4> QED
        BY SMTT(30), <1>9, <3>2, <4>1
    <3> QED
      BY <3>1, <3>2
  <2> QED
    BY <1>0, <2>1, <2>2
<1>11. Is(upTo)
  BY Zenon, <1>10
<1> HIDE DEF upTo
<1>12. /\ upTo = [k \in 0..n |-> upTo[k]] /\ upTo[0] = <<>>
       /\ \A k \in 1..n : upTo[k] = Append(upTo[k - 1], At(re[k], upTo[k - 1]))
  <2>1. upTo = [k \in 0..n |-> IF k = 0 THEN <<>> ELSE Append(upTo[k - 1], At(re[k], upTo[k - 1]))]
    BY <1>0, <1>11
  <2>2. upTo = [k \in 0..n |-> upTo[k]]
    BY <2>1
  <2>3. upTo[0] = <<>>
    BY <2>1
  <2>4. ASSUME NEW k \in 1..n PROVE upTo[k] = Append(upTo[k - 1], At(re[k], upTo[k - 1]))
    <3>1. k \in 0..n /\ k # 0
      OBVIOUS
    <3> QED
      BY <2>1, <3>1
  <2> QED
    BY <2>2, <2>3, <2>4
<1> HIDE DEF Is
<1>13. upTo = g
  <2> DEFINE good == {k \in 0..n : upTo[k] = g[k]}
  <2>1. 0 \in good
    BY <1>b, <1>6, <1>12
  <2>2. ASSUME NEW k \in 1..n, k - 1 \in good PROVE k \in good
    <3>1. upTo[k - 1] = g[k - 1]
      BY <2>2
    <3>2. upTo[k] = Append(upTo[k - 1], At(re[k], upTo[k - 1])) /\ g[k] = Append(g[k - 1], At(re[k], g[k - 1]))
      BY <1>9, <1>12
    <3>3. upTo[k] = g[k]
      BY <3>1, <3>2
    <3> QED
      BY <3>3
  <2> HIDE DEF good
  <2>3. 0..n \subseteq good
    BY <2>1, <2>2, UpTo
  <2>4. \A k \in 0..n : upTo[k] = g[k]
    BY <2>3 DEF good
  <2> QED
    BY <1>6, <1>12, <2>4
<1> DEFINE row == [k \in 1..n |-> At(re[k], g[k - 1])]
<1>14. \A k \in 1..n : row[k] = At(re[k], g[k - 1]) /\ row[k] \in T
  BY <1>0, <1>1, <1>8
<1> HIDE DEF row
<1>15. Table(g, T, n, row)
  BY <1>b, <1>6, <1>9, <1>14 DEF Table
<1>16. LiteralPrefixes(re) = g[n]
  BY <1>0, <1>2, <1>13
<1> QED
  BY <1>0, <1>14, <1>15, <1>16 DEF PrefixRun, At, T

\* The last table has every row.
LEMMA TableTop ==
  ASSUME NEW T, NEW n \in Nat, NEW f, NEW row, Table(f, T, n, row)
  PROVE  \A j \in 1..n : f[n][j] = row[j] /\ row[j] \in T
<1>1. \A k \in 0..n : \A j \in 1..k : f[k][j] = row[j]
  <2>1. Kept(f, n, row)
    BY Zenon, TableIs
  <2> QED
    BY <2>1 DEF Kept
<1>2. n \in 0..n
  OBVIOUS
<1>3. \A j \in 1..n : row[j] \in T
  BY DEF Table
<1> QED
  BY <1>1, <1>2, <1>3

\* Every node has its prefixes.
LEMMA PrefixesLettered ==
  ASSUME NEW re \in Seq(Nodes), Ordered(re), NEW k \in Nat, k - 1 <= Len(re)
  PROVE  Lettered(LiteralPrefixes(re), 1..(k - 1))
<1>1. PICK f, row : PrefixRun(f, row, re)
  BY PrefixTable
<1> DEFINE T == [Depths -> LiteralSets]
<1>2. Len(re) \in Nat /\ Table(f, T, Len(re), row) /\ LiteralPrefixes(re) = f[Len(re)]
  BY <1>1 DEF PrefixRun
<1> HIDE DEF T
<1>3. PICK n \in Nat : n = Len(re)
  BY <1>2
<1>4. \A j \in 1..n : f[n][j] = row[j] /\ row[j] \in T
  <2>1. Table(f, T, n, row)
    BY <1>2, <1>3
  <2> QED
    BY ONLY n \in Nat, <2>1, TableTop
<1>5. \A j \in 1..(k - 1) : j \in 1..n
  BY <1>3
<1>6. \A j \in 1..(k - 1) : LiteralPrefixes(re)[j] \in T
  BY <1>2, <1>3, <1>4, <1>5
<1> QED
  BY <1>6 DEF Lettered, T

-----------------------------------------------------------------------------
RunStates == [run: Seq(Int), best: LiteralSets]
NoRun == [run |-> <<>>, best |-> <<>>]
LEMMA NoRunIs == NoRun \in RunStates /\ NoRun.run = <<>> /\ NoRun.best = <<>>
  BY NoneIs, NoLiterals DEF NoRun, RunStates

Part(re, prefixes, done, depth, st, k) ==
  IF re[k].op = "lit" THEN [st EXCEPT !.run = @ \o re[k].s]
  ELSE [run |-> <<>>, best |-> Considered(Flushed(st, prefixes[k][depth + 1]), done[k][depth + 1])]

Gathered(re, prefixes, done, depth, sub) ==
  FoldLeft(LAMBDA st, k : Part(re, prefixes, done, depth, st, k), NoRun, sub)

LEMMA StateIs ==
  ASSUME NEW st \in RunStates, NEW run \in Seq(Int), NEW best \in LiteralSets
  PROVE  /\ st.run \in Seq(Int) /\ st.best \in LiteralSets
         /\ [run |-> run, best |-> best] \in RunStates
         /\ [st EXCEPT !.run = run] \in RunStates
         /\ [st EXCEPT !.run = run].run = run /\ [st EXCEPT !.run = run].best = st.best
  BY DEF RunStates

Parted(re, prefixes, done, depth, st, k) ==
  /\ re[k].op = "lit" =>
       /\ Part(re, prefixes, done, depth, st, k).run = st.run \o re[k].s
       /\ Part(re, prefixes, done, depth, st, k).best = st.best
  /\ re[k].op # "lit" =>
       /\ Part(re, prefixes, done, depth, st, k).run = <<>>
       /\ Part(re, prefixes, done, depth, st, k).best = Considered(Flushed(st, prefixes[k][depth + 1]), done[k][depth + 1])

LEMMA PartIs ==
  ASSUME NEW K, NEW re, Known(re, K), NEW prefixes, Lettered(prefixes, K), NEW done, Lettered(done, K),
         NEW depth \in Nat, depth + 1 \in Depths, NEW st \in RunStates, NEW k \in K
  PROVE  Part(re, prefixes, done, depth, st, k) \in RunStates /\ Parted(re, prefixes, done, depth, st, k)
<1>1. PICK d \in Depths : d = depth + 1
  OBVIOUS
<1>2. PICK run \in Seq(Int) : run = st.run
  BY DEF RunStates
<1>3. PICK best \in LiteralSets : best = st.best
  BY DEF RunStates
<1>4. PICK s \in Seq(Int) : s = re[k].s
  BY DEF Known
<1>5. PICK longer \in Seq(Int) : longer = run \o s
  BY JoinIs
<1>6. prefixes[k][d] \in LiteralSets /\ done[k][d] \in LiteralSets
  BY LetteredAt
<1>7. PICK better \in LiteralSets : better = Considered(Flushed(st, prefixes[k][d]), done[k][d])
  BY <1>2, <1>3, <1>6, FlushedIs, ConsideredIs
<1>8. PICK none \in Seq(Int) : none = <<>>
  BY NoneIs
<1>9. CASE re[k].op = "lit"
  <2>1. Part(re, prefixes, done, depth, st, k) = [st EXCEPT !.run = longer]
    BY <1>2, <1>4, <1>5, <1>9 DEF Part
  <2>2. [st EXCEPT !.run = longer] \in RunStates /\ [st EXCEPT !.run = longer].run = longer /\ [st EXCEPT !.run = longer].best = st.best
    BY <1>3, StateIs
  <2> QED
    BY <1>2, <1>4, <1>5, <1>9, <2>1, <2>2 DEF Parted
<1>10. CASE re[k].op # "lit"
  <2>1. Part(re, prefixes, done, depth, st, k) = [run |-> none, best |-> better]
    BY <1>1, <1>7, <1>8, <1>10 DEF Part
  <2>2. PICK x : x = [run |-> none, best |-> better]
    OBVIOUS
  <2>3. x \in RunStates
    BY <2>2, StateIs
  <2>4. x.run = none
    BY <2>2
  <2>5. x.best = better
    BY <2>2
  <2>6. x.best = Considered(Flushed(st, prefixes[k][depth + 1]), done[k][depth + 1])
    BY <1>1, <1>7, <2>5
  <2>7. Part(re, prefixes, done, depth, st, k) = x
    BY <2>1, <2>2
  <2> QED
    BY <1>8, <1>10, <2>3, <2>4, <2>6, <2>7 DEF Parted
<1> QED
  BY <1>9, <1>10

\* What f gathers from the parts of a concatenation.
GatheredRun(f, re, prefixes, done, depth, sub) ==
  /\ f \in [0..Len(sub) -> RunStates]
  /\ f[0] = NoRun
  /\ \A k \in 1..Len(sub) : f[k] = Part(re, prefixes, done, depth, f[k - 1], sub[k])
  /\ Gathered(re, prefixes, done, depth, sub) = f[Len(sub)]

LEMMA GatheredFold ==
  ASSUME NEW K, NEW re, Known(re, K), NEW prefixes, Lettered(prefixes, K), NEW done, Lettered(done, K), NEW depth \in Nat, depth + 1 \in Depths, NEW sub \in Seq(K)
  PROVE  \E f : GatheredRun(f, re, prefixes, done, depth, sub)
<1> DEFINE T == RunStates
           El == K
           op(st, k) == Part(re, prefixes, done, depth, st, k)
           base == NoRun
           step == [p \in T \X El |-> op(p[1], p[2])]
           Is(h) == h = [S \in SUBSET DOMAIN sub |->
                           IF S = {} THEN base ELSE op(h[S \ {Max(S)}], sub[Max(S)])]
           iter == CHOOSE h : Is(h)
<1>1. base \in T
  BY NoRunIs
<1>a. \A t \in T, x \in El : op(t, x) \in T
  BY PartIs
<1>2. Gathered(re, prefixes, done, depth, sub) = iter[DOMAIN sub]
  BY DEF Gathered, FoldLeft, MapThenFoldSet
<1>0. sub \in Seq(El)
  OBVIOUS
<1> HIDE DEF op, base, T, El
<1>3. step \in [T \X El -> T]
  BY <1>a
<1>b. \A t \in T, x \in El : step[<<t, x>>] = op(t, x)
  OBVIOUS
<1> HIDE DEF step
<1>4. PICK g : Partial(g, T, sub, base, step, Len(sub))
  BY <1>0, <1>1, <1>3, FoldExists
<1>5. ASSUME NEW S \in SUBSET DOMAIN sub, S # {} PROVE g[S] = op(g[S \ {Max(S)}], sub[Max(S)])
  <2>1. Max(S) \in S /\ g[S] = step[<<g[S \ {Max(S)}], sub[Max(S)]>>] /\ g \in [SUBSET DOMAIN sub -> T]
    BY <1>0, <1>4, <1>5, DomainOfSeq DEF Partial
  <2>2. g[S \ {Max(S)}] \in T /\ sub[Max(S)] \in El
    BY <1>0, <2>1
  <2> QED
    BY <1>b, <2>1, <2>2
<1>6. g[{}] = base /\ g = [S \in SUBSET DOMAIN sub |-> g[S]]
  BY <1>0, <1>4, PartialBase
<1>7. Is(iter)
  <2>1. Is(g)
    BY <1>5, <1>6
  <2> QED
    BY <2>1
<1> HIDE DEF iter
<1>8. iter[{}] = base
  BY <1>7
<1>9. ASSUME NEW S \in SUBSET DOMAIN sub, S # {}, iter[S \ {Max(S)}] \in T, sub[Max(S)] \in El
      PROVE  iter[S] = step[<<iter[S \ {Max(S)}], sub[Max(S)]>>]
  BY <1>7, <1>9, <1>b
<1> HIDE DEF Is
<1>10. Steps(iter, T, El, sub, base, step)
  BY <1>8, <1>9 DEF Steps
<1>12. PICK f : Runs(f, T, sub, base, step, iter[DOMAIN sub])
  BY <1>0, <1>1, <1>3, <1>10, FoldRuns
<1>13. f \in [0..Len(sub) -> T] /\ f[0] = base /\ f[Len(sub)] = iter[DOMAIN sub]
  BY <1>12 DEF Runs
<1>11. \A k \in 1..Len(sub) : f[k] = op(f[k - 1], sub[k])
  BY <1>0, <1>b, <1>12, <1>13, InsideFold DEF Runs
<1> QED
  BY <1>2, <1>11, <1>13 DEF op, base, T, GatheredRun

RequiredCases(re, prefixes, node, done, depth, rs) ==
  \/ node.op = "lit" /\ rs = Itself(node.s)
  \/ node.op \in {"cap", "plus"} /\ rs = done[node.sub[1]][depth + 1]
  \/ node.op = "alt" /\ rs = Union(Branches(done, node.sub, depth + 1))
  \/ node.op = "cat" /\ rs = Flushed(Gathered(re, prefixes, done, depth, node.sub), <<>>)

LEMMA RequiredSaid ==
  ASSUME NEW re, NEW prefixes, NEW node \in Nodes, NEW done, NEW depth \in Depths
  PROVE  \/ RequiredAt(re, prefixes, node, done, depth) = <<>>
         \/ /\ depth + 1 \in Depths
            /\ RequiredCases(re, prefixes, node, done, depth, RequiredAt(re, prefixes, node, done, depth))
<1>1. PICK rs : rs = RequiredAt(re, prefixes, node, done, depth)
  OBVIOUS
<1>2. PICK op : op = node.op
  OBVIOUS
<1>3. CASE depth > MaxLiteralDepth
  BY Zenon, <1>1, <1>3 DEF RequiredAt
<1>4. CASE ~(depth > MaxLiteralDepth)
  <2>0. depth + 1 \in Depths
    BY <1>4, DepthIs
  <2>1. CASE op = "lit"
    BY Zenon, <1>1, <1>2, <1>4, <2>0, <2>1 DEF RequiredAt, RequiredCases
  <2>2. CASE op \in {"cap", "plus"}
    BY Zenon, <1>1, <1>2, <1>4, <2>0, <2>2 DEF RequiredAt, RequiredCases
  <2>4. CASE op = "alt"
    <3>1. rs = Union(Branches(done, node.sub, depth + 1))
      BY Zenon, <1>1, <1>2, <1>4, <2>4 DEF RequiredAt, Branches
    <3> QED
      BY <1>1, <1>2, <2>0, <2>4, <3>1 DEF RequiredCases
  <2>5. CASE op = "cat"
    <3>1. rs = Flushed(Gathered(re, prefixes, done, depth, node.sub), <<>>)
      BY Zenon, <1>1, <1>2, <1>4, <2>5 DEF RequiredAt, Gathered, Part, NoRun
    <3> QED
      BY <1>1, <1>2, <2>0, <2>5, <3>1 DEF RequiredCases
  <2>6. CASE op \notin {"lit", "cap", "plus", "alt", "cat"}
    BY Zenon, <1>1, <1>2, <1>4, <2>6 DEF RequiredAt
  <2> QED
    BY <2>1, <2>2, <2>4, <2>5, <2>6
<1> QED
  BY <1>3, <1>4

LEMMA GatheredIs ==
  ASSUME NEW K, NEW re, Known(re, K), NEW prefixes, Lettered(prefixes, K), NEW done, Lettered(done, K),
         NEW depth \in Nat, depth + 1 \in Depths, NEW sub \in Seq(K)
  PROVE  Gathered(re, prefixes, done, depth, sub) \in RunStates
<1>1. PICK f : GatheredRun(f, re, prefixes, done, depth, sub)
  BY GatheredFold
<1>2. Len(sub) \in 0..Len(sub)
  OBVIOUS
<1> QED
  BY <1>1, <1>2 DEF GatheredRun

LEMMA RequiredAre ==
  ASSUME NEW re, NEW node \in Nodes, NEW K, Known(re, K), Reaches(node, K), NEW prefixes, Lettered(prefixes, K),
         NEW done, Lettered(done, K), NEW depth \in Depths
  PROVE  RequiredAt(re, prefixes, node, done, depth) \in LiteralSets
<1>1. PICK rs : rs = RequiredAt(re, prefixes, node, done, depth)
  OBVIOUS
<1>2. CASE rs = <<>>
  BY <1>1, <1>2, NoLiterals
<1>3. CASE rs # <<>>
  <2>1. depth + 1 \in Depths /\ RequiredCases(re, prefixes, node, done, depth, rs)
    BY <1>1, <1>3, RequiredSaid
  <2>2. PICK d \in Depths : d = depth + 1
    BY <2>1
  <2>3. node.s \in Seq(Int) /\ node.sub \in Seq(K)
    BY SubIs
  <2>4. CASE rs = Itself(node.s)
    BY <1>1, <2>3, <2>4, ItselfIs
  <2>6. CASE rs = done[node.sub[1]][depth + 1] /\ node.op \in {"cap", "plus"}
    <3>1. node.sub[1] \in K
      BY <2>6, SubIs
    <3> QED
      BY <1>1, <2>2, <2>6, <3>1, LetteredAt
  <2>7. CASE rs = Union(Branches(done, node.sub, depth + 1))
    <3>1. Branches(done, node.sub, d) \in Seq(LiteralSets)
      BY <2>3, BranchesAre
    <3> QED
      BY <1>1, <2>2, <2>7, <3>1, UnionIs
  <2>8. CASE rs = Flushed(Gathered(re, prefixes, done, depth, node.sub), <<>>)
    <3>1. PICK st \in RunStates : st = Gathered(re, prefixes, done, depth, node.sub)
      BY <2>1, <2>3, DepthIs, GatheredIs
    <3>2. PICK none \in LiteralSets : none = <<>>
      BY NoLiterals
    <3>3. PICK run \in Seq(Int), best \in LiteralSets : st.run = run /\ st.best = best
      BY DEF RunStates
    <3>4. Flushed(st, none) \in LiteralSets
      BY <3>3, FlushedIs
    <3> QED
      BY <1>1, <2>8, <3>1, <3>2, <3>4
  <2> QED
    BY <2>1, <2>4, <2>6, <2>7, <2>8 DEF RequiredCases
<1> QED
  BY <1>2, <1>3

\* What f makes of the required literals: node by node.
RequiredRun(f, row, re) ==
  /\ Table(f, [Depths -> LiteralSets], Len(re), row)
  /\ \A k \in 1..Len(re) : row[k] = [depth \in Depths |-> RequiredAt(re, LiteralPrefixes(re), re[k], f[k - 1], depth)]
  /\ RequiredLiterals(re) = f[Len(re)]

LEMMA RequiredTable ==
  ASSUME NEW re \in Seq(Nodes), Ordered(re)
  PROVE  \E f, row : RequiredRun(f, row, re)
<1> DEFINE T == [Depths -> LiteralSets]
           At(node, done) == [depth \in Depths |-> RequiredAt(re, LiteralPrefixes(re), node, done, depth)]
           Is(h) == h = [k \in 0..Len(re) |-> IF k = 0 THEN <<>> ELSE Append(h[k - 1], At(re[k], h[k - 1]))]
           upTo == CHOOSE h : Is(h)
<1>1. ASSUME NEW k \in 1..Len(re), NEW done \in Seq(T), Len(done) = k - 1 PROVE At(re[k], done) \in T
  <2>1. PICK K : K = 1..(k - 1)
    OBVIOUS
  <2>2. Lettered(done, K)
    BY <1>1, <2>1 DEF Lettered
  <2>3. PICK node \in Nodes : node = re[k]
    BY OrderedAt
  <2>4. Reaches(node, K)
    BY <2>1, <2>3, OrderedAt DEF Reaches
  <2>5. Known(re, K)
    <3>1. ASSUME NEW j \in K PROVE re[j].s \in Seq(Int)
      <4>1. j \in 1..Len(re)
        BY <2>1
      <4>2. PICK x \in Nodes : x = re[j]
        BY <4>1
      <4>3. x.s \in Seq(Int)
        BY DEF Nodes
      <4> QED
        BY <4>2, <4>3
    <3> QED
      BY <3>1 DEF Known
  <2>7. Lettered(LiteralPrefixes(re), K)
    BY <2>1, PrefixesLettered
  <2>6. ASSUME NEW depth \in Depths PROVE RequiredAt(re, LiteralPrefixes(re), node, done, depth) \in LiteralSets
    BY ONLY node \in Nodes, depth \in Depths, <2>2, <2>4, <2>5, <2>7, RequiredAre
  <2> QED
    BY <2>3, <2>6
<1>2. RequiredLiterals(re) = upTo[Len(re)]
  BY DEF RequiredLiterals, Upward
<1>0. PICK n \in Nat : n = Len(re)
  OBVIOUS
<1> HIDE DEF At, T
<1> DEFINE step == [p \in Seq(T) \X (1..n) |-> IF Len(p[1]) = p[2] - 1 THEN Append(p[1], At(re[p[2]], p[1])) ELSE <<>>]
<1>3. step \in [Seq(T) \X (1..n) -> Seq(T)]
  <2>1. ASSUME NEW d \in Seq(T), NEW k \in 1..n PROVE (IF Len(d) = k - 1 THEN Append(d, At(re[k], d)) ELSE <<>>) \in Seq(T)
    <3>1. Len(d) = k - 1 => At(re[k], d) \in T
      BY <1>0, <1>1
    <3> QED
      BY <3>1, AppendIs, NoneIs
  <2> QED
    BY <2>1
<1>4. \A d \in Seq(T), k \in 1..n : Len(d) = k - 1 => step[<<d, k>>] = Append(d, At(re[k], d))
  OBVIOUS
<1> HIDE DEF step
<1>b. PICK none \in Seq(T) : none = <<>>
  BY NoneIs
<1>5. PICK g : Iterated(g, Seq(T), n, none, step)
  BY <1>3, IterationExists
<1>6. g \in [0..n -> Seq(T)] /\ g[0] = none /\ \A k \in 1..n : g[k] = step[<<g[k - 1], k>>]
  BY <1>5 DEF Iterated
<1>7. \A k \in 0..n : Len(g[k]) = k
  <2> DEFINE good == {k \in 0..n : Len(g[k]) = k}
  <2>1. 0 \in good
    BY <1>b, <1>6
  <2>2. ASSUME NEW k \in 1..n, k - 1 \in good PROVE k \in good
    <3>1. PICK d \in Seq(T) : d = g[k - 1]
      BY <1>6
    <3>2. Len(d) = k - 1
      BY <2>2, <3>1
    <3>3. g[k] = Append(d, At(re[k], d)) /\ At(re[k], d) \in T
      BY <1>0, <1>1, <1>4, <1>6, <3>1, <3>2
    <3>4. Len(Append(d, At(re[k], d))) = Len(d) + 1
      BY <3>3, AppendIs
    <3> QED
      BY <3>2, <3>3, <3>4
  <2> HIDE DEF good
  <2>3. 0..n \subseteq good
    BY <2>1, <2>2, UpTo
  <2> QED
    BY <2>3 DEF good
<1>8. \A k \in 1..n : g[k - 1] \in Seq(T) /\ Len(g[k - 1]) = k - 1
  BY <1>6, <1>7
<1>9. \A k \in 1..n : g[k] = Append(g[k - 1], At(re[k], g[k - 1]))
  BY <1>4, <1>6, <1>8
<1>10. Is(g)
  <2>1. g = [k \in 0..n |-> g[k]]
    BY <1>6
  <2>2. ASSUME NEW k \in 0..n PROVE g[k] = IF k = 0 THEN <<>> ELSE Append(g[k - 1], At(re[k], g[k - 1]))
    <3>1. CASE k = 0
      BY <1>b, <1>6, <3>1
    <3>2. CASE k # 0
      <4>1. k \in 1..n
        BY <3>2
      <4> QED
        BY <1>9, <3>2, <4>1
    <3> QED
      BY <3>1, <3>2
  <2> QED
    BY <1>0, <2>1, <2>2
<1>11. Is(upTo)
  BY <1>10
<1> HIDE DEF upTo
<1>12. /\ upTo = [k \in 0..n |-> upTo[k]] /\ upTo[0] = <<>>
       /\ \A k \in 1..n : upTo[k] = Append(upTo[k - 1], At(re[k], upTo[k - 1]))
  <2>1. upTo = [k \in 0..n |-> IF k = 0 THEN <<>> ELSE Append(upTo[k - 1], At(re[k], upTo[k - 1]))]
    BY <1>0, <1>11
  <2>2. upTo = [k \in 0..n |-> upTo[k]]
    BY <2>1
  <2>3. upTo[0] = <<>>
    BY <2>1
  <2>4. ASSUME NEW k \in 1..n PROVE upTo[k] = Append(upTo[k - 1], At(re[k], upTo[k - 1]))
    <3>1. k \in 0..n /\ k # 0
      OBVIOUS
    <3> QED
      BY <2>1, <3>1
  <2> QED
    BY <2>2, <2>3, <2>4
<1> HIDE DEF Is
<1>13. upTo = g
  <2> DEFINE good == {k \in 0..n : upTo[k] = g[k]}
  <2>1. 0 \in good
    BY <1>b, <1>6, <1>12
  <2>2. ASSUME NEW k \in 1..n, k - 1 \in good PROVE k \in good
    <3>1. upTo[k - 1] = g[k - 1]
      BY <2>2
    <3>2. upTo[k] = Append(upTo[k - 1], At(re[k], upTo[k - 1])) /\ g[k] = Append(g[k - 1], At(re[k], g[k - 1]))
      BY <1>9, <1>12
    <3>3. upTo[k] = g[k]
      BY <3>1, <3>2
    <3> QED
      BY <3>3
  <2> HIDE DEF good
  <2>3. 0..n \subseteq good
    BY <2>1, <2>2, UpTo
  <2>4. \A k \in 0..n : upTo[k] = g[k]
    BY <2>3 DEF good
  <2> QED
    BY <1>6, <1>12, <2>4
<1> DEFINE row == [k \in 1..n |-> At(re[k], g[k - 1])]
<1>14. \A k \in 1..n : row[k] = At(re[k], g[k - 1]) /\ row[k] \in T
  BY <1>0, <1>1, <1>8
<1> HIDE DEF row
<1>15. Table(g, T, n, row)
  BY <1>b, <1>6, <1>9, <1>14 DEF Table
<1>16. RequiredLiterals(re) = g[n]
  BY <1>0, <1>2, <1>13
<1> QED
  BY <1>0, <1>14, <1>15, <1>16 DEF RequiredRun, At, T

-----------------------------------------------------------------------------
(* The literals of a pattern are in everything that it matches.              *)

\* What it says of a node that it matches from i on.
Ended(v, node, done, i) ==
  /\ node.op = "lit" => EndsAt(node, done, v, i) = {i + Len(node.s)} /\ Lies(v, i, node.s)
  /\ node.op = "class" =>
       i \in 1..Len(v) /\ \E k \in 1..Len(node.ranges) : v[i] \in node.ranges[k][1]..node.ranges[k][2]
  /\ node.op = "cat" => EndsAt(node, done, v, i) = Along(done, node.sub, i)
  /\ node.op = "alt" => \E k \in 1..Len(node.sub) : done[node.sub[k]][i] # {}
  /\ node.op \in {"cap", "plus"} => done[node.sub[1]][i] # {}

LEMMA EndsSaid ==
  ASSUME NEW v \in Seq(Int), NEW node \in Nodes, NEW P, P = PlacesOf(v), NEW i \in P,
         NEW K, NEW done, Spanned(done, K, P), Reaches(node, K), EndsAt(node, done, v, i) # {}
  PROVE  Ended(v, node, done, i)
<1>1. node.s \in Seq(Int) /\ node.sub \in Seq(K) /\ node.ranges \in Seq(Int \X Int)
  BY SubIs
<1>2. PICK n \in Nat : n = Len(v) /\ P = 1..(n + 1)
  BY DEF PlacesOf
<1>3. PICK ends : ends = EndsAt(node, done, v, i)
  OBVIOUS
<1>4. PICK op : op = node.op
  OBVIOUS
<1>5. i \in Nat \ {0}
  BY <1>2
<1>6. op = "lit" => ends = {i + Len(node.s)} /\ Lies(v, i, node.s)
  <2>1. ASSUME op = "lit" PROVE ends = {i + Len(node.s)} /\ HasAt(v, i, Len(node.s)) /\ \A k \in DOMAIN node.s : SameByte(node, v[i + k - 1], node.s[k])
    BY Zenon, <1>3, <1>4, <2>1 DEF EndsAt
  <2> QED
    BY <1>1, <1>5, <2>1, LiteralLies
<1>7. op = "class" => i \in 1..Len(v) /\ \E k \in 1..Len(node.ranges) : v[i] \in node.ranges[k][1]..node.ranges[k][2]
  <2>1. ASSUME op = "class" PROVE i <= Len(v) /\ \E k \in DOMAIN node.ranges : v[i] \in node.ranges[k][1]..node.ranges[k][2]
    BY Zenon, <1>3, <1>4, <2>1 DEF EndsAt
  <2>2. DOMAIN node.ranges = 1..Len(node.ranges)
    BY <1>1
  <2> QED
    BY SMTT(30), <1>2, <2>1, <2>2
<1>8. op = "cat" => ends = Along(done, node.sub, i)
  BY Zenon, <1>3, <1>4 DEF EndsAt, Along
<1>9. op = "alt" => \E k \in 1..Len(node.sub) : done[node.sub[k]][i] # {}
  <2>1. ASSUME op = "alt" PROVE ends = UNION {done[node.sub[k]][i] : k \in DOMAIN node.sub}
    BY Zenon, <1>3, <1>4, <2>1 DEF EndsAt
  <2>2. DOMAIN node.sub = 1..Len(node.sub)
    BY <1>1
  <2>3. ASSUME \A k \in DOMAIN node.sub : done[node.sub[k]][i] = {} PROVE UNION {done[node.sub[k]][i] : k \in DOMAIN node.sub} = {}
    BY <2>3
  <2> QED
    BY <1>3, <2>1, <2>2, <2>3
<1>10. op = "cap" => done[node.sub[1]][i] # {}
  BY Zenon, <1>3, <1>4 DEF EndsAt
<1>11. op = "plus" => done[node.sub[1]][i] # {}
  <2>1. ASSUME op = "plus", done[node.sub[1]][i] = {} PROVE FALSE
    <3>1. node.sub[1] \in K
      BY <1>4, <2>1, SubIs
    <3>2. PICK own \in [P -> SUBSET P] : own = done[node.sub[1]]
      BY <3>1 DEF Spanned
    <3>3. Turns(node, done, v, i) = {i}
      BY <2>1, <3>2, TurnsAre
    <3>4. ends = After(own, {i})
      BY Zenon, <1>3, <1>4, <2>1, <3>2, <3>3 DEF EndsAt, Turns
    <3>5. \A e : e \notin After(own, {i})
      BY <2>1, <3>2, AfterIs
    <3> QED
      BY <1>3, <3>4, <3>5
  <2> QED
    BY <2>1
<1> QED
  BY <1>3, <1>4, <1>6, <1>7, <1>8, <1>9, <1>10, <1>11 DEF Ended

\* The parts of a concatenation all match when the concatenation does.
LEMMA AlongSteps ==
  ASSUME NEW P, NEW K, NEW done, Spanned(done, K, P), NEW i \in P, NEW sub \in Seq(K), NEW f, AlongRun(f, P, done, sub, i),
         Along(done, sub, i) # {}
  PROVE  \A m \in 0..Len(sub) : f[m] # {}
<1>1. PICK n \in Nat : n = Len(sub)
  OBVIOUS
<1>2. f \in [0..n -> SUBSET P] /\ f[n] # {} /\ \A k \in 1..n : f[k] = After(done[sub[k]], f[k - 1])
  BY <1>1 DEF AlongRun
<1>3. ASSUME NEW m \in 0..n, f[m] = {} PROVE FALSE
  <2> DEFINE good == {k \in 0..n : k >= m => f[k] = {}}
  <2>1. 0 \in good
    BY <1>3
  <2>2. ASSUME NEW k \in 1..n, k - 1 \in good PROVE k \in good
    <3>1. CASE k > m
      <4>1. f[k - 1] = {}
        BY <2>2, <3>1
      <4>2. sub[k] \in K
        BY <1>1
      <4>3. PICK own \in [P -> SUBSET P] : own = done[sub[k]]
        BY <4>2 DEF Spanned
      <4>4. f[k] = After(own, {})
        BY <1>2, <4>1, <4>3
      <4>5. \A e : e \notin After(own, {})
        BY AfterIs
      <4>6. f[k] = {}
        BY <4>4, <4>5
      <4> QED
        BY <4>6
    <3>2. CASE k <= m
      BY <1>3, <3>2
    <3> QED
      BY <3>1, <3>2
  <2> HIDE DEF good
  <2>3. 0..n \subseteq good
    BY <2>1, <2>2, UpTo
  <2>4. n \in good
    BY <2>3
  <2> QED
    BY <1>2, <2>4 DEF good
<1> QED
  BY <1>1, <1>3

LEMMA AlongFirst ==
  ASSUME NEW P, NEW K, NEW done, Spanned(done, K, P), NEW i \in P, NEW sub \in Seq(K), Along(done, sub, i) # {}
  PROVE  /\ Len(sub) > 0 => done[sub[1]][i] # {}
         /\ Len(sub) > 1 => \E e \in done[sub[1]][i] : done[sub[2]][e] # {}
<1>1. PICK f : AlongRun(f, P, done, sub, i)
  BY AlongFold
<1>2. \A m \in 0..Len(sub) : f[m] # {}
  BY <1>1, AlongSteps
<1>3. f[0] = {i} /\ \A k \in 1..Len(sub) : f[k] = After(done[sub[k]], f[k - 1])
  BY <1>1 DEF AlongRun
<1>4. PICK n \in Nat : n = Len(sub)
  OBVIOUS
<1>5. ASSUME n > 0 PROVE \A e : e \in f[1] <=> e \in done[sub[1]][i]
  <2>1. 1 \in 1..n /\ 1 - 1 = 0
    BY <1>5
  <2>5. f[1] = After(done[sub[1]], f[1 - 1])
    BY <1>3, <1>4, <2>1
  <2>6. sub[1] \in K
    BY <1>4, <2>1
  <2>2. f[1] = After(done[sub[1]], {i}) /\ sub[1] \in K
    BY <1>3, <2>1, <2>5, <2>6
  <2>3. PICK own \in [P -> SUBSET P] : own = done[sub[1]]
    BY <2>2 DEF Spanned
  <2>4. \A e : e \in After(own, {i}) <=> e \in own[i]
    BY AfterIs
  <2> QED
    BY <2>2, <2>3, <2>4
<1>6. n > 0 => done[sub[1]][i] # {}
  <2>1. n > 0 => 1 \in 0..n
    OBVIOUS
  <2> QED
    BY <1>2, <1>4, <1>5, <2>1
<1>7. ASSUME n > 1 PROVE \E e \in done[sub[1]][i] : done[sub[2]][e] # {}
  <2>1. 2 \in 1..n /\ 2 \in 0..n /\ 2 - 1 = 1 /\ 1 \in 0..n /\ n > 0
    BY <1>7
  <2>2. f[2] = After(done[sub[2]], f[1]) /\ sub[2] \in K /\ f[2] # {}
    BY <1>2, <1>3, <1>4, <2>1
  <2>3. PICK here \in SUBSET P : here = f[1]
    BY <1>1, <1>4, <2>1 DEF AlongRun
  <2>4. PICK own \in [P -> SUBSET P] : own = done[sub[2]]
    BY <2>2 DEF Spanned
  <2>5. PICK e : e \in After(own, here)
    BY <2>2, <2>3, <2>4
  <2>6. PICK j \in here : e \in own[j]
    BY <2>5, AfterIs
  <2> QED
    BY <1>5, <2>1, <2>3, <2>4, <2>6
<1> QED
  BY <1>4, <1>6, <1>7
-----------------------------------------------------------------------------
\* Where a node of K matches, one of what is said of its beginning lies; and
\* one of what it is said to require lies somewhere.
Heads(v, ends, K, said) == \A k \in K, i \in PlacesOf(v), d \in Depths : (ends[k][i] # {} /\ said[k][d] # <<>>) => AnyAt(v, i, said[k][d])
Holding(v, ends, K, said) == \A k \in K, i \in PlacesOf(v), d \in Depths : (ends[k][i] # {} /\ said[k][d] # <<>>) => Somewhere(v, said[k][d])

\* A literal of K ends its length behind where it lies.
Literally(re, v, ends, K) ==
  \A k \in K, i \in PlacesOf(v) :
    (re[k].op = "lit" /\ ends[k][i] # {}) => ends[k][i] = {i + Len(re[k].s)} /\ Lies(v, i, re[k].s)

LEMMA PrefixSound ==
  ASSUME NEW v \in Seq(Int), NEW re, NEW node \in Nodes, NEW P, P = PlacesOf(v), NEW K, Known(re, K), Reaches(node, K),
         NEW ends, Spanned(ends, K, P), Literally(re, v, ends, K),
         NEW said, Lettered(said, K), Heads(v, ends, K, said), NEW i \in P, NEW depth \in Depths,
         EndsAt(node, ends, v, i) # {}, PrefixesAt(re, node, said, depth) # <<>>
  PROVE  AnyAt(v, i, PrefixesAt(re, node, said, depth))
<1>1. PICK ps : ps = PrefixesAt(re, node, said, depth)
  OBVIOUS
<1>2. depth + 1 \in Depths /\ PrefixCases(re, node, said, depth, ps)
  BY <1>1, PrefixesSaid
<1>3. PICK d \in Depths : d = depth + 1
  BY <1>2
<1>4. node.s \in Seq(Int) /\ node.ranges \in Seq(Int \X Int) /\ node.sub \in Seq(K)
  BY SubIs
<1>5. i \in Nat \ {0} /\ i \in PlacesOf(v)
  BY DEF PlacesOf
<1>a. Ended(v, node, ends, i)
  BY EndsSaid
<1>6. /\ node.op = "lit" => EndsAt(node, ends, v, i) = {i + Len(node.s)} /\ Lies(v, i, node.s)
      /\ node.op = "class" =>
           i \in 1..Len(v) /\ \E k \in 1..Len(node.ranges) : v[i] \in node.ranges[k][1]..node.ranges[k][2]
      /\ node.op = "cat" => EndsAt(node, ends, v, i) = Along(ends, node.sub, i)
      /\ node.op = "alt" => \E k \in 1..Len(node.sub) : ends[node.sub[k]][i] # {}
      /\ node.op \in {"cap", "plus"} => ends[node.sub[1]][i] # {}
  BY <1>a DEF Ended
<1>7. ASSUME NEW k \in K, ends[k][i] # {}, said[k][d] # <<>> PROVE AnyAt(v, i, said[k][d])
  BY <1>5, <1>7 DEF Heads
<1>8. CASE node.op = "lit" /\ ps = Itself(node.s)
  BY <1>1, <1>4, <1>6, <1>8, ItselfIs
<1>9. CASE node.op \in {"cap", "plus"} /\ ps = said[node.sub[1]][depth + 1]
  <2>1. node.sub[1] \in K
    BY <1>9, SubIs
  <2> QED
    BY <1>1, <1>3, <1>6, <1>7, <1>9, <2>1
<1>10. CASE node.op = "class" /\ ps = ClassLiterals(node.ranges)
  <2>1. PICK ranges \in Seq(Int \X Int) : ranges = node.ranges
    BY <1>4
  <2>2. PICK k \in 1..Len(ranges) : v[i] \in ranges[k][1]..ranges[k][2]
    BY <1>6, <1>10, <2>1
  <2>3. i \in 1..Len(v) /\ ClassLiterals(ranges) # <<>>
    BY <1>1, <1>6, <1>10, <2>1
  <2>4. AnyAt(v, i, ClassLiterals(ranges))
    BY <2>2, <2>3, ClassLiteralsAre
  <2> QED
    BY <1>1, <1>10, <2>1, <2>4
<1>11. CASE node.op = "alt" /\ ps = Union(Branches(said, node.sub, depth + 1))
  <2>1. PICK k \in 1..Len(node.sub) : ends[node.sub[k]][i] # {}
    BY <1>6, <1>11
  <2>2. PICK all \in Seq(LiteralSets) : all = Branches(said, node.sub, d)
    BY <1>4, BranchesAre
  <2>3. k \in 1..Len(all) /\ all[k] = said[node.sub[k]][d]
    BY <1>4, <2>2, BranchesAre
  <2>4. ps = Union(all) /\ ps # <<>>
    BY <1>1, <1>3, <1>11, <2>2
  <2>5. all[k] # <<>>
    BY <2>3, <2>4, UnionIs
  <2>6. node.sub[k] \in K
    BY <1>4
  <2>7. AnyAt(v, i, all[k])
    BY <1>7, <2>1, <2>3, <2>5, <2>6
  <2>8. AnyAt(v, i, Union(all))
    BY <2>3, <2>4, <2>7, UnionHolds
  <2> QED
    BY <1>1, <2>4, <2>8
<1>12. CASE node.op = "cat" /\ node.sub # <<>> /\ ps = said[node.sub[1]][depth + 1]
  <2>1. node.sub[1] \in K /\ Len(node.sub) > 0
    BY <1>4, <1>12, SubIs, EmptyIs
  <2>2. ends[node.sub[1]][i] # {}
    BY <1>4, <1>6, <1>12, <2>1, AlongFirst
  <2> QED
    BY <1>1, <1>3, <1>7, <1>12, <2>1, <2>2
<1>13. CASE /\ node.op = "cat" /\ node.sub # <<>> /\ re[node.sub[1]].op = "lit" /\ Len(node.sub) > 1
            /\ ps = ExtendAll(re[node.sub[1]].s, said[node.sub[2]][depth + 1])
  <2>1. node.sub[1] \in K /\ node.sub[2] \in K
    BY <1>13, SubIs
  <2>2. PICK e \in ends[node.sub[1]][i] : ends[node.sub[2]][e] # {}
    BY <1>4, <1>6, <1>13, AlongFirst
  <2>3. PICK s \in Seq(Int) : s = re[node.sub[1]].s
    BY <2>1 DEF Known
  <2>4. ends[node.sub[1]][i] = {i + Len(s)} /\ Lies(v, i, s)
    BY <1>5, <1>13, <2>1, <2>2, <2>3 DEF Literally
  <2>5. e = i + Len(s)
    BY <2>2, <2>4
  <2>6. PICK ws \in LiteralSets : ws = said[node.sub[2]][d]
    BY <2>1, LetteredAt
  <2>7. ps = ExtendAll(s, ws) /\ ExtendAll(s, ws) # <<>>
    BY <1>1, <1>3, <1>13, <2>3, <2>6
  <2>8. ws # <<>>
    BY <2>7, ExtendAllIs
  <2>9. e \in PlacesOf(v)
    <3>1. ends[node.sub[1]] \in [P -> SUBSET P]
      BY <2>1 DEF Spanned
    <3> QED
      BY <2>2, <3>1
  <2>10. AnyAt(v, e, ws)
    BY <2>1, <2>2, <2>6, <2>8, <2>9 DEF Heads
  <2>11. AnyAt(v, i, ExtendAll(s, ws))
    BY <1>5, <2>4, <2>5, <2>7, <2>10, ExtendAllIs
  <2> QED
    BY <1>1, <2>7, <2>11
<1> QED
  BY <1>2, <1>8, <1>9, <1>10, <1>11, <1>12, <1>13 DEF PrefixCases

-----------------------------------------------------------------------------
\* The run of st lies before every place of here; its best set somewhere.
Carried(v, here, st) ==
  /\ \A e \in here : e - Len(st.run) >= 1 /\ Lies(v, e - Len(st.run), st.run)
  /\ st.best # <<>> => Somewhere(v, st.best)

LEMMA CarriedBase ==
  ASSUME NEW v \in Seq(Int), NEW i \in PlacesOf(v)
  PROVE  Carried(v, {i}, NoRun)
<1>1. NoRun.run = <<>> /\ NoRun.best = <<>>
  BY NoRunIs
<1>2. i - Len(<<>>) = i /\ i >= 1 /\ i \in 1..(Len(v) + 1)
  BY DEF PlacesOf
<1>3. Lies(v, i, <<>>)
  BY <1>2, LiesNothing
<1> QED
  BY <1>1, <1>2, <1>3 DEF Carried

LEMMA FlushedSound ==
  ASSUME NEW v \in Seq(Int), NEW here \in SUBSET PlacesOf(v), NEW st \in RunStates, Carried(v, here, st), NEW e \in here,
         NEW next \in LiteralSets, next # <<>> => AnyAt(v, e, next), Flushed(st, next) # <<>>
  PROVE  Somewhere(v, Flushed(st, next))
<1>1. PICK run \in Seq(Int) : run = st.run
  BY DEF RunStates
<1>2. PICK best \in LiteralSets : best = st.best
  BY DEF RunStates
<1>3. PICK n \in Nat : n = Len(run)
  OBVIOUS
<1>4. e \in Nat /\ e <= Len(v) + 1 /\ Len(v) \in Nat
  BY DEF PlacesOf
<1>5. e - n >= 1 /\ Lies(v, e - n, run)
  BY <1>1, <1>3 DEF Carried
<1>6. PICK i \in 1..(Len(v) + 1) : i = e - n
  BY <1>4, <1>5
<1>7. Lies(v, i, run) /\ i + Len(run) = e /\ i \in Nat \ {0}
  BY <1>3, <1>4, <1>5, <1>6
<1>8. CASE Flushed(st, next) = best
  BY <1>2, <1>8 DEF Carried
<1>9. CASE Flushed(st, next) = <<run>>
  <2>1. AnyAt(v, i, <<run>>)
    BY <1>7, OneLiteral
  <2>2. Somewhere(v, <<run>>)
    BY <2>1, AnySomewhere
  <2> QED
    BY <1>9, <2>2
<1>10. CASE Flushed(st, next) = ExtendAll(run, next) /\ ExtendAll(run, next) # <<>>
  <2>1. next # <<>>
    BY <1>10, ExtendAllIs
  <2>2. AnyAt(v, i, ExtendAll(run, next))
    BY <1>7, <1>10, <2>1, ExtendAllIs
  <2>3. Somewhere(v, ExtendAll(run, next))
    BY <2>2, AnySomewhere
  <2> QED
    BY <1>10, <2>3
<1> QED
  BY <1>1, <1>2, <1>8, <1>9, <1>10, FlushedIs
-----------------------------------------------------------------------------
\* One part more of a concatenation.
LEMMA CarriedStep ==
  ASSUME NEW v \in Seq(Int), NEW P, P = PlacesOf(v), NEW K, NEW re, Known(re, K),
         NEW ends, Spanned(ends, K, P), Literally(re, v, ends, K),
         NEW pre, Lettered(pre, K), Heads(v, ends, K, pre), NEW req, Lettered(req, K), Holding(v, ends, K, req),
         NEW depth \in Nat, depth + 1 \in Depths, NEW here \in SUBSET P, NEW st \in RunStates, Carried(v, here, st),
         NEW k \in K, After(ends[k], here) # {}
  PROVE  Carried(v, After(ends[k], here), Part(re, pre, req, depth, st, k))
<1>1. PICK own \in [P -> SUBSET P] : own = ends[k]
  BY DEF Spanned
<1>2. PICK there \in SUBSET P : there = After(ends[k], here)
  BY <1>1, AfterIs
<1>3. \A e : e \in there <=> \E j \in here : e \in own[j]
  BY <1>1, <1>2, AfterIs
<1>4. PICK next \in RunStates : next = Part(re, pre, req, depth, st, k)
  BY PartIs
<1>5. PICK n \in Nat : n = Len(v) /\ P = 1..(n + 1)
  BY DEF PlacesOf
<1>6. PICK run \in Seq(Int) : run = st.run
  BY DEF RunStates
<1>7. PICK best : best = st.best
  OBVIOUS
<1>8. (\A e \in here : e - Len(run) >= 1 /\ Lies(v, e - Len(run), run)) /\ (best # <<>> => Somewhere(v, best))
  BY <1>6, <1>7 DEF Carried
<1>9. CASE re[k].op = "lit"
  <2>1. PICK s \in Seq(Int) : s = re[k].s
    BY DEF Known
  <2>a. Part(re, pre, req, depth, st, k).run = st.run \o re[k].s /\ Part(re, pre, req, depth, st, k).best = st.best
    <3>1. Parted(re, pre, req, depth, st, k)
      BY PartIs
    <3> QED
      BY <1>9, <3>1 DEF Parted
  <2>2. next.run = run \o s /\ next.best = best
    BY <1>4, <1>6, <1>7, <2>a, <2>1
  <2>3. ASSUME NEW e \in there PROVE e - Len(run \o s) >= 1 /\ Lies(v, e - Len(run \o s), run \o s)
    <3>1. PICK j \in here : e \in own[j]
      BY <1>3
    <3>2. ends[k][j] = {j + Len(s)} /\ Lies(v, j, s)
      BY <1>1, <1>9, <2>1, <3>1 DEF Literally
    <3>3. PICK a \in Nat, b \in Nat : a = Len(run) /\ b = Len(s)
      OBVIOUS
    <3>4. j \in Nat /\ j - a >= 1 /\ Lies(v, j - a, run)
      BY <1>5, <1>8, <3>3
    <3>5. PICK i \in Nat \ {0} : i = j - a
      BY <3>4
    <3>6. e = j + b
      BY <1>1, <3>1, <3>2, <3>3
    <3>7. Len(run \o s) = a + b
      BY <3>3, JoinIs
    <3>8. Lies(v, i, run) /\ Lies(v, i + Len(run), s)
      BY <3>2, <3>3, <3>4, <3>5
    <3>9. Lies(v, i, run \o s)
      BY <3>8, LiesJoined
    <3>10. e - (a + b) = i
      BY <3>4, <3>5, <3>6
    <3> QED
      BY <3>7, <3>9, <3>10
  <2> QED
    BY <1>2, <1>4, <1>8, <2>2, <2>3 DEF Carried
<1>10. CASE re[k].op # "lit"
  <2>1. PICK d \in Depths : d = depth + 1
    OBVIOUS
  <2>2. PICK ps \in LiteralSets : ps = pre[k][d]
    BY LetteredAt
  <2>3. PICK rs \in LiteralSets : rs = req[k][d]
    BY LetteredAt
  <2>b. Parted(re, pre, req, depth, st, k)
    BY PartIs
  <2>a. /\ Part(re, pre, req, depth, st, k).run = <<>>
        /\ Part(re, pre, req, depth, st, k).best = Considered(Flushed(st, pre[k][depth + 1]), req[k][depth + 1])
    BY <1>10, <2>b DEF Parted
  <2>4. next.run = <<>> /\ next.best = Considered(Flushed(st, ps), rs)
    BY <1>4, <2>a, <2>1, <2>2, <2>3
  <2>5. ASSUME NEW e \in there PROVE e - Len(next.run) >= 1 /\ Lies(v, e - Len(next.run), next.run)
    <3>1. e \in 1..(Len(v) + 1) /\ e - Len(<<>>) = e /\ e >= 1
      BY <1>5
    <3>2. Lies(v, e, <<>>)
      BY <3>1, LiesNothing
    <3> QED
      BY <2>4, <3>1, <3>2
  <2>6. PICK e \in there : TRUE
    BY <1>2
  <2>7. PICK j \in here : e \in own[j]
    BY <1>3
  <2>8. j \in PlacesOf(v) /\ ends[k][j] # {}
    BY <1>1, <2>7
  <2>9. ps # <<>> => AnyAt(v, j, ps)
    BY <2>2, <2>8 DEF Heads
  <2>10. rs # <<>> => Somewhere(v, rs)
    BY <2>3, <2>8 DEF Holding
  <2>11. Flushed(st, ps) # <<>> => Somewhere(v, Flushed(st, ps))
    BY <2>9, FlushedSound
  <2>12. next.best # <<>> => Somewhere(v, next.best)
    BY <2>4, <2>10, <2>11, ConsideredIs
  <2> QED
    BY <1>2, <1>4, <2>5, <2>12 DEF Carried
<1> QED
  BY <1>9, <1>10

\* All parts of it.
LEMMA GatheredSound ==
  ASSUME NEW v \in Seq(Int), NEW P, P = PlacesOf(v), NEW K, NEW re, Known(re, K),
         NEW ends, Spanned(ends, K, P), Literally(re, v, ends, K),
         NEW pre, Lettered(pre, K), Heads(v, ends, K, pre), NEW req, Lettered(req, K), Holding(v, ends, K, req),
         NEW depth \in Nat, depth + 1 \in Depths, NEW i \in P, NEW sub \in Seq(K), Along(ends, sub, i) # {}
  PROVE  Carried(v, Along(ends, sub, i), Gathered(re, pre, req, depth, sub))
<1>1. PICK f : AlongRun(f, P, ends, sub, i)
  BY AlongFold
<1>2. PICK g : GatheredRun(g, re, pre, req, depth, sub)
  BY GatheredFold
<1>3. \A m \in 0..Len(sub) : f[m] # {}
  BY <1>1, AlongSteps
<1>4. PICK n \in Nat : n = Len(sub)
  OBVIOUS
<1>5. /\ f \in [0..n -> SUBSET P] /\ f[0] = {i} /\ \A k \in 1..n : f[k] = After(ends[sub[k]], f[k - 1])
      /\ Along(ends, sub, i) = f[n]
  BY <1>1, <1>4 DEF AlongRun
<1>6. /\ g \in [0..n -> RunStates] /\ g[0] = NoRun /\ \A k \in 1..n : g[k] = Part(re, pre, req, depth, g[k - 1], sub[k])
      /\ Gathered(re, pre, req, depth, sub) = g[n]
  BY <1>2, <1>4 DEF GatheredRun
<1> DEFINE good == {k \in 0..n : Carried(v, f[k], g[k])}
<1>7. 0 \in good
  <2>1. Carried(v, {i}, NoRun)
    BY CarriedBase
  <2>2. Carried(v, f[0], g[0])
    BY <1>5, <1>6, <2>1
  <2> QED
    BY <2>2
<1>8. ASSUME NEW k \in 1..n, k - 1 \in good PROVE k \in good
  <2>1. k - 1 \in 0..n /\ k \in 0..n
    OBVIOUS
  <2>2. PICK here \in SUBSET P : here = f[k - 1]
    BY <1>5, <2>1
  <2>3. PICK st \in RunStates : st = g[k - 1]
    BY <1>6, <2>1
  <2>4. PICK x \in K : x = sub[k]
    BY <1>4
  <2>5. Carried(v, here, st)
    BY <1>8, <2>2, <2>3
  <2>6. f[k] = After(ends[x], here) /\ g[k] = Part(re, pre, req, depth, st, x)
    BY <1>5, <1>6, <2>2, <2>3, <2>4
  <2>7. After(ends[x], here) # {}
    BY <1>3, <1>4, <2>1, <2>6
  <2>8. Carried(v, After(ends[x], here), Part(re, pre, req, depth, st, x))
    BY <2>5, <2>7, CarriedStep
  <2> QED
    BY <2>1, <2>6, <2>8
<1> HIDE DEF good
<1>9. 0..n \subseteq good
  BY <1>7, <1>8, UpTo
<1>10. n \in good
  BY <1>9
<1> QED
  BY <1>5, <1>6, <1>10 DEF good

LEMMA RequiredSound ==
  ASSUME NEW v \in Seq(Int), NEW re, NEW node \in Nodes, NEW P, P = PlacesOf(v), NEW K, Known(re, K), Reaches(node, K),
         NEW ends, Spanned(ends, K, P), Literally(re, v, ends, K),
         NEW pre, Lettered(pre, K), Heads(v, ends, K, pre), NEW req, Lettered(req, K), Holding(v, ends, K, req),
         NEW i \in P, NEW depth \in Depths,
         EndsAt(node, ends, v, i) # {}, RequiredAt(re, pre, node, req, depth) # <<>>
  PROVE  Somewhere(v, RequiredAt(re, pre, node, req, depth))
<1>1. PICK rs : rs = RequiredAt(re, pre, node, req, depth)
  OBVIOUS
<1>2. depth + 1 \in Depths /\ RequiredCases(re, pre, node, req, depth, rs)
  BY <1>1, RequiredSaid
<1>3. PICK d \in Depths : d = depth + 1
  BY <1>2
<1>4. node.s \in Seq(Int) /\ node.sub \in Seq(K)
  BY SubIs
<1>5. i \in 1..(Len(v) + 1) /\ i \in PlacesOf(v)
  BY DEF PlacesOf
<1>a. Ended(v, node, ends, i)
  BY EndsSaid
<1>6. /\ node.op = "lit" => EndsAt(node, ends, v, i) = {i + Len(node.s)} /\ Lies(v, i, node.s)
      /\ node.op = "cat" => EndsAt(node, ends, v, i) = Along(ends, node.sub, i)
      /\ node.op = "alt" => \E k \in 1..Len(node.sub) : ends[node.sub[k]][i] # {}
      /\ node.op \in {"cap", "plus"} => ends[node.sub[1]][i] # {}
  BY <1>a DEF Ended
<1>7. ASSUME NEW k \in K, ends[k][i] # {}, req[k][d] # <<>> PROVE Somewhere(v, req[k][d])
  BY <1>5, <1>7 DEF Holding
<1>8. CASE node.op = "lit" /\ rs = Itself(node.s)
  <2>1. AnyAt(v, i, Itself(node.s))
    BY <1>1, <1>4, <1>6, <1>8, ItselfIs
  <2>2. Somewhere(v, Itself(node.s))
    BY <1>5, <2>1, AnySomewhere
  <2> QED
    BY <1>1, <1>8, <2>2
<1>9. CASE node.op \in {"cap", "plus"} /\ rs = req[node.sub[1]][depth + 1]
  <2>1. node.sub[1] \in K
    BY <1>9, SubIs
  <2> QED
    BY <1>1, <1>3, <1>6, <1>7, <1>9, <2>1
<1>11. CASE node.op = "alt" /\ rs = Union(Branches(req, node.sub, depth + 1))
  <2>1. PICK k \in 1..Len(node.sub) : ends[node.sub[k]][i] # {}
    BY <1>6, <1>11
  <2>2. PICK all \in Seq(LiteralSets) : all = Branches(req, node.sub, d)
    BY <1>4, BranchesAre
  <2>3. k \in 1..Len(all) /\ all[k] = req[node.sub[k]][d]
    BY <1>4, <2>2, BranchesAre
  <2>4. rs = Union(all) /\ rs # <<>>
    BY <1>1, <1>3, <1>11, <2>2
  <2>5. all[k] # <<>>
    BY <2>3, <2>4, UnionIs
  <2>6. node.sub[k] \in K
    BY <1>4
  <2>7. Somewhere(v, all[k])
    BY <1>7, <2>1, <2>3, <2>5, <2>6
  <2>8. Somewhere(v, Union(all))
    BY <2>3, <2>4, <2>7, UnionHolds
  <2> QED
    BY <1>1, <2>4, <2>8
<1>12. CASE node.op = "cat" /\ rs = Flushed(Gathered(re, pre, req, depth, node.sub), <<>>)
  <2>1. depth \in Nat
    BY DepthIs
  <2>2. PICK sub \in Seq(K) : sub = node.sub
    BY <1>4
  <2>3. Along(ends, sub, i) # {}
    BY <1>6, <1>12, <2>2
  <2>4. PICK st \in RunStates : st = Gathered(re, pre, req, depth, sub)
    BY <1>2, <2>1, GatheredIs
  <2>5. Carried(v, Along(ends, sub, i), st)
    BY <1>2, <2>1, <2>3, <2>4, GatheredSound
  <2>6. PICK here \in SUBSET PlacesOf(v) : here = Along(ends, sub, i)
    BY AlongIs
  <2>7. PICK e \in here : TRUE
    BY <2>3, <2>6
  <2>8. PICK none \in LiteralSets : none = <<>>
    BY NoLiterals
  <2>9. Flushed(st, none) # <<>> => Somewhere(v, Flushed(st, none))
    BY <2>5, <2>6, <2>7, <2>8, FlushedSound
  <2> QED
    BY <1>1, <1>12, <2>2, <2>4, <2>8, <2>9
<1> QED
  BY <1>2, <1>8, <1>9, <1>11, <1>12 DEF RequiredCases
-----------------------------------------------------------------------------
\* The first rows of a table are what is done when the next one is made.
Same(done, row, K) == \A j \in K : done[j] = row[j]

LEMMA RowsAre ==
  ASSUME NEW T, NEW n \in Nat, NEW f, NEW row, Table(f, T, n, row)
  PROVE  (\A k \in 1..n : Same(f[k - 1], row, 1..(k - 1))) /\ (\A k \in 1..n : row[k] \in T) /\ Same(f[n], row, 1..n)
<1>1. \A k \in 0..n : \A j \in 1..k : f[k][j] = row[j]
  <2>1. Kept(f, n, row)
    BY Zenon, TableIs
  <2> QED
    BY <2>1 DEF Kept
<1>2. \A k \in 1..n : k - 1 \in 0..n
  OBVIOUS
<1>3. \A k \in 1..n : row[k] \in T
  BY DEF Table
<1>4. n \in 0..n
  OBVIOUS
<1>5. \A k \in 1..n : \A j \in 1..(k - 1) : f[k - 1][j] = row[j]
  BY <1>1, <1>2
<1> QED
  BY <1>1, <1>3, <1>4, <1>5 DEF Same

\* Where the matches of every node end.
LEMMA EndsRows ==
  ASSUME NEW v \in Seq(Int), NEW re \in Seq(Nodes), NEW P, P = PlacesOf(v), NEW f, NEW row, EndsRun(f, row, re, v),
         NEW n \in Nat, n = Len(re)
  PROVE  /\ \A k \in 1..n : Same(f[k - 1], row, 1..(k - 1))
         /\ Same(f[n], row, 1..n) /\ Ends(re, v) = f[n] /\ Spanned(row, 1..n, P)
         /\ \A k \in 1..n : \A i \in P : row[k][i] = EndsAt(re[k], f[k - 1], v, i)
<1>1. P = 1..(Len(v) + 1)
  BY DEF PlacesOf
<1>2. PICK T : T = [P -> SUBSET P]
  OBVIOUS
<1>3. Table(f, T, n, row)
  BY <1>1, <1>2 DEF EndsRun
<1>4. (\A k \in 1..n : Same(f[k - 1], row, 1..(k - 1))) /\ (\A k \in 1..n : row[k] \in T) /\ Same(f[n], row, 1..n)
  BY ONLY <1>3, n \in Nat, RowsAre
<1>5. Spanned(row, 1..n, P)
  BY <1>2, <1>4 DEF Spanned
<1>6. \A k \in 1..n : row[k] = [i \in P |-> EndsAt(re[k], f[k - 1], v, i)]
  BY <1>1 DEF EndsRun
<1> QED
  BY ZenonT(40), <1>4, <1>5, <1>6 DEF EndsRun

LEMMA PrefixRows ==
  ASSUME NEW re \in Seq(Nodes), NEW f, NEW row, PrefixRun(f, row, re), NEW n \in Nat, n = Len(re)
  PROVE  /\ \A k \in 1..n : Same(f[k - 1], row, 1..(k - 1))
         /\ Same(f[n], row, 1..n) /\ LiteralPrefixes(re) = f[n] /\ Lettered(row, 1..n)
         /\ \A k \in 1..n : \A depth \in Depths : row[k][depth] = PrefixesAt(re, re[k], f[k - 1], depth)
<1>2. PICK T : T = [Depths -> LiteralSets]
  OBVIOUS
<1>3. Table(f, T, n, row)
  BY <1>2 DEF PrefixRun
<1>4. (\A k \in 1..n : Same(f[k - 1], row, 1..(k - 1))) /\ (\A k \in 1..n : row[k] \in T) /\ Same(f[n], row, 1..n)
  BY ONLY <1>3, n \in Nat, RowsAre
<1>5. Lettered(row, 1..n)
  BY <1>2, <1>4 DEF Lettered
<1>6. \A k \in 1..n : row[k] = [depth \in Depths |-> PrefixesAt(re, re[k], f[k - 1], depth)]
  BY DEF PrefixRun
<1> QED
  BY <1>4, <1>5, <1>6 DEF PrefixRun

LEMMA RequiredRows ==
  ASSUME NEW re \in Seq(Nodes), NEW f, NEW row, RequiredRun(f, row, re), NEW n \in Nat, n = Len(re)
  PROVE  /\ \A k \in 1..n : Same(f[k - 1], row, 1..(k - 1))
         /\ Same(f[n], row, 1..n) /\ RequiredLiterals(re) = f[n] /\ Lettered(row, 1..n)
         /\ \A k \in 1..n : \A depth \in Depths : row[k][depth] = RequiredAt(re, LiteralPrefixes(re), re[k], f[k - 1], depth)
<1>2. PICK T : T = [Depths -> LiteralSets]
  OBVIOUS
<1>3. Table(f, T, n, row)
  BY <1>2 DEF RequiredRun
<1>4. (\A k \in 1..n : Same(f[k - 1], row, 1..(k - 1))) /\ (\A k \in 1..n : row[k] \in T) /\ Same(f[n], row, 1..n)
  BY ONLY <1>3, n \in Nat, RowsAre
<1>5. Lettered(row, 1..n)
  BY <1>2, <1>4 DEF Lettered
<1>6. \A k \in 1..n : row[k] = [depth \in Depths |-> RequiredAt(re, LiteralPrefixes(re), re[k], f[k - 1], depth)]
  BY DEF RequiredRun
<1> QED
  BY <1>4, <1>5, <1>6 DEF RequiredRun

\* What holds of the rows holds of what is done.
LEMMA SameSaid ==
  ASSUME NEW v, NEW K, NEW P, NEW re, NEW done, NEW ends, Same(done, ends, K), NEW have, NEW said, Same(have, said, K)
  PROVE  /\ Spanned(ends, K, P) => Spanned(done, K, P)
         /\ Literally(re, v, ends, K) => Literally(re, v, done, K)
         /\ Lettered(said, K) => Lettered(have, K)
         /\ Heads(v, ends, K, said) => Heads(v, done, K, have)
         /\ Holding(v, ends, K, said) => Holding(v, done, K, have)
<1>1. Spanned(ends, K, P) => Spanned(done, K, P)
  BY DEF Same, Spanned
<1>2. Literally(re, v, ends, K) => Literally(re, v, done, K)
  BY DEF Same, Literally
<1>3. Lettered(said, K) => Lettered(have, K)
  BY DEF Same, Lettered
<1>4. Heads(v, ends, K, said) => Heads(v, done, K, have)
  BY DEF Same, Heads
<1>5. Holding(v, ends, K, said) => Holding(v, done, K, have)
  BY DEF Same, Holding
<1> QED
  BY <1>1, <1>2, <1>3, <1>4, <1>5

LEMMA FewerSaid ==
  ASSUME NEW n \in Nat, NEW k \in 1..n, NEW v, NEW P, NEW re, NEW ends, NEW said
  PROVE  /\ Spanned(ends, 1..n, P) => Spanned(ends, 1..(k - 1), P)
         /\ Literally(re, v, ends, 1..n) => Literally(re, v, ends, 1..(k - 1))
         /\ Lettered(said, 1..n) => Lettered(said, 1..(k - 1))
         /\ Heads(v, ends, 1..n, said) => Heads(v, ends, 1..(k - 1), said)
<1>1. PICK K, M : K = 1..(k - 1) /\ M = 1..n
  OBVIOUS
<1>2. \A j \in K : j \in M
  BY <1>1
<1>3. Spanned(ends, M, P) => Spanned(ends, K, P)
  BY <1>2 DEF Spanned
<1>4. Literally(re, v, ends, M) => Literally(re, v, ends, K)
  BY <1>2 DEF Literally
<1>5. Lettered(said, M) => Lettered(said, K)
  BY <1>2 DEF Lettered
<1>6. Heads(v, ends, M, said) => Heads(v, ends, K, said)
  BY <1>2 DEF Heads
<1> QED
  BY <1>1, <1>3, <1>4, <1>5, <1>6

LEMMA KnownIs ==
  ASSUME NEW re \in Seq(Nodes), NEW n \in Nat, n = Len(re), NEW k \in 1..n
  PROVE  Known(re, 1..(k - 1))
<1>1. ASSUME NEW j \in 1..(k - 1) PROVE re[j].s \in Seq(Int)
  <2>1. j \in 1..Len(re)
    OBVIOUS
  <2>2. PICK x \in Nodes : x = re[j]
    BY <2>1
  <2>3. x.s \in Seq(Int)
    BY DEF Nodes
  <2> QED
    BY <2>2, <2>3
<1> QED
  BY <1>1 DEF Known

LEMMA ReachesIs ==
  ASSUME NEW re \in Seq(Nodes), Ordered(re), NEW n \in Nat, n = Len(re), NEW k \in 1..n
  PROVE  re[k] \in Nodes /\ Reaches(re[k], 1..(k - 1))
<1>1. k \in 1..Len(re)
  OBVIOUS
<1> QED
  BY <1>1, OrderedAt DEF Reaches
-----------------------------------------------------------------------------
LEMMA LiterallyRows ==
  ASSUME NEW v \in Seq(Int), NEW re \in Seq(Nodes), Ordered(re), NEW f, NEW row, EndsRun(f, row, re, v), NEW n \in Nat, n = Len(re)
  PROVE  Literally(re, v, row, 1..n)
<1>1. PICK P : P = PlacesOf(v)
  OBVIOUS
<1>2. /\ \A k \in 1..n : Same(f[k - 1], row, 1..(k - 1))
      /\ Spanned(row, 1..n, P)
      /\ \A k \in 1..n : \A i \in P : row[k][i] = EndsAt(re[k], f[k - 1], v, i)
  BY SMTT(30), <1>1, EndsRows
<1>3. ASSUME NEW k \in 1..n, NEW i \in P, re[k].op = "lit", row[k][i] # {}
      PROVE  row[k][i] = {i + Len(re[k].s)} /\ Lies(v, i, re[k].s)
  <2>1. PICK K : K = 1..(k - 1)
    OBVIOUS
  <2>2. PICK done : done = f[k - 1]
    OBVIOUS
  <2>3. PICK node \in Nodes : node = re[k]
    BY ReachesIs
  <2>4. Reaches(node, K)
    BY <2>1, <2>3, ReachesIs
  <2>5. Spanned(row, 1..(k - 1), P)
    BY <1>2, FewerSaid
  <2>6. Same(done, row, K)
    BY <1>2, <2>1, <2>2
  <2>7. Spanned(row, K, P)
    BY <2>1, <2>5
  <2>8. Spanned(done, K, P)
    BY <2>6, <2>7 DEF Same, Spanned
  <2>9. row[k][i] = EndsAt(node, done, v, i)
    BY <1>2, <2>2, <2>3
  <2>10. EndsAt(node, done, v, i) # {}
    BY <1>3, <2>9
  <2>11. Ended(v, node, done, i)
    BY <1>1, <2>4, <2>8, <2>10, EndsSaid
  <2> QED
    BY <1>3, <2>3, <2>9, <2>11 DEF Ended
<1> QED
  BY <1>1, <1>3 DEF Literally

\* What holds of a node when it does of those before it holds of all.
LEMMA HeadsRows ==
  ASSUME NEW v \in Seq(Int), NEW re \in Seq(Nodes), Ordered(re), NEW n \in Nat, n = Len(re),
         NEW f, NEW row, EndsRun(f, row, re, v), NEW g, NEW said, PrefixRun(g, said, re)
  PROVE  Heads(v, row, 1..n, said)
<1>1. PICK P : P = PlacesOf(v)
  OBVIOUS
<1>2. /\ \A k \in 1..n : Same(f[k - 1], row, 1..(k - 1))
      /\ Spanned(row, 1..n, P)
      /\ \A k \in 1..n : \A i \in P : row[k][i] = EndsAt(re[k], f[k - 1], v, i)
  BY <1>1, EndsRows
<1>3. /\ \A k \in 1..n : Same(g[k - 1], said, 1..(k - 1))
      /\ Lettered(said, 1..n)
      /\ \A k \in 1..n : \A depth \in Depths : said[k][depth] = PrefixesAt(re, re[k], g[k - 1], depth)
  BY PrefixRows
<1>4. Literally(re, v, row, 1..n)
  BY LiterallyRows
<1>5. ASSUME NEW k \in 1..n, Heads(v, row, 1..(k - 1), said), NEW i \in P, NEW d \in Depths, row[k][i] # {}, said[k][d] # <<>>
      PROVE  AnyAt(v, i, said[k][d])
  <2>1. PICK K : K = 1..(k - 1)
    OBVIOUS
  <2>2. PICK done : done = f[k - 1]
    OBVIOUS
  <2>3. PICK have : have = g[k - 1]
    OBVIOUS
  <2>4. PICK node \in Nodes : node = re[k]
    BY ReachesIs
  <2>5. Reaches(node, K) /\ Known(re, K)
    BY <2>1, <2>4, ReachesIs, KnownIs
  <2>6. Spanned(row, 1..(k - 1), P) /\ Literally(re, v, row, 1..(k - 1)) /\ Lettered(said, 1..(k - 1))
    BY <1>2, <1>3, <1>4, FewerSaid
  <2>7. Spanned(row, K, P) /\ Literally(re, v, row, K) /\ Lettered(said, K) /\ Heads(v, row, K, said)
    BY <1>5, <2>1, <2>6
  <2>8. Same(done, row, K) /\ Same(have, said, K)
    BY <1>2, <1>3, <2>1, <2>2, <2>3
  <2>9. Spanned(done, K, P) /\ Literally(re, v, done, K) /\ Lettered(have, K) /\ Heads(v, done, K, have)
    BY ONLY <2>7, <2>8, SameSaid
  <2>10. EndsAt(node, done, v, i) # {} /\ said[k][d] = PrefixesAt(re, node, have, d)
    BY <1>2, <1>3, <1>5, <2>2, <2>3, <2>4
  <2>11. AnyAt(v, i, PrefixesAt(re, node, have, d))
    BY <1>1, <1>5, <2>5, <2>9, <2>10, PrefixSound
  <2> QED
    BY <2>10, <2>11
<1> DEFINE good == {k \in 0..n : Heads(v, row, 1..k, said)}
<1>6. 0 \in good
  <2>1. \A k : k \notin 1..0
    OBVIOUS
  <2>2. Heads(v, row, 1..0, said)
    BY <2>1 DEF Heads
  <2> QED
    BY <2>2
<1>7. ASSUME NEW k \in 1..n, k - 1 \in good PROVE k \in good
  <2>1. Heads(v, row, 1..(k - 1), said)
    BY <1>7
  <2>2. \A j \in 1..k : j = k \/ j \in 1..(k - 1)
    OBVIOUS
  <2>3. \A i \in P : \A d \in Depths : (row[k][i] # {} /\ said[k][d] # <<>>) => AnyAt(v, i, said[k][d])
    BY <1>5, <2>1
  <2>4. Heads(v, row, 1..k, said)
    BY <1>1, <2>1, <2>2, <2>3 DEF Heads
  <2> QED
    BY <2>4
<1> HIDE DEF good
<1>8. 0..n \subseteq good
  BY <1>6, <1>7, UpTo
<1>9. n \in good
  BY SMTT(30), <1>8
<1> QED
  BY <1>9 DEF good

LEMMA HoldingRows ==
  ASSUME NEW v \in Seq(Int), NEW re \in Seq(Nodes), Ordered(re), NEW n \in Nat, n = Len(re),
         NEW f, NEW row, EndsRun(f, row, re, v), NEW g, NEW said, RequiredRun(g, said, re)
  PROVE  Holding(v, row, 1..n, said)
<1>1. PICK P : P = PlacesOf(v)
  OBVIOUS
<1>2. /\ \A k \in 1..n : Same(f[k - 1], row, 1..(k - 1))
      /\ Spanned(row, 1..n, P)
      /\ \A k \in 1..n : \A i \in P : row[k][i] = EndsAt(re[k], f[k - 1], v, i)
  BY <1>1, EndsRows
<1>3. /\ \A k \in 1..n : Same(g[k - 1], said, 1..(k - 1))
      /\ Lettered(said, 1..n)
      /\ \A k \in 1..n : \A depth \in Depths : said[k][depth] = RequiredAt(re, LiteralPrefixes(re), re[k], g[k - 1], depth)
  BY RequiredRows
<1>4. Literally(re, v, row, 1..n)
  BY LiterallyRows
<1>a. PICK h, first : PrefixRun(h, first, re)
  BY PrefixTable
<1>b. Heads(v, row, 1..n, first)
  BY <1>a, HeadsRows
<1>c. Same(h[n], first, 1..n) /\ LiteralPrefixes(re) = h[n] /\ Lettered(first, 1..n)
  BY <1>a, PrefixRows
<1>d. PICK pre : pre = LiteralPrefixes(re)
  OBVIOUS
<1>e. Same(pre, first, 1..n)
  BY <1>c, <1>d
<1>f. Same(row, row, 1..n)
  BY DEF Same
<1>g. Heads(v, row, 1..n, pre) /\ Lettered(pre, 1..n)
  BY ONLY <1>b, <1>c, <1>e, <1>f, SameSaid
<1>5. ASSUME NEW k \in 1..n, Holding(v, row, 1..(k - 1), said), NEW i \in P, NEW d \in Depths, row[k][i] # {}, said[k][d] # <<>>
      PROVE  Somewhere(v, said[k][d])
  <2>1. PICK K : K = 1..(k - 1)
    OBVIOUS
  <2>2. PICK done : done = f[k - 1]
    OBVIOUS
  <2>3. PICK have : have = g[k - 1]
    OBVIOUS
  <2>4. PICK node \in Nodes : node = re[k]
    BY ReachesIs
  <2>5. Reaches(node, K) /\ Known(re, K)
    BY <2>1, <2>4, ReachesIs, KnownIs
  <2>6. /\ Spanned(row, 1..(k - 1), P) /\ Literally(re, v, row, 1..(k - 1)) /\ Lettered(said, 1..(k - 1))
        /\ Lettered(pre, 1..(k - 1)) /\ Heads(v, row, 1..(k - 1), pre)
    BY <1>2, <1>3, <1>4, <1>g, FewerSaid
  <2>7. /\ Spanned(row, K, P) /\ Literally(re, v, row, K) /\ Lettered(said, K) /\ Holding(v, row, K, said)
        /\ Lettered(pre, K) /\ Heads(v, row, K, pre)
    BY <1>5, <2>1, <2>6
  <2>8. Same(done, row, K) /\ Same(have, said, K) /\ Same(pre, pre, K)
    BY <1>2, <1>3, <2>1, <2>2, <2>3 DEF Same
  <2>9. Spanned(done, K, P) /\ Literally(re, v, done, K) /\ Lettered(have, K) /\ Holding(v, done, K, have)
    BY ONLY <2>7, <2>8, SameSaid
  <2>a. Heads(v, done, K, pre)
    BY ONLY <2>7, <2>8, SameSaid
  <2>10. EndsAt(node, done, v, i) # {} /\ said[k][d] = RequiredAt(re, pre, node, have, d)
    BY <1>2, <1>3, <1>5, <1>d, <2>2, <2>3, <2>4
  <2>11. Somewhere(v, RequiredAt(re, pre, node, have, d))
    BY <1>1, <1>5, <2>5, <2>7, <2>9, <2>a, <2>10, RequiredSound
  <2> QED
    BY <2>10, <2>11
<1> DEFINE good == {k \in 0..n : Holding(v, row, 1..k, said)}
<1>6. 0 \in good
  <2>1. \A k : k \notin 1..0
    OBVIOUS
  <2>2. Holding(v, row, 1..0, said)
    BY <2>1 DEF Holding
  <2> QED
    BY <2>2
<1>7. ASSUME NEW k \in 1..n, k - 1 \in good PROVE k \in good
  <2>1. Holding(v, row, 1..(k - 1), said)
    BY <1>7
  <2>2. \A j \in 1..k : j = k \/ j \in 1..(k - 1)
    OBVIOUS
  <2>3. \A i \in P : \A d \in Depths : (row[k][i] # {} /\ said[k][d] # <<>>) => Somewhere(v, said[k][d])
    BY <1>5, <2>1
  <2>4. Holding(v, row, 1..k, said)
    BY <1>1, <2>1, <2>2, <2>3 DEF Holding
  <2> QED
    BY <2>4
<1> HIDE DEF good
<1>8. 0..n \subseteq good
  BY <1>6, <1>7, UpTo
<1>9. n \in good
  BY <1>8
<1> QED
  BY <1>9 DEF good

\* Everything that a pattern matches has one of what it is said to require.
LEMMA RequiredLies ==
  ASSUME NEW v \in Seq(Int), NEW re \in Seq(Nodes), Ordered(re), re # <<>>, Matches(re, v)
  PROVE  Required(re) \in LiteralSets /\ (Required(re) # <<>> => Somewhere(v, Required(re)))
<1>1. PICK n \in Nat : n = Len(re)
  OBVIOUS
<1>2. PICK f, row : EndsRun(f, row, re, v)
  BY EndsTable
<1>3. PICK g, said : RequiredRun(g, said, re)
  BY RequiredTable
<1>4. Holding(v, row, 1..n, said)
  BY <1>1, <1>2, <1>3, HoldingRows
<1>5. PICK P : P = PlacesOf(v)
  OBVIOUS
<1>6. Same(f[n], row, 1..n) /\ Ends(re, v) = f[n]
  BY <1>1, <1>2, <1>5, EndsRows
<1>7. Same(g[n], said, 1..n) /\ RequiredLiterals(re) = g[n] /\ Lettered(said, 1..n)
  BY <1>1, <1>3, RequiredRows
<1>8. n \in 1..n
  BY <1>1, EmptyIs
<1>9. 0 \in Depths
  BY DEF Depths, MaxLiteralDepth
<1>10. PICK i \in PlacesOf(v) : Ends(re, v)[n][i] # {}
  BY <1>1 DEF Matches, PlacesOf
<1>11. row[n][i] # {}
  BY <1>6, <1>8, <1>10 DEF Same
<1>12. Required(re) = said[n][0]
  BY <1>1, <1>7, <1>8 DEF Same, Required
<1>13. said[n] \in [Depths -> LiteralSets]
  BY <1>7, <1>8 DEF Lettered
<1>14. Required(re) \in LiteralSets
  BY <1>9, <1>12, <1>13
<1>15. Required(re) # <<>> => Somewhere(v, Required(re))
  BY <1>4, <1>8, <1>9, <1>10, <1>11, <1>12 DEF Holding
<1> QED
  BY <1>14, <1>15
-----------------------------------------------------------------------------
(* What an operator matches has one of its literals.                         *)
LEMMA LowerIs ==
  ASSUME NEW w \in Seq(Int)
  PROVE  /\ Lower(w) \in Seq(Int) /\ Len(Lower(w)) = Len(w)
         /\ \A k \in 1..Len(w) : Lower(w)[k] = Fold(w[k])
<1>1. PICK low : low = Lower(w)
  OBVIOUS
<1>2. low = [k \in DOMAIN w |-> Fold(w[k])]
  BY <1>1 DEF Lower
<1>3. low = [k \in DOMAIN w |-> low[k]]
  BY <1>2
<1>4. \A k \in 1..Len(w) : low[k] = Fold(w[k]) /\ low[k] \in Int
  BY SMTT(30), <1>2, FoldIs
<1>5. low \in Seq(Int)
  BY <1>3, <1>4, MapIs
<1>6. Len(low) = Len(w)
  BY <1>3, <1>5
<1> QED
  BY <1>1, <1>4, <1>5, <1>6

LEMMA FoldTwice == \A b \in Int : Fold(Fold(b)) = Fold(b)
  BY DEF Fold, UpperCase

LEMMA IndexIs ==
  ASSUME NEW v \in Seq(Int), NEW w \in Seq(Int), NEW i \in 1..(Len(v) + 1), Lies(v, i, w)
  PROVE  IndexFold(v, Lower(w)) > 0
<1>1. PICK low \in Seq(Int) : low = Lower(w)
  BY LowerIs
<1>2. PICK m \in Nat : m = Len(w)
  OBVIOUS
<1>3. Len(low) = m /\ \A k \in 1..m : low[k] = Fold(w[k])
  BY <1>1, <1>2, LowerIs
<1>4. PICK n \in Nat : n = Len(v)
  OBVIOUS
<1>5. PICK places : places = {j \in 1..(n - m + 1) : EqualFold(SubSeq(v, j, j + m - 1), low)}
  OBVIOUS
<1>6. IndexFold(v, low) = IF low = <<>> THEN 1 ELSE IF places = {} THEN 0 ELSE Min(places)
  BY <1>3, <1>4, <1>5 DEF IndexFold
<1>7. i + m - 1 <= n /\ \A k \in 1..m : Fold(v[i + k - 1]) = Fold(w[k])
  <2>1. DOMAIN w = 1..m
    BY <1>2
  <2>2. i + m - 1 <= n
    BY <1>2, <1>4 DEF Lies
  <2>3. \A k \in DOMAIN w : Fold(v[i + k - 1]) = Fold(w[k])
    BY DEF Lies
  <2> QED
    BY <2>1, <2>2, <2>3
<1>8. CASE low = <<>>
  BY <1>1, <1>6, <1>8
<1>9. CASE low # <<>>
  <2>1. i \in 1..(n - m + 1)
    BY <1>4, <1>7
  <2>0. PICK last \in 0..Len(v) : last = i + m - 1
    BY SMTT(30), <1>2, <1>4, <1>7
  <2>2. PICK part \in Seq(Int) : part = SubSeq(v, i, i + m - 1)
    BY <2>0, PartOf
  <2>3. Len(part) = m /\ \A k \in 1..m : part[k] = v[i + k - 1]
    <3>1. last - i + 1 = m
      BY <2>0
    <3> QED
      BY <2>0, <2>2, <3>1, PartOf
  <2>4. PICK own \in Seq(Int) : own = Lower(part)
    BY LowerIs
  <2>5. Len(own) = m /\ \A k \in 1..m : own[k] = Fold(part[k])
    BY <2>3, <2>4, LowerIs
  <2>6. \A k \in 1..m : own[k] = low[k]
    BY <1>3, <1>7, <2>3, <2>5
  <2>7. own = low
    BY <1>3, <2>5, <2>6
  <2>8. i \in places
    BY <1>5, <2>1, <2>2, <2>4, <2>7 DEF EqualFold
  <2>9. places \in SUBSET Nat
    BY <1>4, <1>5
  <2>10. Min(places) \in places
    BY <2>8, <2>9, LeastIn
  <2>11. PICK least : least = Min(places)
    OBVIOUS
  <2>12. least >= 1 /\ least \in Nat
    BY SMTT(30), <1>4, <1>5, <2>10, <2>11
  <2> QED
    BY <1>1, <1>6, <1>9, <2>8, <2>11, <2>12
<1> QED
  BY <1>8, <1>9

\* The prefilter finds one of the literals in v.
KeyedBy(lits, v) == \E l \in DOMAIN lits : lits[l] # <<>> /\ IndexFold(v, Lower(lits[l])) > 0

\* The literals read off a pattern are necessary: every string the pattern matches
\* contains one of them, whatever the case of its letters, so the prefilter wakes the
\* rule, as long as they are ASCII: the case of other letters is folded in the literals
\* alone (ExtractLiterals, requiredLiterals, best, crossAppend of rx.go).
THEOREM ExtractSound ==
  ASSUME NEW v \in Seq(Int), NEW re, Tree(re), AsciiLiterals(re), Matches(re, v), ExtractLiterals(re) # <<>>
  PROVE  KeyedBy(ExtractLiterals(re), v)
<1>1. re \in Seq(Nodes) /\ Ordered(re) /\ re # <<>>
  BY TreeIs
<1>2. PICK lits \in LiteralSets : lits = Required(re) /\ (lits # <<>> => Somewhere(v, lits))
  BY <1>1, RequiredLies
<1>3. PICK out : out = ExtractLiterals(re)
  OBVIOUS
<1>4. (\A k \in DOMAIN lits : ~(Len(lits[k]) < MinLiteral)) /\ out = [k \in DOMAIN lits |-> ToLower(lits[k])]
  BY <1>2, <1>3 DEF ExtractLiterals
<1>5. lits # <<>>
  <2>1. ASSUME lits = <<>> PROVE out = <<>>
    <3>1. DOMAIN lits = {}
      BY <2>1
    <3> QED
      BY <1>4, <3>1
  <2> QED
    BY <1>3, <2>1
<1>6. PICK k \in 1..Len(lits), j \in 1..(Len(v) + 1) : Lies(v, j, lits[k])
  BY <1>2, <1>5 DEF Somewhere
<1>7. k \in DOMAIN lits
  BY DEF LiteralSets
<1>8. PICK w \in Seq(Int) : w = lits[k]
  BY DEF LiteralSets
<1>9. Len(w) >= 3
  BY <1>4, <1>7, <1>8 DEF MinLiteral
<1>16. ToLower(w) = Lower(w)
  <2>1. w \in Range(lits)
    BY <1>7, <1>8, RangeIs
  <2>2. \A i \in DOMAIN w : w[i] < 128 /\ w[i] \in Int
    BY <1>2, <2>1 DEF AsciiLiterals
  <2>4. \A b \in Int : b < 128 => b \notin 128..158
    OBVIOUS
  <2>3. \A i \in DOMAIN w : w[i] \notin (128..158) \ {151}
    BY Zenon, <2>2, <2>4
  <2> QED
    BY <2>3 DEF ToLower, Lower
<1>10. PICK low \in Seq(Int) : low = Lower(w)
  BY LowerIs
<1>11. Len(low) = Len(w) /\ \A m \in 1..Len(w) : low[m] = Fold(w[m])
  BY <1>10, LowerIs
<1>12. Lies(v, j, low)
  <2>1. DOMAIN low = 1..Len(w) /\ DOMAIN w = 1..Len(w)
    BY <1>11
  <2>2. \A m \in 1..Len(w) : w[m] \in Int
    OBVIOUS
  <2>3. \A m \in 1..Len(w) : Fold(low[m]) = Fold(w[m])
    BY <1>11, <2>2, FoldTwice
  <2>4. j + Len(w) - 1 <= Len(v) /\ \A m \in DOMAIN w : Fold(v[j + m - 1]) = Fold(w[m])
    BY <1>6, <1>8 DEF Lies
  <2> QED
    BY <1>11, <2>1, <2>3, <2>4 DEF Lies
<1>13. IndexFold(v, Lower(low)) > 0
  BY <1>12, IndexIs
<1>14. k \in DOMAIN out /\ out[k] = low
  BY <1>4, <1>7, <1>8, <1>10, <1>16
<1>15. low # <<>>
  BY <1>9, <1>11
<1> QED
  BY <1>3, <1>13, <1>14, <1>15 DEF KeyedBy

\* A value that the function matches has one of the literals it declares.
Promised(op) ==
  op.name = "func" => \A v \in Seq(Int) : (Matches(op.re, v) /\ op.words # <<>>) => KeyedBy(op.words, v)

\* The same of every operator there is: what it holds of contains one of the literals
\* it declares, if it declares any, those of a pattern being ASCII (Operator.Literals, Eval).
THEOREM EvalKeyed ==
  ASSUME NEW op \in Operations, OperatorShape(op), op.name # "nil", Promised(op), AsciiKeyed(op), NEW v \in Seq(Int),
         Eval(op, v), Literals(op) # <<>>
  PROVE  KeyedBy(Literals(op), v)
<1>1. PICK name \in OperatorNames : name = op.name
  BY DEF Operations
<1>2. PICK words \in Seq(Seq(Int)) : words = op.words
  BY DEF Operations
<1>3. CASE name \in {"contains", "contains_any"}
  <2>1. Literals(op) = words
    BY <1>1, <1>2, <1>3 DEF Literals
  <2>2. \E k \in DOMAIN words : words[k] # <<>> /\ IndexFold(v, Lower(words[k])) > 0
    BY <1>1, <1>2, <1>3 DEF Eval
  <2> QED
    BY <2>1, <2>2 DEF KeyedBy
<1>4. CASE name \in {"equals", "has_prefix"}
  <2>1. Literals(op) = IF words[1] = <<>> THEN <<>> ELSE words
    BY <1>1, <1>2, <1>4 DEF Literals
  <2>2. Literals(op) = words /\ words[1] # <<>>
    BY <2>1
  <2>3. Len(words) = 1
    BY <1>1, <1>2, <1>4 DEF OperatorShape
  <2>4. 1 \in DOMAIN words
    BY <2>3
  <2>5. PICK w \in Seq(Int) : w = words[1]
    BY <2>4
  <2>6. 1 \in 1..(Len(v) + 1)
    OBVIOUS
  <2>7. Lies(v, 1, w)
    <3>1. CASE name = "equals"
      <4>1. v = w
        BY <1>1, <1>2, <2>5, <3>1 DEF Eval
      <4> QED
        BY <4>1 DEF Lies
    <3>2. CASE name = "has_prefix"
      <4>1. HasAt(v, 1, Len(w)) /\ EqualFold(SubSeq(v, 1, Len(w)), Lower(w))
        BY <1>1, <1>2, <2>5, <3>2 DEF Eval
      <4>2. PICK m \in Nat : m = Len(w) /\ m <= Len(v)
        BY <4>1 DEF HasAt
      <4>10. m \in 0..Len(v) /\ 1 \in 1..(Len(v) + 1)
        BY <4>2
      <4>3. PICK part \in Seq(Int) : part = SubSeq(v, 1, m)
        BY <4>10, PartOf
      <4>4. Len(part) = m /\ \A k \in 1..m : part[k] = v[k]
        BY <4>3, <4>10, PartOf
      <4>5. Lower(part) = Lower(w)
        BY <4>1, <4>2, <4>3 DEF EqualFold
      <4>6. \A k \in 1..m : Lower(part)[k] = Fold(part[k]) /\ Lower(w)[k] = Fold(w[k])
        BY <4>2, <4>4, LowerIs
      <4>7. \A k \in 1..m : Fold(v[k]) = Fold(w[k])
        BY <4>4, <4>5, <4>6
      <4>8. DOMAIN w = 1..m /\ \A k \in 1..m : 1 + k - 1 = k
        BY <4>2
      <4>9. 1 + Len(w) - 1 <= Len(v)
        BY <4>2
      <4> QED
        BY <4>7, <4>8, <4>9 DEF Lies
    <3> QED
      BY <1>4, <3>1, <3>2
  <2>8. IndexFold(v, Lower(w)) > 0
    BY <2>6, <2>7, IndexIs
  <2> QED
    BY <2>2, <2>4, <2>5, <2>8 DEF KeyedBy
<1>5. CASE name = "rx"
  <2>1. Tree(op.re)
    BY <1>1, <1>5 DEF OperatorShape
  <2>2. PICK not \in BOOLEAN : not = op.negated
    BY DEF Operations
  <2>3. Literals(op) = IF not THEN <<>> ELSE ExtractLiterals(op.re)
    BY <1>1, <1>5, <2>2 DEF Literals
  <2>4. Literals(op) = ExtractLiterals(op.re) /\ not = FALSE
    BY <2>3
  <2>5. PICK m \in BOOLEAN : m = Matches(op.re, v)
    BY DEF Matches
  <2>6. Eval(op, v) = (m # not)
    BY <1>1, <1>5, <2>2, <2>5 DEF Eval
  <2>7. Matches(op.re, v)
    BY <2>4, <2>5, <2>6
  <2>8. AsciiLiterals(op.re)
    BY <1>1, <1>5 DEF AsciiKeyed
  <2> QED
    BY <2>1, <2>4, <2>7, <2>8, ExtractSound
<1>6. CASE name = "func"
  <2>1. Literals(op) = words
    BY <1>1, <1>2, <1>6 DEF Literals
  <2>2. Matches(op.re, v)
    BY <1>1, <1>6 DEF Eval
  <2> QED
    BY <1>1, <1>2, <1>6, <2>1, <2>2 DEF Promised
<1> QED
  BY <1>1, <1>3, <1>4, <1>5, <1>6 DEF OperatorNames
-----------------------------------------------------------------------------
(***************************************************************************)
(* Plans: the rules of a plan are the rules of the set.                    *)
(***************************************************************************)
\* Wherever a rule is placed, it is among the others.
LEMMA PlacedIs ==
  ASSUME NEW E, NEW s \in Seq(E), NEW r \in E
  PROVE  Placed(s, r) \in Seq(E) /\ \A x : x \in Range(Placed(s, r)) <=> (x \in Range(s) \/ x = r)
<1>1. PICK n \in Nat : n = Len(s) /\ DOMAIN s = 1..n
  OBVIOUS
<1>2. PICK own : own = {0} \cup {k \in DOMAIN s : ~Precedes(r, s[k])}
  OBVIOUS
<1>3. own \in SUBSET (0..n) /\ own # {}
  BY <1>1, <1>2
<1>4. PICK m \in 0..n : m = Max(own)
  BY <1>3, GreatestIn
<1>5. Placed(s, r) = InsertAt(s, 1 + m, r)
  BY <1>2, <1>4 DEF Placed
<1>6. PICK i \in 1..(Len(s) + 1) : i = 1 + m
  BY <1>1
<1>7. PICK a \in Seq(E) : a = SubSeq(s, 1, m)
  <2>1. 1 \in 1..(Len(s) + 1) /\ m \in 0..Len(s)
    BY <1>1
  <2> QED
    BY <2>1, PartOf
<1>20. Len(s) \in 0..Len(s)
  BY <1>1
<1>8. PICK b \in Seq(E) : b = SubSeq(s, i, Len(s))
  BY <1>20, PartOf
<1>9. Len(a) = m /\ \A k \in 1..m : a[k] = s[k]
  <2>1. 1 \in 1..(Len(s) + 1) /\ m \in 0..Len(s)
    BY <1>1
  <2> QED
    BY <1>7, <2>1, PartOf
<1>10. Len(b) = n - m /\ \A k \in 1..(n - m) : b[k] = s[m + k]
  <2>1. Len(b) = (IF i <= Len(s) THEN Len(s) - i + 1 ELSE 0) /\ \A k \in 1..(Len(s) - i + 1) : b[k] = s[i + k - 1]
    BY <1>8, <1>20, PartOf
  <2>2. Len(b) = n - m /\ \A k \in 1..(n - m) : k \in 1..(Len(s) - i + 1) /\ i + k - 1 = m + k
    BY <1>1, <1>6, <2>1
  <2> QED
    BY <2>1, <2>2
<1>11. PICK one : one = <<r>>
  OBVIOUS
<1>19. one \in Seq(E)
  BY <1>11
<1>12. \A x : x \in Range(one) <=> x = r
  <2>1. DOMAIN one = {1} /\ one[1] = r
    BY <1>11
  <2> QED
    BY <2>1, RangeIs
<1>13. Placed(s, r) = a \o one \o b
  <2>1. i - 1 = m /\ Placed(s, r) = InsertAt(s, i, r)
    BY <1>5, <1>6
  <2>2. InsertAt(s, i, r) = SubSeq(s, 1, i - 1) \o <<r>> \o SubSeq(s, i, Len(s))
    BY DEF InsertAt
  <2> QED
    BY <1>7, <1>8, <1>11, <2>1, <2>2
<1>14. PICK c : c = a \o one
  OBVIOUS
<1>18. c \in Seq(E) /\ \A x : x \in Range(c) <=> (x \in Range(a) \/ x \in Range(one))
  BY <1>14, <1>19, RangeOfJoin
<1>15. c \o b \in Seq(E) /\ \A x : x \in Range(c \o b) <=> (x \in Range(c) \/ x \in Range(b))
  BY <1>18, RangeOfJoin
<1>16. DOMAIN a = 1..m /\ DOMAIN b = 1..(n - m)
  BY <1>9, <1>10
<1>17. ASSUME NEW x PROVE x \in Range(s) <=> (x \in Range(a) \/ x \in Range(b))
  <2>1. ASSUME x \in Range(s) PROVE x \in Range(a) \/ x \in Range(b)
    <3>1. PICK k \in 1..n : s[k] = x
      BY <1>1, <2>1, RangeIs
    <3>2. CASE k <= m
      <4>1. k \in DOMAIN a /\ a[k] = x
        BY <1>9, <1>16, <3>1, <3>2
      <4> QED
        BY <4>1, RangeIs
    <3>3. CASE ~(k <= m)
      <4>1. k - m \in 1..(n - m) /\ m + (k - m) = k
        BY <3>3
      <4>2. k - m \in DOMAIN b /\ b[k - m] = x
        BY <1>10, <1>16, <3>1, <4>1
      <4> QED
        BY <4>2, RangeIs
    <3> QED
      BY <3>2, <3>3
  <2>2. ASSUME x \in Range(a) PROVE x \in Range(s)
    <3>1. PICK k \in 1..m : a[k] = x
      BY <1>16, <2>2, RangeIs
    <3>2. k \in DOMAIN s /\ s[k] = x
      BY <1>1, <1>9, <3>1
    <3> QED
      BY <3>2, RangeIs
  <2>3. ASSUME x \in Range(b) PROVE x \in Range(s)
    <3>1. PICK k \in 1..(n - m) : b[k] = x
      BY <1>16, <2>3, RangeIs
    <3>2. m + k \in DOMAIN s /\ s[m + k] = x
      BY <1>1, <1>10, <3>1
    <3> QED
      BY <3>2, RangeIs
  <2> QED
    BY <2>1, <2>2, <2>3
<1> QED
  BY <1>12, <1>13, <1>14, <1>15, <1>17, <1>18

\* Rule by rule.
SortedRun(f, E, set) ==
  /\ f \in [0..Len(set) -> Seq(E)]
  /\ f[0] = <<>>
  /\ \A k \in 1..Len(set) : f[k] = Placed(f[k - 1], set[k])
  /\ Sorted(set) = f[Len(set)]

LEMMA SortedFold ==
  ASSUME NEW E, NEW set \in Seq(E)
  PROVE  \E f : SortedRun(f, E, set)
<1> DEFINE T == Seq(E)
           El == E
           op(s, r) == Placed(s, r)
           base == <<>>
           step == [p \in T \X El |-> op(p[1], p[2])]
           Is(h) == h = [S \in SUBSET DOMAIN set |->
                           IF S = {} THEN base ELSE op(h[S \ {Max(S)}], set[Max(S)])]
           iter == CHOOSE h : Is(h)
<1>1. base \in T
  OBVIOUS
<1>a. \A t \in T, x \in El : op(t, x) \in T
  BY PlacedIs
<1>2. Sorted(set) = iter[DOMAIN set]
  BY DEF Sorted, FoldLeft, MapThenFoldSet
<1>0. set \in Seq(El)
  OBVIOUS
<1> HIDE DEF op, base, T, El
<1>3. step \in [T \X El -> T]
  BY <1>a
<1>b. \A t \in T, x \in El : step[<<t, x>>] = op(t, x)
  OBVIOUS
<1> HIDE DEF step
<1>4. PICK g : Partial(g, T, set, base, step, Len(set))
  BY <1>0, <1>1, <1>3, FoldExists
<1>5. ASSUME NEW S \in SUBSET DOMAIN set, S # {} PROVE g[S] = op(g[S \ {Max(S)}], set[Max(S)])
  <2>1. Max(S) \in S /\ g[S] = step[<<g[S \ {Max(S)}], set[Max(S)]>>] /\ g \in [SUBSET DOMAIN set -> T]
    BY <1>0, <1>4, <1>5, DomainOfSeq DEF Partial
  <2>2. g[S \ {Max(S)}] \in T /\ set[Max(S)] \in El
    BY <1>0, <2>1
  <2> QED
    BY <1>b, <2>1, <2>2
<1>6. g[{}] = base /\ g = [S \in SUBSET DOMAIN set |-> g[S]]
  BY <1>0, <1>4, PartialBase
<1>7. Is(iter)
  <2>1. Is(g)
    BY <1>5, <1>6
  <2> QED
    BY <2>1
<1> HIDE DEF iter
<1>8. iter[{}] = base
  BY <1>7
<1>9. ASSUME NEW S \in SUBSET DOMAIN set, S # {}, iter[S \ {Max(S)}] \in T, set[Max(S)] \in El
      PROVE  iter[S] = step[<<iter[S \ {Max(S)}], set[Max(S)]>>]
  BY <1>7, <1>9, <1>b
<1> HIDE DEF Is
<1>10. Steps(iter, T, El, set, base, step)
  BY <1>8, <1>9 DEF Steps
<1>12. PICK f : Runs(f, T, set, base, step, iter[DOMAIN set])
  BY <1>0, <1>1, <1>3, <1>10, FoldRuns
<1>13. f \in [0..Len(set) -> T] /\ f[0] = base /\ f[Len(set)] = iter[DOMAIN set]
  BY <1>12 DEF Runs
<1>11. \A k \in 1..Len(set) : f[k] = op(f[k - 1], set[k])
  BY <1>0, <1>b, <1>12, <1>13, InsideFold DEF Runs
<1> QED
  BY <1>2, <1>11, <1>13 DEF op, base, T, SortedRun

LEMMA SortedIs ==
  ASSUME NEW E, NEW set \in Seq(E)
  PROVE  Sorted(set) \in Seq(E) /\ \A x : x \in Range(Sorted(set)) <=> x \in Range(set)
<1>1. PICK f : SortedRun(f, E, set)
  BY SortedFold
<1>2. PICK n \in Nat : n = Len(set) /\ DOMAIN set = 1..n
  OBVIOUS
<1>3. /\ \A k \in 0..n : f[k] \in Seq(E)
      /\ f[0] = <<>> /\ Sorted(set) = f[n]
      /\ \A k \in 1..n : f[k] = Placed(f[k - 1], set[k])
  BY <1>1, <1>2 DEF SortedRun
<1> DEFINE good == {k \in 0..n : \A x : x \in Range(f[k]) <=> \E j \in 1..k : set[j] = x}
<1>4. 0 \in good
  <2>1. DOMAIN f[0] = {} /\ 1..0 = {}
    BY <1>3
  <2>2. \A x : x \in Range(f[0]) <=> \E j \in 1..0 : set[j] = x
    BY <2>1, RangeIs
  <2> QED
    BY <2>2
<1>5. ASSUME NEW k \in 1..n, k - 1 \in good PROVE k \in good
  <2>1. PICK s \in Seq(E) : s = f[k - 1]
    BY <1>3
  <2>2. \A x : x \in Range(s) <=> \E j \in 1..(k - 1) : set[j] = x
    BY <1>5, <2>1
  <2>3. PICK r \in E : r = set[k]
    BY <1>2
  <2>4. f[k] = Placed(s, r)
    BY <1>3, <2>1, <2>3
  <2>5. \A x : x \in Range(f[k]) <=> (x \in Range(s) \/ x = r)
    BY <2>4, PlacedIs
  <2>6. 1..k = 1..(k - 1) \cup {k}
    OBVIOUS
  <2>7. \A x : x \in Range(f[k]) <=> \E j \in 1..k : set[j] = x
    BY <2>2, <2>3, <2>5, <2>6
  <2> QED
    BY <2>7
<1> HIDE DEF good
<1>6. 0..n \subseteq good
  BY <1>4, <1>5, UpTo
<1>7. n \in good
  BY <1>6
<1>8. \A x : x \in Range(f[n]) <=> \E j \in 1..n : set[j] = x
  BY <1>7 DEF good
<1> QED
  BY <1>2, <1>3, <1>8, RangeIs

-----------------------------------------------------------------------------
\* A rule that the set may have, and that keeps its promise.
Sound(r) ==
  /\ r.op \in Operations /\ OperatorShape(r.op) /\ r.op.name # "nil" /\ Promised(r.op)
  /\ r.chain \in Seq(TransformNames)
  /\ \A t \in DOMAIN r.targets : r.targets[t].name \in Seq(Int)

LEMMA DotIs == Dot \in Int
  BY SlashDot

LEMMA SamePart ==
  ASSUME NEW s \in Seq(Int), NEW t \in Seq(Int), NEW m \in Nat, m <= Len(s), m <= Len(t), \A k \in 1..m : s[k] = t[k]
  PROVE  SubSeq(s, 1, m) = SubSeq(t, 1, m)
<1>1. m \in 0..Len(s) /\ m \in 0..Len(t) /\ 1 \in 1..(Len(s) + 1) /\ 1 \in 1..(Len(t) + 1)
  OBVIOUS
<1>2. PICK a \in Seq(Int) : a = SubSeq(s, 1, m)
  BY <1>1, PartOf
<1>3. PICK b \in Seq(Int) : b = SubSeq(t, 1, m)
  BY <1>1, PartOf
<1>4. Len(a) = m /\ \A k \in 1..m : a[k] = s[k]
  BY <1>1, <1>2, PartOf
<1>5. Len(b) = m /\ \A k \in 1..m : b[k] = t[k]
  BY <1>1, <1>3, PartOf
<1>6. Len(a) = m /\ Len(b) = m /\ \A k \in 1..m : a[k] = b[k]
  BY <1>4, <1>5
<1>7. a = b
  BY ONLY a \in Seq(Int), b \in Seq(Int), m \in Nat, <1>6
<1> QED
  BY <1>2, <1>3, <1>7

\* A target names the resolver that its values come from, or every one.
LEMMA ResolverNamed ==
  ASSUME NEW target, target.name \in Seq(Int), target.kind = "RESOLVED", NEW key \in Seq(Int), MatchesBytes(target, key)
  PROVE  ResolverSegment(target.name) \in {ResolverSegment(key), <<>>}
<1>1. PICK name \in Seq(Int) : name = target.name
  OBVIOUS
<1>2. name = <<>> \/ key = name \/ LiesAt(key, 1, Append(name, Dot))
  BY <1>1 DEF MatchesBytes
<1>3. CASE name = <<>>
  <2>1. Len(name) = 0
    BY <1>3
  <2>2. FirstIn(name, {Dot}) = 1
    <3>1. FirstIn(name, {Dot}) \in 1..(Len(name) + 1)
      BY FirstInIs
    <3> QED
      BY <2>1, <3>1
  <2>3. 1 \in 1..(Len(name) + 1) /\ 0 \in 0..Len(name)
    BY <2>1
  <2>4. PICK part \in Seq(Int) : part = SubSeq(name, 1, 0)
    BY <2>3, PartOf
  <2>5. Len(part) = 0
    BY <2>3, <2>4, PartOf
  <2>6. part = <<>>
    BY <2>5, EmptyIs
  <2>7. ResolverSegment(name) = SubSeq(name, 1, 0)
    BY <2>2 DEF ResolverSegment
  <2> QED
    BY <1>1, <2>4, <2>6, <2>7
<1>4. CASE key = name
  BY <1>1, <1>4
<1>5. CASE LiesAt(key, 1, Append(name, Dot))
  <2>1. PICK n \in Nat : n = Len(name)
    OBVIOUS
  <2>2. PICK pat : pat = Append(name, Dot)
    OBVIOUS
  <2>16. pat \in Seq(Int)
    BY <2>2, DotIs, AppendIs
  <2>3. Len(pat) = n + 1 /\ pat[n + 1] = Dot /\ \A k \in 1..n : pat[k] = name[k]
    BY <2>1, <2>2, <2>16, DotIs, AppendIs
  <2>4. n + 1 <= Len(key) /\ SubSeq(key, 1, n + 1) = pat
    <3>1. 1 + (n + 1) - 1 = n + 1
      OBVIOUS
    <3> QED
      BY <1>5, <2>2, <2>3, <3>1 DEF LiesAt, HasAt
  <2>5. \A k \in 1..(n + 1) : pat[k] = key[k]
    <3>1. n + 1 \in 0..Len(key) /\ 1 \in 1..(Len(key) + 1)
      BY <2>4
    <3>2. \A k \in 1..(n + 1 - 1 + 1) : SubSeq(key, 1, n + 1)[k] = key[1 + k - 1]
      BY <3>1, PartOf
    <3> QED
      BY <2>4, <3>2
  <2>6. PICK a \in 1..(n + 1) : a = FirstIn(name, {Dot})
    BY <2>1, FirstInIs
  <2>7. (\A k \in 1..(a - 1) : name[k] # Dot) /\ (a <= n => name[a] = Dot)
    BY <2>1, <2>6, FirstInIs
  <2>8. PICK b \in 1..(Len(key) + 1) : b = FirstIn(key, {Dot})
    BY FirstInIs
  <2>9. (\A k \in 1..(b - 1) : key[k] # Dot) /\ (b <= Len(key) => key[b] = Dot)
    BY <2>8, FirstInIs
  <2>10. key[a] = Dot /\ \A k \in 1..(a - 1) : key[k] # Dot /\ key[k] = name[k]
    BY <2>3, <2>5, <2>7
  <2>11. ~(a < b)
    <3>1. ASSUME a < b PROVE FALSE
      <4>1. a \in 1..(b - 1)
        BY <3>1
      <4> QED
        BY <2>9, <2>10, <4>1
    <3> QED
      BY <3>1
  <2>12. ~(b < a)
    <3>1. ASSUME b < a PROVE FALSE
      <4>1. b \in 1..(a - 1) /\ b <= Len(key)
        BY <2>4, <3>1
      <4> QED
        BY <2>9, <2>10, <4>1
    <3> QED
      BY <3>1
  <2>13. a = b
    BY <2>11, <2>12
  <2>14. a - 1 \in Nat /\ a - 1 <= Len(name) /\ a - 1 <= Len(key)
    BY <2>1, <2>4
  <2>15. SubSeq(name, 1, a - 1) = SubSeq(key, 1, a - 1)
    BY <2>10, <2>14, SamePart
  <2> QED
    BY <1>1, <2>6, <2>8, <2>13, <2>15 DEF ResolverSegment
<1> QED
  BY <1>2, <1>3, <1>4, <1>5

-----------------------------------------------------------------------------
\* What a group knows of its rules.
Grouped(g, own) ==
  /\ g.rules = own
  /\ g.keys = [k \in DOMAIN own |-> Literals(own[k].op)]
  /\ g.unconditional = {k \in DOMAIN own : Literals(own[k].op) = <<>>}

OfChain(rules, chain) == {r \in Range(rules) : r.chain = chain}

LEMMA GroupIs ==
  ASSUME NEW rules, NEW chain
  PROVE  /\ Group(rules, chain).chain = chain
         /\ Grouped(Group(rules, chain), Those(rules, OfChain(rules, chain)))
         /\ Group(rules, chain).targets =
              UNION {KindsOf(Those(rules, OfChain(rules, chain))[k]) : k \in DOMAIN Those(rules, OfChain(rules, chain))}
<1>1. PICK own : own = Those(rules, OfChain(rules, chain))
  OBVIOUS
<1>2. PICK g : g = Group(rules, chain)
  OBVIOUS
<1>3. g = [chain |-> chain, rules |-> own, keys |-> [k \in DOMAIN own |-> Literals(own[k].op)],
           unconditional |-> {k \in DOMAIN own : Literals(own[k].op) = <<>>},
           targets |-> UNION {KindsOf(own[k]) : k \in DOMAIN own}]
  BY <1>1, <1>2 DEF Group, OfChain
<1>4. g.chain = chain /\ g.targets = UNION {KindsOf(own[k]) : k \in DOMAIN own}
  BY <1>3
<1>5. Grouped(g, own)
  BY <1>3 DEF Grouped
<1> QED
  BY <1>1, <1>2, <1>4, <1>5

\* A rule that holds is found by the prefilter of its group.
LEMMA CandidateIs ==
  ASSUME NEW g, NEW own, NEW E, own \in Seq(E), NEW k \in 1..Len(own), Sound(own[k]), AsciiKeyed(own[k].op), NEW v \in Seq(Int),
         Grouped(g, own), Eval(own[k].op, v)
  PROVE  k \in Candidates(g, v)
<1>0. /\ g.rules = own
      /\ g.keys = [j \in DOMAIN own |-> Literals(own[j].op)]
      /\ g.unconditional = {j \in DOMAIN own : Literals(own[j].op) = <<>>}
  BY DEF Grouped
<1>1. k \in DOMAIN own
  OBVIOUS
<1>2. PICK op : op = own[k].op
  OBVIOUS
<1>3. CASE Literals(op) = <<>>
  <2>1. k \in g.unconditional
    BY <1>0, <1>1, <1>2, <1>3
  <2> QED
    BY <2>1 DEF Candidates
<1>4. CASE Literals(op) # <<>>
  <2>1. op \in Operations /\ OperatorShape(op) /\ op.name # "nil" /\ Promised(op) /\ AsciiKeyed(op)
    BY <1>2 DEF Sound
  <2>2. KeyedBy(Literals(op), v)
    BY <1>2, <1>4, <2>1, EvalKeyed
  <2>3. g.keys[k] = Literals(op)
    BY <1>0, <1>1, <1>2
  <2>4. \E l \in DOMAIN g.keys[k] : g.keys[k][l] # <<>> /\ IndexFold(v, Lower(g.keys[k][l])) > 0
    BY <2>2, <2>3 DEF KeyedBy
  <2> QED
    BY <1>0, <1>1, <2>4 DEF Candidates
<1> QED
  BY <1>3, <1>4

LEMMA CandidatesWithin ==
  ASSUME NEW g, NEW own, NEW E, own \in Seq(E), NEW v, Grouped(g, own)
  PROVE  \A k \in Candidates(g, v) : k \in 1..Len(own)
<1>1. DOMAIN own = 1..Len(own)
  OBVIOUS
<1> QED
  BY <1>1 DEF Candidates, Grouped

\* Which rules fire on a value, group by group.
FiresAt(g, value, x) ==
  \E k \in Candidates(g, Transformed(g.chain, value.bytes)) :
    /\ TargetMatches(g.rules[k], value)
    /\ Eval(g.rules[k].op, Transformed(g.chain, value.bytes))
    /\ x = g.rules[k].id

LEMMA FiredIs ==
  ASSUME NEW whole, NEW phase, NEW value, NEW groups, groups = whole[phase].groups, NEW x
  PROVE  x \in Fired(whole, phase, value)
           <=> \E g \in groups : value.kind \in g.targets /\ Present(whole, phase, value) /\ FiresAt(g, value, x)
  BY DEF Fired, FiresAt

\* The resolvers that a rule names.
Resolves(r) ==
  {ResolverSegment(r.targets[t].name) : t \in {u \in DOMAIN r.targets : r.targets[u].kind = "RESOLVED"}}

\* The rules of a phase, in order.
RulesOf(set, phase) == Those(Sorted(set), {r \in Range(set) : r.phase = phase})

\* What the plan of a phase has.
PlanHas(own, rules) ==
  /\ own.groups = {Group(rules, rules[k].chain) : k \in DOMAIN rules}
  /\ \A k \in DOMAIN rules : Resolves(rules[k]) \subseteq own.resolved

LEMMA PhaseGroups ==
  ASSUME NEW set, NEW phase \in Phases
  PROVE  PlanHas(Compile(set)[phase], RulesOf(set, phase))
<1>0. PICK rules : rules = RulesOf(set, phase)
  OBVIOUS
<1>1. Compile(set)[phase] = PhasePlan(set, phase)
  BY DEF Compile
<1>2. PhasePlan(set, phase).groups = {Group(rules, rules[k].chain) : k \in DOMAIN rules}
  BY <1>0 DEF PhasePlan, RulesOf
<1>3. PhasePlan(set, phase).resolved = UNION {Resolves(rules[k]) : k \in DOMAIN rules}
  BY <1>0 DEF PhasePlan, Resolves, RulesOf
<1>4. \A k \in DOMAIN rules : Resolves(rules[k]) \subseteq PhasePlan(set, phase).resolved
  BY <1>3
<1> QED
  BY <1>0, <1>1, <1>2, <1>4 DEF PlanHas

-----------------------------------------------------------------------------
LEMMA ChosenAre ==
  ASSUME NEW E, NEW s \in Seq(E), NEW chosen
  PROVE  /\ Those(s, chosen) \in Seq(E)
         /\ \A x : x \in Range(Those(s, chosen)) <=> (x \in Range(s) /\ x \in chosen)
<1>1. Those(s, chosen) \in Seq(E) /\ Range(Those(s, chosen)) = Range(s) \cap chosen
  BY RangeOfThose
<1> QED
  BY <1>1

LEMMA GroupRules ==
  ASSUME NEW E, NEW rules \in Seq(E), NEW chain
  PROVE  /\ Those(rules, OfChain(rules, chain)) \in Seq(E)
         /\ \A x : x \in Range(Those(rules, OfChain(rules, chain))) <=> (x \in Range(rules) /\ x.chain = chain)
<1>1. PICK chosen : chosen = OfChain(rules, chain)
  OBVIOUS
<1>2. \A x : x \in chosen <=> (x \in Range(rules) /\ x.chain = chain)
  BY <1>1 DEF OfChain
<1> QED
  BY <1>1, <1>2, ChosenAre

LEMMA PhaseRules ==
  ASSUME NEW E, NEW set \in Seq(E), NEW phase
  PROVE  /\ RulesOf(set, phase) \in Seq(E)
         /\ \A x : x \in Range(RulesOf(set, phase)) <=> (x \in Range(set) /\ x.phase = phase)
<1>0. PICK rules : rules = RulesOf(set, phase)
  OBVIOUS
<1>1. PICK chosen : chosen = {r \in Range(set) : r.phase = phase}
  OBVIOUS
<1>2. \A x : x \in chosen <=> (x \in Range(set) /\ x.phase = phase)
  BY <1>1
<1>3. PICK sorted \in Seq(E) : sorted = Sorted(set) /\ \A x : x \in Range(sorted) <=> x \in Range(set)
  BY SortedIs
<1>4. rules \in Seq(E) /\ \A x : x \in Range(rules) <=> (x \in Range(sorted) /\ x \in chosen)
  BY <1>0, <1>1, <1>3, ChosenAre DEF RulesOf
<1> QED
  BY <1>0, <1>2, <1>3, <1>4

\* A rule that fires through its group holds by itself.
LEMMA FiringHolds ==
  ASSUME NEW E, NEW rules \in Seq(E), NEW chain, NEW g, g = Group(rules, chain), NEW value, NEW x, FiresAt(g, value, x)
  PROVE  \E q \in Range(rules) : Holds(q, value) /\ x = q.id
<1>1. PICK own : own = Those(rules, OfChain(rules, chain))
  OBVIOUS
<1>2. own \in Seq(E) /\ \A q : q \in Range(own) <=> (q \in Range(rules) /\ q.chain = chain)
  BY <1>1, GroupRules
<1>3. g.chain = chain /\ Grouped(g, own)
  BY <1>1, GroupIs
<1>10. g.rules = own
  BY <1>3 DEF Grouped
<1>4. PICK v : v = Transformed(chain, value.bytes)
  OBVIOUS
<1>5. PICK k \in Candidates(g, v) : TargetMatches(own[k], value) /\ Eval(own[k].op, v) /\ x = own[k].id
  BY <1>3, <1>4, <1>10 DEF FiresAt
<1>6. k \in 1..Len(own)
  BY <1>2, <1>3, CandidatesWithin
<1>7. own[k] \in Range(own)
  BY <1>2, <1>6, OfItsMembers
<1>8. own[k] \in Range(rules) /\ own[k].chain = chain
  BY <1>2, <1>7
<1>9. Holds(own[k], value)
  BY <1>4, <1>5, <1>8 DEF Holds
<1> QED
  BY <1>5, <1>8, <1>9

\* A rule that holds fires through its group.
LEMMA HoldingFires ==
  ASSUME NEW E, NEW rules \in Seq(E), NEW q \in Range(rules), Sound(q), NEW g, g = Group(rules, q.chain),
         NEW value, value.bytes \in Seq(Int), Holds(q, value), AsciiKeyed(q.op)
  PROVE  value.kind \in g.targets /\ FiresAt(g, value, q.id)
<1>1. PICK own : own = Those(rules, OfChain(rules, q.chain))
  OBVIOUS
<1>2. own \in Seq(E) /\ \A r : r \in Range(own) <=> (r \in Range(rules) /\ r.chain = q.chain)
  BY <1>1, GroupRules
<1>0. PICK chain : chain = q.chain
  OBVIOUS
<1>3. /\ g.chain = q.chain /\ Grouped(g, own)
      /\ g.targets = UNION {KindsOf(own[k]) : k \in DOMAIN own}
  BY <1>0, <1>1, GroupIs
<1>12. g.rules = own
  BY <1>3 DEF Grouped
<1>4. PICK k \in DOMAIN own : own[k] = q
  BY <1>2, RangeIs
<1>5. k \in 1..Len(own)
  BY <1>2, <1>4
<1>6. PICK v \in Seq(Int) : v = Transformed(q.chain, value.bytes)
  BY TransformedType DEF Sound
<1>7. TargetMatches(q, value) /\ Eval(q.op, v)
  BY <1>6 DEF Holds
<1>8. k \in Candidates(g, v)
  BY <1>2, <1>3, <1>4, <1>5, <1>7, CandidateIs
<1>9. FiresAt(g, value, q.id)
  BY <1>3, <1>4, <1>6, <1>7, <1>8, <1>12 DEF FiresAt
<1>10. value.kind \in KindsOf(q)
  BY <1>7 DEF TargetMatches, KindsOf
<1>11. value.kind \in g.targets
  BY <1>3, <1>4, <1>10
<1> QED
  BY <1>9, <1>11

LEMMA HoldingPresent ==
  ASSUME NEW whole, NEW phase, NEW q, Sound(q), Resolves(q) \subseteq whole[phase].resolved,
         NEW value, value.key \in Seq(Int), TargetMatches(q, value)
  PROVE  Present(whole, phase, value)
<1> SUFFICES ASSUME value.kind = "RESOLVED" PROVE NeedsResolver(whole, phase, ResolverSegment(value.key))
  BY DEF Present
<1>1. PICK t \in DOMAIN q.targets : q.targets[t].kind = "RESOLVED" /\ MatchesBytes(q.targets[t], value.key)
  BY DEF TargetMatches
<1>2. PICK target : target = q.targets[t]
  OBVIOUS
<1>3. target.name \in Seq(Int)
  BY <1>1, <1>2 DEF Sound
<1>4. ResolverSegment(target.name) \in {ResolverSegment(value.key), <<>>}
  BY <1>1, <1>2, <1>3, ResolverNamed
<1>5. ResolverSegment(target.name) \in Resolves(q)
  BY <1>1, <1>2 DEF Resolves
<1> QED
  BY <1>4, <1>5 DEF NeedsResolver

\* The rules of a set are sound; one of them holds by itself.
AllSound(set) == \A r \in Range(set) : Sound(r)
RuleHolds(set, phase, value, x) == \E q \in Range(set) : q.phase = phase /\ Holds(q, value) /\ x = q.id
KeyedHolds(set, phase, value, x) ==
  \E q \in Range(set) : q.phase = phase /\ Holds(q, value) /\ AsciiKeyed(q.op) /\ x = q.id

\* Grouping by target and chain, the always-on rules, the literals and the resolvers
\* neither add a rule nor lose one whose literals are ASCII: of any set of sound rules,
\* compiled, those fire that hold one by one (Compile, Fired).
THEOREM PlanFires ==
  ASSUME NEW E, NEW set \in Seq(E), AllSound(set), NEW phase \in Phases,
         NEW value, value.bytes \in Seq(Int), value.key \in Seq(Int), NEW x
  PROVE  /\ x \in Fired(Compile(set), phase, value) => RuleHolds(set, phase, value, x)
         /\ KeyedHolds(set, phase, value, x) => x \in Fired(Compile(set), phase, value)
<1>1. PICK rules : rules = RulesOf(set, phase)
  OBVIOUS
<1>2. rules \in Seq(E) /\ \A r : r \in Range(rules) <=> (r \in Range(set) /\ r.phase = phase)
  BY <1>1, PhaseRules
<1>3. PICK whole : whole = Compile(set)
  OBVIOUS
<1>4. PICK groups : groups = whole[phase].groups
  OBVIOUS
<1>5. /\ groups = {Group(rules, rules[k].chain) : k \in DOMAIN rules}
      /\ \A k \in DOMAIN rules : Resolves(rules[k]) \subseteq whole[phase].resolved
  BY <1>1, <1>3, <1>4, PhaseGroups DEF PlanHas
<1>6. x \in Fired(whole, phase, value)
        <=> \E g \in groups : value.kind \in g.targets /\ Present(whole, phase, value) /\ FiresAt(g, value, x)
  BY <1>4, FiredIs
<1>7. ASSUME NEW g \in groups, FiresAt(g, value, x)
      PROVE  \E q \in Range(set) : q.phase = phase /\ Holds(q, value) /\ x = q.id
  <2>1. PICK k \in DOMAIN rules : g = Group(rules, rules[k].chain)
    BY <1>5
  <2>2. PICK chain : chain = rules[k].chain
    OBVIOUS
  <2>3. \E q \in Range(rules) : Holds(q, value) /\ x = q.id
    BY <1>2, <1>7, <2>1, <2>2, FiringHolds
  <2> QED
    BY <1>2, <2>3
<1>8. ASSUME NEW q \in Range(set), q.phase = phase, Holds(q, value), AsciiKeyed(q.op), x = q.id
      PROVE  \E g \in groups : value.kind \in g.targets /\ Present(whole, phase, value) /\ FiresAt(g, value, x)
  <2>1. q \in Range(rules) /\ Sound(q)
    BY <1>2, <1>8 DEF AllSound
  <2>2. PICK k \in DOMAIN rules : rules[k] = q
    BY <2>1, RangeIs
  <2>3. PICK g : g = Group(rules, q.chain)
    OBVIOUS
  <2>4. g \in groups
    BY <1>5, <2>2, <2>3
  <2>5. value.kind \in g.targets /\ FiresAt(g, value, q.id)
    BY <1>2, <1>8, <2>1, <2>3, HoldingFires
  <2>6. TargetMatches(q, value)
    BY <1>8 DEF Holds
  <2>7. Present(whole, phase, value)
    BY <1>5, <2>1, <2>2, <2>6, HoldingPresent
  <2> QED
    BY <1>8, <2>4, <2>5, <2>7
<1> QED
  BY <1>3, <1>6, <1>7, <1>8 DEF RuleHolds, KeyedHolds

-----------------------------------------------------------------------------
(***************************************************************************)
(* The set that New compiles: the rules written in Go, their counterparts, *)
(* and the imported ones.                                                  *)
(***************************************************************************)
\* A set and the images of its chosen rules behind it.
Imaged(own, mirror) == [k \in DOMAIN own |-> mirror[own[k]]]
Extended(s, out, T, chosen, mirror) ==
  /\ s \o out \in Seq(T)
  /\ \A x : x \in Range(s \o out) <=> (x \in Range(s) \/ \E e \in Range(s) : e \in chosen /\ x = mirror[e])

LEMMA MirroredIs ==
  ASSUME NEW E, NEW s \in Seq(E), NEW chosen, NEW T, E \subseteq T, NEW mirror, \A e \in E : mirror[e] \in T,
         NEW own, own = Those(s, chosen), NEW out, out = Imaged(own, mirror)
  PROVE  Extended(s, out, T, chosen, mirror)
<1>0. out = [k \in DOMAIN own |-> mirror[own[k]]]
  BY DEF Imaged
<1>1. own \in Seq(E) /\ \A x : x \in Range(own) <=> (x \in Range(s) /\ x \in chosen)
  BY ChosenAre
<1>2. out = [k \in DOMAIN own |-> out[k]]
  BY <1>0
<1>3. \A k \in 1..Len(own) : own[k] \in E /\ k \in DOMAIN own
  BY <1>1
<1>4. \A k \in 1..Len(own) : out[k] \in T
  BY <1>0, <1>3
<1>8. own \in Seq(E)
  BY <1>1
<1>5. out \in Seq(T)
  BY ONLY <1>2, <1>4, <1>8, MapIs
<1>6. s \in Seq(T)
  OBVIOUS
<1>7. \A x : x \in Range(out) <=> \E e \in Range(s) : e \in chosen /\ x = mirror[e]
  <2> SUFFICES ASSUME NEW x PROVE x \in Range(out) <=> \E e \in Range(s) : e \in chosen /\ x = mirror[e]
    OBVIOUS
  <2>1. ASSUME x \in Range(out) PROVE \E e \in Range(s) : e \in chosen /\ x = mirror[e]
    <3>1. PICK k \in DOMAIN out : out[k] = x
      BY <2>1, RangeIs
    <3>2. k \in DOMAIN own /\ x = mirror[own[k]]
      BY <1>0, <3>1
    <3>3. own[k] \in Range(own)
      BY <3>2, RangeIs
    <3> QED
      BY <1>1, <3>2, <3>3
  <2>2. ASSUME NEW e \in Range(s), e \in chosen, x = mirror[e] PROVE x \in Range(out)
    <3>1. e \in Range(own)
      BY <1>1, <2>2
    <3>2. PICK k \in DOMAIN own : own[k] = e
      BY <3>1, RangeIs
    <3>3. k \in DOMAIN out /\ out[k] = x
      BY <1>0, <2>2, <3>2
    <3> QED
      BY <3>3, RangeIs
  <2> QED
    BY <2>1, <2>2
<1> QED
  BY <1>5, <1>6, <1>7, RangeOfJoin DEF Extended

\* The rules of a set and their counterparts, in one phase and the other.
Mirrors2(set, x) == \E e \in Range(set) : e.phase = 1 /\ ReadsArgs(e) /\ x = MirrorToBody(e)
Mirrors4(set, x) == \E e \in Range(set) : e.phase = 3 /\ x = MirrorToResponse(e)

LEMMA BodyPhaseIs ==
  ASSUME NEW E, NEW set \in Seq(E)
  PROVE  \E T : /\ WithBodyPhase(set) \in Seq(T)
                /\ \A x : x \in Range(WithBodyPhase(set)) <=> (x \in Range(set) \/ Mirrors2(set, x))
<1>1. PICK chosen : chosen = {r \in Range(set) : r.phase = 1 /\ ReadsArgs(r)}
  OBVIOUS
<1>2. PICK own : own = Those(set, chosen)
  OBVIOUS
<1>3. own \in Seq(E)
  BY <1>2, ChosenAre
<1>4. PICK mirror : mirror = [e \in E |-> MirrorToBody(e)]
  OBVIOUS
<1>5. PICK T : T = E \cup {MirrorToBody(e) : e \in E}
  OBVIOUS
<1>6. E \subseteq T /\ \A e \in E : mirror[e] \in T
  BY <1>4, <1>5
<1>7. PICK out : out = Imaged(own, mirror)
  OBVIOUS
<1>8. \A k \in DOMAIN own : own[k] \in E
  BY <1>3
<1>9. Mirrors(own, MirrorToBody) = out
  <2>1. Mirrors(own, MirrorToBody) = [k \in DOMAIN own |-> MirrorToBody(own[k])]
    BY DEF Mirrors
  <2>2. \A k \in DOMAIN own : mirror[own[k]] = MirrorToBody(own[k])
    BY <1>4, <1>8
  <2> QED
    BY <1>7, <2>1, <2>2 DEF Imaged
<1>10. WithBodyPhase(set) = set \o out
  BY <1>1, <1>2, <1>9 DEF WithBodyPhase
<1>11. set \o out \in Seq(T) /\ \A x : x \in Range(set \o out) <=> (x \in Range(set) \/ \E e \in Range(set) : e \in chosen /\ x = mirror[e])
  BY <1>2, <1>6, <1>7, MirroredIs DEF Extended
<1>12. \A e \in Range(set) : e \in E /\ mirror[e] = MirrorToBody(e)
  <2>1. \A e \in Range(set) : e \in E
    BY RangeIs
  <2> QED
    BY <1>4, <2>1
<1>13. \A x : Mirrors2(set, x) <=> \E e \in Range(set) : e \in chosen /\ x = mirror[e]
  BY <1>1, <1>12 DEF Mirrors2
<1> QED
  BY <1>10, <1>11, <1>13

LEMMA ResponsePhaseIs ==
  ASSUME NEW E, NEW set \in Seq(E)
  PROVE  \E T : /\ WithResponsePhase(set) \in Seq(T)
                /\ \A x : x \in Range(WithResponsePhase(set)) <=> (x \in Range(set) \/ Mirrors4(set, x))
<1>1. PICK chosen : chosen = {r \in Range(set) : r.phase = 3}
  OBVIOUS
<1>2. PICK own : own = Those(set, chosen)
  OBVIOUS
<1>3. own \in Seq(E)
  BY <1>2, ChosenAre
<1>4. PICK mirror : mirror = [e \in E |-> MirrorToResponse(e)]
  OBVIOUS
<1>5. PICK T : T = E \cup {MirrorToResponse(e) : e \in E}
  OBVIOUS
<1>6. E \subseteq T /\ \A e \in E : mirror[e] \in T
  BY <1>4, <1>5
<1>7. PICK out : out = Imaged(own, mirror)
  OBVIOUS
<1>8. \A k \in DOMAIN own : own[k] \in E
  BY <1>3
<1>9. Mirrors(own, MirrorToResponse) = out
  <2>1. Mirrors(own, MirrorToResponse) = [k \in DOMAIN own |-> MirrorToResponse(own[k])]
    BY DEF Mirrors
  <2>2. \A k \in DOMAIN own : mirror[own[k]] = MirrorToResponse(own[k])
    BY <1>4, <1>8
  <2> QED
    BY <1>7, <2>1, <2>2 DEF Imaged
<1>10. WithResponsePhase(set) = set \o out
  BY <1>1, <1>2, <1>9 DEF WithResponsePhase
<1>11. set \o out \in Seq(T) /\ \A x : x \in Range(set \o out) <=> (x \in Range(set) \/ \E e \in Range(set) : e \in chosen /\ x = mirror[e])
  BY <1>2, <1>6, <1>7, MirroredIs DEF Extended
<1>12. \A e \in Range(set) : e \in E /\ mirror[e] = MirrorToResponse(e)
  <2>1. \A e \in Range(set) : e \in E
    BY RangeIs
  <2> QED
    BY <1>4, <2>1
<1>13. \A x : Mirrors4(set, x) <=> \E e \in Range(set) : e \in chosen /\ x = mirror[e]
  BY <1>1, <1>12 DEF Mirrors4
<1> QED
  BY <1>10, <1>11, <1>13

\* What a counterpart has of its rule, and what it has of its own.
LEMMA MirrorsAre ==
  ASSUME NEW r, RuleShape(r)
  PROVE  /\ MirrorToBody(r).id = r.id + BodyOffset /\ MirrorToBody(r).from = r.id /\ MirrorToBody(r).phase = 2
         /\ MirrorToBody(r).targets = BodyTargetsFor(r) /\ MirrorToBody(r).chain = r.chain
         /\ MirrorToBody(r).op = r.op /\ MirrorToBody(r).confidence = r.confidence
         /\ MirrorToResponse(r).id = r.id + ResponseOffset /\ MirrorToResponse(r).from = r.from /\ MirrorToResponse(r).phase = 4
         /\ MirrorToResponse(r).targets = <<All("RESPONSE_HEADERS"), All("RESPONSE_BODY")>>
         /\ MirrorToResponse(r).chain = r.chain /\ MirrorToResponse(r).op = r.op
         /\ MirrorToResponse(r).confidence = r.confidence
<1>1. PICK b : b = MirrorToBody(r)
  OBVIOUS
<1>2. PICK p : p = MirrorToResponse(r)
  OBVIOUS
<1>3. PICK ts : ts = BodyTargetsFor(r)
  OBVIOUS
<1>4. PICK us : us = <<All("RESPONSE_HEADERS"), All("RESPONSE_BODY")>>
  OBVIOUS
<1>5. r = [id |-> r.id, from |-> r.from, phase |-> r.phase, targets |-> r.targets, chain |-> r.chain, op |-> r.op,
           action |-> r.action, severity |-> r.severity, confidence |-> r.confidence, msg |-> r.msg, tags |-> r.tags]
  BY DEF RuleShape
<1>6. b = [id |-> r.id + BodyOffset, from |-> r.id, phase |-> 2, targets |-> ts, chain |-> r.chain, op |-> r.op,
           action |-> r.action, severity |-> r.severity, confidence |-> r.confidence, msg |-> r.msg, tags |-> r.tags]
  BY <1>1, <1>3, <1>5 DEF MirrorToBody
<1>7. p = [id |-> r.id + ResponseOffset, from |-> r.from, phase |-> 4, targets |-> us, chain |-> r.chain, op |-> r.op,
           action |-> r.action, severity |-> r.severity, confidence |-> r.confidence, msg |-> r.msg, tags |-> r.tags]
  BY <1>2, <1>4, <1>5 DEF MirrorToResponse
<1> QED
  BY <1>1, <1>2, <1>3, <1>4, <1>6, <1>7

-----------------------------------------------------------------------------
\* Where a rule of the set comes from.
Origin(x, own) ==
  \/ x \in Range(Authored)
  \/ Mirrors2(Authored, x)
  \/ Mirrors4(Authored, x)
  \/ x \in Range(own)

LEMMA AuthoredAre == Authored \in Seq(Range(Authored)) /\ \A r \in Range(Authored) : RuleShape(r) /\ r.from = 0
  BY RulesAssumption

LEMMA SetIs ==
  ASSUME NEW E, NEW own \in Seq(E)
  PROVE  \E T : /\ Set(own) \in Seq(T)
                /\ \A x : x \in Range(Set(own)) <=> (Origin(x, own) /\ x.confidence >= opts.least)
<1>1. PICK T2 : /\ WithBodyPhase(Authored) \in Seq(T2)
                /\ \A x : x \in Range(WithBodyPhase(Authored)) <=> (x \in Range(Authored) \/ Mirrors2(Authored, x))
  BY AuthoredAre, BodyPhaseIs
<1>2. PICK two : two = WithBodyPhase(Authored)
  OBVIOUS
<1>3. two \in Seq(T2) /\ \A x : x \in Range(two) <=> (x \in Range(Authored) \/ Mirrors2(Authored, x))
  BY <1>1, <1>2
<1>4. PICK T4 : /\ WithResponsePhase(two) \in Seq(T4)
                /\ \A x : x \in Range(WithResponsePhase(two)) <=> (x \in Range(two) \/ Mirrors4(two, x))
  BY <1>3, ResponsePhaseIs
<1>5. PICK four : four = WithResponsePhase(two)
  OBVIOUS
<1>6. \A x : Mirrors4(two, x) <=> Mirrors4(Authored, x)
  <2>1. \A e : Mirrors2(Authored, e) => e.phase = 2
    BY AuthoredAre, MirrorsAre DEF Mirrors2
  <2>2. \A e \in Range(two) : e.phase = 3 => e \in Range(Authored)
    BY <1>3, <2>1
  <2>3. \A e \in Range(Authored) : e \in Range(two)
    BY <1>3
  <2> QED
    BY <2>2, <2>3 DEF Mirrors4
<1>7. four \in Seq(T4) /\ \A x : x \in Range(four) <=> (x \in Range(Authored) \/ Mirrors2(Authored, x) \/ Mirrors4(Authored, x))
  BY <1>3, <1>4, <1>5, <1>6
<1>8. PICK T : T = T4 \cup E
  OBVIOUS
<1>9. four \in Seq(T) /\ own \in Seq(T)
  BY <1>7, <1>8
<1>10. PICK both : both = four \o own
  OBVIOUS
<1>11. both \in Seq(T) /\ \A x : x \in Range(both) <=> Origin(x, own)
  BY <1>7, <1>9, <1>10, RangeOfJoin DEF Origin
<1>12. PICK chosen : chosen = {r \in Range(both) : r.confidence >= opts.least}
  OBVIOUS
<1>13. \A x : x \in chosen <=> (x \in Range(both) /\ x.confidence >= opts.least)
  BY <1>12
<1>14. Set(own) = Those(both, chosen)
  BY <1>2, <1>5, <1>10, <1>12 DEF Set, SelectByConfidence
<1> QED
  BY <1>11, <1>13, <1>14, ChosenAre

-----------------------------------------------------------------------------
\* What the ruleset is told of its predicates: whatever a predicate finds has
\* one of the literals that were declared with it.
DetectorsKeep ==
  /\ \A name \in DOMAIN Detectors : Promised(FuncOf(Detectors[name].holds, Detectors[name].literals))
  /\ \A r \in Range(Authored) : Promised(r.op)

\* What validation leaves of the mistakes a rule can have.
LEMMA ValidIs ==
  ASSUME NEW set, Valid(set, FALSE), NEW k \in DOMAIN set, NEW r, r = set[k]
  PROVE  /\ r.id # 0 /\ \A j \in 1..(k - 1) : set[j].id # r.id
         /\ r.op.name # "nil"
         /\ \A t \in DOMAIN r.chain : r.chain[t] \in TransformNames
<1>1. Faults(set, k, FALSE) = {}
  BY DEF Valid
<1>2. PICK poor \in BOOLEAN : poor <=> (r.id = 0 \/ \E j \in 1..(k - 1) : set[j].id = r.id)
  OBVIOUS
<1>3. PICK kinds : kinds = {r.targets[t].kind : t \in DOMAIN r.targets}
  OBVIOUS
<1>4. Faults(set, k, FALSE) =
        IF poor THEN {"ID"}
        ELSE {f \in {"ID", "Phase", "Targets", "Op", "Transforms", "Severity", "Confidence"} :
                CASE f = "ID" -> FALSE /\ r.id < UserMin
                  [] f = "Phase" -> r.phase \notin Phases
                  [] f = "Targets" -> r.targets = <<>> \/ ~(kinds \subseteq Kinds)
                                      \/ (r.phase \in Phases /\ \E kind \in kinds : KindPhase(kind) > r.phase)
                  [] f = "Op" -> r.op.name = "nil"
                  [] f = "Transforms" -> \E t \in DOMAIN r.chain : r.chain[t] \notin TransformNames
                  [] f = "Severity" -> r.severity \notin 0..3
                  [] f = "Confidence" -> r.confidence \notin 0..4}
  BY <1>2, <1>3 DEF Faults
<1>5. ~poor
  BY <1>1, <1>4
<1>6. r.op.name # "nil"
  BY <1>1, <1>4, <1>5
<1>7. ~(\E t \in DOMAIN r.chain : r.chain[t] \notin TransformNames)
  BY <1>1, <1>4, <1>5
<1> QED
  BY <1>2, <1>5, <1>6, <1>7

LEMMA OneNumber ==
  ASSUME NEW E, NEW set \in Seq(E), Valid(set, FALSE), NEW a \in Range(set), NEW b \in Range(set), a.id = b.id
  PROVE  a = b
<1>1. PICK j \in 1..Len(set) : set[j] = a
  BY RangeIs
<1>2. PICK k \in 1..Len(set) : set[k] = b
  BY RangeIs
<1>3. j \in DOMAIN set /\ k \in DOMAIN set
  OBVIOUS
<1>4. \A i \in 1..(j - 1) : set[i].id # a.id
  BY <1>1, <1>3, ValidIs
<1>5. \A i \in 1..(k - 1) : set[i].id # b.id
  BY <1>2, <1>3, ValidIs
<1>6. ~(k < j)
  BY <1>2, <1>4
<1>7. ~(j < k)
  BY <1>1, <1>5
<1> QED
  BY <1>1, <1>2, <1>6, <1>7

CounterpartKinds == {"ARGS", "REQUEST_BODY", "ARGS_NAMES", "RESPONSE_HEADERS", "RESPONSE_BODY"}

LEMMA CounterpartTargets ==
  ASSUME NEW r
  PROVE  /\ BodyTargetsFor(r) \in Seq([kind: CounterpartKinds, name: Seq(Int)])
         /\ <<All("RESPONSE_HEADERS"), All("RESPONSE_BODY")>> \in Seq([kind: CounterpartKinds, name: Seq(Int)])
<1>1. PICK T : T = [kind: CounterpartKinds, name: Seq(Int)]
  OBVIOUS
<1>2. \A kind \in CounterpartKinds : All(kind) \in T
  BY <1>1, NoneIs DEF All
<1>3. \A a \in T, b \in T : <<a, b>> \in Seq(T) /\ <<a>> \in Seq(T)
  OBVIOUS
<1>4. PICK x : x = IF ReadsValues(r) THEN <<All("ARGS"), All("REQUEST_BODY")>> ELSE <<>>
  OBVIOUS
<1>5. PICK y : y = IF ReadsNames(r) THEN <<All("ARGS_NAMES")>> ELSE <<>>
  OBVIOUS
<1>12. /\ All("ARGS") \in T /\ All("REQUEST_BODY") \in T /\ All("ARGS_NAMES") \in T
       /\ All("RESPONSE_HEADERS") \in T /\ All("RESPONSE_BODY") \in T
  BY <1>2 DEF CounterpartKinds
<1>6. <<All("ARGS"), All("REQUEST_BODY")>> \in Seq(T) /\ <<All("ARGS_NAMES")>> \in Seq(T)
  BY <1>3, <1>12
<1>7. <<>> \in Seq(T)
  BY NoneIs
<1>8. x \in Seq(T) /\ y \in Seq(T)
  BY <1>4, <1>5, <1>6, <1>7
<1>9. x \o y \in Seq(T)
  BY <1>8
<1>10. BodyTargetsFor(r) = x \o y
  BY <1>4, <1>5 DEF BodyTargetsFor
<1>11. <<All("RESPONSE_HEADERS"), All("RESPONSE_BODY")>> \in Seq(T)
  BY <1>3, <1>12
<1> QED
  BY <1>1, <1>9, <1>10, <1>11

\* What a rule of the set has, whether or not it is valid.
Shaped(r) ==
  /\ r.op \in Operations /\ OperatorShape(r.op) /\ Promised(r.op)
  /\ r.chain \in Seq(Range(r.chain))
  /\ \A t \in DOMAIN r.targets : r.targets[t].name \in Seq(Int)

LEMMA NamesOf ==
  ASSUME NEW K, NEW ts \in Seq([kind: K, name: Seq(Int)])
  PROVE  \A t \in DOMAIN ts : ts[t].name \in Seq(Int)
<1>1. PICK T : T = [kind: K, name: Seq(Int)]
  OBVIOUS
<1>2. ts \in Seq(T)
  BY <1>1
<1>3. \A t \in DOMAIN ts : ts[t] \in T
  BY <1>2
<1>4. \A x \in T : x.name \in Seq(Int)
  BY <1>1
<1> QED
  BY <1>3, <1>4

LEMMA AuthoredShaped == DetectorsKeep => \A r \in Range(Authored) : Shaped(r)
<1> SUFFICES ASSUME DetectorsKeep, NEW r \in Range(Authored) PROVE Shaped(r)
  OBVIOUS
<1>1. RuleShape(r) /\ Promised(r.op)
  BY AuthoredAre DEF DetectorsKeep
<1>2. r.op \in Operations /\ OperatorShape(r.op) /\ r.chain \in Seq(STRING) /\ r.targets \in Seq([kind: STRING, name: Seq(Int)])
  BY <1>1 DEF RuleShape
<1>3. r.chain \in Seq(Range(r.chain))
  BY <1>2, OfItsMembers
<1>4. \A t \in DOMAIN r.targets : r.targets[t].name \in Seq(Int)
  BY <1>2, NamesOf
<1> QED
  BY <1>1, <1>2, <1>3, <1>4 DEF Shaped

LEMMA MirrorsShaped ==
  ASSUME DetectorsKeep, NEW x, Mirrors2(Authored, x) \/ Mirrors4(Authored, x)
  PROVE  Shaped(x)
<1>1. PICK r \in Range(Authored) : x = MirrorToBody(r) \/ x = MirrorToResponse(r)
  BY DEF Mirrors2, Mirrors4
<1>2. RuleShape(r) /\ Shaped(r)
  BY AuthoredAre, AuthoredShaped
<1>3. x.op = r.op /\ x.chain = r.chain
  BY <1>1, <1>2, MirrorsAre
<1>4. x.targets = BodyTargetsFor(r) \/ x.targets = <<All("RESPONSE_HEADERS"), All("RESPONSE_BODY")>>
  BY <1>1, <1>2, MirrorsAre
<1>5. PICK K : K = CounterpartKinds
  OBVIOUS
<1>6. x.targets \in Seq([kind: K, name: Seq(Int)])
  BY <1>4, <1>5, CounterpartTargets
<1>7. \A t \in DOMAIN x.targets : x.targets[t].name \in Seq(Int)
  BY <1>6, NamesOf
<1> QED
  BY <1>2, <1>3, <1>7 DEF Shaped

LEMMA ImportsShaped ==
  ASSUME DetectorsKeep, NEW r \in Imports
  PROVE  Shaped(r)
<1>1. r.op \in Constructions /\ r.chain \in Seq(ChainNames) /\ r.targets \in Seq(Targeted)
  BY DEF Imports
<1>2. PICK op : op = r.op
  OBVIOUS
<1>3. op \in Operations /\ OperatorShape(op) /\ Constructed(op)
  BY <1>1, <1>2 DEF Constructions
<1>4. Promised(op)
  <2>1. ASSUME NEW w \in Seq(Int), op \in {ContainsOne(w), Equals(w), HasPrefix(w)} PROVE op.name # "func"
    <3>1. op.name \in {"contains", "equals", "has_prefix"}
      BY <2>1 DEF ContainsOne, Equals, HasPrefix, Operator
    <3> QED
      BY <3>1
  <2>2. ASSUME NEW ws \in Seq(Seq(Int)), op = ContainsAny(ws) PROVE op.name # "func"
    BY <2>2 DEF ContainsAny, Operator
  <2>3. ASSUME NEW re \in Trees, NEW negated \in BOOLEAN, op = Rx(re, negated) PROVE op.name # "func"
    BY <2>3 DEF Rx, Operator
  <2>4. op.name # "func" => Promised(op)
    BY DEF Promised
  <2>5. ASSUME NEW name \in DOMAIN Detectors, op = FuncOf(Detectors[name].holds, Detectors[name].literals) PROVE Promised(op)
    BY <2>5 DEF DetectorsKeep
  <2> QED
    BY <1>3, <2>1, <2>2, <2>3, <2>4, <2>5 DEF Constructed
<1>5. r.chain \in Seq(Range(r.chain))
  BY <1>1, OfItsMembers
<1>6. PICK K : K = TargetKinds
  OBVIOUS
<1>7. r.targets \in Seq([kind: K, name: Seq(Int)])
  BY <1>1, <1>6 DEF Targeted
<1>8. \A t \in DOMAIN r.targets : r.targets[t].name \in Seq(Int)
  BY <1>7, NamesOf
<1> QED
  BY <1>2, <1>3, <1>4, <1>5, <1>8 DEF Shaped

\* A set that validation accepted has sound rules.
LEMMA SetSound ==
  ASSUME DetectorsKeep, NEW own \in Seq(Imports), Valid(Set(own), FALSE)
  PROVE  \A r \in Range(Set(own)) : Sound(r)
<1> SUFFICES ASSUME NEW r \in Range(Set(own)) PROVE Sound(r)
  OBVIOUS
<1>1. Origin(r, own)
  BY SetIs
<1>2. Shaped(r)
  <2>1. \A x \in Range(own) : x \in Imports
    BY RangeIs
  <2> QED
    BY <1>1, <2>1, AuthoredShaped, MirrorsShaped, ImportsShaped DEF Origin
<1>3. PICK k \in DOMAIN Set(own) : Set(own)[k] = r
  BY RangeIs
<1>4. r.op.name # "nil" /\ \A t \in DOMAIN r.chain : r.chain[t] \in TransformNames
  BY <1>3, ValidIs
<1>5. PICK chain : chain = r.chain
  OBVIOUS
<1>6. chain \in Seq(Range(chain)) /\ \A x \in Range(chain) : x \in TransformNames
  BY <1>2, <1>4, <1>5, RangeIs DEF Shaped
<1>7. chain \in Seq(TransformNames)
  BY <1>6
<1> QED
  BY <1>2, <1>4, <1>5, <1>7 DEF Sound, Shaped

-----------------------------------------------------------------------------
\* What has fired on a value, rule by rule.
FiringAt(value, phase, x) == \E q \in Range(ready) : q.phase = phase /\ Holds(q, value) /\ x = q.id
KeyedAt(value, phase, x) ==
  \E q \in Range(ready) : q.phase = phase /\ Holds(q, value) /\ AsciiKeyed(q.op) /\ x = q.id

LEMMA FiringIs ==
  ASSUME DetectorsKeep, IInv, Compiled, NEW value \in Probes, NEW phase \in Phases, NEW x
  PROVE  /\ x \in Fired(plan, phase, value) => FiringAt(value, phase, x)
         /\ KeyedAt(value, phase, x) => x \in Fired(plan, phase, value)
<1>2. PICK own \in Seq(Imports) : SetOf(own)
  BY DEF IInv, Planned
<1>1. ready = Set(own) /\ Valid(ready, FALSE) /\ plan = Compile(ready)
  BY <1>2 DEF SetOf
<1>3. PICK set : set = Set(own)
  OBVIOUS
<1>4. ready = set /\ plan = Compile(set)
  BY <1>1, <1>2, <1>3
<1>5. AllSound(set)
  BY <1>1, <1>2, <1>3, SetSound DEF AllSound
<1>6. PICK T : set \in Seq(T)
  BY <1>2, <1>3, SetIs
<1>7. value.bytes \in Seq(Int) /\ value.key \in Seq(Int)
  BY RulesAssumption
<1>8. /\ x \in Fired(Compile(set), phase, value) => RuleHolds(set, phase, value, x)
      /\ KeyedHolds(set, phase, value, x) => x \in Fired(Compile(set), phase, value)
  BY <1>5, <1>6, <1>7, PlanFires
<1> QED
  BY <1>4, <1>8 DEF FiringAt, KeyedAt, RuleHolds, KeyedHolds

LEMMA PlanStep == DetectorsKeep /\ IInv => PlanExact
<1> SUFFICES ASSUME DetectorsKeep, IInv, Compiled, NEW value \in Probes, NEW phase \in Phases
             PROVE  LET holding == {r \in Range(ready) : r.phase = phase /\ Holds(r, value)}
                    IN  /\ Fired(plan, phase, value) \subseteq {r.id : r \in holding}
                        /\ {r.id : r \in {q \in holding : AsciiKeyed(q.op)}} \subseteq Fired(plan, phase, value)
  BY DEF PlanExact
<1>1. \A x : /\ x \in Fired(plan, phase, value) => FiringAt(value, phase, x)
             /\ KeyedAt(value, phase, x) => x \in Fired(plan, phase, value)
  BY FiringIs
<1>2. PICK holding : holding = {r \in Range(ready) : r.phase = phase /\ Holds(r, value)}
  OBVIOUS
<1>3. \A x : FiringAt(value, phase, x) => x \in {r.id : r \in holding}
  BY <1>2 DEF FiringAt
<1>4. \A x \in {r.id : r \in {q \in holding : AsciiKeyed(q.op)}} : KeyedAt(value, phase, x)
  BY <1>2 DEF KeyedAt
<1>5. Fired(plan, phase, value) \subseteq {r.id : r \in holding}
  BY <1>1, <1>3
<1>6. {r.id : r \in {q \in holding : AsciiKeyed(q.op)}} \subseteq Fired(plan, phase, value)
  BY <1>1, <1>4
<1> QED
  BY <1>2, <1>5, <1>6

-----------------------------------------------------------------------------
(* Counterparts.                                                             *)
LEMMA AnyKey == \A kind, key : MatchesBytes(All(kind), key)
  BY DEF MatchesBytes, All

LEMMA KindIs == \A kind : All(kind).kind = kind
  BY DEF All

\* What a counterpart reads.
LEMMA CounterpartReads ==
  ASSUME NEW m, NEW value
  PROVE  /\ \A r : m.targets = BodyTargetsFor(r) =>
              (TargetMatches(m, value) <=> \/ ReadsValues(r) /\ value.kind \in {"ARGS", "REQUEST_BODY"}
                                           \/ ReadsNames(r) /\ value.kind = "ARGS_NAMES")
         /\ m.targets = <<All("RESPONSE_HEADERS"), All("RESPONSE_BODY")>> =>
              (TargetMatches(m, value) <=> value.kind \in {"RESPONSE_HEADERS", "RESPONSE_BODY"})
<1>1. PICK a, b, c, d, e : /\ a = All("ARGS") /\ b = All("REQUEST_BODY") /\ c = All("ARGS_NAMES")
                           /\ d = All("RESPONSE_HEADERS") /\ e = All("RESPONSE_BODY")
  OBVIOUS
<1>2. \A x \in {a, b, c, d, e} : MatchesBytes(x, value.key)
  BY <1>1, AnyKey
<1>3. a.kind = "ARGS" /\ b.kind = "REQUEST_BODY" /\ c.kind = "ARGS_NAMES" /\ d.kind = "RESPONSE_HEADERS" /\ e.kind = "RESPONSE_BODY"
  BY <1>1, KindIs
<1>4. ASSUME NEW ts, m.targets = ts, \A k \in DOMAIN ts : ts[k] \in {a, b, c, d, e}
      PROVE  TargetMatches(m, value) <=> \E k \in DOMAIN ts : ts[k].kind = value.kind
  BY <1>2, <1>4 DEF TargetMatches
<1>5. ASSUME m.targets = <<All("RESPONSE_HEADERS"), All("RESPONSE_BODY")>>
      PROVE  TargetMatches(m, value) <=> value.kind \in {"RESPONSE_HEADERS", "RESPONSE_BODY"}
  <2>1. PICK ts : ts = m.targets
    OBVIOUS
  <2>2. DOMAIN ts = {1, 2} /\ ts[1] = d /\ ts[2] = e
    BY <1>1, <1>5, <2>1
  <2>3. TargetMatches(m, value) <=> \E k \in DOMAIN ts : ts[k].kind = value.kind
    BY <1>4, <2>1, <2>2
  <2> QED
    BY <1>3, <2>2, <2>3
<1>6. ASSUME NEW r, m.targets = BodyTargetsFor(r)
      PROVE  TargetMatches(m, value) <=> \/ ReadsValues(r) /\ value.kind \in {"ARGS", "REQUEST_BODY"}
                                         \/ ReadsNames(r) /\ value.kind = "ARGS_NAMES"
  <2>1. PICK v \in BOOLEAN, n \in BOOLEAN : v = ReadsValues(r) /\ n = ReadsNames(r)
    BY DEF ReadsValues, ReadsNames
  <2>2. PICK ts : ts = m.targets
    OBVIOUS
  <2>3. ts = (IF v THEN <<a, b>> ELSE <<>>) \o (IF n THEN <<c>> ELSE <<>>)
    BY <1>1, <1>6, <2>1, <2>2 DEF BodyTargetsFor
  <2>4. CASE v /\ n
    <3>1. ts = <<a, b>> \o <<c>>
      BY <2>3, <2>4
    <3>2. DOMAIN ts = {1, 2, 3} /\ ts[1] = a /\ ts[2] = b /\ ts[3] = c
      BY <3>1
    <3>3. TargetMatches(m, value) <=> \E k \in DOMAIN ts : ts[k].kind = value.kind
      BY <1>4, <2>2, <3>2
    <3> QED
      BY <1>3, <2>1, <2>4, <3>2, <3>3
  <2>5. CASE v /\ ~n
    <3>1. ts = <<a, b>> \o <<>>
      BY <2>3, <2>5
    <3>2. DOMAIN ts = {1, 2} /\ ts[1] = a /\ ts[2] = b
      BY <3>1
    <3>3. TargetMatches(m, value) <=> \E k \in DOMAIN ts : ts[k].kind = value.kind
      BY <1>4, <2>2, <3>2
    <3> QED
      BY <1>3, <2>1, <2>5, <3>2, <3>3
  <2>6. CASE ~v /\ n
    <3>1. ts = <<>> \o <<c>>
      BY <2>3, <2>6
    <3>2. DOMAIN ts = {1} /\ ts[1] = c
      BY <3>1
    <3>3. TargetMatches(m, value) <=> \E k \in DOMAIN ts : ts[k].kind = value.kind
      BY <1>4, <2>2, <3>2
    <3> QED
      BY <1>3, <2>1, <2>6, <3>2, <3>3
  <2>7. CASE ~v /\ ~n
    <3>1. ts = <<>> \o <<>>
      BY <2>3, <2>7
    <3>2. DOMAIN ts = {}
      BY <3>1
    <3>3. TargetMatches(m, value) <=> \E k \in DOMAIN ts : ts[k].kind = value.kind
      BY <1>4, <2>2, <3>2
    <3> QED
      BY <2>1, <2>7, <3>2, <3>3
  <2> QED
    BY <2>4, <2>5, <2>6, <2>7
<1> QED
  BY <1>5, <1>6

LEMMA CounterpartStep == DetectorsKeep /\ IInv => CounterpartExact
<1> SUFFICES ASSUME DetectorsKeep, IInv, Compiled, NEW value \in Probes, NEW r \in Range(Authored), r.confidence >= opts.least, AsciiKeyed(r.op)
             PROVE  LET holds == Eval(r.op, Transformed(r.chain, value.bytes))
                    IN  /\ (r.phase = 1 /\ ReadsArgs(r)) =>
                             (r.id + BodyOffset \in Fired(plan, 2, value)
                              <=> holds /\ \/ ReadsValues(r) /\ value.kind \in {"ARGS", "REQUEST_BODY"}
                                           \/ ReadsNames(r) /\ value.kind = "ARGS_NAMES")
                        /\ (r.phase = 1 /\ ~ReadsArgs(r)) => \A q \in Range(ready) : q.from # r.id
                        /\ r.phase = 3 =>
                             (r.id + ResponseOffset \in Fired(plan, 4, value)
                              <=> holds /\ value.kind \in {"RESPONSE_HEADERS", "RESPONSE_BODY"})
  BY DEF CounterpartExact
<1>2. PICK own \in Seq(Imports) : SetOf(own)
  BY DEF IInv, Planned
<1>1. ready = Set(own) /\ Valid(ready, FALSE)
  BY <1>2 DEF SetOf
<1>3. PICK T : ready \in Seq(T) /\ \A x : x \in Range(ready) <=> (Origin(x, own) /\ x.confidence >= opts.least)
  BY <1>1, <1>2, SetIs
<1>4. RuleShape(r) /\ r.from = 0
  BY AuthoredAre
<1>5. PICK holds \in BOOLEAN : holds <=> Eval(r.op, Transformed(r.chain, value.bytes))
  OBVIOUS
<1>6. ASSUME NEW m \in Range(ready), m.op = r.op, m.chain = r.chain, m.phase \in Phases, NEW read \in BOOLEAN,
             TargetMatches(m, value) <=> read
      PROVE  m.id \in Fired(plan, m.phase, value) <=> holds /\ read
  <2>1. /\ m.id \in Fired(plan, m.phase, value) => FiringAt(value, m.phase, m.id)
        /\ KeyedAt(value, m.phase, m.id) => m.id \in Fired(plan, m.phase, value)
    BY <1>6, FiringIs
  <2>2. Holds(m, value) <=> holds /\ read
    BY <1>5, <1>6 DEF Holds
  <2>3. FiringAt(value, m.phase, m.id) <=> Holds(m, value)
    <3>1. \A q \in Range(ready) : q.id = m.id => q = m
      BY <1>1, <1>3, <1>6, OneNumber
    <3> QED
      BY <3>1 DEF FiringAt
  <2>4. Holds(m, value) => KeyedAt(value, m.phase, m.id)
    BY <1>6 DEF KeyedAt
  <2> QED
    BY <2>1, <2>2, <2>3, <2>4
<1>7. ASSUME r.phase = 1, ReadsArgs(r)
      PROVE  r.id + BodyOffset \in Fired(plan, 2, value)
               <=> holds /\ \/ ReadsValues(r) /\ value.kind \in {"ARGS", "REQUEST_BODY"}
                            \/ ReadsNames(r) /\ value.kind = "ARGS_NAMES"
  <2>1. PICK m : m = MirrorToBody(r)
    OBVIOUS
  <2>2. /\ m.id = r.id + BodyOffset /\ m.phase = 2 /\ m.targets = BodyTargetsFor(r)
        /\ m.chain = r.chain /\ m.op = r.op /\ m.confidence = r.confidence
    BY <1>4, <2>1, MirrorsAre
  <2>3. m \in Range(ready)
    <3>1. Origin(m, own)
      BY <1>7, <2>1 DEF Origin, Mirrors2
    <3> QED
      BY <1>3, <2>2, <3>1
  <2>4. PICK read \in BOOLEAN : read <=> \/ ReadsValues(r) /\ value.kind \in {"ARGS", "REQUEST_BODY"}
                                         \/ ReadsNames(r) /\ value.kind = "ARGS_NAMES"
    OBVIOUS
  <2>5. TargetMatches(m, value) <=> read
    BY <2>2, <2>4, CounterpartReads
  <2>6. m.phase \in Phases
    BY <2>2 DEF Phases
  <2>7. m.id \in Fired(plan, m.phase, value) <=> holds /\ read
    BY <1>6, <2>2, <2>3, <2>5, <2>6
  <2> QED
    BY <2>2, <2>4, <2>7
<1>8. ASSUME r.phase = 1, ~ReadsArgs(r), NEW q \in Range(ready), q.from = r.id PROVE FALSE
  <2>1. r \in Range(ready)
    BY <1>3 DEF Origin
  <2>2. r.id # 0
    <3>1. PICK k \in DOMAIN ready : ready[k] = r
      BY <2>1, RangeIs
    <3> QED
      BY <1>1, <3>1, ValidIs
  <2>3. Origin(q, own)
    BY <1>3
  <2>4. CASE q \in Range(Authored)
    BY <1>8, <2>2, <2>4, AuthoredAre
  <2>5. CASE q \in Range(own)
    <3>1. q \in Imports
      BY <2>5, RangeIs
    <3>2. q.from = 0
      BY <3>1 DEF Imports
    <3> QED
      BY <1>8, <2>2, <3>2
  <2>6. CASE Mirrors4(Authored, q)
    <3>1. PICK e \in Range(Authored) : q = MirrorToResponse(e)
      BY <2>6 DEF Mirrors4
    <3>2. q.from = 0
      BY <3>1, AuthoredAre, MirrorsAre
    <3> QED
      BY <1>8, <2>2, <3>2
  <2>7. CASE Mirrors2(Authored, q)
    <3>1. PICK e \in Range(Authored) : e.phase = 1 /\ ReadsArgs(e) /\ q = MirrorToBody(e)
      BY <2>7 DEF Mirrors2
    <3>2. q.from = e.id /\ q.confidence = e.confidence
      BY <3>1, AuthoredAre, MirrorsAre
    <3>3. q.confidence >= opts.least
      BY <1>3
    <3>4. e \in Range(ready)
      BY <1>3, <3>2, <3>3 DEF Origin
    <3>5. e = r
      BY <1>1, <1>3, <1>8, <2>1, <3>2, <3>4, OneNumber
    <3> QED
      BY <1>8, <3>1, <3>5
  <2> QED
    BY <2>3, <2>4, <2>5, <2>6, <2>7 DEF Origin
<1>9. ASSUME r.phase = 3
      PROVE  r.id + ResponseOffset \in Fired(plan, 4, value)
               <=> holds /\ value.kind \in {"RESPONSE_HEADERS", "RESPONSE_BODY"}
  <2>1. PICK m : m = MirrorToResponse(r)
    OBVIOUS
  <2>2. /\ m.id = r.id + ResponseOffset /\ m.phase = 4
        /\ m.targets = <<All("RESPONSE_HEADERS"), All("RESPONSE_BODY")>>
        /\ m.chain = r.chain /\ m.op = r.op /\ m.confidence = r.confidence
    BY <1>4, <2>1, MirrorsAre
  <2>3. m \in Range(ready)
    <3>1. Origin(m, own)
      BY <1>9, <2>1 DEF Origin, Mirrors4
    <3> QED
      BY <1>3, <2>2, <3>1
  <2>4. PICK read \in BOOLEAN : read <=> value.kind \in {"RESPONSE_HEADERS", "RESPONSE_BODY"}
    OBVIOUS
  <2>5. TargetMatches(m, value) <=> read
    BY <2>2, <2>4, CounterpartReads
  <2>6. m.phase \in Phases
    BY <2>2 DEF Phases
  <2>7. m.id \in Fired(plan, m.phase, value) <=> holds /\ read
    BY <1>6, <2>2, <2>3, <2>5, <2>6
  <2> QED
    BY <2>2, <2>4, <2>7
<1> QED
  BY <1>5, <1>7, <1>8, <1>9

\* The plan fires the rules that hold by themselves and no others, whatever
\* the rules, the literals and the values: neither the literals of the
\* prefilter, nor the groups, nor a resolver that is not asked lose one, but
\* for a pattern with a literal beyond ASCII (Compile, Literals,
\* extractLiterals).  A predicate has to keep what was said of it.
THEOREM Planning ==
  ASSUME DetectorsKeep
  PROVE  Spec => []PlanExact
<1>1. IInv => PlanExact
  BY PlanStep
<1> QED
  BY <1>1, Typing, PTL

\* A counterpart fires on a body for what its rule is after in a query string,
\* and for no more, if its literals are ASCII (bodyTargetsFor, withBodyPhase,
\* withResponsePhase).
THEOREM Counterparts ==
  ASSUME DetectorsKeep
  PROVE  Spec => []CounterpartExact
<1>1. IInv => CounterpartExact
  BY CounterpartStep
<1> QED
  BY <1>1, Typing, PTL

-----------------------------------------------------------------------------
(***************************************************************************)
(* What becomes of the rules of a file that is read as it is written: no   *)
(* rule is lost between its statement and the import, and each carries the *)
(* tier of the gate that it stands behind.                                 *)
(***************************************************************************)
Chained(k) == IsRule(k) /\ Statements[k].chained

GatesTo(k) == {g \in 1..(k - 1) : Statements[g].kind = "gate" /\ ~ChainLink(g)}
LastGate(g, k) == g \in GatesTo(k) /\ \A h \in GatesTo(k) : h <= g
Shut(g, k) == \E i \in (g + 1)..(k - 1) : Statements[i].kind = "marker" /\ Statements[i].marker = Statements[g].marker

\* The gate that a rule at k stands behind.
GateIs(k, v) ==
  \/ v = NoGate /\ (GatesTo(k) = {} \/ \E g \in GatesTo(k) : LastGate(g, k) /\ Shut(g, k))
  \/ \E g \in GatesTo(k) : LastGate(g, k) /\ ~Shut(g, k) /\ v = Opened(ds[g])

TierAt(k) == IF LevelAt(k) > 0 THEN TierOfLevel(LevelAt(k)) ELSE opts.conf

\* r comes from a rule of the file, with its number and its tier.
Stems(r) ==
  \E k \in DOMAIN Statements : IsRule(k) /\ r.id = opts.prefix + Statements[k].id /\ r.confidence = TierAt(k)

Dealt(k) == (IsRule(k) /\ ~ChainLink(k)) => (Numbered(imported, Statements[k].id) # {} \/ \E s \in skipped : s.at = k)

\* The directives before i are dealt with, and i begins a statement of its own.
Reached(i) ==
  /\ i <= Len(ds) + 1
  /\ (i <= Len(ds) /\ ds[i].name = "secrule") => ~ChainLink(i)
  /\ \A k \in 1..(i - 1) : Dealt(k)

Fresh == stage \in {"read", "collect"} => (at = 1 /\ imported = <<>> /\ gate = NoGate)
Told == (stage \notin {"read", "refused"} \/ imported # <<>>) => ReadsAs(ds, Statements)
Gone == stage \in {"translate", "imported", "generated", "compiled"} => removed = TakenOut
Halfway == stage = "translate" => \E i \in {at}, v \in {gate} : Reached(i) /\ GateIs(i, v)
Stemmed == \A n \in DOMAIN imported : Stems(imported[n])

AInv == Fresh /\ Told /\ Gone /\ Halfway /\ Stemmed /\ EveryRuleAccounted

-----------------------------------------------------------------------------
LEMMA LinkIs ==
  ASSUME NEW k \in Nat \ {0}
  PROVE  ChainLink(k) <=> (k > 1 /\ Chained(k - 1))
<1>1. ASSUME ChainLink(k) PROVE k > 1 /\ Chained(k - 1)
  <2>1. PICK j \in 1..(k - 1) : \A i \in j..(k - 1) : IsRule(i) /\ Statements[i].chained
    BY <1>1 DEF ChainLink
  <2>2. k - 1 \in j..(k - 1) /\ k > 1
    OBVIOUS
  <2> QED
    BY <2>1, <2>2 DEF Chained
<1>2. ASSUME k > 1, Chained(k - 1) PROVE ChainLink(k)
  <2>1. k - 1 \in 1..(k - 1) /\ \A i \in (k - 1)..(k - 1) : i = k - 1
    BY <1>2
  <2>2. \A i \in (k - 1)..(k - 1) : IsRule(i) /\ Statements[i].chained
    BY <1>2, <2>1 DEF Chained
  <2> QED
    BY <2>1, <2>2 DEF ChainLink
<1> QED
  BY <1>1, <1>2

\* What a directive is, when it is read as its statement says.
LEMMA SaysWhat ==
  ASSUME ReadsAs(ds, Statements), NEW k \in DOMAIN ds
  PROVE  /\ k \in DOMAIN Statements
         /\ ds[k].name = "secrule" <=> (IsRule(k) \/ Statements[k].kind = "gate")
         /\ ds[k].name = "secmarker" <=> Statements[k].kind = "marker"
         /\ IsRule(k) => (GateLevel(ds[k]) = 0 /\ RuleIDOf(ds[k]) = Statements[k].id)
         /\ Chained(k) => Len(ds[k].args) >= 2
         /\ Statements[k].kind = "gate" => (GateLevel(ds[k]) = Statements[k].level /\ Statements[k].level > 0)
         /\ ds[k].name = "secrule" => (HasAction(ActsOf(ds[k]), "chain") <=> Chained(k))
         /\ ds[k].name = "secruleremovebyid" => Removals(ds[k]) = Statements[k].removes
         /\ Statements[k].removes # {} => ds[k].name = "secruleremovebyid"
         /\ IsRule(k) => Statements[k].kind # "gate" /\ Statements[k].kind # "marker"
<1>1. k \in DOMAIN Statements /\ SaysSo(ds[k], Statements[k])
  BY DEF ReadsAs
<1> QED
  BY <1>1 DEF SaysSo, IsRule, Chained

LEMMA ClosesIs ==
  ASSUME ReadsAs(ds, Statements), NEW g \in DOMAIN ds, NEW k \in DOMAIN ds,
         Statements[g].kind = "gate", Statements[k].kind = "marker"
  PROVE  Closes(ds[k], Opened(ds[g])) <=> Statements[k].marker = Statements[g].marker
<1>1. /\ g \in DOMAIN Statements /\ SaysSo(ds[g], Statements[g])
      /\ k \in DOMAIN Statements /\ SaysSo(ds[k], Statements[k])
  BY DEF ReadsAs
<1>2. SkipsTo(ds[g])[1] # <<>> /\ ds[k].args # <<>>
  BY <1>1 DEF SaysSo
<1>3. Lowercased(Trim(ds[k].args[1], Quotes)) = Lowercased(SkipsTo(ds[g])[1])
        <=> Statements[k].marker = Statements[g].marker
  BY <1>1 DEF ReadsAs
<1>4. Opened(ds[g]).marker = SkipsTo(ds[g])[1]
  BY DEF Opened
<1> QED
  BY <1>2, <1>3, <1>4 DEF Closes

\* A rule's chain is consumed whole, and nothing else is.
LEMMA ConsumedWhole ==
  ASSUME ReadsAs(ds, Statements), ds \in Seq(Directives), NEW i \in 1..Len(ds), IsRule(i), NEW n, n = i + 1 + Consumed(ds, i)
  PROVE  /\ n \in (i + 1)..(Len(ds) + 1)
         /\ \A p \in (i + 1)..(n - 1) : ds[p].name = "secrule" /\ ChainLink(p)
         /\ (n <= Len(ds) /\ ds[n].name = "secrule") => ~ChainLink(n)
<1>0. Len(ds) \in Nat /\ DOMAIN ds = 1..Len(ds) /\ i \in DOMAIN ds
  BY DomainOfSeq
<1>1. PICK ends : ends = {j \in (i + 1)..Len(ds) : ds[j].name # "secrule" \/ ~HasAction(ActsOf(ds[j]), "chain")}
  OBVIOUS
<1>2. PICK last : last = IF ends = {} THEN Len(ds) ELSE IF ds[Min(ends)].name = "secrule" THEN Min(ends) ELSE Min(ends) - 1
  OBVIOUS
<1>3. Consumed(ds, i) = IF Len(ds[i].args) >= 2 /\ HasAction(ActsOf(ds[i]), "chain") THEN last - i ELSE 0
  BY <1>1, <1>2 DEF Consumed
<1>4. ds[i].name = "secrule" /\ (HasAction(ActsOf(ds[i]), "chain") <=> Chained(i)) /\ (Chained(i) => Len(ds[i].args) >= 2)
  BY <1>0, SaysWhat
<1>5. Consumed(ds, i) = IF Chained(i) THEN last - i ELSE 0
  BY <1>3, <1>4
<1>6. CASE ~Chained(i)
  <2>1. n = i + 1
    BY <1>0, <1>5, <1>6
  <2>2. ~ChainLink(n)
    BY <1>0, <1>6, <2>1, LinkIs
  <2> QED
    BY <1>0, <2>1, <2>2
<1>7. ASSUME Chained(i), NEW m \in (i + 1)..(Len(ds) + 1), \A j \in (i + 1)..(m - 1) : j \notin ends
      PROVE  \A p \in (i + 1)..m : /\ ChainLink(p)
                                   /\ p < m => ds[p].name = "secrule"
  <2> SUFFICES ASSUME NEW p \in (i + 1)..m PROVE ChainLink(p) /\ (p < m => ds[p].name = "secrule")
    OBVIOUS
  <2>1. \A j \in (i + 1)..(m - 1) : ds[j].name = "secrule" /\ HasAction(ActsOf(ds[j]), "chain") /\ j \in DOMAIN ds
    BY <1>0, <1>1, <1>7
  <2>2. \A j \in (i + 1)..(m - 1) : Chained(j)
    BY <2>1, SaysWhat
  <2>3. p - 1 = i \/ p - 1 \in (i + 1)..(m - 1)
    BY <1>0
  <2>4. Chained(p - 1) /\ p > 1 /\ p \in Nat \ {0}
    BY <1>0, <1>7, <2>2, <2>3
  <2>5. p < m => p \in (i + 1)..(m - 1)
    BY <1>0
  <2> QED
    BY <2>1, <2>4, <2>5, LinkIs
<1>8. CASE Chained(i) /\ ends = {}
  <2>1. n = Len(ds) + 1
    BY <1>0, <1>2, <1>5, <1>8
  <2>2. Len(ds) + 1 \in (i + 1)..(Len(ds) + 1)
    BY <1>0
  <2>3. \A p \in (i + 1)..(Len(ds) + 1) : ChainLink(p) /\ (p < Len(ds) + 1 => ds[p].name = "secrule")
    BY <1>7, <1>8, <2>2
  <2> QED
    BY <1>0, <2>1, <2>2, <2>3
<1>9. CASE Chained(i) /\ ends # {}
  <2>1. ends \in SUBSET Nat
    BY <1>0, <1>1
  <2>2. PICK m : m = Min(ends)
    OBVIOUS
  <2>3. m \in ends /\ \A y \in ends : m <= y
    BY <1>9, <2>1, <2>2, LeastIn
  <2>4. m \in (i + 1)..Len(ds)
    BY <1>1, <2>3
  <2>5. m \in (i + 1)..(Len(ds) + 1)
    BY <1>0, <2>4
  <2>6. \A j \in (i + 1)..(m - 1) : j \notin ends
    BY <1>0, <2>3, <2>4
  <2>7. \A p \in (i + 1)..m : ChainLink(p) /\ (p < m => ds[p].name = "secrule")
    BY <1>7, <1>9, <2>5, <2>6
  <2>8. CASE ds[m].name = "secrule"
    <3>1. n = m + 1
      BY <1>0, <1>2, <1>5, <1>9, <2>2, <2>4, <2>8
    <3>2. ~HasAction(ActsOf(ds[m]), "chain")
      BY <1>1, <2>3, <2>8
    <3>3. ~Chained(m)
      BY <1>0, <2>4, <2>8, <3>2, SaysWhat
    <3>4. ~ChainLink(n)
      <4>1. n \in Nat \ {0} /\ n - 1 = m
        BY <1>0, <2>4, <3>1
      <4> QED
        BY <3>3, <4>1, LinkIs
    <3>5. ASSUME NEW p \in (i + 1)..(n - 1) PROVE ds[p].name = "secrule" /\ ChainLink(p)
      <4>1. p \in (i + 1)..m /\ (p < m \/ p = m)
        BY <1>0, <2>4, <3>1
      <4> QED
        BY <2>7, <2>8, <4>1
    <3> QED
      BY <1>0, <2>4, <3>1, <3>4, <3>5
  <2>9. CASE ds[m].name # "secrule"
    <3>1. n = m
      BY <1>0, <1>2, <1>5, <1>9, <2>2, <2>4, <2>9
    <3> QED
      BY <1>0, <2>4, <2>7, <2>9, <3>1
  <2> QED
    BY <2>8, <2>9
<1> QED
  BY <1>6, <1>8, <1>9

-----------------------------------------------------------------------------
(* Gates.                                                                    *)

\* The largest of what is compared.
LEMMA MaxIs ==
  ASSUME NEW S, NEW g \in S, S \subseteq Nat, \A h \in S : h <= g
  PROVE  Max(S) = g
<1>1. \A h \in S : h \in Nat
  OBVIOUS
<1>2. \A x \in S : (\A y \in S : x >= y) => x = g
  BY <1>1
<1>3. \A y \in S : g >= y
  BY <1>1
<1>4. PICK m : m = Max(S)
  OBVIOUS
<1>5. m = CHOOSE x \in S : \A y \in S : x >= y
  BY <1>4 DEF Max
<1>6. m \in S /\ \A y \in S : m >= y
  BY <1>3, <1>5
<1> QED
  BY <1>2, <1>4, <1>6

LEMMA GatesAre ==
  ASSUME NEW k \in Nat \ {0}
  PROVE  GatesTo(k) \subseteq 1..(k - 1) /\ GatesTo(k) \subseteq Nat
  BY DEF GatesTo

\* The level in hand is the level that the statements say.
LEMMA LevelIs ==
  ASSUME ReadsAs(ds, Statements), ds \in Seq(Directives), NEW k \in 1..(Len(ds) + 1), NEW v, GateIs(k, v)
  PROVE  LevelAt(k) = v.level
<1>0. Len(ds) \in Nat /\ DOMAIN ds = 1..Len(ds) /\ k \in Nat \ {0}
  BY DomainOfSeq
<1>1. ASSUME NEW g \in GatesTo(k), LastGate(g, k)
      PROVE  LevelAt(k) = IF Shut(g, k) THEN 0 ELSE Statements[g].level
  <2>1. Max(GatesTo(k)) = g
    BY <1>0, <1>1, GatesAre, MaxIs DEF LastGate
  <2>2. PICK G : G = GatesTo(k)
    OBVIOUS
  <2>3. Max(G) = g /\ G # {}
    BY <1>1, <2>1, <2>2
  <2>4. G = {h \in 1..(k - 1) : Statements[h].kind = "gate" /\ ~ChainLink(h)}
    BY <2>2 DEF GatesTo
  <2> QED
    BY <2>3, <2>4 DEF LevelAt, Shut
<1>2. CASE v = NoGate /\ GatesTo(k) = {}
  <2>1. {h \in 1..(k - 1) : Statements[h].kind = "gate" /\ ~ChainLink(h)} = {}
    BY <1>2 DEF GatesTo
  <2>2. LevelAt(k) = 0
    BY <2>1 DEF LevelAt
  <2> QED
    BY <1>2, <2>2 DEF NoGate
<1>3. CASE v = NoGate /\ \E g \in GatesTo(k) : LastGate(g, k) /\ Shut(g, k)
  <2>1. LevelAt(k) = 0
    BY <1>1, <1>3
  <2> QED
    BY <1>3, <2>1 DEF NoGate
<1>4. CASE \E g \in GatesTo(k) : LastGate(g, k) /\ ~Shut(g, k) /\ v = Opened(ds[g])
  <2>1. PICK g \in GatesTo(k) : LastGate(g, k) /\ ~Shut(g, k) /\ v = Opened(ds[g])
    BY <1>4
  <2>2. LevelAt(k) = Statements[g].level
    BY <1>1, <2>1
  <2>3. g \in DOMAIN ds /\ Statements[g].kind = "gate"
    BY <1>0, GatesAre DEF GatesTo
  <2>4. GateLevel(ds[g]) = Statements[g].level
    BY <2>3, SaysWhat
  <2>5. v.level = GateLevel(ds[g])
    BY <2>1 DEF Opened
  <2> QED
    BY <2>2, <2>4, <2>5
<1> QED
  BY <1>2, <1>3, <1>4 DEF GateIs

\* What is neither a gate nor a marker leaves the gate as it is.
LEMMA GatePassed ==
  ASSUME NEW k \in Nat \ {0}, NEW n \in Nat, k <= n, NEW v, GateIs(k, v),
         \A p \in k..(n - 1) : Statements[p].kind # "marker" /\ (Statements[p].kind # "gate" \/ ChainLink(p))
  PROVE  GateIs(n, v)
<1>1. GatesTo(n) = GatesTo(k)
  <2>1. \A g \in 1..(n - 1) : g \in 1..(k - 1) \/ g \in k..(n - 1)
    OBVIOUS
  <2>2. \A g \in 1..(k - 1) : g \in 1..(n - 1)
    OBVIOUS
  <2> QED
    BY <2>1, <2>2 DEF GatesTo
<1>2. ASSUME NEW g \in GatesTo(k) PROVE Shut(g, n) <=> Shut(g, k)
  <2>1. g \in 1..(k - 1)
    BY GatesAre
  <2>2. \A i \in (g + 1)..(n - 1) : i \in (g + 1)..(k - 1) \/ i \in k..(n - 1)
    BY <2>1
  <2>3. \A i \in (g + 1)..(k - 1) : i \in (g + 1)..(n - 1)
    BY <2>1
  <2> QED
    BY <2>2, <2>3 DEF Shut
<1>3. \A g \in GatesTo(k) : LastGate(g, n) <=> LastGate(g, k)
  BY <1>1 DEF LastGate
<1> QED
  BY <1>1, <1>2, <1>3 DEF GateIs

\* A gate opens a block of its own.
LEMMA GateOpened ==
  ASSUME NEW k \in Nat \ {0}, Statements[k].kind = "gate", ~ChainLink(k)
  PROVE  GateIs(k + 1, Opened(ds[k]))
<1>1. k \in GatesTo(k + 1) /\ GatesTo(k + 1) \subseteq 1..k
  BY DEF GatesTo
<1>2. LastGate(k, k + 1)
  BY <1>1 DEF LastGate
<1>3. ~Shut(k, k + 1)
  BY DEF Shut
<1> QED
  BY <1>1, <1>2, <1>3 DEF GateIs

\* A marker ends the block of its gate, and of no other.
LEMMA GateShut ==
  ASSUME ReadsAs(ds, Statements), ds \in Seq(Directives), NEW k \in 1..Len(ds), NEW v, GateIs(k, v),
         Statements[k].kind = "marker"
  PROVE  GateIs(k + 1, IF Closes(ds[k], v) THEN NoGate ELSE v)
<1>0. Len(ds) \in Nat /\ DOMAIN ds = 1..Len(ds) /\ k \in Nat \ {0}
  BY DomainOfSeq
<1>1. GatesTo(k + 1) = GatesTo(k)
  <2>1. \A g \in 1..k : g \in 1..(k - 1) \/ g = k
    OBVIOUS
  <2>2. \A g \in 1..(k - 1) : g \in 1..k
    OBVIOUS
  <2>3. k + 1 - 1 = k
    OBVIOUS
  <2> QED
    BY <2>1, <2>2, <2>3 DEF GatesTo
<1>2. ASSUME NEW g \in GatesTo(k)
      PROVE  Shut(g, k + 1) <=> (Shut(g, k) \/ Statements[k].marker = Statements[g].marker)
  <2>1. g \in 1..(k - 1)
    BY <1>0, GatesAre
  <2>2. \A i \in (g + 1)..(k + 1 - 1) : i \in (g + 1)..(k - 1) \/ i = k
    BY <2>1
  <2>3. k \in (g + 1)..(k + 1 - 1) /\ \A i \in (g + 1)..(k - 1) : i \in (g + 1)..(k + 1 - 1)
    BY <2>1
  <2> QED
    BY <2>2, <2>3 DEF Shut
<1>3. \A g \in GatesTo(k) : LastGate(g, k + 1) <=> LastGate(g, k)
  BY <1>1 DEF LastGate
<1>4. CASE v = NoGate /\ (GatesTo(k) = {} \/ \E g \in GatesTo(k) : LastGate(g, k) /\ Shut(g, k))
  <2>1. GateIs(k + 1, NoGate)
    BY <1>1, <1>2, <1>3, <1>4 DEF GateIs
  <2>2. (IF Closes(ds[k], v) THEN NoGate ELSE v) = NoGate
    BY <1>4
  <2> QED
    BY <2>1, <2>2
<1>5. CASE \E g \in GatesTo(k) : LastGate(g, k) /\ ~Shut(g, k) /\ v = Opened(ds[g])
  <2>1. PICK g \in GatesTo(k) : LastGate(g, k) /\ ~Shut(g, k) /\ v = Opened(ds[g])
    BY <1>5
  <2>2. g \in DOMAIN ds /\ Statements[g].kind = "gate" /\ k \in DOMAIN ds
    BY <1>0, GatesAre DEF GatesTo
  <2>3. Closes(ds[k], v) <=> Statements[k].marker = Statements[g].marker
    BY <2>1, <2>2, ClosesIs
  <2>4. CASE Closes(ds[k], v)
    <3>1. Shut(g, k + 1) /\ LastGate(g, k + 1) /\ g \in GatesTo(k + 1)
      BY <1>1, <1>2, <1>3, <2>1, <2>3, <2>4
    <3> QED
      BY <2>4, <3>1 DEF GateIs
  <2>5. CASE ~Closes(ds[k], v)
    <3>1. ~Shut(g, k + 1) /\ LastGate(g, k + 1) /\ g \in GatesTo(k + 1)
      BY <1>1, <1>2, <1>3, <2>1, <2>3, <2>5
    <3> QED
      BY <2>1, <2>5, <3>1 DEF GateIs
  <2> QED
    BY <2>4, <2>5
<1> QED
  BY <1>4, <1>5 DEF GateIs

-----------------------------------------------------------------------------
(* What a SecRule becomes.                                                   *)
Outcome(said, id, tier) ==
  \/ said.why # "" /\ said.rule = <<>>
  \/ said.why = "" /\ \E r : said.rule = <<r>> /\ r.id = id /\ r.confidence = tier

LEMMA Becomes ==
  ASSUME NEW d, NEW inherited, NEW prefix, NEW tier, NEW said, said = Translated(d, inherited, prefix, tier)
  PROVE  Outcome(said, prefix + RuleIDOf(d), tier)
<1>1. PICK acts, all, read, op, tf : Translated(d, inherited, prefix, tier) = Assembled(d, acts, all, RuleIDOf(d), read, op, tf, prefix, tier)
  BY DEF Translated
<1>2. PICK rule : rule = [id |-> prefix + RuleIDOf(d), from |-> 0, phase |-> PhaseOf(all), targets |-> read.targets,
                          chain |-> WithArgDecoding(read.targets, tf.chain), op |-> op.op,
                          action |-> ActionOf(all), severity |-> SeverityOf(all), confidence |-> tier,
                          msg |-> ActionValue(all, "msg", <<>>), tags |-> TagsOf(all)]
  OBVIOUS
<1>3. PICK it : it = Assembled(d, acts, all, RuleIDOf(d), read, op, tf, prefix, tier)
  OBVIOUS
<1>4. it.rule = IF it.why # "" THEN <<>> ELSE <<rule>>
  BY Zenon, <1>2, <1>3 DEF Assembled
<1>5. rule.id = prefix + RuleIDOf(d) /\ rule.confidence = tier
  BY <1>2
<1>6. it = said
  BY <1>1, <1>3
<1>7. CASE it.why # ""
  BY Zenon, <1>4, <1>6, <1>7 DEF Outcome
<1>8. CASE it.why = ""
  <2>1. said.rule = <<rule>>
    BY Zenon, <1>4, <1>6, <1>8
  <2> QED
    BY Zenon, <1>5, <1>6, <1>8, <2>1 DEF Outcome
<1> QED
  BY Zenon, <1>7, <1>8

-----------------------------------------------------------------------------
(* What a step leaves alone.                                                 *)
LEMMA SameLinks ==
  ASSUME UNCHANGED <<file, opts>>
  PROVE  /\ Statements' = Statements
         /\ \A k : IsRule(k)' <=> IsRule(k)
         /\ \A k : ChainLink(k)' <=> ChainLink(k)
         /\ TakenOut' = TakenOut
<1>1. Statements' = Statements
  BY DEF Statements
<1>2. \A k : IsRule(k)' <=> IsRule(k)
  BY <1>1 DEF IsRule
<1>3. \A k : ChainLink(k)' <=> ChainLink(k)
  BY <1>1, <1>2 DEF ChainLink
<1>4. TakenOut' = TakenOut
  BY <1>1 DEF TakenOut
<1> QED
  BY <1>1, <1>2, <1>3, <1>4

LEMMA SameStems ==
  ASSUME UNCHANGED <<file, opts>>
  PROVE  \A r : Stems(r)' <=> Stems(r)
<1>1. Statements' = Statements /\ \A k : (IsRule(k)' <=> IsRule(k)) /\ (ChainLink(k)' <=> ChainLink(k))
  BY SameLinks
<1>2. \A k : LevelAt(k)' = LevelAt(k)
  BY <1>1 DEF LevelAt
<1>3. \A k : TierAt(k)' = TierAt(k)
  BY <1>2 DEF TierAt
<1> QED
  BY <1>1, <1>3 DEF Stems

LEMMA SameGate ==
  ASSUME UNCHANGED <<file, opts, ds>>
  PROVE  \A k, v : GateIs(k, v)' <=> GateIs(k, v)
<1>1. Statements' = Statements /\ \A k : ChainLink(k)' <=> ChainLink(k)
  BY SameLinks
<1>2. \A k : GatesTo(k)' = GatesTo(k)
  BY <1>1 DEF GatesTo
<1>3. \A g, k : Shut(g, k)' <=> Shut(g, k)
  BY <1>1 DEF Shut
<1>4. \A g, k : LastGate(g, k)' <=> LastGate(g, k)
  BY <1>2 DEF LastGate
<1> QED
  BY <1>2, <1>3, <1>4 DEF GateIs

\* What is dealt with stays so while rules and reports only come to it.
LEMMA DealtStays ==
  ASSUME UNCHANGED <<file, opts>>, imported \in Seq(Imports), NEW t \in Seq(Imports), imported' = imported \o t,
         skipped \subseteq skipped', NEW k, Dealt(k)
  PROVE  Dealt(k)'
<1>1. Statements' = Statements /\ (IsRule(k)' <=> IsRule(k)) /\ (ChainLink(k)' <=> ChainLink(k))
  BY SameLinks
<1>2. DOMAIN imported \subseteq DOMAIN imported' /\ \A n \in DOMAIN imported : imported'[n] = imported[n]
  OBVIOUS
<1>3. \A id : Numbered(imported, id) # {} => Numbered(imported, id)' # {}
  BY <1>2 DEF Numbered
<1> QED
  BY <1>1, <1>3 DEF Dealt

-----------------------------------------------------------------------------
(* The steps.                                                                *)
LEMMA InitAInv == Init => AInv
<1> SUFFICES ASSUME Init PROVE AInv
  OBVIOUS
<1>1. stage = "read" /\ at = 1 /\ imported = <<>> /\ gate = NoGate
  BY DEF Init
<1>2. DOMAIN imported = {}
  BY <1>1
<1> QED
  BY <1>1, <1>2 DEF AInv, Fresh, Told, Gone, Halfway, Stemmed, EveryRuleAccounted

LEMMA ReadAInv ==
  ASSUME ReadAsWritten, IInv, AInv, Read
  PROVE  AInv'
<1>1. stage = "read" /\ at = 1 /\ imported = <<>> /\ gate = NoGate /\ file \in Files
  BY DEF Read, AInv, Fresh, IInv, Typed
<1>2. UNCHANGED <<file, opts, at, imported, gate>>
  BY DEF Read
<1>3. (stage' = "collect" /\ Parse(LinesOf(file)).ok /\ ds' = Parse(LinesOf(file)).directives) \/ stage' = "refused"
  BY DEF Read
<1>4. Statements' = StatementsOf(file)
  BY <1>2 DEF Statements
<1>5. stage' = "collect" => ReadsAs(ds', Statements')
  <2>1. PICK f, said : f = file /\ said = Parse(LinesOf(f))
    OBVIOUS
  <2>2. PICK r : r = [file |-> f, said |-> said]
    OBVIOUS
  <2>3. r.file = f /\ r.said = said
    BY <2>2
  <2>4. r \in Readings
    BY <1>1, <2>1, <2>2 DEF Readings
  <2>5. said.ok => ReadsAs(said.directives, StatementsOf(f))
    BY <2>3, <2>4 DEF ReadAsWritten
  <2> QED
    BY <1>3, <1>4, <2>1, <2>5
<1>6. DOMAIN imported' = {} /\ imported' = <<>>
  BY <1>1, <1>2
<1>7. Told'
  BY <1>3, <1>5, <1>6 DEF Told
<1> QED
  BY <1>1, <1>2, <1>3, <1>6, <1>7 DEF AInv, Fresh, Gone, Halfway, Stemmed, EveryRuleAccounted

LEMMA CollectAInv ==
  ASSUME IInv, AInv, Collect
  PROVE  AInv'
<1>1. stage = "collect" /\ at = 1 /\ imported = <<>> /\ gate = NoGate /\ ReadsAs(ds, Statements) /\ ds \in Seq(Directives)
  BY DEF Collect, AInv, Fresh, Told, IInv, Typed
<1>2. UNCHANGED <<file, opts, ds, at, imported, gate>> /\ stage' = "translate"
  BY DEF Collect
<1>3. Statements' = Statements /\ TakenOut' = TakenOut
  BY <1>2, SameLinks
<1>4. Len(ds) \in Nat /\ DOMAIN ds = 1..Len(ds)
  BY <1>1, DomainOfSeq
<1>5. removed' = TakenOut
  <2>1. ASSUME NEW id \in removed' PROVE id \in TakenOut
    <3>1. PICK k \in DOMAIN ds : ds[k].name = "secruleremovebyid" /\ id \in Removals(ds[k])
      BY <2>1 DEF Collect
    <3>2. k \in DOMAIN Statements /\ id \in Statements[k].removes
      BY <1>1, <3>1, SaysWhat
    <3> QED
      BY <3>2 DEF TakenOut
  <2>2. ASSUME NEW id \in TakenOut PROVE id \in removed'
    <3>1. PICK k \in DOMAIN Statements : id \in Statements[k].removes
      BY <2>2 DEF TakenOut
    <3>2. k \in DOMAIN ds
      BY <1>1, <3>1 DEF ReadsAs
    <3>3. ds[k].name = "secruleremovebyid" /\ id \in Removals(ds[k])
      BY <1>1, <3>1, <3>2, SaysWhat
    <3> QED
      BY <3>2, <3>3 DEF Collect
  <2> QED
    BY <2>1, <2>2
<1>6. DOMAIN imported' = {}
  BY <1>1, <1>2
<1>7. ~ChainLink(1) /\ GatesTo(1) = {}
  BY DEF ChainLink, GatesTo
<1>8. GateIs(1, NoGate)
  BY <1>7 DEF GateIs
<1>9. GateIs(1, NoGate)' /\ ~ChainLink(1)'
  BY <1>2, <1>7, <1>8, SameGate, SameLinks
<1>10. Reached(1)'
  BY <1>2, <1>4, <1>9 DEF Reached
<1>12. Halfway'
  BY <1>1, <1>2, <1>9, <1>10 DEF Halfway
<1>11. ReadsAs(ds', Statements')
  BY <1>1, <1>2, <1>3
<1> QED
  BY <1>2, <1>3, <1>5, <1>6, <1>11, <1>12 DEF AInv, Fresh, Told, Gone, Stemmed, EveryRuleAccounted

\* A step from one directive to another.
LEMMA Advance ==
  ASSUME IInv, AInv, stage = "translate", NEW i, i = at, NEW n, n \in Nat, n > i, Onward(n - i),
         NEW t \in Seq(Imports), imported' = imported \o t, \A j \in DOMAIN t : Stems(t[j]),
         skipped \subseteq skipped',
         n <= Len(ds) + 1,
         (n <= Len(ds) /\ ds[n].name = "secrule") => ~ChainLink(n),
         \A k \in i..(n - 1) : Dealt(k)',
         NEW v, gate' = v, GateIs(n, v)
  PROVE  AInv'
<1>1. /\ i \in Nat \ {0} /\ imported \in Seq(Imports) /\ ReadsAs(ds, Statements)
      /\ Reached(i) /\ removed = TakenOut /\ Stemmed
  BY DEF AInv, Told, Gone, Halfway, IInv, Typed
<1>2. UNCHANGED <<file, opts, stage, ds, removed>> /\ at' = n
  BY <1>1 DEF Onward
<1>3. Statements' = Statements /\ TakenOut' = TakenOut /\ (ChainLink(n)' <=> ChainLink(n))
  BY <1>2, SameLinks
<1>4. \A k \in 1..(i - 1) : Dealt(k)'
  BY <1>1, <1>2, DealtStays DEF Reached
<1>5. \A k \in 1..(n - 1) : Dealt(k)'
  <2>1. \A k \in 1..(n - 1) : k \in 1..(i - 1) \/ k \in i..(n - 1)
    BY <1>1
  <2> QED
    BY <1>4, <2>1
<1>6. Reached(n)'
  BY <1>2, <1>3, <1>5 DEF Reached
<1>7. GateIs(n, v)'
  BY <1>2, SameGate
<1>8. Halfway'
  BY <1>2, <1>6, <1>7 DEF Halfway
<1>9. ASSUME NEW j \in DOMAIN imported' PROVE Stems(imported'[j])
  <2>1. j \in 1..(Len(imported) + Len(t)) /\ Len(imported) \in Nat /\ Len(t) \in Nat
    BY <1>1
  <2>2. PICK r : r = imported'[j]
    OBVIOUS
  <2>3. (\E m \in DOMAIN imported : r = imported[m]) \/ \E m \in DOMAIN t : r = t[m]
    <3>1. CASE j \in 1..Len(imported)
      BY <1>1, <2>1, <2>2, <3>1
    <3>2. CASE j \notin 1..Len(imported)
      <4>1. j - Len(imported) \in DOMAIN t /\ r = t[j - Len(imported)]
        BY <1>1, <2>1, <2>2, <3>2
      <4> QED
        BY <4>1
    <3> QED
      BY <3>1, <3>2
  <2>4. Stems(r)
    BY <1>1, <2>3 DEF Stemmed
  <2> QED
    BY <2>2, <2>4
<1>10. Stemmed'
  BY <1>2, <1>9, SameStems DEF Stemmed
<1>11. stage' = "translate" /\ ReadsAs(ds', Statements') /\ removed' = TakenOut'
  BY <1>1, <1>2, <1>3
<1> QED
  BY <1>8, <1>10, <1>11 DEF AInv, Fresh, Told, Gone, EveryRuleAccounted

\* A directive that is no rule, passed by.
LEMMA PassedBy ==
  ASSUME IInv, AInv, stage = "translate", NEW i, i = at, i <= Len(ds), Onward(1), imported' = imported,
         skipped \subseteq skipped', ~IsRule(i), NEW v, gate' = v, GateIs(i + 1, v)
  PROVE  AInv'
<1>1. i \in Nat \ {0} /\ imported \in Seq(Imports) /\ ds \in Seq(Directives) /\ Len(ds) \in Nat
  BY DEF IInv, Typed
<1>2. UNCHANGED <<file, opts>>
  BY DEF Onward
<1>3. PICK none : none = <<>>
  OBVIOUS
<1>4. none \in Seq(Imports) /\ imported' = imported \o none /\ DOMAIN none = {}
  BY <1>1, <1>3
<1>5. PICK n : n = i + 1
  OBVIOUS
<1>6. n \in Nat \ {0} /\ n - 1 = i /\ n - i = 1 /\ n > i /\ n <= Len(ds) + 1
  BY <1>1, <1>5
<1>7. ~ChainLink(n)
  <2>1. ~Chained(i)
    BY DEF Chained
  <2> QED
    BY <1>6, <2>1, LinkIs
<1>8. \A k \in i..(n - 1) : Dealt(k)'
  <2>1. \A k \in i..(n - 1) : k = i
    BY <1>1, <1>6
  <2>2. ~IsRule(i)'
    BY <1>2, SameLinks
  <2>3. Dealt(i)'
    BY <2>2 DEF Dealt
  <2> QED
    BY <2>1, <2>3
<1>9. GateIs(n, v)
  BY <1>5
<1>10. Onward(n - i)
  BY <1>6
<1> QED
  BY <1>4, <1>6, <1>7, <1>8, <1>9, <1>10, Advance

\* Where the translation stands.
LEMMA Standing ==
  ASSUME IInv, AInv, stage = "translate", at <= Len(ds), NEW i, i = at, NEW v, v = gate
  PROVE  /\ i \in 1..Len(ds) /\ i \in DOMAIN ds /\ i \in Nat \ {0} /\ i + 1 \in Nat
         /\ ds \in Seq(Directives) /\ ReadsAs(ds, Statements)
         /\ ds[i].name = "secrule" => ~ChainLink(i)
         /\ GateIs(i, v)
<1>1. at \in Nat \ {0} /\ ds \in Seq(Directives) /\ ReadsAs(ds, Statements) /\ Reached(i) /\ GateIs(i, v)
  BY DEF IInv, Typed, AInv, Told, Halfway
<1>2. Len(ds) \in Nat /\ DOMAIN ds = 1..Len(ds)
  BY <1>1, DomainOfSeq
<1>3. i \in 1..Len(ds)
  BY <1>1, <1>2
<1> QED
  BY <1>1, <1>2, <1>3 DEF Reached

LEMMA OpenGateAInv ==
  ASSUME IInv, AInv, OpenGate
  PROVE  AInv'
<1>1. PICK i, w : i = at /\ w = gate
  OBVIOUS
<1>2. stage = "translate" /\ at <= Len(ds) /\ ds[i].name = "secrule" /\ GateLevel(ds[i]) > 0 /\ gate' = Opened(ds[i])
      /\ Onward(1) /\ imported' = imported /\ skipped' = skipped
  BY <1>1 DEF OpenGate, Reading, Here
<1>3. /\ i \in 1..Len(ds) /\ i \in DOMAIN ds /\ i \in Nat \ {0}
      /\ ReadsAs(ds, Statements) /\ ~ChainLink(i)
  BY <1>1, <1>2, Standing
<1>4. ~IsRule(i) /\ Statements[i].kind = "gate"
  BY <1>2, <1>3, SaysWhat
<1>5. PICK v : v = Opened(ds[i])
  OBVIOUS
<1>6. GateIs(i + 1, v)
  BY <1>3, <1>4, <1>5, GateOpened
<1>7. gate' = v /\ i <= Len(ds) /\ skipped \subseteq skipped'
  BY <1>1, <1>2, <1>5
<1> QED
  BY <1>1, <1>2, <1>4, <1>6, <1>7, PassedBy

LEMMA SecMarkerAInv ==
  ASSUME IInv, AInv, SecMarker
  PROVE  AInv'
<1>1. PICK i, w : i = at /\ w = gate
  OBVIOUS
<1>2. stage = "translate" /\ at <= Len(ds) /\ ds[i].name = "secmarker" /\ gate' = (IF Closes(ds[i], w) THEN NoGate ELSE w)
      /\ Onward(1) /\ imported' = imported /\ skipped' = skipped
  BY <1>1 DEF SecMarker, Reading, Here
<1>3. /\ i \in 1..Len(ds) /\ i \in DOMAIN ds /\ ds \in Seq(Directives)
      /\ ReadsAs(ds, Statements) /\ GateIs(i, w)
  BY <1>1, <1>2, Standing
<1>4. ~IsRule(i) /\ Statements[i].kind = "marker"
  BY <1>2, <1>3, SaysWhat
<1>5. PICK v : v = IF Closes(ds[i], w) THEN NoGate ELSE w
  OBVIOUS
<1>6. GateIs(i + 1, v)
  BY <1>3, <1>4, <1>5, GateShut
<1>7. gate' = v /\ i <= Len(ds) /\ skipped \subseteq skipped'
  BY <1>1, <1>2, <1>5
<1> QED
  BY <1>1, <1>2, <1>4, <1>6, <1>7, PassedBy

LEMMA OtherAInv ==
  ASSUME IInv, AInv, SecDefaultAction \/ Collected \/ Untranslatable
  PROVE  AInv'
<1>1. PICK i, v : i = at /\ v = gate
  OBVIOUS
<1>2. stage = "translate" /\ at <= Len(ds) /\ ds[at].name # "secrule" /\ ds[at].name # "secmarker"
  BY DEF SecDefaultAction, Collected, Untranslatable, Reading, Here, Translatable
<1>3. gate' = v /\ Onward(1) /\ imported' = imported /\ skipped \subseteq skipped'
  BY <1>1 DEF SecDefaultAction, Collected, Untranslatable
<1>4. /\ i \in DOMAIN ds /\ i \in Nat \ {0} /\ i + 1 \in Nat
      /\ ReadsAs(ds, Statements) /\ GateIs(i, v)
  BY <1>1, <1>2, Standing
<1>5. ~IsRule(i) /\ Statements[i].kind # "gate" /\ Statements[i].kind # "marker"
  BY <1>1, <1>2, <1>4, SaysWhat
<1>6. PICK n : n = i + 1
  OBVIOUS
<1>7. n \in Nat /\ i <= n /\ \A p \in i..(n - 1) : p = i
  BY <1>4, <1>6
<1>8. GateIs(n, v)
  BY <1>4, <1>5, <1>7, GatePassed
<1>9. GateIs(i + 1, v) /\ i <= Len(ds)
  BY <1>1, <1>2, <1>6, <1>8
<1> QED
  BY <1>1, <1>2, <1>3, <1>5, <1>9, PassedBy

\* A rule comes to the import with its number and the tier of its gate, or is
\* reported; its chain goes with it.
LEMMA SecRuleAInv ==
  ASSUME IInv, AInv, SecRule
  PROVE  AInv'
<1>1. PICK i, v : i = at /\ v = gate
  OBVIOUS
<1>2. stage = "translate" /\ at <= Len(ds) /\ ds[i].name = "secrule" /\ GateLevel(ds[i]) = 0
      /\ Onward(1 + Consumed(ds, at)) /\ gate' = v
  BY <1>1, Zenon DEF SecRule, Reading, Here
<1>3. /\ i \in 1..Len(ds) /\ i \in DOMAIN ds /\ i \in Nat \ {0}
      /\ ds \in Seq(Directives) /\ ReadsAs(ds, Statements) /\ ~ChainLink(i) /\ GateIs(i, v)
  BY <1>1, <1>2, Standing
<1>4. Len(ds) \in Nat /\ DOMAIN ds = 1..Len(ds) /\ Directed(ds[i]) /\ Typed
  BY <1>3, DomainOfSeq, DirectedIs DEF IInv
<1>5. IsRule(i) /\ RuleIDOf(ds[i]) = Statements[i].id /\ i \in DOMAIN Statements
  BY <1>2, <1>3, SaysWhat
<1>6. PICK n : n = i + 1 + Consumed(ds, i)
  OBVIOUS
<1>7. /\ n \in (i + 1)..(Len(ds) + 1)
      /\ \A p \in (i + 1)..(n - 1) : ds[p].name = "secrule" /\ ChainLink(p)
      /\ (n <= Len(ds) /\ ds[n].name = "secrule") => ~ChainLink(n)
  BY <1>3, <1>5, <1>6, ConsumedWhole
<1>8. n \in Nat /\ n > i /\ n <= Len(ds) + 1 /\ i <= n
  BY <1>3, <1>4, <1>7
<1>9. Onward(n - i)
  <2>1. Consumed(ds, i) \in Nat
    BY <1>3, ConsumedIs
  <2>2. n - i = 1 + Consumed(ds, i)
    BY <1>3, <1>6, <2>1
  <2> QED
    BY <1>1, <1>2, <2>2
<1>10. \A p \in i..(n - 1) : Statements[p].kind # "marker" /\ (Statements[p].kind # "gate" \/ ChainLink(p))
  <2> SUFFICES ASSUME NEW p \in i..(n - 1)
               PROVE  Statements[p].kind # "marker" /\ (Statements[p].kind # "gate" \/ ChainLink(p))
    OBVIOUS
  <2>1. CASE p = i
    BY <1>3, <1>5, <2>1, SaysWhat
  <2>2. CASE p # i
    <3>1. p \in (i + 1)..(n - 1) /\ p \in DOMAIN ds
      BY <1>3, <1>4, <1>7, <2>2
    <3> QED
      BY <1>3, <1>7, <3>1, SaysWhat
  <2> QED
    BY <2>1, <2>2
<1>11. GateIs(n, v)
  BY <1>3, <1>8, <1>10, GatePassed
<1>12. PICK said : said = Translated(ds[i], defaults, opts.prefix, Tier)
  OBVIOUS
<1>13. imported' = imported \o said.rule
       /\ skipped' = (IF said.why = "" THEN skipped ELSE skipped \cup {Skip(at, said.why)})
  BY <1>1, <1>12, Zenon DEF SecRule, Here
<1>14. opts.prefix \in Nat /\ defaults \in Seq(ActionSet) /\ Tier \in 0..5 /\ imported \in Seq(Imports)
  BY <1>4, SettingsAre, TierTyped DEF Typed
<1>15. said.rule \in Seq(Imports)
  BY <1>4, <1>12, <1>14, TranslatedIs
<1>16. PICK d, inherited, prefix, tier : d = ds[i] /\ inherited = defaults /\ prefix = opts.prefix /\ tier = Tier
  OBVIOUS
<1>24. said = Translated(d, inherited, prefix, tier)
  BY <1>12, <1>16
<1>25. Outcome(said, prefix + RuleIDOf(d), tier)
  BY <1>24, Becomes
<1>26. Outcome(said, opts.prefix + RuleIDOf(ds[i]), Tier)
  BY <1>16, <1>25
<1>17. Tier = TierAt(i)
  <2>1. LevelAt(i) = v.level
    BY <1>3, <1>4, LevelIs
  <2> QED
    BY <1>1, <2>1 DEF Tier, TierAt
<1>18. skipped \subseteq skipped'
  BY Zenon, <1>13
<1>19. PICK t \in Seq(Imports) : t = said.rule
  BY <1>15
<1>20. imported' = imported \o t
  BY Zenon, <1>13, <1>19
<1>21. UNCHANGED <<file, opts>>
  BY <1>2 DEF Onward
<1>22. CASE said.why # "" /\ said.rule = <<>>
  <2>1. \A j \in DOMAIN t : Stems(t[j])
    <3>1. t = <<>>
      BY Zenon, <1>19, <1>22
    <3>2. DOMAIN t = {}
      BY <3>1
    <3> QED
      BY <3>2
  <2>2. \E s \in skipped' : s.at = i
    <3>1. Skip(at, said.why) \in skipped'
      BY Zenon, <1>13, <1>22
    <3>2. Skip(at, said.why).at = i
      BY <1>1 DEF Skip
    <3> QED
      BY <3>1, <3>2
  <2>3. Dealt(i)'
    BY <2>2 DEF Dealt
  <2>4. \A k \in i..(n - 1) : Dealt(k)'
    <3> SUFFICES ASSUME NEW k \in i..(n - 1) PROVE Dealt(k)'
      OBVIOUS
    <3>1. k = i \/ k \in (i + 1)..(n - 1)
      BY <1>3, <1>8
    <3>2. k \in (i + 1)..(n - 1) => ChainLink(k)'
      BY <1>7, <1>21, SameLinks
    <3> QED
      BY <2>3, <3>1, <3>2 DEF Dealt
  <2> QED
    BY <1>1, <1>2, <1>7, <1>8, <1>9, <1>11, <1>18, <1>20, <2>1, <2>4, Advance
<1>23. CASE said.why = "" /\ \E r : said.rule = <<r>> /\ r.id = opts.prefix + RuleIDOf(ds[i]) /\ r.confidence = Tier
  <2>1. PICK r : t = <<r>> /\ r.id = opts.prefix + RuleIDOf(ds[i]) /\ r.confidence = Tier
    BY Zenon, <1>19, <1>23
  <2>2. r.id = opts.prefix + Statements[i].id /\ r.confidence = TierAt(i)
    BY <1>5, <1>17, <2>1
  <2>3. Stems(r)
    BY <1>5, <2>2 DEF Stems
  <2>4. \A j \in DOMAIN t : Stems(t[j])
    BY <2>1, <2>3
  <2>5. Dealt(i)'
    <3>1. Len(imported) + 1 \in DOMAIN imported' /\ imported'[Len(imported) + 1] = r
      BY <1>14, <1>20, <2>1
    <3>2. Len(imported) + 1 \in Numbered(imported', Statements[i].id)
      BY <2>2, <3>1 DEF Numbered
    <3>3. Numbered(imported, Statements[i].id)' = Numbered(imported', Statements[i].id)
      BY <1>21, SameLinks DEF Numbered
    <3> QED
      BY <3>2, <3>3 DEF Dealt
  <2>6. \A k \in i..(n - 1) : Dealt(k)'
    <3> SUFFICES ASSUME NEW k \in i..(n - 1) PROVE Dealt(k)'
      OBVIOUS
    <3>1. k = i \/ k \in (i + 1)..(n - 1)
      BY <1>3, <1>8
    <3>2. k \in (i + 1)..(n - 1) => ChainLink(k)'
      BY <1>7, <1>21, SameLinks
    <3> QED
      BY <2>5, <3>1, <3>2 DEF Dealt
  <2> QED
    BY <1>1, <1>2, <1>7, <1>8, <1>9, <1>11, <1>18, <1>20, <2>4, <2>6, Advance
<1> QED
  BY Zenon, <1>22, <1>23, <1>26 DEF Outcome

\* What is left when the removals are through: a rule that is gone was taken out.
LEMMA ImportedAInv ==
  ASSUME IInv, AInv, Imported
  PROVE  AInv'
<1>1. /\ stage = "translate" /\ at > Len(ds)
      /\ imported' = Spared(imported, removed, opts.prefix)
      /\ stage' \in {"refused", "imported"}
      /\ stage' = "imported" => ~(opts.strict /\ skipped # {})
      /\ UNCHANGED <<file, opts, ds, removed, skipped>>
  BY DEF Imported
<1>2. PICK i, prefix : i = at /\ prefix = opts.prefix
  OBVIOUS
<1>3. /\ ds \in Seq(Directives) /\ imported \in Seq(Imports) /\ prefix \in Nat
      /\ ReadsAs(ds, Statements) /\ Reached(i) /\ removed = TakenOut /\ Stemmed
  BY <1>1, <1>2, SettingsAre DEF AInv, Told, Gone, Halfway, IInv, Typed
<1>4. Len(ds) \in Nat /\ DOMAIN ds = 1..Len(ds) /\ DOMAIN Statements = DOMAIN ds
  BY <1>3, DomainOfSeq DEF ReadsAs
<1>5. PICK chosen : chosen = {r \in Range(imported) : r.id - prefix \notin removed}
  OBVIOUS
<1>6. PICK kept \in Seq(Imports) : kept = Those(imported, chosen) /\ Range(kept) = Range(imported) \cap chosen
  BY <1>3, RangeOfThose
<1>7. imported' = kept
  BY <1>1, <1>2, <1>5, <1>6 DEF Spared
<1>8. Statements' = Statements /\ TakenOut' = TakenOut
  BY <1>1, SameLinks
<1>9. ASSUME NEW n \in DOMAIN kept PROVE Stems(kept[n])
  <2>1. PICK r : r = kept[n]
    OBVIOUS
  <2>2. r \in Range(kept)
    BY <2>1, RangeIs
  <2>3. PICK m \in DOMAIN imported : r = imported[m]
    BY <1>6, <2>2, RangeIs
  <2>4. Stems(r)
    BY <1>3, <2>3 DEF Stemmed
  <2> QED
    BY <2>1, <2>4
<1>10. Stemmed'
  BY <1>1, <1>7, <1>9, SameStems DEF Stemmed
<1>11. ASSUME stage' = "imported", NEW k \in DOMAIN Statements, IsRule(k), ~ChainLink(k)
       PROVE  \/ \E n \in DOMAIN kept : kept[n].id = prefix + Statements[k].id
              \/ Statements[k].id \in TakenOut
              \/ ~opts.strict /\ \E s \in skipped : s.at = k
  <2>1. i <= Len(ds) + 1 /\ i > Len(ds) /\ i \in Int
    BY <1>1, <1>2, <1>3 DEF Reached, IInv, Typed
  <2>2. k \in 1..(i - 1)
    BY <1>4, <2>1
  <2>3. Dealt(k)
    BY <1>3, <2>2 DEF Reached
  <2>4. CASE \E s \in skipped : s.at = k
    BY <1>1, <1>11, <2>4
  <2>5. CASE Numbered(imported, Statements[k].id) # {}
    <3>1. PICK id : id = Statements[k].id
      OBVIOUS
    <3>2. PICK n \in DOMAIN imported : imported[n].id = prefix + id
      BY <1>2, <2>5, <3>1 DEF Numbered
    <3>3. PICK r : r = imported[n]
      OBVIOUS
    <3>4. r \in Range(imported)
      BY <3>3, RangeIs
    <3>5. id \in Int
      <4>1. k \in DOMAIN ds
        BY <1>4
      <4>2. RuleIDOf(ds[k]) = id
        BY <1>3, <1>11, <3>1, <4>1, SaysWhat
      <4>3. Directed(ds[k])
        BY <1>3, <1>4, <4>1, DirectedIs
      <4> QED
        BY <4>2, <4>3, RuleIDIs
    <3>6. r.id - prefix = id
      BY <1>3, <3>2, <3>3, <3>5
    <3>7. CASE id \in removed
      BY <1>3, <3>1, <3>7
    <3>8. CASE id \notin removed
      <4>1. r \in Range(kept)
        BY <1>5, <1>6, <3>4, <3>6, <3>8
      <4>2. PICK m \in DOMAIN kept : kept[m] = r
        BY <4>1, RangeIs
      <4> QED
        BY <3>1, <3>2, <3>3, <4>2
    <3> QED
      BY <3>7, <3>8
  <2> QED
    BY <1>11, <2>3, <2>4, <2>5 DEF Dealt
<1>14. ASSUME NEW id \in TakenOut PROVE ~\E n \in DOMAIN kept : kept[n].id = prefix + id
  <2> SUFFICES ASSUME NEW n \in DOMAIN kept, kept[n].id = prefix + id PROVE FALSE
    OBVIOUS
  <2>1. kept[n] \in Range(kept)
    BY RangeIs
  <2>2. kept[n].id - prefix \notin removed
    BY <1>5, <1>6, <2>1
  <2>3. PICK k \in DOMAIN Statements : id \in Statements[k].removes
    BY DEF TakenOut
  <2>4. id \in Removals(ds[k])
    BY <1>3, <1>4, <2>3, SaysWhat
  <2>5. id \in Int
    BY <2>4, RemovalsAre
  <2>6. kept[n].id - prefix = id
    BY <1>3, <2>5
  <2> QED
    BY <1>3, <2>2, <2>6
<1>12. EveryRuleAccounted'
  <2>1. \A k : (IsRule(k)' <=> IsRule(k)) /\ (ChainLink(k)' <=> ChainLink(k))
    BY <1>1, SameLinks
  <2>2. \A id : (Numbered(imported, id) # {})' <=> \E n \in DOMAIN kept : kept[n].id = prefix + id
    BY <1>1, <1>2, <1>7 DEF Numbered
  <2> QED
    BY <1>1, <1>8, <1>11, <1>14, <2>1, <2>2 DEF EveryRuleAccounted
<1>13. ReadsAs(ds', Statements') /\ removed' = TakenOut'
  BY <1>1, <1>3, <1>8
<1> QED
  BY <1>1, <1>10, <1>12, <1>13 DEF AInv, Fresh, Told, Gone, Halfway

\* Nothing is lost behind the import.
LEMMA BehindAInv ==
  ASSUME IInv, AInv, Generate \/ New
  PROVE  AInv'
<1>1. /\ stage \in {"imported", "generated"} /\ stage' \in {"generated", "compiled", "refused"}
      /\ UNCHANGED <<file, opts, ds, removed, skipped, imported>>
  BY DEF Generate, New
<1>2. /\ Statements' = Statements /\ TakenOut' = TakenOut
      /\ \A k : (IsRule(k)' <=> IsRule(k)) /\ (ChainLink(k)' <=> ChainLink(k))
  BY <1>1, SameLinks
<1>3. ReadsAs(ds, Statements) /\ removed = TakenOut /\ Stemmed /\ EveryRuleAccounted
  BY <1>1 DEF AInv, Told, Gone
<1>4. Stemmed'
  BY <1>1, <1>3, SameStems DEF Stemmed
<1>5. EveryRuleAccounted'
  <2>1. \A id : Numbered(imported, id)' = Numbered(imported, id)
    BY <1>1 DEF Numbered
  <2> QED
    BY <1>1, <1>2, <1>3, <2>1 DEF EveryRuleAccounted
<1>6. ReadsAs(ds', Statements') /\ removed' = TakenOut'
  BY <1>1, <1>2, <1>3
<1> QED
  BY <1>1, <1>4, <1>5, <1>6 DEF AInv, Fresh, Told, Gone, Halfway

LEMMA StillAInv ==
  ASSUME AInv, UNCHANGED vars
  PROVE  AInv'
<1>1. UNCHANGED <<file, opts, stage, ds, at, removed, skipped, gate, imported>>
  BY DEF vars
<1>2. /\ Statements' = Statements /\ TakenOut' = TakenOut
      /\ \A k : (IsRule(k)' <=> IsRule(k)) /\ (ChainLink(k)' <=> ChainLink(k))
  BY <1>1, SameLinks
<1>3. \A id : Numbered(imported, id)' = Numbered(imported, id)
  BY <1>1 DEF Numbered
<1>4. \A k : Dealt(k)' <=> Dealt(k)
  BY <1>1, <1>2, <1>3 DEF Dealt
<1>5. \A i : Reached(i)' <=> Reached(i)
  BY <1>1, <1>2, <1>4 DEF Reached
<1>6. Halfway'
  BY <1>1, <1>5, SameGate DEF AInv, Halfway
<1>7. Stemmed'
  BY <1>1, SameStems DEF AInv, Stemmed
<1>8. EveryRuleAccounted'
  BY <1>1, <1>2, <1>3 DEF AInv, EveryRuleAccounted
<1>9. Told' /\ Gone' /\ Fresh'
  BY <1>1, <1>2 DEF AInv, Told, Gone, Fresh
<1> QED
  BY <1>6, <1>7, <1>8, <1>9 DEF AInv

LEMMA AInvNext ==
  ASSUME ReadAsWritten, IInv, AInv, [Next]_vars
  PROVE  AInv'
  BY ReadAInv, CollectAInv, OpenGateAInv, SecRuleAInv, SecMarkerAInv, OtherAInv, ImportedAInv, BehindAInv, StillAInv DEF Next

\* No rule of a file that is read as it is written is lost in silence, whatever
\* the file and in whatever order its directives stand: each is imported, taken
\* out by a removal, part of a chain or reported, none that is taken out is
\* imported, and a strict import that succeeds has left nothing out
\* (collectRemovals, secRule, skip, ParseSourcesStrict).
THEOREM Accounting ==
  ASSUME ReadAsWritten
  PROVE  Spec => []EveryRuleAccounted
<1>1. Init => IInv /\ AInv
  BY InitIInv, InitAInv
<1>2. IInv /\ AInv /\ [Next]_vars => (IInv /\ AInv)'
  BY IInvNext, AInvNext
<1>3. IInv /\ AInv => EveryRuleAccounted
  BY DEF AInv
<1> QED
  BY <1>1, <1>2, <1>3, PTL DEF Spec

\* A rule whose number is its own comes from one statement.
LEMMA StemIs ==
  ASSUME IInv, AInv, NEW k \in DOMAIN Statements, NEW n \in Numbered(imported, Statements[k].id), IsRule(k),
         Cardinality({j \in DOMAIN Statements : Statements[j].id = Statements[k].id}) = 1
  PROVE  imported[n].confidence = TierAt(k)
<1>1. n \in DOMAIN imported /\ imported[n].id = opts.prefix + Statements[k].id
  BY DEF Numbered
<1>2. PICK prefix : prefix = opts.prefix
  OBVIOUS
<1>3. ds \in Seq(Directives) /\ prefix \in Nat /\ ReadsAs(ds, Statements)
  <2>1. imported # <<>>
    BY <1>1
  <2> QED
    BY <1>2, <2>1, SettingsAre DEF IInv, Typed, AInv, Told
<1>4. Len(ds) \in Nat /\ DOMAIN ds = 1..Len(ds) /\ DOMAIN Statements = DOMAIN ds
  BY <1>3, DomainOfSeq DEF ReadsAs
<1>5. ASSUME NEW j \in DOMAIN Statements, IsRule(j) PROVE Statements[j].id \in Int
  <2>1. RuleIDOf(ds[j]) = Statements[j].id /\ Directed(ds[j])
    BY <1>3, <1>4, <1>5, SaysWhat, DirectedIs
  <2> QED
    BY <2>1, RuleIDIs
<1>6. PICK j \in DOMAIN Statements : IsRule(j) /\ imported[n].id = prefix + Statements[j].id /\ imported[n].confidence = TierAt(j)
  BY <1>1, <1>2 DEF AInv, Stemmed, Stems
<1>7. Statements[j].id = Statements[k].id
  BY <1>1, <1>2, <1>3, <1>5, <1>6
<1>8. PICK own : own = {m \in DOMAIN Statements : Statements[m].id = Statements[k].id}
  OBVIOUS
<1>9. j \in own /\ k \in own /\ own \subseteq 1..Len(ds)
  BY <1>4, <1>7, <1>8
<1>10. IsFiniteSet(own)
  <2>1. PICK last : last = Len(ds)
    OBVIOUS
  <2>2. last \in Int
    BY <1>3, <2>1, DomainOfSeq
  <2>3. IsFiniteSet(1..last) /\ own \in SUBSET (1..last)
    BY <1>9, <2>1, <2>2, FS_Interval
  <2> QED
    BY <2>3, FS_Subset
<1>11. PICK x : own = {x}
  BY <1>8, <1>10, FS_Singleton
<1>12. j = k
  BY <1>9, <1>11
<1> QED
  BY <1>6, <1>12

\* A rule behind a paranoia gate carries the tier of the gate's level up to the
\* marker of that gate, and no longer, and any other the tier above the one the
\* caller named, whatever the gates, chains and markers of the file, as long as
\* it is read as it is written (run, confidence).
THEOREM Tiers ==
  ASSUME ReadAsWritten
  PROVE  Spec => []ParanoiaTier
<1>1. Init => IInv /\ AInv
  BY InitIInv, InitAInv
<1>2. IInv /\ AInv /\ [Next]_vars => (IInv /\ AInv)'
  BY IInvNext, AInvNext
<1>3. IInv /\ AInv => ParanoiaTier
  <2>1. IInv => InTypes(opts.conf) + 1 = opts.conf
    BY SettingsAre DEF IInv, Typed, InTypes
  <2> QED
    BY <2>1, StemIs DEF ParanoiaTier, TierAt
<1> QED
  BY <1>1, <1>2, <1>3, PTL DEF Spec
=============================================================================
