-------------------------- MODULE ReportingProofs ---------------------------
(***************************************************************************)
(* Proofs about Reporting for every set of servers, every decisions and    *)
(* sinks, and every order in which counters are read and cleared: the      *)
(* counters hold what went through, and every sink has the lines it wants. *)
(***************************************************************************)
EXTENDS Reporting, Pool, FiniteSetTheorems, SequenceTheorems, WellFoundedInduction, TLAPS

-----------------------------------------------------------------------------
(* The invariant *)

Steps == {"idle", "verdict", "reason", "nanos", "load", "swap", "rule", "byRule", "bySevere",
          "sink", "line", "rest"}

Written == [record : [by : Servers, nth : Nat, blocked : BOOLEAN, rule : Nat, severity : Nat, score : Nat,
     path : Seq(Int)],
            half : {1, 2}]

IsCounts(map) ==
  /\ IsFiniteSet(DOMAIN map) /\ DOMAIN map \subseteq Nat
  /\ \A k \in DOMAIN map : map[k] \in Nat

Types ==
  /\ counter \in [Counters -> Int]
  /\ IsCounts(byRule) /\ IsCounts(bySevere)
  /\ metricsLock \in Servers \cup {Nobody}
  /\ at \in [Servers -> Steps] /\ nth \in [Servers -> Nat \ {0}] /\ cur \in [Servers -> Int]
  /\ sink \in [Servers -> Nat \ {0}] /\ first \in [Servers -> Nat]
  /\ sinkLock \in [DOMAIN Sinks -> Servers \cup {Nobody}]
  /\ lines \in [DOMAIN Sinks -> Seq(Written)]
  /\ reader \in Nat /\ resetter \in Nat /\ resets \in Nat
  /\ \A p \in Servers : at[p] # "idle" => nth[p] \in DOMAIN Decisions[p]

\* Metrics.mu is held by who is in its critical section, and by nobody else.
RulesHeld ==
  \A p \in Servers : /\ at[p] \in {"byRule", "bySevere"} <=> metricsLock = p
                     /\ at[p] \in {"byRule", "bySevere"} => Decision(p).rule # 0

\* Who writes a line holds the sink's lock; who does not is before the first sink or between two.
SinksHeld ==
  \A p \in Servers :
    /\ at[p] \in {"line", "rest"} => sink[p] \in DOMAIN Sinks /\ sinkLock[sink[p]] = p
    /\ at[p] \notin {"sink", "line", "rest"} => sink[p] = 1

Unreset == resets = 0 => resetter = 0

AtVerdict == {p \in Servers : at[p] = "verdict"}
PastBlocked == {d \in Past("verdict") : Of(d).blocked}
PastExhausted == {d \in Past("reason") : Of(d).reason = "budget"}
PastErrors == {d \in Past("reason") : Of(d).reason \in Errors}
PastRule(r) == {d \in Past("byRule") : Of(d).rule = r}

\* What the counters hold as long as nothing was reset.
Requests == counter.requests = counter.blocked + counter.allowed + Cardinality(AtVerdict)

Verdicts == counter.blocked = Cardinality(PastBlocked)

Reasons ==
  /\ counter.exhausted = Cardinality(PastExhausted)
  /\ counter.errors = Cardinality(PastErrors)

\* The maximum is the longest of those past it, and below what is about to replace it.
Longest ==
  /\ \A p \in Servers : at[p] = "swap" => cur[p] < Decision(p).ns
  /\ 0 <= counter.maxNs
  /\ counter.maxNs = 0 \/ \E d \in Past("swap") : counter.maxNs = Of(d).ns
  /\ \A d \in Past("swap") : Of(d).ns <= counter.maxNs

Matches ==
  /\ 0 \notin DOMAIN byRule
  /\ \A r \in Nat \ {0} : Lookup(byRule, r) = Cardinality(PastRule(r))

\* A match is in both maps or, within the critical section, in the first.
Balance ==
  Total(byRule) = Total(bySevere) + (IF \E p \in Servers : at[p] = "bySevere" THEN 1 ELSE 0)

\* Whether a sink takes a decision, has its whole line, and is behind its server.
Wanted(s, p, n) ==
  ~Dropped(Sinks[s], [rule |-> Decisions[p][n].rule, severity |-> Decisions[p][n].severity,
                      blocked |-> Decisions[p][n].blocked])
Whole(s, p, n) ==
  {i \in DOMAIN lines[s] : lines[s][i].half = 2 /\ lines[s][i].record.by = p /\ lines[s][i].record.nth = n}
Gone(s, p, n) == n < nth[p] \/ (n = nth[p] /\ s < sink[p])

WritesWanted == \A p \in Servers : at[p] \in {"line", "rest"} => Wanted(sink[p], p, nth[p])

PathsBounded ==
  \A s \in DOMAIN Sinks : \A i \in DOMAIN lines[s] : Width(Unmarked(lines[s][i].record.path)) <= MaxPath

Writing(p, s) == at[p] = "rest" /\ sink[p] = s

\* A half line is the last, and its writer's.
Resting(s) ==
  /\ \A p \in Servers : Writing(p, s) =>
       lines[s] # <<>> /\ lines[s][Len(lines[s])] = [record |-> NewRecord(p), half |-> 1]
  /\ lines[s] # <<>> /\ lines[s][Len(lines[s])].half = 1 => \E p \in Servers : Writing(p, s)

Once(s) ==
  \A p \in Servers : \A n \in DOMAIN Decisions[p] :
    Cardinality(Whole(s, p, n)) = IF Wanted(s, p, n) /\ Gone(s, p, n) THEN 1 ELSE 0

Recorded(s) == ~Sinks[s].fails => Resting(s) /\ LinesWhole(s) /\ Once(s)

Recording == \A s \in DOMAIN Sinks : Recorded(s)

-----------------------------------------------------------------------------
(* Sums over a set *)

\* Induction over the set of numbers for which something holds.
LEMMA Upwards ==
  ASSUME NEW S, 0 \in S, \A n \in Nat : n \in S => n + 1 \in S
  PROVE  Nat \subseteq S
<1> SUFFICES ASSUME Nat \ S # {} PROVE FALSE
  OBVIOUS
<1> DEFINE less == OpToRel(<, Nat)
<1>1. IsWellFoundedOn(less, Nat)
  BY NatLessThanWellFounded
<1>2. \A x, y \in Nat : <<x, y>> \in less <=> x < y
  BY DEF OpToRel
<1> HIDE DEF less
<1>3. Nat \ S \in SUBSET Nat /\ Nat \ S # {}
  OBVIOUS
<1>4. PICK n \in Nat \ S : \A k \in Nat \ S : ~(<<k, n>> \in less)
  BY <1>1, <1>3, WFMin
<1>5. CASE n = 0
  BY <1>5
<1>6. CASE n # 0
  <2>1. n - 1 \in Nat /\ n - 1 < n /\ (n - 1) + 1 = n
    BY <1>6
  <2>2. n - 1 \in S
    BY <1>2, <1>4, <2>1
  <2>3. QED
    BY <2>1, <2>2
<1>7. QED
  BY <1>5, <1>6

\* The subsets of D with at most n elements.
Within(D, n) == {s \in SUBSET D : Cardinality(s) <= n}

Taken(s) == CHOOSE x \in s : TRUE

\* What MapThenSumSet adds up, over the sets in S.
Sums(u, map, S) ==
  u = [s \in S |-> IF s = {} THEN 0 ELSE map[Taken(s)] + u[s \ {Taken(s)}]]

\* Taking an element away leaves a smaller set.
LEMMA Less ==
  ASSUME NEW D, IsFiniteSet(D), NEW s \in SUBSET D, NEW x \in s
  PROVE  /\ IsFiniteSet(s) /\ IsFiniteSet(s \ {x}) /\ s \ {x} \in SUBSET D
         /\ Cardinality(s) \in Nat /\ Cardinality(s \ {x}) \in Nat
         /\ Cardinality(s \ {x}) = Cardinality(s) - 1
<1>1. IsFiniteSet(s)
  BY FS_Subset
<1>2. IsFiniteSet(s \ {x}) /\ Cardinality(s \ {x}) = Cardinality(s) - 1
  BY <1>1, FS_RemoveElement
<1>3. QED
  BY <1>1, <1>2, FS_CardinalityType

LEMMA TakenIn == \A s : s # {} => Taken(s) \in s
BY DEF Taken

LEMMA SumsExist ==
  ASSUME NEW D, IsFiniteSet(D), NEW map
  PROVE  \E u : Sums(u, map, SUBSET D)
<1> DEFINE K == {n \in Nat : \E u : Sums(u, map, Within(D, n))}
<1>1. 0 \in K
  <2> DEFINE w == [s \in Within(D, 0) |-> 0]
  <2>1. \A s \in Within(D, 0) : s = {}
    BY FS_EmptySet, FS_Subset, FS_CardinalityType DEF Within
  <2>2. Sums(w, map, Within(D, 0))
    <3>1. w = [s \in Within(D, 0) |-> IF s = {} THEN 0 ELSE map[Taken(s)] + w[s \ {Taken(s)}]]
      BY <2>1
    <3>2. QED
      BY <3>1 DEF Sums
  <2> HIDE DEF w
  <2>3. QED
    BY <2>2
<1>2. \A n \in Nat : n \in K => n + 1 \in K
  <2> SUFFICES ASSUME NEW n \in Nat, n \in K PROVE n + 1 \in K
    OBVIOUS
  <2>1. PICK u : Sums(u, map, Within(D, n))
    OBVIOUS
  <2> DEFINE w == [s \in Within(D, n + 1) |->
                    IF s = {} THEN 0
                    ELSE map[Taken(s)] + (IF s \ {Taken(s)} \in Within(D, n) THEN u[s \ {Taken(s)}] ELSE 0)]
  <2>2. \A s \in Within(D, n + 1) : s # {} => s \ {Taken(s)} \in Within(D, n)
    <3> SUFFICES ASSUME NEW s \in Within(D, n + 1), s # {} PROVE s \ {Taken(s)} \in Within(D, n)
      OBVIOUS
    <3>1. s \in SUBSET D /\ Taken(s) \in s /\ Cardinality(s) <= n + 1
      BY TakenIn DEF Within
    <3> DEFINE x == Taken(s)
    <3>2. x \in s
      BY <3>1
    <3> HIDE DEF x
    <3>3. s \ {x} \in SUBSET D /\ Cardinality(s) \in Nat /\ Cardinality(s \ {x}) = Cardinality(s) - 1
      BY <3>1, <3>2, Less
    <3>4. s \ {x} \in Within(D, n)
      BY <3>1, <3>3 DEF Within
    <3>5. QED
      BY <3>4 DEF x
  <2>3. \A s \in Within(D, n) : s \in Within(D, n + 1)
    <3> SUFFICES ASSUME NEW s \in Within(D, n) PROVE s \in Within(D, n + 1)
      OBVIOUS
    <3>1. Cardinality(s) \in Nat /\ Cardinality(s) <= n
      BY FS_Subset, FS_CardinalityType DEF Within
    <3>2. QED
      BY <3>1 DEF Within
  <2>4. \A s \in Within(D, n) : w[s] = u[s]
    <3> SUFFICES ASSUME NEW s \in Within(D, n) PROVE w[s] = u[s]
      OBVIOUS
    <3>1. u[s] = IF s = {} THEN 0 ELSE map[Taken(s)] + u[s \ {Taken(s)}]
      BY <2>1 DEF Sums
    <3>2. QED
      BY <2>2, <2>3, <3>1
  <2>5. w = [s \in Within(D, n + 1) |-> IF s = {} THEN 0 ELSE map[Taken(s)] + w[s \ {Taken(s)}]]
    BY <2>2, <2>4
  <2> HIDE DEF w
  <2>6. Sums(w, map, Within(D, n + 1))
    BY <2>5 DEF Sums
  <2>7. QED
    BY <2>6
<1>3. Cardinality(D) \in K
  <2> HIDE DEF K
  <2> QED
    BY <1>1, <1>2, Upwards, FS_CardinalityType
<1>4. Within(D, Cardinality(D)) = SUBSET D
  BY FS_Subset DEF Within
<1>5. QED
  BY <1>3, <1>4

\* Total, by its own definition.
LEMMA TotalSums ==
  ASSUME NEW map, IsFiniteSet(DOMAIN map)
  PROVE  \E u : /\ Sums(u, map, SUBSET DOMAIN map) /\ Total(map) = u[DOMAIN map]
<1> DEFINE D == DOMAIN map
           u == CHOOSE f : f = [s \in SUBSET D |-> IF s = {} THEN 0
                                 ELSE LET x == CHOOSE x \in s : TRUE IN map[x] + f[s \ {x}]]
<1>1. Total(map) = u[D]
  BY DEF Total, MapThenSumSet, MapThenFoldSet
<1>2. \E f : f = [s \in SUBSET D |-> IF s = {} THEN 0
                   ELSE LET x == CHOOSE x \in s : TRUE IN map[x] + f[s \ {x}]]
  <2>1. PICK v : Sums(v, map, SUBSET D)
    BY SumsExist
  <2>2. v = [s \in SUBSET D |-> IF s = {} THEN 0
                   ELSE LET x == CHOOSE x \in s : TRUE IN map[x] + v[s \ {x}]]
    BY <2>1 DEF Sums, Taken
  <2>3. QED
    BY <2>2
<1>3. u = [s \in SUBSET D |-> IF s = {} THEN 0
                   ELSE LET x == CHOOSE x \in s : TRUE IN map[x] + u[s \ {x}]]
  BY <1>2
<1> HIDE DEF u
<1>4. Sums(u, map, SUBSET D)
  BY <1>3 DEF Sums, Taken
<1>5. QED
  BY <1>1, <1>4

\* A sum is a number, and every element can be taken out of it first.
SumsWell(u, map, s) == u[s] \in Int /\ \A x \in s : u[s] = map[x] + u[s \ {x}]

LEMMA SumsTakeAny ==
  ASSUME NEW D, IsFiniteSet(D), NEW map, \A k \in D : map[k] \in Int,
         NEW u, Sums(u, map, SUBSET D)
  PROVE  \A s \in SUBSET D : SumsWell(u, map, s)
<1> DEFINE K == {n \in Nat : \A s \in Within(D, n) : SumsWell(u, map, s)}
<1>0. \A s \in SUBSET D : u[s] = IF s = {} THEN 0 ELSE map[Taken(s)] + u[s \ {Taken(s)}]
  BY DEF Sums
<1>1. 0 \in K
  <2>1. \A s \in Within(D, 0) : s = {}
    BY FS_EmptySet, FS_Subset, FS_CardinalityType DEF Within
  <2>2. u[{}] = 0
    BY <1>0
  <2>3. SumsWell(u, map, {})
    BY <2>2 DEF SumsWell
  <2>4. \A s \in Within(D, 0) : SumsWell(u, map, s)
    BY <2>1, <2>3
  <2>5. QED
    BY <2>4
<1>2. \A n \in Nat : n \in K => n + 1 \in K
  <2> SUFFICES ASSUME NEW n \in Nat, n \in K, NEW s \in Within(D, n + 1) PROVE SumsWell(u, map, s)
    OBVIOUS
  <2>1. s \in SUBSET D /\ Cardinality(s) <= n + 1
    BY DEF Within
  <2>2. ASSUME NEW t \in SUBSET D, NEW y \in t, Cardinality(t) <= n + 1
        PROVE  /\ t \ {y} \in SUBSET D /\ t \ {y} \in Within(D, n) /\ SumsWell(u, map, t \ {y})
    <3>1. t \ {y} \in SUBSET D /\ Cardinality(t) \in Nat /\ Cardinality(t \ {y}) = Cardinality(t) - 1
      BY <2>2, Less
    <3>2. t \ {y} \in Within(D, n)
      BY <2>2, <3>1 DEF Within
    <3>3. QED
      BY <3>1, <3>2
  <2>3. CASE s = {}
    <3>1. u[{}] = 0
      BY <1>0
    <3>2. SumsWell(u, map, {})
      BY <3>1 DEF SumsWell
    <3>3. QED
      BY <2>3, <3>2
  <2>4. CASE s # {}
    <3> DEFINE x == Taken(s)
    <3>1. x \in s /\ u[s] = map[x] + u[s \ {x}]
      BY <1>0, <2>1, <2>4, TakenIn
    <3> HIDE DEF x
    <3>2. SumsWell(u, map, s \ {x}) /\ s \ {x} \in Within(D, n)
      BY <2>1, <2>2, <3>1
    <3>3. u[s \ {x}] \in Int /\ map[x] \in Int
      BY <2>1, <3>1, <3>2 DEF SumsWell
    <3>4. ASSUME NEW y \in s PROVE u[s] = map[y] + u[s \ {y}]
      <4>1. CASE y = x
        BY <3>1, <4>1
      <4>2. CASE y # x
        <5>1. y \in s \ {x} /\ x \in s \ {y} /\ (s \ {x}) \ {y} = (s \ {y}) \ {x}
          BY <3>1, <4>2
        <5>2. SumsWell(u, map, s \ {y})
          BY <2>1, <2>2
        <5>3. u[s \ {x}] = map[y] + u[(s \ {x}) \ {y}]
          BY <3>2, <5>1 DEF SumsWell
        <5>4. u[s \ {y}] = map[x] + u[(s \ {y}) \ {x}]
          BY <5>1, <5>2 DEF SumsWell
        <5>5. SumsWell(u, map, (s \ {x}) \ {y})
          <6>1. s \ {x} \in SUBSET D /\ Cardinality(s \ {x}) <= n + 1
            <7>1. Cardinality(s \ {x}) = Cardinality(s) - 1 /\ Cardinality(s) \in Nat
              BY <2>1, <3>1, Less
            <7>2. QED
              BY <2>1, <7>1
          <6>2. QED
            BY <2>2, <5>1, <6>1
        <5>6. u[(s \ {x}) \ {y}] \in Int /\ map[y] \in Int
          BY <2>1, <5>5 DEF SumsWell
        <5> DEFINE rest == u[(s \ {x}) \ {y}]
                   one == u[s \ {x}]
                   other == u[s \ {y}]
        <5>7. /\ rest \in Int /\ map[x] \in Int /\ map[y] \in Int
              /\ u[s] = map[x] + one /\ one = map[y] + rest /\ other = map[x] + rest
          BY <3>1, <3>3, <5>1, <5>3, <5>4, <5>6
        <5> HIDE DEF rest, one, other
        <5>8. u[s] = map[y] + other
          BY <5>7
        <5>9. QED
          BY <5>8 DEF other
      <4>3. QED
        BY <4>1, <4>2
    <3>5. QED
      BY <3>1, <3>3, <3>4 DEF SumsWell
  <2>5. QED
    BY <2>3, <2>4
<1>3. Cardinality(D) \in K
  <2> HIDE DEF K
  <2> QED
    BY <1>1, <1>2, Upwards, FS_CardinalityType
<1>4. Within(D, Cardinality(D)) = SUBSET D
  BY FS_Subset DEF Within
<1>5. QED
  BY <1>3, <1>4

Agree(f, g, D) == \A k \in D : f[k] = g[k]

\* Sums of maps that agree agree.
LEMMA SumsAgree ==
  ASSUME NEW D, NEW E, NEW F, NEW f, NEW g, NEW u, NEW v,
         IsFiniteSet(D), D \in SUBSET E, D \in SUBSET F,
         Agree(f, g, D), Sums(u, f, SUBSET E), Sums(v, g, SUBSET F)
  PROVE  u[D] = v[D]
<1> DEFINE K == {n \in Nat : \A s \in Within(D, n) : u[s] = v[s]}
<1>0. /\ \A s \in SUBSET D : u[s] = IF s = {} THEN 0 ELSE f[Taken(s)] + u[s \ {Taken(s)}]
      /\ \A s \in SUBSET D : v[s] = IF s = {} THEN 0 ELSE g[Taken(s)] + v[s \ {Taken(s)}]
  BY DEF Sums
<1>1. 0 \in K
  <2>1. \A s \in Within(D, 0) : s = {}
    BY FS_EmptySet, FS_Subset, FS_CardinalityType DEF Within
  <2>2. u[{}] = 0 /\ v[{}] = 0
    BY <1>0
  <2>3. QED
    BY <2>1, <2>2
<1>2. \A n \in Nat : n \in K => n + 1 \in K
  <2> SUFFICES ASSUME NEW n \in Nat, n \in K, NEW s \in Within(D, n + 1) PROVE u[s] = v[s]
    OBVIOUS
  <2>1. s \in SUBSET D /\ Cardinality(s) <= n + 1
    BY DEF Within
  <2>2. CASE s = {}
    BY <1>0, <2>2
  <2>3. CASE s # {}
    <3> DEFINE x == Taken(s)
    <3>1. x \in s /\ u[s] = f[x] + u[s \ {x}] /\ v[s] = g[x] + v[s \ {x}]
      BY <1>0, <2>1, <2>3, TakenIn
    <3> HIDE DEF x
    <3>2. s \ {x} \in SUBSET D /\ Cardinality(s) \in Nat /\ Cardinality(s \ {x}) = Cardinality(s) - 1
      BY <2>1, <3>1, Less
    <3>3. s \ {x} \in Within(D, n)
      BY <2>1, <3>2 DEF Within
    <3>4. u[s \ {x}] = v[s \ {x}] /\ f[x] = g[x]
      BY <2>1, <3>1, <3>3 DEF Agree
    <3>5. QED
      BY <3>1, <3>4
  <2>4. QED
    BY <2>2, <2>3
<1>3. Cardinality(D) \in K
  <2> HIDE DEF K
  <2> QED
    BY <1>1, <1>2, Upwards, FS_CardinalityType
<1>4. D \in Within(D, Cardinality(D))
  BY FS_CardinalityType DEF Within
<1>5. QED
  BY <1>3, <1>4

\* One more at a key is one more in all (byRule, bySeverity).
LEMMA TotalIncremented ==
  ASSUME NEW map, IsCounts(map), NEW k \in Nat
  PROVE  /\ IsCounts(Incremented(map, k))
         /\ Total(map) \in Int
         /\ Total(Incremented(map, k)) = Total(map) + 1
<1> DEFINE more == Incremented(map, k)
           D == DOMAIN map
           E == DOMAIN more
<1>1. /\ E = D \cup {k}
      /\ \A j \in E : more[j] = Lookup(map, j) + (IF j = k THEN 1 ELSE 0)
  BY DEF Incremented
<1>2. IsFiniteSet(D) /\ D \subseteq Nat /\ \A j \in D : map[j] \in Nat
  BY DEF IsCounts
<1> HIDE DEF more
<1>3. IsFiniteSet(E)
  BY <1>1, <1>2, FS_AddElement
<1>4. \A j \in E : more[j] \in Nat
  BY <1>1, <1>2 DEF Lookup
<1>5. IsCounts(more)
  BY <1>1, <1>2, <1>3, <1>4 DEF IsCounts
<1>6. PICK u : Sums(u, map, SUBSET D) /\ Total(map) = u[D]
  BY <1>2, TotalSums
<1>7. PICK v : Sums(v, more, SUBSET E) /\ Total(more) = v[E]
  BY <1>3, TotalSums
<1> HIDE DEF D, E
<1>8. \A s \in SUBSET D : SumsWell(u, map, s)
  <2>1. \A j \in D : map[j] \in Int
    BY <1>2
  <2>2. QED
    BY <1>2, <1>6, <2>1, SumsTakeAny
<1>9. \A s \in SUBSET E : SumsWell(v, more, s)
  <2>1. \A j \in E : more[j] \in Int
    BY <1>4
  <2>2. QED
    BY <1>3, <1>7, <2>1, SumsTakeAny
<1>10. Total(map) \in Int
  BY <1>6, <1>8 DEF SumsWell
<1>11. k \in E /\ v[E] = more[k] + v[E \ {k}]
  BY <1>1, <1>9 DEF SumsWell
<1>12. v[E \ {k}] = u[D \ {k}]
  <2>1. E \ {k} = D \ {k} /\ D \ {k} \subseteq D /\ D \ {k} \subseteq E
    BY <1>1
  <2>2. IsFiniteSet(D \ {k})
    BY <1>2, FS_RemoveElement
  <2>3. \A j \in D \ {k} : more[j] = map[j]
    BY <1>1, <1>2 DEF Lookup, D
  <2> DEFINE C == D \ {k}
  <2>4. v[C] = u[C]
    <3>1. C \in SUBSET D /\ C \in SUBSET E /\ IsFiniteSet(C) /\ Agree(more, map, C)
      BY <2>1, <2>2, <2>3 DEF Agree
    <3> HIDE DEF C
    <3>2. Sums(u, map, SUBSET D) /\ Sums(v, more, SUBSET E)
      BY <1>6, <1>7
    <3>3. QED
      BY <3>1, <3>2, SumsAgree
  <2>5. QED
    BY <2>1, <2>4
<1>13. u[D \ {k}] \in Int
  BY <1>8 DEF SumsWell
<1>14. CASE k \in D
  <2>1. u[D] = map[k] + u[D \ {k}] /\ map[k] \in Nat
    BY <1>2, <1>8, <1>14 DEF SumsWell
  <2>2. more[k] = map[k] + 1
    BY <1>1, <1>14, <1>11 DEF Lookup, D
  <2>3. QED
    BY <1>5, <1>6, <1>7, <1>10, <1>11, <1>12, <1>13, <2>1, <2>2 DEF more
<1>15. CASE k \notin D
  <2>1. D \ {k} = D
    BY <1>15
  <2>2. more[k] = 1
    BY <1>1, <1>15, <1>11 DEF Lookup, D
  <2>3. u[D \ {k}] = u[D]
    BY <2>1
  <2>4. Total(more) = u[D] + 1
    BY <1>7, <1>11, <1>12, <1>13, <2>2, <2>3
  <2>5. QED
    BY <1>5, <1>6, <1>10, <2>4 DEF more
<1>16. QED
  BY <1>14, <1>15

LEMMA NothingCounted == IsCounts(<<>>) /\ Total(<<>>) = 0
<1>1. DOMAIN <<>> = {} /\ IsFiniteSet({})
  BY FS_EmptySet
<1>2. PICK u : Sums(u, <<>>, SUBSET DOMAIN <<>>) /\ Total(<<>>) = u[DOMAIN <<>>]
  BY <1>1, TotalSums
<1>3. u[{}] = 0
  BY <1>1, <1>2 DEF Sums
<1>4. QED
  BY <1>1, <1>2, <1>3 DEF IsCounts

-----------------------------------------------------------------------------
(* The bound of a path *)

LEMMA Largest ==
  ASSUME NEW S \in SUBSET Int, S # {}, NEW b \in Int, \A s \in S : s <= b
  PROVE  Max(S) \in S /\ \A s \in S : s <= Max(S)
<1>1. \E m \in S : \A s \in S : m >= s
  <2> SUFFICES ASSUME \A m \in S : \E s \in S : ~(m >= s) PROVE FALSE
    OBVIOUS
  <2> DEFINE K == {k \in Nat : \A s \in S : s <= b - k}
  <2>1. 0 \in K
    OBVIOUS
  <2>2. \A k \in Nat : k \in K => k + 1 \in K
    <3> SUFFICES ASSUME NEW k \in Nat, k \in K, NEW s \in S PROVE s <= b - (k + 1)
      OBVIOUS
    <3>1. s <= b - k
      OBVIOUS
    <3>2. s # b - k
      <4> SUFFICES ASSUME s = b - k PROVE FALSE
        OBVIOUS
      <4>1. PICK t \in S : ~(s >= t)
        OBVIOUS
      <4>2. t <= b - k
        OBVIOUS
      <4>3. QED
        BY <4>1, <4>2
    <3>3. QED
      BY <3>1, <3>2
  <2> HIDE DEF K
  <2>3. Nat \subseteq K
    BY <2>1, <2>2, Upwards
  <2>4. PICK s \in S : TRUE
    OBVIOUS
  <2>5. b - s + 1 \in K
    BY <2>3, <2>4
  <2>6. s <= b - (b - s + 1)
    BY <2>5 DEF K
  <2>7. QED
    BY <2>6
<1>2. QED
  BY <1>1 DEF Max

LEMMA NoWidth == Width(<<>>) = 0
<1> DEFINE u == CHOOSE f : f = [i \in 0..Len(<<>>) |-> IF i = 0 THEN 0 ELSE f[i - 1] + <<>>[i]]
           w == [i \in 0..0 |-> 0]
<1>1. Width(<<>>) = u[Len(<<>>)]
  BY DEF Width
<1>2. w = [i \in 0..Len(<<>>) |-> IF i = 0 THEN 0 ELSE w[i - 1] + <<>>[i]]
  OBVIOUS
<1> HIDE DEF w
<1>3. \E f : f = [i \in 0..Len(<<>>) |-> IF i = 0 THEN 0 ELSE f[i - 1] + <<>>[i]]
  BY <1>2
<1>4. u = [i \in 0..Len(<<>>) |-> IF i = 0 THEN 0 ELSE u[i - 1] + <<>>[i]]
  BY <1>3
<1> HIDE DEF u
<1>5. u[0] = 0
  BY <1>4
<1>6. QED
  BY <1>1, <1>5

\* A bounded path, without the marker, is no wider than the bound.
LEMMA BoundBounds ==
  ASSUME NEW path \in Seq(Nat \ {0}), NEW n \in Nat
  PROVE  Bound(path, n) \in Seq(Int) /\ Width(Unmarked(Bound(path, n))) <= n
<1>1. CASE Width(path) <= n
  <2>1. Bound(path, n) = path
    BY <1>1 DEF Bound
  <2>2. path \in Seq(Int)
    OBVIOUS
  <2>3. path # <<>> => path[Len(path)] # -1
    <3> SUFFICES ASSUME path # <<>> PROVE path[Len(path)] # -1
      OBVIOUS
    <3>1. Len(path) \in 1..Len(path)
      OBVIOUS
    <3>2. path[Len(path)] \in Nat
      BY <3>1
    <3>3. QED
      BY <3>2
  <2>4. Unmarked(path) = path
    BY <2>3 DEF Unmarked
  <2>5. QED
    BY <1>1, <2>1, <2>2, <2>4
<1>2. CASE ~(Width(path) <= n)
  <2> DEFINE S == {i \in 0..Len(path) : Width(SubSeq(path, 1, i)) <= n}
             kept == Max(S)
             cut == SubSeq(path, 1, kept)
  <2>1. S \in SUBSET Int /\ Len(path) \in Int /\ \A s \in S : s <= Len(path)
    OBVIOUS
  <2>2. 0 \in S
    <3>1. SubSeq(path, 1, 0) = <<>>
      OBVIOUS
    <3>2. Width(SubSeq(path, 1, 0)) = Width(<<>>)
      BY <3>1
    <3>3. Width(SubSeq(path, 1, 0)) = 0
      BY <3>2, NoWidth
    <3>4. QED
      BY <3>3
  <2>3. kept \in S
    <3> HIDE DEF S
    <3>1. S # {}
      BY <2>2
    <3>2. QED
      BY <2>1, <3>1, Largest
  <2>4. kept \in 0..Len(path) /\ Width(cut) <= n
    BY <2>3
  <2>5. Bound(path, n) = Append(cut, -1)
    BY <1>2 DEF Bound
  <2> HIDE DEF S, kept
  <2>6. cut \in Seq(Nat \ {0})
    BY <2>4
  <2> HIDE DEF cut
  <2>7. cut \in Seq(Int) /\ -1 \in Int
    BY <2>6
  <2> DEFINE marked == Append(cut, -1)
  <2>8. marked \in Seq(Int) /\ Len(marked) = Len(cut) + 1 /\ marked[Len(marked)] = -1
    BY <2>7
  <2>9. SubSeq(marked, 1, Len(marked) - 1) = cut
    BY <2>7, AppendProperties, SubSeqProperties
  <2>10. marked # <<>>
    BY SMTT(30), <2>7
  <2>11. Unmarked(marked) = cut
    <3> HIDE DEF marked
    <3> QED
      BY <2>8, <2>9, <2>10 DEF Unmarked
  <2>12. QED
    BY <2>4, <2>5, <2>8, <2>11
<1>3. QED
  BY <1>1, <1>2

-----------------------------------------------------------------------------
(* Decisions and places *)

LEMMA PlaceIs ==
  /\ Place("verdict") = 1 /\ Place("reason") = 2 /\ Place("nanos") = 3 /\ Place("load") = 4
  /\ Place("swap") = 5 /\ Place("rule") = 6 /\ Place("byRule") = 7 /\ Place("bySevere") = 8
  /\ Place("sink") = 9 /\ Place("line") = 10 /\ Place("rest") = 11
<1>1. DOMAIN Order = 1..11
  BY DEF Order
<1>2. ASSUME NEW i \in 1..11, NEW j \in 1..11, Order[i] = Order[j] PROVE i = j
  BY <1>2 DEF Order
<1>3. \A i \in 1..11 : Place(Order[i]) = i
  <2> TAKE i \in 1..11
  <2>1. Place(Order[i]) \in 1..11 /\ Order[Place(Order[i])] = Order[i]
    BY <1>1 DEF Place
  <2>2. QED
    BY <1>2, <2>1
<1>4. QED
  BY <1>3 DEF Order

\* What a decision is.
LEMMA DecisionIs ==
  ASSUME NEW p \in Servers, NEW n \in DOMAIN Decisions[p]
  PROVE  /\ Decisions[p][n].blocked \in BOOLEAN /\ Decisions[p][n].rule \in Nat
         /\ Decisions[p][n].severity \in Nat /\ Decisions[p][n].ns \in Int
         /\ Decisions[p][n].score \in Nat
         /\ Decisions[p][n].path \in Seq(Nat \ {0})
         /\ DOMAIN Decisions[p] = 1..Len(Decisions[p]) /\ Len(Decisions[p]) \in Nat
         /\ n \in Nat
<1> DEFINE R == [blocked : BOOLEAN, reason : STRING, rule : Nat, severity : Nat, score : Nat, ns : Int, path : Seq(Nat \ {0})]
<1>1. Decisions[p] \in Seq(R)
  BY ReportingAssumption
<1>2. \A r \in R : /\ r.blocked \in BOOLEAN /\ r.rule \in Nat /\ r.severity \in Nat /\ r.ns \in Int
                   /\ r.path \in Seq(Nat \ {0}) /\ r.score \in Nat
  OBVIOUS
<1> HIDE DEF R
<1>3. DOMAIN Decisions[p] = 1..Len(Decisions[p]) /\ Len(Decisions[p]) \in Nat
  BY <1>1
<1>4. Decisions[p][n] \in R
  BY <1>1, <1>3
<1>5. QED
  BY <1>2, <1>3, <1>4

LEMMA SinksAre == Sinks \in Seq([nil : BOOLEAN, relevantOnly : BOOLEAN, min : Nat, fails : BOOLEAN])
                  /\ DOMAIN Sinks = 1..Len(Sinks) /\ Len(Sinks) \in Nat
BY ReportingAssumption

-----------------------------------------------------------------------------
(* Types and locks *)

\* Who is at a step with a decision has one.
LEMMA DecisionOf ==
  ASSUME Types, NEW p \in Servers, at[p] # "idle"
  PROVE  /\ nth[p] \in DOMAIN Decisions[p] /\ nth[p] \in Nat
         /\ Decision(p) = Decisions[p][nth[p]]
         /\ Decision(p).blocked \in BOOLEAN /\ Decision(p).rule \in Nat
         /\ Decision(p).severity \in Nat /\ Decision(p).ns \in Int /\ Decision(p).score \in Nat
         /\ Decision(p).path \in Seq(Nat \ {0})
<1>1. nth[p] \in DOMAIN Decisions[p]
  BY DEF Types
<1>2. QED
  BY <1>1, DecisionIs DEF Decision

LEMMA RecordIs ==
  ASSUME Types, NEW p \in Servers, at[p] # "idle", NEW h \in {1, 2}
  PROVE  /\ [record |-> NewRecord(p), half |-> h] \in Written
         /\ Width(Unmarked(NewRecord(p).path)) <= MaxPath
<1>1. Bound(Decision(p).path, MaxPath) \in Seq(Int) /\ Width(Unmarked(Bound(Decision(p).path, MaxPath))) <= MaxPath
  BY DecisionOf, BoundBounds, ReportingAssumption
<1> DEFINE b == Bound(Decision(p).path, MaxPath)
<1> HIDE DEF b
<1>2. NewRecord(p) = [by |-> p, nth |-> nth[p], blocked |-> Decision(p).blocked, rule |-> Decision(p).rule,
                      severity |-> Decision(p).severity, score |-> Decision(p).score, path |-> b]
  BY DEF NewRecord, b
<1>3. NewRecord(p).path = b
  BY <1>2
<1>4. Width(Unmarked(NewRecord(p).path)) <= MaxPath
  BY <1>1, <1>3 DEF b
<1>5. b \in Seq(Int)
  BY <1>1 DEF b
<1>6. NewRecord(p) \in [by : Servers, nth : Nat, blocked : BOOLEAN, rule : Nat, severity : Nat, score : Nat,
     path : Seq(Int)]
  BY <1>2, <1>5, DecisionOf
<1>7. QED
  BY <1>4, <1>6 DEF Written

\* What a counter's addition does.
LEMMA OneMore ==
  ASSUME Types, NEW c \in Counters, NEW n \in Int, Adds(c, n)
  PROVE  /\ counter' \in [Counters -> Int]
         /\ counter'[c] = counter[c] + n
         /\ \A d \in Counters : d # c => counter'[d] = counter[d]
<1>1. counter \in [Counters -> Int]
  BY DEF Types
<1>2. counter' = [counter EXCEPT ![c] = counter[c] + n]
  BY DEF Adds
<1>3. counter[c] + n \in Int
  BY <1>1
<1>4. QED
  BY <1>1, <1>2, <1>3

\* Which counter a reason goes to.
LEMMA ReasonCounts ==
  ASSUME NEW p, CountReason(p)
  PROVE  \/ Decision(p).reason = "budget" /\ Adds("exhausted", 1)
         \/ Decision(p).reason # "budget" /\ Decision(p).reason \in Errors /\ Adds("errors", 1)
         \/ Decision(p).reason # "budget" /\ Decision(p).reason \notin Errors /\ counter' = counter
<1> DEFINE r == Decision(p).reason
<1>1. counter' = CASE r = "budget" -> [counter EXCEPT !["exhausted"] = counter["exhausted"] + 1]
                   [] r \in Errors -> [counter EXCEPT !["errors"] = counter["errors"] + 1]
                   [] OTHER -> counter
  BY DEF CountReason
<1>2. "budget" \notin Errors
  BY DEF Errors
<1> HIDE DEF r
<1>3. CASE r = "budget"
  <2>1. counter' = [counter EXCEPT !["exhausted"] = counter["exhausted"] + 1]
    BY <1>1, <1>2, <1>3
  <2>2. QED
    BY <1>3, <2>1 DEF Adds, r
<1>4. CASE r \in Errors
  <2>1. counter' = [counter EXCEPT !["errors"] = counter["errors"] + 1]
    BY <1>1, <1>2, <1>4
  <2>2. QED
    BY <1>2, <1>4, <2>1 DEF Adds, r
<1>5. CASE r # "budget" /\ r \notin Errors
  BY <1>1, <1>5 DEF r
<1>6. QED
  BY <1>3, <1>4, <1>5

\* What a server's step does to the steps.
LEMMA Moved ==
  ASSUME Types, NEW p \in Servers, NEW from, NEW to \in Steps, Goes(p, from, to)
  PROVE  /\ at[p] = from /\ at' \in [Servers -> Steps] /\ at'[p] = to
         /\ \A q \in Servers : q # p => at'[q] = at[q]
BY DEF Types, Goes

\* What going on to the next sink does.
LEMMA Passing ==
  ASSUME Types, NEW p \in Servers, Passed(p, FALSE) \/ Passed(p, TRUE)
  PROVE  /\ sink' \in [Servers -> Nat \ {0}] /\ first' \in [Servers -> Nat]
         /\ sink' = [sink EXCEPT ![p] = sink[p] + 1]
<1>1. sink \in [Servers -> Nat \ {0}] /\ first \in [Servers -> Nat]
  BY DEF Types
<1>2. sink' = [sink EXCEPT ![p] = sink[p] + 1]
  BY DEF Passed, Next1
<1>3. \E e \in {first[p], sink[p]} : first' = [first EXCEPT ![p] = e]
  BY DEF Passed
<1>4. QED
  BY <1>1, <1>2, <1>3

LEMMA Appended ==
  ASSUME Types, NEW p \in Servers, at[p] # "idle", NEW h \in {1, 2}, Writes(p, h)
  PROVE  lines' \in [DOMAIN Sinks -> Seq(Written)]
<1> DEFINE r == [record |-> NewRecord(p), half |-> h]
<1>1. r \in Written
  BY RecordIs
<1>2. lines \in [DOMAIN Sinks -> Seq(Written)]
  BY DEF Types
<1>3. lines' = [lines EXCEPT ![sink[p]] = Append(lines[sink[p]], r)]
  BY DEF Writes
<1> HIDE DEF r
<1>4. sink[p] \in DOMAIN Sinks => Append(lines[sink[p]], r) \in Seq(Written)
  BY <1>1, <1>2
<1>5. QED
  BY <1>2, <1>3, <1>4

LEMMA TypesStart == Init => Types
<1> SUFFICES ASSUME Init PROVE Types
  OBVIOUS
<1>1. counter \in [Counters -> Int] /\ IsCounts(byRule) /\ IsCounts(bySevere)
  BY NothingCounted DEF Init, Zero
<1>2. lines \in [DOMAIN Sinks -> Seq(Written)]
  BY DEF Init
<1>3. QED
  BY <1>1, <1>2 DEF Init, Types, Steps

LEMMA TypesKept ==
  ASSUME Types, [Next]_vars
  PROVE  Types'
<1>1. ASSUME NEW p \in Servers, Count(p) PROVE Types'
  <2>1. nth[p] \in DOMAIN Decisions[p]
    <3>1. Decisions[p] \in Seq([blocked : BOOLEAN, reason : STRING, rule : Nat, severity : Nat, score : Nat, ns : Int, path : Seq(Nat \ {0})])
      BY ReportingAssumption
    <3>2. DOMAIN Decisions[p] = 1..Len(Decisions[p]) /\ Len(Decisions[p]) \in Nat
      BY <3>1
    <3>3. QED
      BY <1>1, <3>2 DEF Count, Types
  <2>2. counter' \in [Counters -> Int]
    BY <1>1, OneMore DEF Count, Counters
  <2>3. QED
    BY <1>1, <2>1, <2>2 DEF Count, metrics, serving, writing, scraping, resetting, Passed, Next1, Types, Steps, Goes, Adds, Counters
<1>2. ASSUME NEW p \in Servers, CountVerdict(p) PROVE Types'
  <2>1. at[p] # "idle" /\ Decision(p).ns \in Int
    BY <1>2, DecisionOf DEF CountVerdict, Goes
  <2>2. counter' \in [Counters -> Int]
    BY <1>2, OneMore DEF CountVerdict, Counters
  <2>3. QED
    BY <1>2, <2>1, <2>2 DEF CountVerdict, Free, Again, Unchanged, metrics, serving, writing, scraping, resetting, Passed, Next1, Types, Steps, Goes, Adds, Counters
<1>3. ASSUME NEW p \in Servers, CountReason(p) PROVE Types'
  <2>1. at[p] # "idle" /\ Decision(p).ns \in Int
    BY <1>3, DecisionOf DEF CountReason, Goes
  <2>2. counter' \in [Counters -> Int]
    <3>1. Adds("exhausted", 1) \/ Adds("errors", 1) \/ counter' = counter
      BY <1>3, ReasonCounts
    <3>2. "exhausted" \in Counters /\ "errors" \in Counters /\ 1 \in Int
      BY DEF Counters
    <3>3. counter \in [Counters -> Int]
      BY DEF Types
    <3>4. QED
      BY <3>1, <3>2, <3>3, OneMore
  <2>3. QED
    BY <1>3, <2>1, <2>2 DEF CountReason, Free, Again, Unchanged, metrics, serving, writing, scraping, resetting, Passed, Next1, Types, Steps, Goes, Adds, Counters
<1>4. ASSUME NEW p \in Servers, AddNanos(p) PROVE Types'
  <2>1. at[p] # "idle" /\ Decision(p).ns \in Int
    BY <1>4, DecisionOf DEF AddNanos, Goes
  <2>2. counter' \in [Counters -> Int]
    BY <1>4, <2>1, OneMore DEF AddNanos, Counters
  <2>3. QED
    BY <1>4, <2>1, <2>2 DEF AddNanos, Free, Again, Unchanged, metrics, serving, writing, scraping, resetting, Passed, Next1, Types, Steps, Goes, Adds, Counters
<1>5. ASSUME NEW p \in Servers, LoadMax(p) PROVE Types'
  <2>1. at[p] # "idle" /\ Decision(p).ns \in Int
    BY <1>5, DecisionOf DEF LoadMax, Goes
  <2>2. counter' \in [Counters -> Int]
    BY <1>5, <2>1 DEF LoadMax, Free, metrics, serving, writing, scraping, resetting, Passed, Next1, Types, Steps, Goes, Adds, Counters
  <2>3. QED
    BY <1>5, <2>1, <2>2 DEF LoadMax, Free, Again, Unchanged, metrics, serving, writing, scraping, resetting, Passed, Next1, Types, Steps, Goes, Adds, Counters
<1>6. ASSUME NEW p \in Servers, SwapMax(p) PROVE Types'
  <2>1. at[p] # "idle" /\ Decision(p).ns \in Int
    BY <1>6, DecisionOf DEF SwapMax, Goes
  <2>2. counter' \in [Counters -> Int]
    BY SMTT(30), <1>6, <2>1 DEF SwapMax, Free, metrics, serving, writing, scraping, resetting, Passed, Next1, Types, Steps, Goes, Adds, Counters
  <2>3. QED
    BY <1>6, <2>1, <2>2 DEF SwapMax, Free, Again, Unchanged, metrics, serving, writing, scraping, resetting, Passed, Next1, Types, Steps, Goes, Adds, Counters
<1>7. ASSUME NEW p \in Servers, LockRules(p) PROVE Types'
  <2>1. at[p] # "idle" /\ Decision(p).ns \in Int
    BY <1>7, DecisionOf DEF LockRules, Goes
  <2>2. counter' \in [Counters -> Int]
    BY <1>7, <2>1 DEF LockRules, Free, metrics, serving, writing, scraping, resetting, Passed, Next1, Types, Steps, Goes, Adds, Counters
  <2>3. QED
    BY <1>7, <2>1, <2>2 DEF LockRules, Free, Again, Unchanged, metrics, serving, writing, scraping, resetting, Passed, Next1, Types, Steps, Goes, Adds, Counters
<1>8. ASSUME NEW p \in Servers, CountRule(p) PROVE Types'
  <2>1. at[p] # "idle" /\ byRule' = Incremented(byRule, Decision(p).rule)
    BY <1>8 DEF CountRule, Goes
  <2>2. IsCounts(byRule')
    BY <2>1, DecisionOf, TotalIncremented DEF Types
  <2>3. QED
    BY <1>8, <2>2 DEF CountRule, Free, metrics, serving, writing, scraping, resetting, Passed, Next1, Types, Steps, Goes, Adds, Counters
<1>9. ASSUME NEW p \in Servers, CountSeverity(p) PROVE Types'
  <2>1. Goes(p, "bySevere", "sink") /\ bySevere' = Incremented(bySevere, Decision(p).severity)
    BY <1>9 DEF CountSeverity
  <2>2. at' \in [Servers -> Steps] /\ \A q \in Servers : at'[q] # "idle" => at[q] # "idle"
    BY <2>1, Moved DEF Steps
  <2>3. IsCounts(bySevere')
    BY <2>1, DecisionOf, TotalIncremented DEF Types, Goes
  <2>4. metricsLock' = Nobody /\ UNCHANGED <<counter, byRule, nth, cur, sink, first, sinkLock, lines, reader, resetter, resets>>
    BY <1>9 DEF CountSeverity, writing, scraping, resetting
  <2>5. IsCounts(byRule')
    BY <2>4 DEF Types
  <2>6. \A q \in Servers : at'[q] # "idle" => nth'[q] \in DOMAIN Decisions[q]
    BY <2>2, <2>4 DEF Types
  <2>7. QED
    <3>1. counter' \in [Counters -> Int]
      BY <2>4 DEF Types
    <3>2. IsCounts(byRule)' /\ IsCounts(bySevere)'
      BY <2>3, <2>5
    <3>3. metricsLock' \in Servers \cup {Nobody} /\ nth' \in [Servers -> Nat \ {0}]
      BY <2>4 DEF Types
    <3>4. cur' \in [Servers -> Int] /\ sink' \in [Servers -> Nat \ {0}] /\ first' \in [Servers -> Nat]
      BY <2>4 DEF Types
    <3>5. sinkLock' \in [DOMAIN Sinks -> Servers \cup {Nobody}]
      BY <2>4 DEF Types
    <3>6. lines' \in [DOMAIN Sinks -> Seq(Written)]
      BY <2>4 DEF Types
    <3>7. reader' \in Nat /\ resetter' \in Nat /\ resets' \in Nat
      BY <2>4 DEF Types
    <3>8. QED
      BY <2>2, <2>6, <3>1, <3>2, <3>3, <3>4, <3>5, <3>6, <3>7 DEF Types
<1>10. ASSUME NEW p \in Servers, SkipSink(p) PROVE Types'
  <2>1. Goes(p, "sink", "sink") /\ Passed(p, FALSE)
    BY <1>10 DEF SkipSink
  <2>2. at' \in [Servers -> Steps] /\ \A q \in Servers : at'[q] # "idle" => at[q] # "idle"
    BY <2>1, Moved DEF Steps
  <2>3. sink' \in [Servers -> Nat \ {0}] /\ first' \in [Servers -> Nat]
    BY <2>1, Passing
  <2>4. UNCHANGED <<metrics, nth, cur, writing, scraping, resetting>>
    BY <1>10 DEF SkipSink
  <2>5. QED
    BY <2>2, <2>3, <2>4 DEF Types, metrics, writing, scraping, resetting
<1>11. ASSUME NEW p \in Servers, LockSink(p) PROVE Types'
  BY <1>11 DEF LockSink, metrics, serving, writing, scraping, resetting, Passed, Next1, Types, Steps, Goes, Adds, Counters
<1>12. ASSUME NEW p \in Servers, StartLine(p) PROVE Types'
  <2>1. at[p] # "idle" /\ Writes(p, 1)
    BY <1>12 DEF StartLine, Goes
  <2>2. lines' \in [DOMAIN Sinks -> Seq(Written)]
    BY <2>1, Appended
  <2>3. QED
    BY <1>12, <2>2 DEF StartLine, metrics, serving, writing, scraping, resetting, Passed, Next1, Types, Steps, Goes
<1>13. ASSUME NEW p \in Servers, EndLine(p) PROVE Types'
  <2>1. at[p] # "idle" /\ (Writes(p, 2) \/ lines' = lines)
    BY <1>13 DEF EndLine, Goes
  <2>2. lines' \in [DOMAIN Sinks -> Seq(Written)]
    BY <2>1, Appended DEF Types
  <2>3. Goes(p, "rest", "sink") /\ (Passed(p, FALSE) \/ Passed(p, TRUE))
    BY <1>13 DEF EndLine
  <2>4. sink' \in [Servers -> Nat \ {0}] /\ first' \in [Servers -> Nat]
    BY <2>3, Passing
  <2>5. sinkLock' \in [DOMAIN Sinks -> Servers \cup {Nobody}]
    BY <1>13 DEF EndLine, Types
  <2>6. at' \in [Servers -> Steps] /\ \A q \in Servers : at'[q] # "idle" => at[q] # "idle"
    BY <2>1, <2>3, Moved DEF Steps
  <2>7. UNCHANGED <<metrics, nth, cur, scraping, resetting>>
    BY <1>13 DEF EndLine
  <2>8. QED
    <3>1. IsCounts(byRule') /\ IsCounts(bySevere')
      BY <2>7 DEF Types, metrics
    <3>2. \A q \in Servers : at'[q] # "idle" => nth'[q] \in DOMAIN Decisions[q]
      BY <2>6, <2>7 DEF Types
    <3>3. /\ counter' \in [Counters -> Int] /\ metricsLock' \in Servers \cup {Nobody}
          /\ nth' \in [Servers -> Nat \ {0}] /\ cur' \in [Servers -> Int]
          /\ reader' \in Nat /\ resetter' \in Nat /\ resets' \in Nat
      BY <2>7 DEF Types, metrics, scraping, resetting
    <3>4. QED
      BY <2>2, <2>4, <2>5, <2>6, <3>1, <3>2, <3>3 DEF Types
<1>14. ASSUME NEW p \in Servers, Finish(p) PROVE Types'
  <2>1. Goes(p, "sink", "idle")
    BY <1>14 DEF Finish
  <2>2. at' \in [Servers -> Steps] /\ at'[p] = "idle" /\ \A q \in Servers : q # p => at'[q] = at[q]
    BY <2>1, Moved DEF Steps
  <2>3. /\ nth' = [nth EXCEPT ![p] = nth[p] + 1]
        /\ sink' = [sink EXCEPT ![p] = 1] /\ first' = [first EXCEPT ![p] = 0]
        /\ cur' = [cur EXCEPT ![p] = 0]
    BY <1>14 DEF Finish
  <2>4. /\ nth' \in [Servers -> Nat \ {0}] /\ sink' \in [Servers -> Nat \ {0}]
        /\ first' \in [Servers -> Nat] /\ cur' \in [Servers -> Int]
    BY SMTT(30), <2>3 DEF Types
  <2>5. \A q \in Servers : at'[q] # "idle" => nth'[q] \in DOMAIN Decisions[q]
    BY <2>2, <2>3 DEF Types
  <2>6. UNCHANGED <<metrics, writing, scraping, resetting>>
    BY <1>14 DEF Finish
  <2>7. QED
    BY <2>2, <2>4, <2>5, <2>6 DEF Types, metrics, writing, scraping, resetting
<1>15. ASSUME ReadCounter PROVE Types'
  BY SMTT(30), <1>15 DEF ReadCounter, metrics, serving, writing, scraping, resetting, Types, Steps, Goes, Adds, Counters
<1>16. ASSUME ReadMaps PROVE Types'
  BY SMTT(30), <1>16 DEF ReadMaps, metrics, serving, writing, scraping, resetting, Types, Steps, Goes, Adds, Counters
<1>17. ASSUME BeginReset PROVE Types'
  BY SMTT(30), <1>17 DEF BeginReset, metrics, serving, writing, scraping, resetting, Types, Steps, Goes, Adds, Counters
<1>18. ASSUME ResetCounter PROVE Types'
  <2>1. Stored[resetter] \in Counters
    BY <1>18, ReportingAssumption DEF ResetCounter
  <2>2. counter' \in [Counters -> Int]
    BY <1>18, <2>1 DEF ResetCounter, Types
  <2>3. QED
    BY <1>18, <2>2 DEF ResetCounter, metrics, serving, writing, scraping, resetting, Types, Steps, Goes, Adds, Counters
<1>19. ASSUME ResetMaps PROVE Types'
  BY <1>19, NothingCounted DEF ResetMaps, metrics, serving, writing, scraping, resetting, Types, Steps, Goes, Adds, Counters
<1>20. CASE UNCHANGED vars
  BY <1>20 DEF vars, metrics, serving, writing, scraping, resetting, Types, Steps, Goes, Adds, Counters
<1>21. QED
  BY <1>1, <1>2, <1>3, <1>4, <1>5, <1>6, <1>7, <1>8, <1>9, <1>10, <1>11, <1>12, <1>13, <1>14, <1>15, <1>16, <1>17, <1>18, <1>19, <1>20 DEF Next, Observe, Audit, Snapshot, Reset, Idle

LEMMA HeldStart == Init => RulesHeld /\ SinksHeld /\ Unreset
BY ReportingAssumption DEF Init, RulesHeld, SinksHeld, Unreset

\* A step of one server to a step that is not within the critical section, or
\* one of its own critical section.
LEMMA RulesHeldKept ==
  ASSUME Types, RulesHeld, [Next]_vars
  PROVE  RulesHeld'
<1>1. ASSUME NEW p \in Servers, Count(p) PROVE RulesHeld'
  BY <1>1, ReportingAssumption DEF Count, Free, Again, Goes, Decision, Types, RulesHeld, metrics, serving, writing, scraping, resetting
<1>2. ASSUME NEW p \in Servers, CountVerdict(p) PROVE RulesHeld'
  BY <1>2, ReportingAssumption DEF CountVerdict, Free, Again, Goes, Decision, Types, RulesHeld, metrics, serving, writing, scraping, resetting
<1>3. ASSUME NEW p \in Servers, CountReason(p) PROVE RulesHeld'
  BY <1>3, ReportingAssumption DEF CountReason, Free, Again, Goes, Decision, Types, RulesHeld, metrics, serving, writing, scraping, resetting
<1>4. ASSUME NEW p \in Servers, AddNanos(p) PROVE RulesHeld'
  BY <1>4, ReportingAssumption DEF AddNanos, Free, Again, Goes, Decision, Types, RulesHeld, metrics, serving, writing, scraping, resetting
<1>5. ASSUME NEW p \in Servers, LoadMax(p) PROVE RulesHeld'
  BY <1>5, ReportingAssumption DEF LoadMax, Free, Again, Goes, Decision, Types, RulesHeld, metrics, serving, writing, scraping, resetting
<1>6. ASSUME NEW p \in Servers, SwapMax(p) PROVE RulesHeld'
  BY <1>6, ReportingAssumption DEF SwapMax, Free, Again, Goes, Decision, Types, RulesHeld, metrics, serving, writing, scraping, resetting
<1>7. ASSUME NEW p \in Servers, LockRules(p) PROVE RulesHeld'
  <2>1. at[p] = "rule" /\ UNCHANGED nth
    BY <1>7 DEF LockRules, Goes
  <2>2. \A q \in Servers : Decision(q)' = Decision(q)
    BY <2>1 DEF Decision
  <2>3. CASE Decision(p).rule = 0
    <3>1. at' = [at EXCEPT ![p] = "sink"] /\ metricsLock' = metricsLock
      BY <1>7, <2>3 DEF LockRules, Goes
    <3>2. QED
      BY <2>1, <2>2, <3>1 DEF RulesHeld, Types
  <2>4. CASE Decision(p).rule # 0
    <3>1. at' = [at EXCEPT ![p] = "byRule"] /\ metricsLock = Nobody /\ metricsLock' = p
      BY <1>7, <2>4 DEF LockRules, Goes, Free
    <3>2. \A q \in Servers : at[q] \notin {"byRule", "bySevere"}
      BY <3>1, ReportingAssumption DEF RulesHeld
    <3>3. QED
      BY <2>1, <2>2, <2>4, <3>1, <3>2 DEF RulesHeld, Types
  <2>5. QED
    BY <2>3, <2>4
<1>8. ASSUME NEW p \in Servers, CountRule(p) PROVE RulesHeld'
  BY <1>8, ReportingAssumption DEF CountRule, Free, Again, Goes, Decision, Types, RulesHeld, metrics, serving, writing, scraping, resetting
<1>9. ASSUME NEW p \in Servers, CountSeverity(p) PROVE RulesHeld'
  BY <1>9, ReportingAssumption DEF CountSeverity, Free, Again, Goes, Decision, Types, RulesHeld, metrics, serving, writing, scraping, resetting
<1>10. ASSUME NEW p \in Servers, SkipSink(p) PROVE RulesHeld'
  BY <1>10, ReportingAssumption DEF SkipSink, Free, Again, Goes, Decision, Types, RulesHeld, metrics, serving, writing, scraping, resetting
<1>11. ASSUME NEW p \in Servers, LockSink(p) PROVE RulesHeld'
  BY <1>11, ReportingAssumption DEF LockSink, Free, Again, Goes, Decision, Types, RulesHeld, metrics, serving, writing, scraping, resetting
<1>12. ASSUME NEW p \in Servers, StartLine(p) PROVE RulesHeld'
  BY <1>12, ReportingAssumption DEF StartLine, Free, Again, Goes, Decision, Types, RulesHeld, metrics, serving, writing, scraping, resetting
<1>13. ASSUME NEW p \in Servers, EndLine(p) PROVE RulesHeld'
  BY <1>13, ReportingAssumption DEF EndLine, Free, Again, Goes, Decision, Types, RulesHeld, metrics, serving, writing, scraping, resetting
<1>14. ASSUME NEW p \in Servers, Finish(p) PROVE RulesHeld'
  BY <1>14, ReportingAssumption DEF Finish, Free, Again, Goes, Decision, Types, RulesHeld, metrics, serving, writing, scraping, resetting
<1>15. ASSUME Snapshot \/ Reset \/ UNCHANGED vars PROVE RulesHeld'
  <2>1. UNCHANGED <<metricsLock, at, nth>>
    BY <1>15 DEF Snapshot, ReadCounter, ReadMaps, Reset, BeginReset, ResetCounter, ResetMaps, vars, metrics, serving, writing, scraping, resetting
  <2>2. QED
    BY <2>1 DEF RulesHeld, Decision
<1>16. QED
  BY <1>1, <1>2, <1>3, <1>4, <1>5, <1>6, <1>7, <1>8, <1>9, <1>10, <1>11, <1>12, <1>13, <1>14, <1>15 DEF Next, Observe, Audit, Idle

LEMMA SinksHeldKept ==
  ASSUME Types, SinksHeld, [Next]_vars
  PROVE  SinksHeld'
<1>1. ASSUME NEW p \in Servers, Observe(p) PROVE SinksHeld'
  <2>1. UNCHANGED <<sinkLock, sink>>
    BY <1>1 DEF Observe, Count, CountVerdict, CountReason, AddNanos, LoadMax, SwapMax, LockRules, CountRule, CountSeverity, metrics, serving, writing, scraping, resetting
  <2>2. /\ at[p] \notin {"sink", "line", "rest"} /\ at'[p] \notin {"line", "rest"}
        /\ \A q \in Servers : q # p => at'[q] = at[q]
    BY <1>1 DEF Observe, Count, CountVerdict, CountReason, AddNanos, LoadMax, SwapMax, LockRules, CountRule, CountSeverity, Goes, Again, Types
  <2>3. QED
    BY <2>1, <2>2 DEF SinksHeld
<1>2. ASSUME NEW p \in Servers, SkipSink(p) PROVE SinksHeld'
  <2>1. Goes(p, "sink", "sink") /\ Passed(p, FALSE) /\ UNCHANGED sinkLock
    BY <1>2 DEF SkipSink, writing
  <2>2. sink' = [sink EXCEPT ![p] = sink[p] + 1]
    BY <2>1, Passing
  <2>3. QED
    BY <2>1, <2>2 DEF Goes, SinksHeld, Types
<1>3. ASSUME NEW p \in Servers, LockSink(p) PROVE SinksHeld'
  BY SMTT(30), <1>3, ReportingAssumption DEF LockSink, Goes, Types, SinksHeld, metrics, serving, writing, scraping, resetting
<1>4. ASSUME NEW p \in Servers, StartLine(p) PROVE SinksHeld'
  BY <1>4, ReportingAssumption DEF StartLine, Goes, Types, SinksHeld, metrics, serving, writing, scraping, resetting
<1>5. ASSUME NEW p \in Servers, EndLine(p) PROVE SinksHeld'
  <2>1. Goes(p, "rest", "sink") /\ (Passed(p, FALSE) \/ Passed(p, TRUE))
    BY <1>5 DEF EndLine
  <2>2. sinkLock' = [sinkLock EXCEPT ![sink[p]] = Nobody]
    BY <1>5 DEF EndLine
  <2>3. sink' = [sink EXCEPT ![p] = sink[p] + 1]
    BY <2>1, Passing
  <2>4. at[p] = "rest" /\ at'[p] = "sink" /\ \A q \in Servers : q # p => at'[q] = at[q]
    BY <2>1, Moved DEF Steps
  <2>5. \A q \in Servers : q # p => sink'[q] = sink[q]
    BY <2>3 DEF Types
  <2>6. sink[p] \in DOMAIN Sinks /\ sinkLock[sink[p]] = p
    BY <2>4 DEF SinksHeld
  <2>7. ASSUME NEW q \in Servers, q # p, at[q] \in {"line", "rest"}
        PROVE  sink[q] \in DOMAIN Sinks /\ sinkLock'[sink[q]] = q
    BY <2>2, <2>6, <2>7 DEF SinksHeld, Types
  <2>8. QED
    BY <2>4, <2>5, <2>7 DEF SinksHeld
<1>6. ASSUME NEW p \in Servers, Finish(p) PROVE SinksHeld'
  BY <1>6, ReportingAssumption DEF Finish, Goes, Types, SinksHeld, metrics, serving, writing, scraping, resetting
<1>7. ASSUME Snapshot \/ Reset \/ UNCHANGED vars PROVE SinksHeld'
  <2>1. UNCHANGED <<sinkLock, at, sink>>
    BY <1>7 DEF Snapshot, ReadCounter, ReadMaps, Reset, BeginReset, ResetCounter, ResetMaps, vars, metrics, serving, writing, scraping, resetting
  <2>2. QED
    BY <2>1 DEF SinksHeld
<1>8. QED
  BY <1>1, <1>2, <1>3, <1>4, <1>5, <1>6, <1>7 DEF Next, Audit, Idle

LEMMA UnresetKept ==
  ASSUME Types, Unreset, [Next]_vars
  PROVE  Unreset'
<1>1. ASSUME NEW p \in Servers, Observe(p) \/ Audit(p) PROVE Unreset'
  BY <1>1 DEF Observe, Audit, Count, CountVerdict, CountReason, AddNanos, LoadMax, SwapMax, LockRules, CountRule, CountSeverity, SkipSink, LockSink, StartLine, EndLine, Finish, Unreset, resetting
<1>2. ASSUME Snapshot \/ Reset \/ UNCHANGED vars PROVE Unreset'
  BY <1>2, ReportingAssumption DEF Types, Snapshot, Reset, ReadCounter, ReadMaps, BeginReset, ResetCounter, ResetMaps, Unreset, vars, resetting
<1>3. QED
  BY <1>1, <1>2 DEF Next, Idle

-----------------------------------------------------------------------------
(* Both views of the matches *)

LEMMA BalanceStart == Init => Balance /\ SnapshotWhole
<1> SUFFICES ASSUME Init PROVE Balance /\ SnapshotWhole
  OBVIOUS
<1>1. Balance
  BY NothingCounted DEF Init, Balance
<1>2. SnapshotWhole
  <2>1. reader = 1 /\ Len(Read) \in Nat
    BY ReportingAssumption DEF Init
  <2>2. QED
    BY <2>1 DEF SnapshotWhole
<1>3. QED
  BY <1>1, <1>2

LEMMA BalanceKept ==
  ASSUME Types, RulesHeld, Balance, [Next]_vars
  PROVE  Balance'
<1>1. ASSUME NEW p \in Servers, CountRule(p) PROVE Balance'
  <2>1. /\ at[p] = "byRule" /\ at' = [at EXCEPT ![p] = "bySevere"] /\ UNCHANGED bySevere
        /\ byRule' = Incremented(byRule, Decision(p).rule)
    BY <1>1 DEF CountRule, Goes
  <2>2. \A q \in Servers : at[q] # "bySevere"
    BY <2>1 DEF RulesHeld
  <2>3. at'[p] = "bySevere"
    BY <2>1 DEF Types
  <2>4. Decision(p).rule \in Nat
    BY <2>1, DecisionOf
  <2>5. Total(byRule') = Total(byRule) + 1 /\ Total(byRule) \in Int
    BY <2>1, <2>4, TotalIncremented DEF Types
  <2>6. Total(byRule) = Total(bySevere) + 0
    BY <2>2 DEF Balance
  <2>7. Total(bySevere) \in Int
    BY <2>4, TotalIncremented DEF Types
  <2>8. QED
    BY <2>1, <2>3, <2>5, <2>6, <2>7 DEF Balance
<1>2. ASSUME NEW p \in Servers, CountSeverity(p) PROVE Balance'
  <2>1. /\ at[p] = "bySevere" /\ at' = [at EXCEPT ![p] = "sink"] /\ UNCHANGED byRule
        /\ bySevere' = Incremented(bySevere, Decision(p).severity)
    BY <1>2 DEF CountSeverity, Goes
  <2>2. \A q \in Servers : at'[q] # "bySevere"
    BY <2>1 DEF RulesHeld, Types
  <2>3. Decision(p).severity \in Nat
    BY <2>1, DecisionOf
  <2>4. Total(bySevere') = Total(bySevere) + 1 /\ Total(bySevere) \in Int
    BY <2>1, <2>3, TotalIncremented DEF Types
  <2>5. Total(byRule) = Total(bySevere) + 1
    BY <2>1 DEF Balance
  <2>6. QED
    BY <2>1, <2>2, <2>4, <2>5 DEF Balance
<1>3. ASSUME NEW p \in Servers, Observe(p), ~CountRule(p), ~CountSeverity(p) PROVE Balance'
  <2>1. UNCHANGED <<byRule, bySevere>>
    BY <1>3 DEF Observe, Count, CountVerdict, CountReason, AddNanos, LoadMax, SwapMax, LockRules, metrics
  <2>2. \A q \in Servers : at'[q] = "bySevere" <=> at[q] = "bySevere"
    BY <1>3 DEF Observe, Count, CountVerdict, CountReason, AddNanos, LoadMax, SwapMax, LockRules, Goes, Again, Types
  <2>3. QED
    BY <2>1, <2>2 DEF Balance
<1>4. ASSUME NEW p \in Servers, Audit(p) PROVE Balance'
  <2>1. UNCHANGED <<byRule, bySevere>>
    BY <1>4 DEF Audit, SkipSink, LockSink, StartLine, EndLine, Finish, metrics
  <2>2. \A q \in Servers : at'[q] = "bySevere" <=> at[q] = "bySevere"
    BY <1>4 DEF Audit, SkipSink, LockSink, StartLine, EndLine, Finish, Goes, Types
  <2>3. QED
    BY <2>1, <2>2 DEF Balance
<1>5. ASSUME ResetMaps PROVE Balance'
  <2>1. byRule' = <<>> /\ bySevere' = <<>> /\ metricsLock = Nobody /\ UNCHANGED at
    BY <1>5 DEF ResetMaps, Free, serving
  <2>2. \A q \in Servers : at'[q] # "bySevere"
    BY <2>1, ReportingAssumption DEF RulesHeld
  <2>3. QED
    BY <2>1, <2>2, NothingCounted DEF Balance
<1>6. ASSUME Snapshot \/ BeginReset \/ ResetCounter \/ UNCHANGED vars PROVE Balance'
  <2>1. UNCHANGED <<byRule, bySevere, at>>
    BY <1>6 DEF Snapshot, ReadCounter, ReadMaps, BeginReset, ResetCounter, vars, metrics, serving
  <2>2. QED
    BY <2>1 DEF Balance
<1>7. QED
  BY <1>1, <1>2, <1>3, <1>4, <1>5, <1>6 DEF Next, Reset, Idle

LEMMA SnapshotKept ==
  ASSUME Types, RulesHeld, Balance, SnapshotWhole, [Next]_vars
  PROVE  SnapshotWhole'
<1>0. Len(Read) \in Nat /\ DOMAIN Read = 1..Len(Read) /\ reader \in Nat
  BY ReportingAssumption DEF Types
<1>1. ASSUME ReadCounter PROVE SnapshotWhole'
  <2>1. reader' # Len(Read) + 2
    BY <1>0, <1>1 DEF ReadCounter
  <2>2. QED
    BY <2>1 DEF SnapshotWhole
<1>2. ASSUME ReadMaps PROVE SnapshotWhole'
  <2>1. snap' = [counter |-> snap.counter, byRule |-> byRule, bySevere |-> bySevere] /\ metricsLock = Nobody
    BY <1>2 DEF ReadMaps, Free
  <2>2. snap'.byRule = byRule /\ snap'.bySevere = bySevere
    BY <2>1
  <2>3. \A q \in Servers : at[q] # "bySevere"
    BY <2>1, ReportingAssumption DEF RulesHeld
  <2>4. Total(byRule) = Total(bySevere) + 0
    BY <2>3 DEF Balance
  <2>5. 0 \in Nat /\ Total(bySevere) \in Int
    BY TotalIncremented DEF Types
  <2>6. Total(byRule) = Total(bySevere)
    BY <2>4, <2>5
  <2>7. QED
    BY <2>2, <2>6 DEF SnapshotWhole
<1>3. ASSUME NEW p \in Servers, Observe(p) \/ Audit(p) PROVE SnapshotWhole'
  BY <1>3 DEF Observe, Audit, Count, CountVerdict, CountReason, AddNanos, LoadMax, SwapMax, LockRules, CountRule, CountSeverity, SkipSink, LockSink, StartLine, EndLine, Finish, scraping, SnapshotWhole
<1>4. ASSUME Reset \/ UNCHANGED vars PROVE SnapshotWhole'
  BY <1>4 DEF Reset, BeginReset, ResetCounter, ResetMaps, vars, scraping, SnapshotWhole
<1>5. QED
  BY <1>1, <1>2, <1>3, <1>4 DEF Next, Snapshot, Idle

-----------------------------------------------------------------------------
(* The decisions past a step *)

Here(p) == <<p, nth[p]>>

\* Whether decision n of server p is past a step, with the servers at a and at their decisions m.
IsPast(a, m, step, p, n) ==
  n < m[p] \/ (n = m[p] /\ a[p] # "idle" /\ Place(a[p]) > Place(step))

PastOf(a, m, step) ==
  {d \in UNION {{<<p, i>> : i \in DOMAIN Decisions[p]} : p \in Servers} : IsPast(a, m, step, d[1], d[2])}

LEMMA PastOfIs ==
  ASSUME NEW a, NEW m, NEW step
  PROVE  \A d : d \in PastOf(a, m, step) <=>
           \E p \in Servers : \E n \in DOMAIN Decisions[p] : d = <<p, n>> /\ IsPast(a, m, step, p, n)
<1> DEFINE All == UNION {{<<p, i>> : i \in DOMAIN Decisions[p]} : p \in Servers}
<1>1. \A d : d \in All <=> \E p \in Servers : \E n \in DOMAIN Decisions[p] : d = <<p, n>>
  OBVIOUS
<1>2. PastOf(a, m, step) = {d \in All : IsPast(a, m, step, d[1], d[2])}
  BY DEF PastOf
<1> HIDE DEF All
<1>3. \A p, n : <<p, n>>[1] = p /\ <<p, n>>[2] = n
  OBVIOUS
<1>4. QED
  BY <1>1, <1>2, <1>3

LEMMA PastIs ==
  ASSUME NEW step
  PROVE  Past(step) = PastOf(at, nth, step) /\ Past(step)' = PastOf(at', nth', step)
BY DEF Past, PastOf, IsPast

LEMMA PastFinite == ASSUME NEW step PROVE IsFiniteSet(Past(step))
<1> DEFINE Mine(p) == {<<p, i>> : i \in DOMAIN Decisions[p]}
           Parts == {Mine(p) : p \in Servers}
           f == [p \in Servers |-> Mine(p)]
<1>1. IsFiniteSet(Servers)
  BY ReportingAssumption
<1>2. f \in Surjection(Servers, Parts)
  BY DEF Surjection
<1>3. IsFiniteSet(Parts)
  <2> HIDE DEF f, Parts
  <2> QED
    BY <1>1, <1>2, FS_Surjection
<1>4. ASSUME NEW p \in Servers PROVE IsFiniteSet(Mine(p))
  <2> DEFINE g == [i \in DOMAIN Decisions[p] |-> <<p, i>>]
  <2>1. g \in Surjection(DOMAIN Decisions[p], Mine(p))
    BY DEF Surjection
  <2>2. IsFiniteSet(DOMAIN Decisions[p])
    <3>1. Decisions[p] \in Seq([blocked : BOOLEAN, reason : STRING, rule : Nat, severity : Nat, score : Nat, ns : Int, path : Seq(Nat \ {0})])
      BY ReportingAssumption
    <3>2. DOMAIN Decisions[p] = 1..Len(Decisions[p]) /\ Len(Decisions[p]) \in Nat
      BY <3>1
    <3>3. QED
      BY <3>2, FS_Interval
  <2> HIDE DEF g, Mine
  <2>3. QED
    BY <2>1, <2>2, FS_Surjection
<1>5. \A T \in Parts : IsFiniteSet(T)
  BY <1>4
<1>6. IsFiniteSet(UNION Parts)
  <2> HIDE DEF Parts
  <2> QED
    BY <1>3, <1>5, FS_UNION
<1>7. Past(step) \in SUBSET UNION Parts
  BY DEF Past
<1>8. QED
  <2> HIDE DEF Parts
  <2> QED
    BY <1>6, <1>7, FS_Subset

\* A step of one server puts its decision past what it crosses.
LEMMA PastCrossed ==
  ASSUME Types, NEW p \in Servers, NEW from, NEW to \in Steps, NEW step,
         Goes(p, from, to), from # "idle", to # "idle", UNCHANGED nth,
         Place(step) \in Int, Place(from) \in Int, Place(to) \in Int
  PROVE  /\ (Place(from) <= Place(step) /\ Place(step) < Place(to)) =>
              /\ Past(step)' = Past(step) \cup {Here(p)}
              /\ Here(p) \notin Past(step)
         /\ (Place(from) > Place(step) <=> Place(to) > Place(step)) => Past(step)' = Past(step)
<1>1. at[p] = from /\ at'[p] = to /\ \A q \in Servers : q # p => at'[q] = at[q]
  BY Moved
<1>2. nth[p] \in DOMAIN Decisions[p] /\ nth[p] \in Nat /\ nth' = nth
  BY <1>1, DecisionOf
<1>3. ASSUME NEW q \in Servers, NEW n \in DOMAIN Decisions[q], <<q, n>> # Here(p)
      PROVE  IsPast(at', nth', step, q, n) <=> IsPast(at, nth, step, q, n)
  <2>1. CASE q # p
    BY <1>1, <1>2, <2>1 DEF IsPast
  <2>2. CASE q = p
    <3>1. n # nth[p]
      BY <1>3, <2>2 DEF Here
    <3>2. QED
      BY <1>2, <2>2, <3>1 DEF IsPast
  <2>3. QED
    BY <2>1, <2>2
<1>4. /\ IsPast(at, nth, step, p, nth[p]) <=> Place(from) > Place(step)
      /\ IsPast(at', nth', step, p, nth[p]) <=> Place(to) > Place(step)
  BY <1>1, <1>2 DEF IsPast
<1>5. \A d : d \in PastOf(at, nth, step) <=>
        \E q \in Servers : \E n \in DOMAIN Decisions[q] : d = <<q, n>> /\ IsPast(at, nth, step, q, n)
  BY PastOfIs
<1>6. \A d : d \in PastOf(at', nth', step) <=>
        \E q \in Servers : \E n \in DOMAIN Decisions[q] : d = <<q, n>> /\ IsPast(at', nth', step, q, n)
  BY PastOfIs
<1>7. \A d : d # Here(p) => (d \in PastOf(at', nth', step) <=> d \in PastOf(at, nth, step))
  BY <1>3, <1>5, <1>6
<1>8. \A q, n : <<q, n>> = Here(p) <=> q = p /\ n = nth[p]
  BY DEF Here
<1>9. Here(p) \in PastOf(at, nth, step) <=> Place(from) > Place(step)
  BY <1>2, <1>4, <1>5, <1>8
<1>10. Here(p) \in PastOf(at', nth', step) <=> Place(to) > Place(step)
  BY <1>2, <1>4, <1>6, <1>8
<1>11. QED
  <2> DEFINE old == PastOf(at, nth, step)
             new == PastOf(at', nth', step)
  <2>1. Past(step) = old /\ Past(step)' = new
    BY PastIs
  <2> HIDE DEF old, new
  <2>2. ASSUME Place(from) <= Place(step), Place(step) < Place(to)
        PROVE  new = old \cup {Here(p)} /\ Here(p) \notin old
    <3>1. Here(p) \notin old /\ Here(p) \in new
      BY <1>9, <1>10, <2>2 DEF old, new
    <3>2. \A d : d # Here(p) => (d \in new <=> d \in old)
      BY <1>7 DEF old, new
    <3>3. QED
      BY <3>1, <3>2
  <2>3. ASSUME Place(from) > Place(step) <=> Place(to) > Place(step)
        PROVE  new = old
    <3>1. Here(p) \in new <=> Here(p) \in old
      BY <1>9, <1>10, <2>3 DEF old, new
    <3>2. \A d : d # Here(p) => (d \in new <=> d \in old)
      BY <1>7 DEF old, new
    <3>3. QED
      BY <3>1, <3>2
  <2>4. QED
    BY <2>1, <2>2, <2>3

LEMMA PastSame ==
  ASSUME NEW step,
         \A q \in Servers : \A n \in DOMAIN Decisions[q] :
            IsPast(at', nth', step, q, n) <=> IsPast(at, nth, step, q, n)
  PROVE  Past(step)' = Past(step)
<1> DEFINE old == PastOf(at, nth, step)
           new == PastOf(at', nth', step)
<1>1. \A d : d \in new <=>
        \E q \in Servers : \E n \in DOMAIN Decisions[q] : d = <<q, n>> /\ IsPast(at', nth', step, q, n)
  BY PastOfIs
<1>2. \A d : d \in old <=>
        \E q \in Servers : \E n \in DOMAIN Decisions[q] : d = <<q, n>> /\ IsPast(at, nth, step, q, n)
  BY PastOfIs
<1> HIDE DEF old, new
<1>3. \A d : d \in new <=> d \in old
  BY <1>1, <1>2
<1>4. new = old
  BY <1>3
<1>5. QED
  BY <1>4, PastIs DEF old, new

\* A decision begun is past nothing yet.
LEMMA PastBegun ==
  ASSUME Types, NEW p \in Servers, Goes(p, "idle", "verdict"), UNCHANGED nth, NEW step,
         Place(step) \in Nat \ {0}
  PROVE  Past(step)' = Past(step)
<1>1. at[p] = "idle" /\ at'[p] = "verdict" /\ \A q \in Servers : q # p => at'[q] = at[q]
  BY Moved DEF Steps
<1>2. ASSUME NEW q \in Servers, NEW n \in DOMAIN Decisions[q]
      PROVE  IsPast(at', nth', step, q, n) <=> IsPast(at, nth, step, q, n)
  <2>1. CASE q # p
    BY <1>1, <2>1 DEF IsPast
  <2>2. CASE q = p
    BY <1>1, <2>2, PlaceIs DEF IsPast
  <2>3. QED
    BY <2>1, <2>2
<1>3. QED
  BY <1>2, PastSame

\* A decision done is past everything already.
LEMMA PastDone ==
  ASSUME Types, NEW p \in Servers, Goes(p, "sink", "idle"), nth' = [nth EXCEPT ![p] = nth[p] + 1],
         NEW step, Place(step) \in Nat, Place(step) < 9
  PROVE  Past(step)' = Past(step)
<1>1. at[p] = "sink" /\ at'[p] = "idle" /\ \A q \in Servers : q # p => at'[q] = at[q]
  BY Moved DEF Steps
<1>2. nth[p] \in Nat /\ nth'[p] = nth[p] + 1 /\ \A q \in Servers : q # p => nth'[q] = nth[q]
  BY DEF Types
<1>3. ASSUME NEW q \in Servers, NEW n \in DOMAIN Decisions[q]
      PROVE  IsPast(at', nth', step, q, n) <=> IsPast(at, nth, step, q, n)
  <2>1. CASE q # p
    BY <1>1, <1>2, <2>1 DEF IsPast
  <2>2. CASE q = p
    <3>1. n \in Nat
      BY DecisionIs
    <3>2. QED
      BY <1>1, <1>2, <2>2, <3>1, PlaceIs DEF IsPast
  <2>3. QED
    BY <2>1, <2>2
<1>4. QED
  BY <1>3, PastSame

\* Counting one more, or none.
LEMMA OneElement ==
  ASSUME NEW S, NEW T, NEW x, IsFiniteSet(S), x \notin S, T = S \cup {x}
  PROVE  Cardinality(T) = Cardinality(S) + 1 /\ Cardinality(S) \in Nat
BY FS_AddElement, FS_CardinalityType

-----------------------------------------------------------------------------
(* What is past a step after each step *)

Same(step) == Past(step)' = Past(step)
Crossed(p, step) == Past(step)' = Past(step) \cup {Here(p)} /\ Here(p) \notin Past(step)
AllSame == Same("verdict") /\ Same("reason") /\ Same("swap") /\ Same("byRule")

LEMMA Crossing ==
  ASSUME Types, NEW p \in Servers, UNCHANGED nth, NEW from, NEW to \in Steps,
         Goes(p, from, to), from # "idle", to # "idle",
         Place(from) \in Int, Place(to) \in Int, NEW step, Place(step) \in Int
  PROVE  /\ (Place(from) <= Place(step) /\ Place(step) < Place(to)) => Crossed(p, step)
         /\ (Place(from) > Place(step) <=> Place(to) > Place(step)) => Same(step)
BY PastCrossed DEF Crossed, Same

LEMMA Crossings ==
  ASSUME Types, NEW p \in Servers
  PROVE  /\ Count(p) => AllSame
         /\ CountVerdict(p) => Crossed(p, "verdict") /\ Same("reason") /\ Same("swap") /\ Same("byRule")
         /\ CountReason(p) => /\ Same("verdict") /\ Crossed(p, "reason") /\ Same("byRule")
                              /\ IF Decision(p).ns > 0 THEN Same("swap") ELSE Crossed(p, "swap")
         /\ AddNanos(p) \/ CountSeverity(p) => AllSame
         /\ LoadMax(p) => /\ Same("verdict") /\ Same("reason") /\ Same("byRule")
                          /\ IF Decision(p).ns <= counter.maxNs THEN Crossed(p, "swap") ELSE Same("swap")
         /\ SwapMax(p) => /\ Same("verdict") /\ Same("reason") /\ Same("byRule")
                          /\ IF Unchanged(p) THEN Crossed(p, "swap") ELSE Same("swap")
         /\ LockRules(p) => /\ Same("verdict") /\ Same("reason") /\ Same("swap")
                            /\ IF Decision(p).rule = 0 THEN Crossed(p, "byRule") ELSE Same("byRule")
         /\ CountRule(p) => Same("verdict") /\ Same("reason") /\ Same("swap") /\ Crossed(p, "byRule")
         /\ Audit(p) => AllSame
<1>1. ASSUME Count(p) PROVE AllSame
  BY <1>1, PastBegun, PlaceIs DEF Count, AllSame, Same
<1>2. ASSUME CountVerdict(p) PROVE Crossed(p, "verdict") /\ Same("reason") /\ Same("swap") /\ Same("byRule")
  <2>1. Goes(p, "verdict", "reason") /\ UNCHANGED nth
    BY <1>2 DEF CountVerdict, serving
  <2>2. QED
    BY <2>1, Crossing, PlaceIs DEF Steps
<1>3. ASSUME CountReason(p), Decision(p).ns > 0 PROVE Same("verdict") /\ Crossed(p, "reason") /\ Same("swap") /\ Same("byRule")
  <2>1. Goes(p, "reason", "nanos") /\ UNCHANGED nth
    BY <1>3 DEF CountReason, serving
  <2>2. QED
    BY <2>1, Crossing, PlaceIs DEF Steps
<1>4. ASSUME CountReason(p), ~(Decision(p).ns > 0) PROVE Same("verdict") /\ Crossed(p, "reason") /\ Crossed(p, "swap") /\ Same("byRule")
  <2>1. Goes(p, "reason", "rule") /\ UNCHANGED nth
    BY <1>4 DEF CountReason, serving
  <2>2. QED
    BY <2>1, Crossing, PlaceIs DEF Steps
<1>5. ASSUME AddNanos(p) PROVE Same("verdict") /\ Same("reason") /\ Same("swap") /\ Same("byRule")
  <2>1. Goes(p, "nanos", "load") /\ UNCHANGED nth
    BY <1>5 DEF AddNanos, serving
  <2>2. QED
    BY <2>1, Crossing, PlaceIs DEF Steps
<1>6. ASSUME LoadMax(p), Decision(p).ns <= counter.maxNs PROVE Same("verdict") /\ Same("reason") /\ Crossed(p, "swap") /\ Same("byRule")
  <2>1. Goes(p, "load", "rule") /\ UNCHANGED nth
    BY <1>6 DEF LoadMax, serving
  <2>2. QED
    BY <2>1, Crossing, PlaceIs DEF Steps
<1>7. ASSUME LoadMax(p), ~(Decision(p).ns <= counter.maxNs) PROVE Same("verdict") /\ Same("reason") /\ Same("swap") /\ Same("byRule")
  <2>1. Goes(p, "load", "swap") /\ UNCHANGED nth
    BY <1>7 DEF LoadMax, serving
  <2>2. QED
    BY <2>1, Crossing, PlaceIs DEF Steps
<1>8. ASSUME SwapMax(p), Unchanged(p) PROVE Same("verdict") /\ Same("reason") /\ Crossed(p, "swap") /\ Same("byRule")
  <2>1. Goes(p, "swap", "rule") /\ UNCHANGED nth
    BY <1>8 DEF SwapMax, serving, Again
  <2>2. QED
    BY <2>1, Crossing, PlaceIs DEF Steps
<1>9. ASSUME SwapMax(p), ~Unchanged(p) PROVE Same("verdict") /\ Same("reason") /\ Same("swap") /\ Same("byRule")
  <2>1. Goes(p, "swap", "load") /\ UNCHANGED nth
    BY <1>9 DEF SwapMax, serving, Again
  <2>2. QED
    BY <2>1, Crossing, PlaceIs DEF Steps
<1>10. ASSUME LockRules(p), Decision(p).rule = 0 PROVE Same("verdict") /\ Same("reason") /\ Same("swap") /\ Crossed(p, "byRule")
  <2>1. Goes(p, "rule", "sink") /\ UNCHANGED nth
    BY <1>10 DEF LockRules, serving
  <2>2. QED
    BY <2>1, Crossing, PlaceIs DEF Steps
<1>11. ASSUME LockRules(p), Decision(p).rule # 0 PROVE Same("verdict") /\ Same("reason") /\ Same("swap") /\ Same("byRule")
  <2>1. Goes(p, "rule", "byRule") /\ UNCHANGED nth
    BY <1>11 DEF LockRules, serving
  <2>2. QED
    BY <2>1, Crossing, PlaceIs DEF Steps
<1>12. ASSUME CountRule(p) PROVE Same("verdict") /\ Same("reason") /\ Same("swap") /\ Crossed(p, "byRule")
  <2>1. Goes(p, "byRule", "bySevere") /\ UNCHANGED nth
    BY <1>12 DEF CountRule, serving
  <2>2. QED
    BY <2>1, Crossing, PlaceIs DEF Steps
<1>13. ASSUME CountSeverity(p) PROVE Same("verdict") /\ Same("reason") /\ Same("swap") /\ Same("byRule")
  <2>1. Goes(p, "bySevere", "sink") /\ UNCHANGED nth
    BY <1>13 DEF CountSeverity, serving
  <2>2. QED
    BY <2>1, Crossing, PlaceIs DEF Steps
<1>14. ASSUME SkipSink(p) PROVE Same("verdict") /\ Same("reason") /\ Same("swap") /\ Same("byRule")
  <2>1. Goes(p, "sink", "sink") /\ UNCHANGED nth
    BY <1>14 DEF SkipSink, serving
  <2>2. QED
    BY <2>1, Crossing, PlaceIs DEF Steps
<1>15. ASSUME LockSink(p) PROVE Same("verdict") /\ Same("reason") /\ Same("swap") /\ Same("byRule")
  <2>1. Goes(p, "sink", "line") /\ UNCHANGED nth
    BY <1>15 DEF LockSink, serving
  <2>2. QED
    BY <2>1, Crossing, PlaceIs DEF Steps
<1>16. ASSUME StartLine(p) PROVE Same("verdict") /\ Same("reason") /\ Same("swap") /\ Same("byRule")
  <2>1. Goes(p, "line", "rest") /\ UNCHANGED nth
    BY <1>16 DEF StartLine, serving
  <2>2. QED
    BY <2>1, Crossing, PlaceIs DEF Steps
<1>17. ASSUME EndLine(p) PROVE Same("verdict") /\ Same("reason") /\ Same("swap") /\ Same("byRule")
  <2>1. Goes(p, "rest", "sink") /\ UNCHANGED nth
    BY <1>17 DEF EndLine, serving
  <2>2. QED
    BY <2>1, Crossing, PlaceIs DEF Steps
<1>18. ASSUME Finish(p) PROVE AllSame
  <2>1. Goes(p, "sink", "idle") /\ nth' = [nth EXCEPT ![p] = nth[p] + 1]
    BY <1>18 DEF Finish
  <2>2. ASSUME NEW step, Place(step) \in Nat, Place(step) < 9 PROVE Same(step)
    BY <2>1, <2>2, PastDone DEF Same
  <2>3. QED
    BY <2>2, PlaceIs DEF AllSame
<1>19. QED
  BY <1>1, <1>2, <1>3, <1>4, <1>5, <1>6, <1>7, <1>8, <1>9, <1>10, <1>11, <1>12, <1>13, <1>14, <1>15, <1>16, <1>17, <1>18 DEF AllSame, Audit

LEMMA OfHere == ASSUME NEW p PROVE Of(Here(p)) = Decision(p)
BY DEF Of, Here, Decision

\* How many of those past a step, after it.
LEMMA VerdictPast ==
  ASSUME NEW p \in Servers, Crossed(p, "verdict")
  PROVE  /\ Cardinality(PastBlocked) \in Nat
         /\ Cardinality(PastBlocked)' = Cardinality(PastBlocked) + (IF Decision(p).blocked THEN 1 ELSE 0)
<1>1. IsFiniteSet(PastBlocked) /\ Cardinality(PastBlocked) \in Nat
  BY PastFinite, FS_Subset, FS_CardinalityType DEF PastBlocked
<1>2. Here(p) \notin PastBlocked
  BY DEF Crossed, PastBlocked
<1>3. CASE Decision(p).blocked
  <2>1. PastBlocked' = PastBlocked \cup {Here(p)}
    BY <1>3, OfHere DEF Crossed, PastBlocked
  <2>2. QED
    BY <1>1, <1>2, <1>3, <2>1, OneElement
<1>4. CASE ~Decision(p).blocked
  <2>1. PastBlocked' = PastBlocked
    BY <1>4, OfHere DEF Crossed, PastBlocked
  <2>2. QED
    BY <1>1, <1>4, <2>1
<1>5. QED
  BY <1>3, <1>4

LEMMA ReasonPast ==
  ASSUME NEW p \in Servers, Crossed(p, "reason")
  PROVE  /\ Cardinality(PastExhausted) \in Nat /\ Cardinality(PastErrors) \in Nat
         /\ Cardinality(PastExhausted)' = Cardinality(PastExhausted) + (IF Decision(p).reason = "budget" THEN 1 ELSE 0)
         /\ Cardinality(PastErrors)' = Cardinality(PastErrors) + (IF Decision(p).reason \in Errors THEN 1 ELSE 0)
<1>1. /\ IsFiniteSet(PastExhausted) /\ Cardinality(PastExhausted) \in Nat
      /\ IsFiniteSet(PastErrors) /\ Cardinality(PastErrors) \in Nat
  BY PastFinite, FS_Subset, FS_CardinalityType DEF PastExhausted, PastErrors
<1>2. Here(p) \notin PastExhausted /\ Here(p) \notin PastErrors
  BY DEF Crossed, PastExhausted, PastErrors
<1>3. Cardinality(PastExhausted)' = Cardinality(PastExhausted) + (IF Decision(p).reason = "budget" THEN 1 ELSE 0)
  <2>1. CASE Decision(p).reason = "budget"
    <3>1. PastExhausted' = PastExhausted \cup {Here(p)}
      BY <2>1, OfHere DEF Crossed, PastExhausted
    <3>2. QED
      BY <1>1, <1>2, <2>1, <3>1, OneElement
  <2>2. CASE Decision(p).reason # "budget"
    <3>1. PastExhausted' = PastExhausted
      BY <2>2, OfHere DEF Crossed, PastExhausted
    <3>2. QED
      BY <1>1, <2>2, <3>1
  <2>3. QED
    BY <2>1, <2>2
<1>4. Cardinality(PastErrors)' = Cardinality(PastErrors) + (IF Decision(p).reason \in Errors THEN 1 ELSE 0)
  <2>1. CASE Decision(p).reason \in Errors
    <3>1. PastErrors' = PastErrors \cup {Here(p)}
      BY <2>1, OfHere DEF Crossed, PastErrors
    <3>2. QED
      BY <1>1, <1>2, <2>1, <3>1, OneElement
  <2>2. CASE Decision(p).reason \notin Errors
    <3>1. PastErrors' = PastErrors
      BY <2>2, OfHere DEF Crossed, PastErrors
    <3>2. QED
      BY <1>1, <2>2, <3>1
  <2>3. QED
    BY <2>1, <2>2
<1>5. QED
  BY <1>1, <1>3, <1>4

LEMMA RulePast ==
  ASSUME NEW p \in Servers, Crossed(p, "byRule"), NEW r
  PROVE  /\ Cardinality(PastRule(r)) \in Nat
         /\ Cardinality(PastRule(r))' = Cardinality(PastRule(r)) + (IF Decision(p).rule = r THEN 1 ELSE 0)
<1>1. IsFiniteSet(PastRule(r)) /\ Cardinality(PastRule(r)) \in Nat
  BY PastFinite, FS_Subset, FS_CardinalityType DEF PastRule
<1>2. Here(p) \notin PastRule(r)
  BY DEF Crossed, PastRule
<1>3. CASE Decision(p).rule = r
  <2>1. PastRule(r)' = PastRule(r) \cup {Here(p)}
    BY <1>3, OfHere DEF Crossed, PastRule
  <2>2. QED
    BY <1>1, <1>2, <1>3, <2>1, OneElement
<1>4. CASE Decision(p).rule # r
  <2>1. PastRule(r)' = PastRule(r)
    BY <1>4, OfHere DEF Crossed, PastRule
  <2>2. QED
    BY <1>1, <1>4, <2>1
<1>5. QED
  BY <1>3, <1>4

LEMMA VerdictsServed ==
  /\ IsFiniteSet(AtVerdict) /\ Cardinality(AtVerdict) \in Nat
BY ReportingAssumption, FS_Subset, FS_CardinalityType DEF AtVerdict

-----------------------------------------------------------------------------
(* The counters hold what is past *)

\* What a step does to the counters.
LEMMA CounterSteps ==
  ASSUME Types, NEW p \in Servers
  PROVE  /\ Count(p) => Adds("requests", 1)
         /\ CountVerdict(p) => Adds(IF Decision(p).blocked THEN "blocked" ELSE "allowed", 1)
         /\ AddNanos(p) => Adds("nanos", Decision(p).ns)
         /\ LoadMax(p) \/ LockRules(p) \/ CountRule(p) \/ CountSeverity(p) \/ Audit(p) => UNCHANGED counter
         /\ SwapMax(p) /\ ~Unchanged(p) => UNCHANGED counter
         /\ SwapMax(p) /\ Unchanged(p) => counter' = [counter EXCEPT !["maxNs"] = Decision(p).ns]
BY DEF Count, CountVerdict, AddNanos, LoadMax, SwapMax, LockRules, CountRule, CountSeverity, Audit,
       SkipSink, LockSink, StartLine, EndLine, Finish, metrics

LEMMA SwapSets ==
  ASSUME Types, NEW p \in Servers, SwapMax(p), Unchanged(p)
  PROVE  /\ counter' \in [Counters -> Int] /\ counter'["maxNs"] = Decision(p).ns
         /\ \A c \in Counters : c # "maxNs" => counter'[c] = counter[c]
<1>1. counter \in [Counters -> Int] /\ "maxNs" \in Counters
  BY DEF Types, Counters
<1>2. Decision(p).ns \in Int
  BY DecisionOf DEF SwapMax, Goes
<1>3. QED
  BY <1>1, <1>2, CounterSteps

\* A server that is not at its verdict before or after a step leaves those that are.
LEMMA VerdictsKept ==
  ASSUME NEW p \in Servers, \A q \in Servers : q # p => at'[q] = at[q],
         at[p] # "verdict", at'[p] # "verdict"
  PROVE  AtVerdict' = AtVerdict
BY DEF AtVerdict

LEMMA OnlyOneMoves ==
  ASSUME Types, NEW p \in Servers, Observe(p) \/ Audit(p)
  PROVE  /\ \A q \in Servers : q # p => at'[q] = at[q] /\ nth'[q] = nth[q] /\ cur'[q] = cur[q]
         /\ Count(p) \/ CountVerdict(p) \/ (at[p] # "verdict" /\ at'[p] # "verdict")
<1>1. CASE Observe(p)
  BY <1>1 DEF Observe, Count, CountVerdict, CountReason, AddNanos, LoadMax, SwapMax, LockRules, CountRule, CountSeverity, Goes, Again, Types, serving
<1>2. CASE Audit(p)
  BY <1>2 DEF Audit, SkipSink, LockSink, StartLine, EndLine, Finish, Goes, Types, serving
<1>3. QED
  BY <1>1, <1>2

LEMMA RequestsKept ==
  ASSUME Types, Requests, NEW p \in Servers, Observe(p) \/ Audit(p)
  PROVE  Requests'
<1>0. /\ counter \in [Counters -> Int] /\ "requests" \in Counters /\ "blocked" \in Counters
      /\ "allowed" \in Counters /\ "exhausted" \in Counters /\ "errors" \in Counters
      /\ "nanos" \in Counters /\ "maxNs" \in Counters /\ 1 \in Int
  BY DEF Types, Counters
<1>1. /\ IsFiniteSet(AtVerdict) /\ Cardinality(AtVerdict) \in Nat
      /\ counter["requests"] = counter["blocked"] + counter["allowed"] + Cardinality(AtVerdict)
      /\ counter["requests"] \in Int /\ counter["blocked"] \in Int /\ counter["allowed"] \in Int
  BY <1>0, VerdictsServed DEF Requests
<1>2. CASE Count(p)
  <2>1. Goes(p, "idle", "verdict")
    BY <1>2 DEF Count
  <2>2. at[p] = "idle" /\ at'[p] = "verdict" /\ \A q \in Servers : q # p => at'[q] = at[q]
    BY <2>1, Moved DEF Steps
  <2>3. AtVerdict' = AtVerdict \cup {p} /\ p \notin AtVerdict
    BY <2>2 DEF AtVerdict
  <2>4. Cardinality(AtVerdict') = Cardinality(AtVerdict) + 1
    BY <1>1, <2>3, OneElement
  <2>5. /\ counter'["requests"] = counter["requests"] + 1
        /\ counter'["blocked"] = counter["blocked"] /\ counter'["allowed"] = counter["allowed"]
    BY <1>0, <1>2, CounterSteps, OneMore
  <2>6. QED
    BY <1>1, <2>4, <2>5 DEF Requests
<1>3. CASE CountVerdict(p)
  <2>1. Goes(p, "verdict", "reason")
    BY <1>3 DEF CountVerdict
  <2>2. at[p] = "verdict" /\ at'[p] = "reason" /\ \A q \in Servers : q # p => at'[q] = at[q]
    BY <2>1, Moved DEF Steps
  <2>3. AtVerdict' = AtVerdict \ {p} /\ p \in AtVerdict
    BY <2>2 DEF AtVerdict
  <2>4. Cardinality(AtVerdict') = Cardinality(AtVerdict) - 1
    BY <1>1, <2>3, FS_RemoveElement
  <2>5. /\ counter'["requests"] = counter["requests"]
        /\ \/ counter'["blocked"] = counter["blocked"] + 1 /\ counter'["allowed"] = counter["allowed"]
           \/ counter'["blocked"] = counter["blocked"] /\ counter'["allowed"] = counter["allowed"] + 1
    <3>1. Adds("blocked", 1) \/ Adds("allowed", 1)
      BY <1>3, CounterSteps
    <3>2. QED
      BY <1>0, <3>1, OneMore
  <2>6. QED
    BY <1>1, <2>4, <2>5 DEF Requests
<1>4. CASE ~Count(p) /\ ~CountVerdict(p)
  <2>1. AtVerdict' = AtVerdict
    BY <1>4, OnlyOneMoves, VerdictsKept
  <2>2. /\ counter'["requests"] = counter["requests"]
        /\ counter'["blocked"] = counter["blocked"] /\ counter'["allowed"] = counter["allowed"]
    <3>1. CASE CountReason(p)
      BY <1>0, <3>1, ReasonCounts, OneMore
    <3>2. CASE AddNanos(p)
      <4>1. Adds("nanos", Decision(p).ns) /\ Decision(p).ns \in Int
        BY <3>2, CounterSteps, DecisionOf DEF AddNanos, Goes
      <4>2. QED
        BY <1>0, <4>1, OneMore
    <3>3. CASE SwapMax(p) /\ Unchanged(p)
      BY <1>0, <3>3, SwapSets
    <3>4. CASE UNCHANGED counter
      BY <3>4
    <3>5. QED
      BY <1>4, <3>1, <3>2, <3>3, <3>4, CounterSteps DEF Observe
  <2>3. QED
    BY <1>1, <2>1, <2>2 DEF Requests
<1>5. QED
  BY <1>2, <1>3, <1>4

LEMMA VerdictsCounted ==
  ASSUME Types, Verdicts, NEW p \in Servers, Observe(p) \/ Audit(p)
  PROVE  Verdicts'
<1>0. /\ counter \in [Counters -> Int] /\ "requests" \in Counters /\ "blocked" \in Counters
      /\ "allowed" \in Counters /\ "exhausted" \in Counters /\ "errors" \in Counters
      /\ "nanos" \in Counters /\ "maxNs" \in Counters /\ 1 \in Int
  BY DEF Types, Counters
<1>1. counter["blocked"] = Cardinality(PastBlocked)
  BY DEF Verdicts
<1>2. CASE CountVerdict(p)
  <2>1. /\ Cardinality(PastBlocked) \in Nat
        /\ Cardinality(PastBlocked)' = Cardinality(PastBlocked) + (IF Decision(p).blocked THEN 1 ELSE 0)
    BY <1>2, Crossings, VerdictPast
  <2>2. counter'["blocked"] = counter["blocked"] + (IF Decision(p).blocked THEN 1 ELSE 0)
    <3>1. CASE Decision(p).blocked
      <4>1. Adds("blocked", 1)
        BY <1>2, <3>1, CounterSteps
      <4>2. QED
        BY <1>0, <3>1, <4>1, OneMore
    <3>2. CASE ~Decision(p).blocked
      <4>1. Adds("allowed", 1)
        BY <1>2, <3>2, CounterSteps
      <4>2. counter["blocked"] \in Int /\ counter'["blocked"] = counter["blocked"]
        BY <1>0, <4>1, OneMore
      <4>3. QED
        BY <3>2, <4>2
    <3>3. QED
      BY <3>1, <3>2
  <2>3. QED
    BY <1>1, <2>1, <2>2 DEF Verdicts
<1>3. CASE ~CountVerdict(p)
  <2>1. PastBlocked' = PastBlocked
    <3>1. Same("verdict")
      BY <1>3, Crossings DEF Observe, AllSame
    <3>2. QED
      BY <3>1 DEF Same, PastBlocked
  <2>2. counter'["blocked"] = counter["blocked"]
    <3>1. CASE CountReason(p)
      BY <1>0, <3>1, ReasonCounts, OneMore
    <3>2. CASE AddNanos(p)
      <4>1. Adds("nanos", Decision(p).ns) /\ Decision(p).ns \in Int
        BY <3>2, CounterSteps, DecisionOf DEF AddNanos, Goes
      <4>2. QED
        BY <1>0, <4>1, OneMore
    <3>3. CASE SwapMax(p) /\ Unchanged(p)
      BY <1>0, <3>3, SwapSets
    <3>4. CASE UNCHANGED counter
      BY <3>4
    <3>5. CASE Count(p)
      BY <1>0, <3>5, CounterSteps, OneMore
    <3>6. QED
      BY <1>3, <3>1, <3>2, <3>3, <3>4, <3>5, CounterSteps DEF Observe
  <2>3. QED
    BY <1>1, <2>1, <2>2 DEF Verdicts
<1>4. QED
  BY <1>2, <1>3

LEMMA ReasonsCounted ==
  ASSUME Types, Reasons, NEW p \in Servers, Observe(p) \/ Audit(p)
  PROVE  Reasons'
<1>0. /\ counter \in [Counters -> Int] /\ "requests" \in Counters /\ "blocked" \in Counters
      /\ "allowed" \in Counters /\ "exhausted" \in Counters /\ "errors" \in Counters
      /\ "nanos" \in Counters /\ "maxNs" \in Counters /\ 1 \in Int
  BY DEF Types, Counters
<1>1. counter["exhausted"] = Cardinality(PastExhausted) /\ counter["errors"] = Cardinality(PastErrors)
  BY DEF Reasons
<1>2. CASE CountReason(p)
  <2>1. /\ Cardinality(PastExhausted) \in Nat /\ Cardinality(PastErrors) \in Nat
        /\ Cardinality(PastExhausted)' = Cardinality(PastExhausted) + (IF Decision(p).reason = "budget" THEN 1 ELSE 0)
        /\ Cardinality(PastErrors)' = Cardinality(PastErrors) + (IF Decision(p).reason \in Errors THEN 1 ELSE 0)
    BY <1>2, Crossings, ReasonPast
  <2>2. "budget" \notin Errors
    BY DEF Errors
  <2>3. CASE Decision(p).reason = "budget"
    <3>1. counter'["exhausted"] = counter["exhausted"] + 1 /\ counter'["errors"] = counter["errors"]
      BY <1>0, <1>2, <2>3, ReasonCounts, OneMore
    <3>2. QED
      BY <1>1, <2>1, <2>2, <2>3, <3>1 DEF Reasons
  <2>4. CASE Decision(p).reason # "budget" /\ Decision(p).reason \in Errors
    <3>1. counter'["exhausted"] = counter["exhausted"] /\ counter'["errors"] = counter["errors"] + 1
      BY <1>0, <1>2, <2>4, ReasonCounts, OneMore
    <3>2. QED
      BY <1>1, <2>1, <2>4, <3>1 DEF Reasons
  <2>5. CASE Decision(p).reason # "budget" /\ Decision(p).reason \notin Errors
    <3>1. counter' = counter
      BY <1>2, <2>5, ReasonCounts
    <3>2. QED
      BY <1>1, <2>1, <2>5, <3>1 DEF Reasons
  <2>6. QED
    BY <2>3, <2>4, <2>5
<1>3. CASE ~CountReason(p)
  <2>1. PastExhausted' = PastExhausted /\ PastErrors' = PastErrors
    <3>1. Same("reason")
      BY <1>3, Crossings DEF Observe, AllSame
    <3>2. QED
      BY <3>1 DEF Same, PastExhausted, PastErrors
  <2>2. counter'["exhausted"] = counter["exhausted"] /\ counter'["errors"] = counter["errors"]
    <3>1. CASE CountVerdict(p)
      <4>1. Adds("blocked", 1) \/ Adds("allowed", 1)
        BY <3>1, CounterSteps
      <4>2. QED
        BY <1>0, <4>1, OneMore
    <3>2. CASE AddNanos(p)
      <4>1. Adds("nanos", Decision(p).ns) /\ Decision(p).ns \in Int
        BY <3>2, CounterSteps, DecisionOf DEF AddNanos, Goes
      <4>2. QED
        BY <1>0, <4>1, OneMore
    <3>3. CASE SwapMax(p) /\ Unchanged(p)
      BY <1>0, <3>3, SwapSets
    <3>4. CASE UNCHANGED counter
      BY <3>4
    <3>5. CASE Count(p)
      BY <1>0, <3>5, CounterSteps, OneMore
    <3>6. QED
      BY <1>3, <3>1, <3>2, <3>3, <3>4, <3>5, CounterSteps DEF Observe
  <2>3. QED
    BY <1>1, <2>1, <2>2 DEF Reasons
<1>4. QED
  BY <1>2, <1>3

\* The maximum is replaced only by what is longer, and only while it is the one that was loaded.
LEMMA LongestKept ==
  ASSUME Types, Longest, NEW p \in Servers, Observe(p) \/ Audit(p)
  PROVE  Longest'
<1> DEFINE m == counter["maxNs"]
           S == Past("swap")
<1>0. /\ counter \in [Counters -> Int] /\ "requests" \in Counters /\ "blocked" \in Counters
      /\ "allowed" \in Counters /\ "exhausted" \in Counters /\ "errors" \in Counters
      /\ "nanos" \in Counters /\ "maxNs" \in Counters /\ 1 \in Int /\ m \in Int
  BY DEF Types, Counters
<1>1. /\ \A q \in Servers : at[q] = "swap" => cur[q] < Decision(q).ns
      /\ 0 <= m /\ (m = 0 \/ \E d \in S : m = Of(d).ns) /\ \A d \in S : Of(d).ns <= m
  BY DEF Longest
<1>2. \A q \in Servers : q # p => at'[q] = at[q] /\ cur'[q] = cur[q] /\ Decision(q)' = Decision(q)
  BY OnlyOneMoves DEF Decision
<1>3. ASSUME Same("swap"), m' = m, at'[p] = "swap" => cur'[p] < Decision(p)'.ns
      PROVE  Longest'
  <2>1. S' = S
    BY <1>3 DEF Same
  <2>2. \A q \in Servers : at'[q] = "swap" => cur'[q] < Decision(q)'.ns
    BY <1>1, <1>2, <1>3
  <2>3. QED
    BY <1>1, <1>3, <2>1, <2>2 DEF Longest
<1>4. ASSUME Crossed(p, "swap"), m' = m, Decision(p).ns <= m, at'[p] # "swap"
      PROVE  Longest'
  <2>1. S' = S \cup {Here(p)} /\ Of(Here(p)).ns <= m
    BY <1>4, OfHere DEF Crossed
  <2>2. \A q \in Servers : at'[q] = "swap" => cur'[q] < Decision(q)'.ns
    BY <1>1, <1>2, <1>4
  <2> HIDE DEF S
  <2>3. (m = 0 \/ \E d \in S' : m = Of(d).ns) /\ \A d \in S' : Of(d).ns <= m
    BY <1>1, <2>1
  <2>4. QED
    BY <1>1, <1>4, <2>2, <2>3 DEF Longest, S
<1>5. CASE SwapMax(p) /\ Unchanged(p)
  <2>1. Crossed(p, "swap") /\ m' = Decision(p).ns /\ Decision(p).ns \in Int
    BY <1>5, Crossings, SwapSets, DecisionOf DEF SwapMax, Goes
  <2>2. at[p] = "swap" /\ at'[p] = "rule" /\ m = cur[p]
    BY <1>5 DEF SwapMax, Unchanged, Goes, Types
  <2>3. m < m'
    BY <1>1, <2>1, <2>2
  <2>4. S' = S \cup {Here(p)} /\ Of(Here(p)).ns = m'
    BY <2>1, OfHere DEF Crossed
  <2>5. \A q \in Servers : at'[q] = "swap" => cur'[q] < Decision(q)'.ns
    BY <1>1, <1>2, <2>2
  <2> DEFINE k == m'
  <2>6. k \in Int /\ m < k /\ Of(Here(p)).ns = k
    BY <2>1, <2>3, <2>4
  <2>7. \A d \in S : Of(d).ns \in Int
    <3> SUFFICES ASSUME NEW d \in S PROVE Of(d).ns \in Int
      OBVIOUS
    <3>1. d \in PastOf(at, nth, "swap")
      BY PastIs
    <3>2. PICK q \in Servers : \E n \in DOMAIN Decisions[q] : d = <<q, n>>
      BY <3>1, PastOfIs
    <3>3. PICK n \in DOMAIN Decisions[q] : d = <<q, n>>
      BY <3>2
    <3>4. QED
      BY <3>3, DecisionIs DEF Of
  <2> HIDE DEF S, k
  <2>8. (\E d \in S' : k = Of(d).ns) /\ \A d \in S' : Of(d).ns <= k
    <3>1. \A d \in S : Of(d).ns <= k
      BY <1>0, <1>1, <2>6, <2>7
    <3>2. QED
      BY <2>4, <2>6, <3>1
  <2>9. 0 <= k
    BY <1>0, <1>1, <2>6
  <2>10. QED
    BY <2>5, <2>8, <2>9 DEF Longest, S, k
<1>6. CASE SwapMax(p) /\ ~Unchanged(p)
  <2>1. Same("swap") /\ m' = m /\ at'[p] # "swap"
    BY <1>6, Crossings, CounterSteps DEF SwapMax, Goes, Again, Types
  <2>2. QED
    BY <1>3, <2>1
<1>7. CASE LoadMax(p)
  <2>1. m' = m /\ at[p] = "load" /\ UNCHANGED nth
    BY <1>7, CounterSteps DEF LoadMax, Goes
  <2>2. Decision(p)' = Decision(p) /\ Decision(p).ns \in Int
    BY <2>1, DecisionOf DEF Decision
  <2>3. CASE Decision(p).ns <= m
    <3>1. Crossed(p, "swap") /\ at'[p] # "swap"
      BY <1>7, <2>3, Crossings DEF LoadMax, Goes, Types
    <3>2. QED
      BY <1>4, <2>1, <2>3, <3>1
  <2>4. CASE ~(Decision(p).ns <= m)
    <3>1. Same("swap") /\ cur'[p] = m
      BY <1>7, <2>4, Crossings DEF LoadMax, Types
    <3>2. cur'[p] < Decision(p)'.ns
      BY <1>0, <2>2, <2>4, <3>1
    <3>3. QED
      BY <1>3, <2>1, <3>1, <3>2
  <2>5. QED
    BY <2>3, <2>4
<1>8. CASE CountReason(p)
  <2>1. Adds("exhausted", 1) \/ Adds("errors", 1) \/ counter' = counter
    BY <1>8, ReasonCounts
  <2>2. m' = m
    BY <1>0, <2>1, OneMore
  <2>3. at[p] = "reason" /\ at'[p] # "swap" /\ Decision(p).ns \in Int
    BY <1>8, DecisionOf DEF CountReason, Goes, Types
  <2>4. CASE Decision(p).ns > 0
    BY <1>3, <1>8, <2>2, <2>3, <2>4, Crossings
  <2>5. CASE ~(Decision(p).ns > 0)
    <3>1. Crossed(p, "swap")
      BY <1>8, <2>5, Crossings
    <3>2. Decision(p).ns <= m
      BY <1>0, <1>1, <2>3, <2>5
    <3>3. QED
      BY <1>4, <2>2, <2>3, <3>1, <3>2
  <2>6. QED
    BY <2>4, <2>5
<1>9. CASE ~SwapMax(p) /\ ~LoadMax(p) /\ ~CountReason(p)
  <2>1. Same("swap")
    BY <1>9, Crossings DEF Observe, AllSame
  <2>2. m' = m
    <3>1. CASE CountVerdict(p)
      <4>1. Adds("blocked", 1) \/ Adds("allowed", 1)
        BY <3>1, CounterSteps
      <4>2. QED
        BY <1>0, <4>1, OneMore
    <3>2. CASE AddNanos(p)
      <4>1. Adds("nanos", Decision(p).ns) /\ Decision(p).ns \in Int
        BY <3>2, CounterSteps, DecisionOf DEF AddNanos, Goes
      <4>2. QED
        BY <1>0, <4>1, OneMore
    <3>3. CASE UNCHANGED counter
      BY <3>3
    <3>4. CASE Count(p)
      BY <1>0, <3>4, CounterSteps, OneMore
    <3>5. QED
      BY <1>9, <3>1, <3>2, <3>3, <3>4, CounterSteps DEF Observe
  <2>3. at'[p] # "swap"
    <3>1. CASE Observe(p)
      BY <1>9, <3>1 DEF Observe, Count, CountVerdict, CountReason, AddNanos, LoadMax, SwapMax, LockRules, CountRule, CountSeverity, Goes, Types
    <3>2. CASE Audit(p)
      BY <3>2 DEF Audit, SkipSink, LockSink, StartLine, EndLine, Finish, Goes, Types
    <3>3. QED
      BY <3>1, <3>2
  <2>4. QED
    BY <1>3, <2>1, <2>2, <2>3
<1>10. QED
  BY <1>5, <1>6, <1>7, <1>8, <1>9

LEMMA MatchesKept ==
  ASSUME Types, RulesHeld, Matches, NEW p \in Servers, Observe(p) \/ Audit(p)
  PROVE  Matches'
<1>1. CASE CountRule(p)
  <2>1. at[p] = "byRule" /\ byRule' = Incremented(byRule, Decision(p).rule) /\ Crossed(p, "byRule")
    BY <1>1, Crossings DEF CountRule, Goes
  <2>2. Decision(p).rule \in Nat \ {0}
    BY <2>1, DecisionOf DEF RulesHeld
  <2>3. DOMAIN byRule' = DOMAIN byRule \cup {Decision(p).rule}
    BY <2>1 DEF Incremented
  <2>4. \A r \in Nat \ {0} : Lookup(byRule', r) = Lookup(byRule, r) + (IF Decision(p).rule = r THEN 1 ELSE 0)
    <3> SUFFICES ASSUME NEW r \in Nat \ {0}
                 PROVE  Lookup(byRule', r) = Lookup(byRule, r) + (IF Decision(p).rule = r THEN 1 ELSE 0)
      OBVIOUS
    <3>1. Lookup(byRule, r) \in Int
      BY DEF Lookup, Types, IsCounts
    <3>2. CASE r \in DOMAIN byRule'
      <4>1. byRule'[r] = Lookup(byRule, r) + (IF r = Decision(p).rule THEN 1 ELSE 0)
        BY <2>1, <3>2 DEF Incremented
      <4>2. QED
        BY <3>1, <3>2, <4>1 DEF Lookup
    <3>3. CASE r \notin DOMAIN byRule'
      BY <2>3, <3>3 DEF Lookup
    <3>4. QED
      BY <3>2, <3>3
  <2>5. \A r \in Nat \ {0} : Lookup(byRule', r) = Cardinality(PastRule(r))'
    BY <2>1, <2>4, RulePast DEF Matches
  <2>6. 0 \notin DOMAIN byRule'
    BY <2>2, <2>3 DEF Matches
  <2>7. QED
    BY <2>5, <2>6 DEF Matches
<1>2. CASE LockRules(p) /\ Decision(p).rule = 0
  <2>1. UNCHANGED byRule /\ Crossed(p, "byRule")
    BY <1>2, Crossings DEF LockRules
  <2>2. \A r \in Nat \ {0} : Cardinality(PastRule(r))' = Cardinality(PastRule(r))
    BY <1>2, <2>1, RulePast
  <2>3. QED
    BY <2>1, <2>2 DEF Matches
<1>3. CASE ~CountRule(p) /\ ~(LockRules(p) /\ Decision(p).rule = 0)
  <2>1. UNCHANGED byRule
    <3>1. CASE Observe(p)
      BY <1>3, <3>1 DEF Observe, Count, CountVerdict, CountReason, AddNanos, LoadMax, SwapMax, LockRules, CountRule, CountSeverity, metrics
    <3>2. CASE Audit(p)
      BY <3>2 DEF Audit, SkipSink, LockSink, StartLine, EndLine, Finish, metrics
    <3>3. QED
      BY <3>1, <3>2
  <2>2. Same("byRule")
    BY <1>3, Crossings DEF Observe, AllSame
  <2>3. \A r : PastRule(r)' = PastRule(r)
    BY <2>2 DEF Same, PastRule
  <2>4. QED
    BY <2>1, <2>3 DEF Matches
<1>4. QED
  BY <1>1, <1>2, <1>3

\* As long as nothing was reset.
Counts == resets = 0 => Requests /\ Verdicts /\ Reasons /\ Longest /\ Matches

LEMMA CountsStart == Init => Counts
<1> SUFFICES ASSUME Init PROVE Counts
  OBVIOUS
<1>1. \A step : Past(step) = {}
  <2> SUFFICES ASSUME NEW step, NEW d \in Past(step) PROVE FALSE
    OBVIOUS
  <2>1. d \in PastOf(at, nth, step)
    BY PastIs
  <2>2. PICK p \in Servers : \E n \in DOMAIN Decisions[p] : d = <<p, n>> /\ IsPast(at, nth, step, p, n)
    BY <2>1, PastOfIs
  <2>3. PICK n \in DOMAIN Decisions[p] : d = <<p, n>> /\ IsPast(at, nth, step, p, n)
    BY <2>2
  <2>4. n \in 1..Len(Decisions[p])
    BY DecisionIs
  <2>5. QED
    BY <2>3, <2>4 DEF IsPast, Init
<1>2. Cardinality({}) = 0
  BY FS_EmptySet
<1>3. counter = [c \in Counters |-> 0] /\ byRule = <<>> /\ \A p \in Servers : at[p] = "idle"
  BY DEF Init, Zero
<1>4. AtVerdict = {} /\ PastBlocked = {} /\ PastExhausted = {} /\ PastErrors = {} /\ \A r : PastRule(r) = {}
  BY <1>1, <1>3 DEF AtVerdict, PastBlocked, PastExhausted, PastErrors, PastRule
<1>5. Requests /\ Verdicts /\ Reasons
  BY <1>2, <1>3, <1>4 DEF Requests, Verdicts, Reasons, Counters
<1>6. Longest
  BY <1>1, <1>3 DEF Longest, Counters
<1>7. Matches
  <2>1. DOMAIN byRule = {}
    BY <1>3
  <2>2. \A r : Lookup(byRule, r) = 0
    BY <2>1 DEF Lookup
  <2>3. \A r : Cardinality(PastRule(r)) = 0
    BY <1>2, <1>4
  <2>4. QED
    BY <2>1, <2>2, <2>3 DEF Matches
<1>8. QED
  BY <1>5, <1>6, <1>7 DEF Counts

LEMMA CountsKept ==
  ASSUME Types, RulesHeld, Unreset, Counts, [Next]_vars
  PROVE  Counts'
<1>1. SUFFICES ASSUME resets' = 0 PROVE (Requests /\ Verdicts /\ Reasons /\ Longest /\ Matches)'
  BY DEF Counts
<1>2. ASSUME NEW p \in Servers, Observe(p) \/ Audit(p)
      PROVE  (Requests /\ Verdicts /\ Reasons /\ Longest /\ Matches)'
  <2>1. resets = 0
    BY <1>1, <1>2 DEF Observe, Audit, Count, CountVerdict, CountReason, AddNanos, LoadMax, SwapMax, LockRules,
                      CountRule, CountSeverity, SkipSink, LockSink, StartLine, EndLine, Finish, resetting
  <2>2. Requests /\ Verdicts /\ Reasons /\ Longest /\ Matches
    BY <2>1 DEF Counts
  <2>3. QED
    BY <1>2, <2>2, RequestsKept, VerdictsCounted, ReasonsCounted, LongestKept, MatchesKept
<1>3. ASSUME Reset PROVE FALSE
  <2>1. CASE BeginReset
    BY <1>1, <2>1 DEF BeginReset, Types
  <2>2. CASE ~BeginReset
    <3>1. resets = 0
      BY <1>1, <1>3, <2>2 DEF Reset, ResetCounter, ResetMaps
    <3>2. resetter = 0
      BY <3>1 DEF Unreset
    <3>3. QED
      BY <1>3, <2>2, <3>2, ReportingAssumption DEF Reset, ResetCounter, ResetMaps
  <2>3. QED
    BY <2>1, <2>2
<1>4. ASSUME Snapshot \/ UNCHANGED vars
      PROVE  (Requests /\ Verdicts /\ Reasons /\ Longest /\ Matches)'
  <2>1. UNCHANGED <<counter, byRule, at, nth, cur, resets>>
    BY <1>4 DEF Snapshot, ReadCounter, ReadMaps, vars, metrics, serving, resetting
  <2>2. \A step : Past(step)' = Past(step)
    BY <2>1 DEF Past
  <2>3. Requests /\ Verdicts /\ Reasons /\ Longest /\ Matches
    BY <1>1, <2>1 DEF Counts
  <2>4. Requests' /\ Verdicts' /\ Reasons'
    BY <2>1, <2>2, <2>3 DEF Requests, Verdicts, Reasons, AtVerdict, PastBlocked, PastExhausted, PastErrors
  <2>5. Longest'
    BY <2>1, <2>2, <2>3 DEF Longest, Decision
  <2>6. Matches'
    BY <2>1, <2>2, <2>3 DEF Matches, PastRule
  <2>7. QED
    BY <2>4, <2>5, <2>6
<1>5. QED
  BY <1>2, <1>3, <1>4 DEF Next, Idle

\* What is past a step, and what the counters say of it.
LEMMA CountedFromCounts ==
  ASSUME Types, Counts, SnapshotWhole
  PROVE  CountedExactly
<1> SUFFICES ASSUME resets = 0 PROVE
      /\ counter.requests = counter.blocked + counter.allowed + Cardinality({p \in Servers : at[p] = "verdict"})
      /\ counter.blocked = Counted("verdict", LAMBDA d : d.blocked)
      /\ counter.exhausted = Counted("reason", LAMBDA d : d.reason = "budget")
      /\ counter.errors = Counted("reason", LAMBDA d : d.reason \in Errors)
      /\ counter.maxNs = Max({0} \cup {Of(d).ns : d \in Past("swap")})
      /\ \A r \in DOMAIN byRule : byRule[r] = Counted("byRule", LAMBDA d : d.rule = r)
  BY DEF CountedExactly
<1>1. Requests /\ Verdicts /\ Reasons /\ Longest /\ Matches
  BY DEF Counts
<1>2. counter.requests = counter.blocked + counter.allowed + Cardinality({p \in Servers : at[p] = "verdict"})
  BY <1>1 DEF Requests, AtVerdict
<1>3. counter.blocked = Counted("verdict", LAMBDA d : d.blocked)
  BY <1>1 DEF Verdicts, PastBlocked, Counted
<1>4. counter.exhausted = Counted("reason", LAMBDA d : d.reason = "budget")
  BY <1>1 DEF Reasons, PastExhausted, Counted
<1>5. counter.errors = Counted("reason", LAMBDA d : d.reason \in Errors)
  BY <1>1 DEF Reasons, PastErrors, Counted
<1>6. counter.maxNs = Max({0} \cup {Of(d).ns : d \in Past("swap")})
  <2> DEFINE m == counter["maxNs"]
             S == {0} \cup {Of(d).ns : d \in Past("swap")}
  <2>1. m \in Int
    BY DEF Types, Counters
  <2>2. m \in S /\ \A s \in S : s <= m
    BY <1>1, <2>1 DEF Longest
  <2>3. \A s \in S : s \in Int
    <3> SUFFICES ASSUME NEW d \in Past("swap") PROVE Of(d).ns \in Int
      OBVIOUS
    <3>1. d \in PastOf(at, nth, "swap")
      BY PastIs
    <3>2. PICK q \in Servers : \E n \in DOMAIN Decisions[q] : d = <<q, n>>
      BY <3>1, PastOfIs
    <3>3. PICK n \in DOMAIN Decisions[q] : d = <<q, n>>
      BY <3>2
    <3>4. QED
      BY <3>3, DecisionIs DEF Of
  <2> HIDE DEF S, m
  <2>4. S \in SUBSET Int /\ S # {}
    BY <2>2, <2>3
  <2>5. Max(S) \in S /\ \A s \in S : s <= Max(S)
    BY <2>1, <2>2, <2>4, Largest
  <2> DEFINE x == Max(S)
  <2>6. x \in S /\ m <= x
    BY <2>2, <2>5
  <2> HIDE DEF x
  <2>7. x \in Int /\ x <= m
    BY <2>2, <2>3, <2>6
  <2>8. m = x
    BY <2>1, <2>6, <2>7
  <2>9. QED
    BY <2>8 DEF m, S, x
<1>7. ASSUME NEW r \in DOMAIN byRule PROVE byRule[r] = Counted("byRule", LAMBDA d : d.rule = r)
  <2>1. r \in Nat \ {0} /\ Lookup(byRule, r) = byRule[r]
    BY <1>1 DEF Matches, Types, IsCounts, Lookup
  <2>2. byRule[r] = Cardinality(PastRule(r))
    BY <1>1, <2>1 DEF Matches
  <2>3. QED
    BY <2>2 DEF PastRule, Counted
<1>8. QED
  BY <1>2, <1>3, <1>4, <1>5, <1>6, <1>7

-----------------------------------------------------------------------------
(* The lines of a sink *)

LEMMA WantedIs ==
  ASSUME NEW p, NEW s
  PROVE  Wanted(s, p, nth[p]) <=> ~Dropped(Sinks[s], NewRecord(p))
BY DEF Wanted, Dropped, NewRecord, Decision

LEMMA LinesAre ==
  ASSUME Types, NEW s \in DOMAIN Sinks
  PROVE  /\ lines[s] \in Seq(Written) /\ DOMAIN lines[s] = 1..Len(lines[s]) /\ Len(lines[s]) \in Nat
         /\ lines[s] # <<>> <=> Len(lines[s]) > 0
         /\ \A p, n : IsFiniteSet(Whole(s, p, n)) /\ Cardinality(Whole(s, p, n)) \in Nat
<1>1. lines[s] \in Seq(Written)
  BY DEF Types
<1>2. DOMAIN lines[s] = 1..Len(lines[s]) /\ Len(lines[s]) \in Nat /\ (lines[s] # <<>> <=> Len(lines[s]) > 0)
  BY <1>1
<1>3. IsFiniteSet(DOMAIN lines[s])
  BY <1>2, FS_Interval
<1>4. \A p, n : Whole(s, p, n) \in SUBSET DOMAIN lines[s]
  BY DEF Whole
<1>5. QED
  BY <1>1, <1>2, <1>3, <1>4, FS_Subset, FS_CardinalityType

\* A sink that a step does not write to, and that nobody it concerns leaves behind.
LEMMA SinkQuiet ==
  ASSUME NEW s \in DOMAIN Sinks, Recorded(s), lines'[s] = lines[s],
         \A q \in Servers : (Writing(q, s)' <=> Writing(q, s)) /\ (Writing(q, s) => nth'[q] = nth[q]),
         \A q \in Servers : \A n \in DOMAIN Decisions[q] : Wanted(s, q, n) => (Gone(s, q, n)' <=> Gone(s, q, n))
  PROVE  Recorded(s)'
<1> SUFFICES ASSUME ~Sinks[s].fails PROVE Resting(s)' /\ LinesWhole(s)' /\ Once(s)'
  BY DEF Recorded
<1>1. Resting(s) /\ LinesWhole(s) /\ Once(s)
  BY DEF Recorded
<1>2. \A q \in Servers : Writing(q, s) => NewRecord(q)' = NewRecord(q)
  BY DEF NewRecord, Decision
<1>3. Resting(s)'
  BY <1>1, <1>2 DEF Resting
<1>4. LinesWhole(s)'
  BY <1>1 DEF LinesWhole
<1>5. \A q, n : Whole(s, q, n)' = Whole(s, q, n)
  BY DEF Whole
<1>6. \A q, n : Wanted(s, q, n)' <=> Wanted(s, q, n)
  BY DEF Wanted, Dropped
<1>7. Once(s)'
  <2> SUFFICES ASSUME NEW q \in Servers, NEW n \in DOMAIN Decisions[q]
               PROVE  Cardinality(Whole(s, q, n))' = IF Wanted(s, q, n)' /\ Gone(s, q, n)' THEN 1 ELSE 0
    BY DEF Once
  <2>1. Cardinality(Whole(s, q, n)) = IF Wanted(s, q, n) /\ Gone(s, q, n) THEN 1 ELSE 0
    BY <1>1 DEF Once
  <2>2. Cardinality(Whole(s, q, n))' = Cardinality(Whole(s, q, n))
    BY <1>5
  <2>3. (Wanted(s, q, n)' /\ Gone(s, q, n)') <=> (Wanted(s, q, n) /\ Gone(s, q, n))
    BY <1>6
  <2>4. QED
    BY <2>1, <2>2, <2>3
<1>8. QED
  BY <1>3, <1>4, <1>7

\* What a half written does to its sink.
LEMMA HalfWritten ==
  ASSUME Types, NEW p \in Servers, at[p] # "idle", NEW h \in {1, 2}, Writes(p, h), sink[p] \in DOMAIN Sinks
  PROVE  LET s == sink[p] r == [record |-> NewRecord(p), half |-> h] IN
         /\ \A t \in DOMAIN Sinks : t # s => lines'[t] = lines[t]
         /\ Len(lines'[s]) = Len(lines[s]) + 1 /\ DOMAIN lines'[s] = 1..(Len(lines[s]) + 1)
         /\ lines'[s][Len(lines[s]) + 1] = r
         /\ \A i \in 1..Len(lines[s]) : lines'[s][i] = lines[s][i]
         /\ Len(lines[s]) \in Nat /\ DOMAIN lines[s] = 1..Len(lines[s])
<1> DEFINE s == sink[p]
           r == [record |-> NewRecord(p), half |-> h]
<1>1. r \in Written
  BY RecordIs
<1>2. lines \in [DOMAIN Sinks -> Seq(Written)]
  BY DEF Types
<1>3. lines' = [lines EXCEPT ![s] = Append(lines[s], r)]
  BY DEF Writes
<1> HIDE DEF r
<1>4. lines'[s] = Append(lines[s], r) /\ \A t \in DOMAIN Sinks : t # s => lines'[t] = lines[t]
  BY <1>2, <1>3
<1>5. lines[s] \in Seq(Written)
  BY <1>2
<1>6. /\ Len(lines'[s]) = Len(lines[s]) + 1 /\ DOMAIN lines'[s] = 1..(Len(lines[s]) + 1)
      /\ lines'[s][Len(lines[s]) + 1] = r
      /\ \A i \in 1..Len(lines[s]) : lines'[s][i] = lines[s][i]
      /\ Len(lines[s]) \in Nat /\ DOMAIN lines[s] = 1..Len(lines[s])
  BY <1>1, <1>4, <1>5
<1>7. QED
  BY <1>4, <1>6 DEF r

\* Only one server writes to a sink at a time.
LEMMA OneWriter ==
  ASSUME SinksHeld, NEW p \in Servers, NEW q \in Servers,
         at[p] \in {"line", "rest"}, at[q] \in {"line", "rest"}, sink[p] = sink[q]
  PROVE  p = q
BY DEF SinksHeld

LEMMA StartRecorded ==
  ASSUME Types, SinksHeld, NEW p \in Servers, StartLine(p), Recorded(sink[p])
  PROVE  Recorded(sink[p])'
<1> DEFINE s == sink[p]
           L == Len(lines[s])
<1>1. /\ at[p] = "line" /\ at'[p] = "rest" /\ \A q \in Servers : q # p => at'[q] = at[q]
      /\ UNCHANGED <<nth, sink>> /\ Writes(p, 1)
  BY DEF StartLine, Goes, Types
<1>2. s \in DOMAIN Sinks
  BY <1>1 DEF SinksHeld
<1>3. /\ Len(lines'[s]) = L + 1 /\ DOMAIN lines'[s] = 1..(L + 1)
      /\ lines'[s][L + 1] = [record |-> NewRecord(p), half |-> 1]
      /\ \A i \in 1..L : lines'[s][i] = lines[s][i]
      /\ L \in Nat /\ DOMAIN lines[s] = 1..L
  BY <1>1, <1>2, HalfWritten
<1>4. (lines[s] # <<>> <=> L > 0)
  BY <1>2, LinesAre
<1>5. \A q \in Servers : NewRecord(q)' = NewRecord(q)
  BY <1>1 DEF NewRecord, Decision
<1>6. \A q \in Servers : ~Writing(q, s)
  BY <1>1, OneWriter DEF Writing
<1>7. \A q \in Servers : Writing(q, s)' <=> q = p
  BY <1>1, <1>6 DEF Writing
<1>8. SUFFICES ASSUME ~Sinks[s].fails PROVE (Resting(s) /\ LinesWhole(s) /\ Once(s))'
  BY <1>1 DEF Recorded
<1>9. Resting(s) /\ LinesWhole(s) /\ Once(s)
  BY <1>8 DEF Recorded
<1> DEFINE K == Len(lines'[s])
<1> HIDE DEF s, L
<1>10. Resting(s)'
  <2>1. lines'[s] # <<>>
    <3>1. lines'[s] # <<>>
      BY <1>3
    <3>2. QED
      BY <3>1
  <2>2. \A q \in Servers : Writing(q, s)' =>
          lines'[s] # <<>> /\ lines'[s][Len(lines'[s])] = [record |-> NewRecord(q)', half |-> 1]
    BY <1>3, <1>5, <1>7, <2>1
  <2>3. \E q \in Servers : Writing(q, s)'
    BY <1>7
  <2>4. s' = s
    BY <1>1 DEF s
  <2>5. QED
    BY <2>2, <2>3, <2>4 DEF Resting, Writing
<1>11. \A i \in 1..L : lines[s][i].half = 1 => i # L
  BY <1>3, <1>4, <1>6, <1>9 DEF Resting
<1>12. LinesWhole(s)'
  <2>1. \A i \in 1..L : lines[s][i].half = 1 =>
          i # L /\ lines[s][i + 1] = [record |-> lines[s][i].record, half |-> 2]
    BY <1>3, <1>9, <1>11 DEF LinesWhole, L
  <2>2. \A i \in 1..(L + 1) : lines'[s][i].half = 1 =>
          i = L + 1 \/ lines'[s][i + 1] = [record |-> lines'[s][i].record, half |-> 2]
    <3> SUFFICES ASSUME NEW i \in 1..(L + 1), lines'[s][i].half = 1, i # L + 1
                 PROVE  lines'[s][i + 1] = [record |-> lines'[s][i].record, half |-> 2]
      OBVIOUS
    <3>1. i \in 1..L /\ lines'[s][i] = lines[s][i]
      BY <1>3
    <3>2. i # L /\ lines[s][i + 1] = [record |-> lines[s][i].record, half |-> 2]
      BY <2>1, <3>1
    <3>3. i + 1 \in 1..L
      BY <1>3, <3>1, <3>2
    <3>4. QED
      BY <1>3, <3>1, <3>2, <3>3
  <2>3. s' = s
    BY <1>1 DEF s
  <2>4. QED
    BY <1>3, <2>2, <2>3 DEF LinesWhole
<1>13. Once(s)'
  <2>1. \A q, n : Whole(s, q, n)' = Whole(s, q, n)
    <3> SUFFICES ASSUME NEW q, NEW n PROVE Whole(s, q, n)' = Whole(s, q, n)
      OBVIOUS
    <3>1. lines'[s][L + 1].half = 1
      BY <1>3
    <3>2. s' = s
      BY <1>1 DEF s
    <3>3. \A i \in 1..(L + 1) : (lines'[s][i].half = 2 /\ lines'[s][i].record.by = q /\ lines'[s][i].record.nth = n)
            <=> (i \in 1..L /\ lines[s][i].half = 2 /\ lines[s][i].record.by = q /\ lines[s][i].record.nth = n)
      <4> TAKE i \in 1..(L + 1)
      <4>1. CASE i = L + 1
        BY <1>3, <3>1, <4>1
      <4>2. CASE i # L + 1
        <5>1. i \in 1..L
          BY <1>3, <4>2
        <5>2. QED
          BY <1>3, <5>1
      <4>3. QED
        BY <4>1, <4>2
    <3>4. \A i \in 1..L : i \in 1..(L + 1)
      BY <1>3
    <3>5. QED
      BY <1>3, <3>2, <3>3, <3>4 DEF Whole
  <2>2. \A q, n : (Wanted(s, q, n)' <=> Wanted(s, q, n)) /\ (Gone(s, q, n)' <=> Gone(s, q, n))
    BY <1>1 DEF Wanted, Dropped, Gone, s
  <2>3. QED
    BY <1>9, <2>1, <2>2 DEF Once
<1>14. QED
  BY <1>10, <1>12, <1>13

LEMMA EndRecorded ==
  ASSUME Types, SinksHeld, WritesWanted, NEW p \in Servers, EndLine(p), Recorded(sink[p])
  PROVE  /\ ~Sinks[sink[p]].fails => Writes(p, 2)
         /\ \A s \in DOMAIN Sinks : s = sink[p] => Recorded(s)'
<1> DEFINE s == sink[p]
           L == Len(lines[s])
           n == nth[p]
<1>1. /\ Goes(p, "rest", "sink") /\ (Passed(p, FALSE) \/ Passed(p, TRUE)) /\ UNCHANGED nth
      /\ ~Sinks[sink[p]].fails => Writes(p, 2)
  BY DEF EndLine
<1>2. at[p] = "rest" /\ at'[p] = "sink" /\ \A q \in Servers : q # p => at'[q] = at[q]
  BY <1>1, Moved DEF Steps
<1>3. s \in DOMAIN Sinks /\ sink[p] \in Nat
  BY <1>2 DEF SinksHeld, Types
<1>4. sink'[p] = sink[p] + 1 /\ \A q \in Servers : q # p => sink'[q] = sink[q]
  BY <1>1, Passing DEF Types
<1>5. SUFFICES ASSUME ~Sinks[s].fails, NEW t \in DOMAIN Sinks, t = s PROVE Recorded(t)'
  BY <1>1 DEF Recorded
<1>6. SUFFICES (Resting(t) /\ LinesWhole(t) /\ Once(t))'
  BY DEF Recorded
<1>7. Resting(s) /\ LinesWhole(s) /\ Once(s)
  BY <1>5 DEF Recorded
<1>8. /\ Len(lines'[s]) = L + 1 /\ DOMAIN lines'[s] = 1..(L + 1)
      /\ lines'[s][L + 1] = [record |-> NewRecord(p), half |-> 2]
      /\ \A i \in 1..L : lines'[s][i] = lines[s][i]
      /\ L \in Nat /\ DOMAIN lines[s] = 1..L
  BY <1>1, <1>2, <1>3, <1>5, HalfWritten
<1>9. Writing(p, s)
  BY <1>2 DEF Writing
<1>10. lines[s] # <<>> /\ lines[s][L] = [record |-> NewRecord(p), half |-> 1]
  BY <1>7, <1>9 DEF Resting
<1>11. L > 0
  BY <1>3, <1>10, LinesAre
<1>12. \A q \in Servers : Writing(q, s) => q = p
  BY <1>2, OneWriter DEF Writing
<1>13. \A q \in Servers : ~(at'[q] = "rest" /\ sink'[q] = s)
  BY <1>2, <1>4, <1>12 DEF Writing
<1>14. Wanted(s, p, n)
  BY <1>2 DEF WritesWanted
<1>15. LinesWhole(s) /\ Once(s)
  BY <1>7
<1>16. \A i \in 1..L : lines[s][i].half = 1 =>
         i = L \/ lines[s][i + 1] = [record |-> lines[s][i].record, half |-> 2]
  BY <1>8, <1>15 DEF LinesWhole
<1>17. n \in DOMAIN Decisions[p] /\ n \in Nat /\ nth' = nth
  BY <1>1, <1>2, DecisionOf
<1>18. \A q \in Servers : \A m \in DOMAIN Decisions[q] :
         Cardinality(Whole(s, q, m)) = IF Wanted(s, q, m) /\ Gone(s, q, m) THEN 1 ELSE 0
  BY <1>15 DEF Once
<1>19. NewRecord(p).by = p /\ NewRecord(p).nth = n
  BY DEF NewRecord
<1>20. \A q, m : IsFiniteSet(Whole(s, q, m)) /\ Cardinality(Whole(s, q, m)) \in Nat
  BY <1>3, LinesAre
<1>21. ~Gone(s, p, n)
  BY <1>3, <1>17 DEF Gone
<1> DEFINE old(q, m) == Whole(s, q, m)
           new(q, m) == {i \in 1..(L + 1) : lines'[s][i].half = 2
                           /\ lines'[s][i].record.by = q /\ lines'[s][i].record.nth = m}
<1>22. \A q, m : Whole(t, q, m)' = new(q, m)
  BY <1>5, <1>8 DEF Whole
<1>23. \A q, m : old(q, m) = {i \in 1..L : lines[s][i].half = 2
                                 /\ lines[s][i].record.by = q /\ lines[s][i].record.nth = m}
  BY <1>8 DEF Whole
<1> HIDE DEF s, L, n
<1>24. lines'[s][L + 1].half = 2 /\ lines'[s][L + 1].record = NewRecord(p)
  BY <1>8
<1>25. \A i : i \in 1..(L + 1) <=> i \in 1..L \/ i = L + 1
  BY <1>8
<1>26. L + 1 \notin 1..L
  BY <1>8
<1>27. new(p, n) = old(p, n) \cup {L + 1} /\ L + 1 \notin old(p, n)
  BY SMTT(30), <1>8, <1>19, <1>23, <1>24, <1>25, <1>26
<1>28. \A q, m : ~(q = p /\ m = n) => new(q, m) = old(q, m)
  <2> SUFFICES ASSUME NEW q, NEW m, ~(q = p /\ m = n) PROVE new(q, m) = old(q, m)
    OBVIOUS
  <2>1. ~(lines'[s][L + 1].record.by = q /\ lines'[s][L + 1].record.nth = m)
    BY <1>19, <1>24
  <2>2. QED
    BY SMTT(30), <1>8, <1>23, <1>25, <2>1
<1> HIDE DEF new, old
<1>29. Cardinality(old(p, n)) = 0
  BY <1>17, <1>18, <1>21 DEF old
<1>30. Cardinality(new(p, n)) = 1
  BY <1>20, <1>27, <1>29, OneElement DEF old
<1>31. Resting(t)'
  <2>1. lines'[s][Len(lines'[s])].half = 2
    BY <1>8, <1>24
  <2>2. \A q \in Servers : ~Writing(q, t)'
    BY <1>5, <1>13 DEF Writing
  <2>3. QED
    BY <1>5, <2>1, <2>2 DEF Resting
<1>32. LinesWhole(t)'
  <2>1. ASSUME NEW i \in 1..(L + 1), lines'[s][i].half = 1, i # L + 1
        PROVE  lines'[s][i + 1] = [record |-> lines'[s][i].record, half |-> 2]
    <3>1. i \in 1..L /\ lines'[s][i] = lines[s][i]
      BY <1>8, <1>25, <2>1
    <3>2. CASE i = L
      BY <1>8, <1>10, <3>1, <3>2
    <3>3. CASE i # L
      <4>1. lines[s][i + 1] = [record |-> lines[s][i].record, half |-> 2]
        BY <1>16, <2>1, <3>1, <3>3
      <4>2. i + 1 \in 1..L
        BY <1>8, <3>1, <3>3
      <4>3. QED
        BY <1>8, <3>1, <4>1, <4>2
    <3>4. QED
      BY <3>2, <3>3
  <2>2. QED
    BY <1>5, <1>8, <2>1 DEF LinesWhole
<1>33. Once(t)'
  <2> SUFFICES ASSUME NEW q \in Servers, NEW m \in DOMAIN Decisions[q]
               PROVE  Cardinality(Whole(t, q, m))' = IF Wanted(t, q, m)' /\ Gone(t, q, m)' THEN 1 ELSE 0
    BY DEF Once
  <2>1. Cardinality(Whole(t, q, m))' = Cardinality(new(q, m))
    BY <1>22
  <2>2. Wanted(t, q, m)' <=> Wanted(s, q, m)
    BY <1>5 DEF Wanted, Dropped
  <2>3. CASE q = p /\ m = n
    <3>1. Gone(t, q, m)'
      BY <1>3, <1>4, <1>5, <1>17, <2>3 DEF Gone, s, n
    <3>2. Wanted(s, q, m) /\ Cardinality(new(q, m)) = 1
      BY <1>14, <1>30, <2>3
    <3>3. QED
      BY <2>1, <2>2, <3>1, <3>2
  <2>4. CASE ~(q = p /\ m = n)
    <3>1. Gone(t, q, m)' <=> Gone(s, q, m)
      BY <1>4, <1>5, <1>17, <2>4 DEF Gone, n
    <3>2. Cardinality(new(q, m)) = Cardinality(Whole(s, q, m))
      BY <1>28, <2>4 DEF old
    <3>3. QED
      BY <1>18, <2>1, <2>2, <3>1, <3>2
  <2>5. QED
    BY <2>3, <2>4
<1>34. QED
  BY <1>31, <1>32, <1>33

\* A step that neither writes, nor goes on to a sink, nor to a decision.
LEMMA AllQuiet ==
  ASSUME Recording, UNCHANGED <<lines, nth, sink>>, \A q \in Servers : at'[q] = "rest" <=> at[q] = "rest"
  PROVE  Recording'
<1>1. \A q, s : Writing(q, s)' <=> at'[q] = "rest" /\ sink[q] = s
  BY DEF Writing
<1>2. \A s, q, n : Gone(s, q, n)' <=> Gone(s, q, n)
  BY DEF Gone
<1>3. ASSUME NEW s \in DOMAIN Sinks PROVE Recorded(s)'
  <2>1. Recorded(s) /\ lines'[s] = lines[s]
    BY DEF Recording
  <2>2. \A q \in Servers : (Writing(q, s)' <=> Writing(q, s)) /\ nth'[q] = nth[q]
    BY <1>1 DEF Writing
  <2>3. QED
    BY <1>2, <2>1, <2>2, SinkQuiet
<1>4. QED
  BY <1>3 DEF Recording

LEMMA RecordingKept ==
  ASSUME Types, SinksHeld, WritesWanted, Recording, [Next]_vars
  PROVE  Recording'
<1>1. ASSUME NEW p \in Servers, Observe(p) PROVE Recording'
  <2>1. UNCHANGED <<lines, nth, sink>>
    BY <1>1 DEF Observe, Count, CountVerdict, CountReason, AddNanos, LoadMax, SwapMax, LockRules, CountRule, CountSeverity, writing
  <2>2. \A q \in Servers : at'[q] = "rest" <=> at[q] = "rest"
    BY <1>1 DEF Observe, Count, CountVerdict, CountReason, AddNanos, LoadMax, SwapMax, LockRules, CountRule, CountSeverity, Goes, Again, Types
  <2>3. QED
    BY <2>1, <2>2, AllQuiet
<1>2. ASSUME NEW p \in Servers, SkipSink(p) PROVE Recording'
  <2>1. /\ Goes(p, "sink", "sink") /\ Passed(p, FALSE) /\ UNCHANGED <<lines, nth>>
        /\ sink[p] \in DOMAIN Sinks /\ Dropped(Sinks[sink[p]], NewRecord(p))
    BY <1>2 DEF SkipSink, writing
  <2>2. at[p] = "sink" /\ at'[p] = "sink" /\ \A q \in Servers : q # p => at'[q] = at[q]
    BY <2>1, Moved DEF Steps
  <2>3. sink'[p] = sink[p] + 1 /\ \A q \in Servers : q # p => sink'[q] = sink[q]
    BY <2>1, Passing DEF Types
  <2>4. ~Wanted(sink[p], p, nth[p])
    BY <2>1, WantedIs
  <2>5. nth[p] \in Nat /\ sink[p] \in Nat
    BY DEF Types
  <2>6. ASSUME NEW s \in DOMAIN Sinks PROVE Recorded(s)'
    <3>1. Recorded(s) /\ lines'[s] = lines[s] /\ s \in Nat
      BY <2>1, SinksAre DEF Recording
    <3>2. \A q \in Servers : (Writing(q, s)' <=> Writing(q, s)) /\ nth'[q] = nth[q]
      BY <2>1, <2>2, <2>3 DEF Writing
    <3>3. ASSUME NEW q \in Servers, NEW n \in DOMAIN Decisions[q], Wanted(s, q, n)
          PROVE  Gone(s, q, n)' <=> Gone(s, q, n)
      BY <2>1, <2>3, <2>4, <2>5, <3>1, <3>3 DEF Gone
    <3>4. QED
      BY <3>1, <3>2, <3>3, SinkQuiet
  <2>7. QED
    BY <2>6 DEF Recording
<1>3. ASSUME NEW p \in Servers, LockSink(p) PROVE Recording'
  <2>1. UNCHANGED <<lines, nth, sink>> /\ \A q \in Servers : at'[q] = "rest" <=> at[q] = "rest"
    BY <1>3 DEF LockSink, Goes, Types
  <2>2. QED
    BY <2>1, AllQuiet
<1>4. ASSUME NEW p \in Servers, StartLine(p) PROVE Recording'
  <2>1. Goes(p, "line", "rest") /\ Writes(p, 1) /\ UNCHANGED <<nth, sink>>
    BY <1>4 DEF StartLine
  <2>2. at[p] = "line" /\ at'[p] = "rest" /\ \A q \in Servers : q # p => at'[q] = at[q]
    BY <2>1, Moved DEF Steps
  <2>3. sink[p] \in DOMAIN Sinks
    BY <2>2 DEF SinksHeld
  <2>4. Recorded(sink[p])'
    BY <1>4, <2>3, StartRecorded DEF Recording
  <2>5. ASSUME NEW s \in DOMAIN Sinks, s # sink[p] PROVE Recorded(s)'
    <3>1. Recorded(s) /\ lines'[s] = lines[s]
      BY <2>1, <2>2, <2>3, <2>5, HalfWritten DEF Recording
    <3>2. \A q \in Servers : (Writing(q, s)' <=> Writing(q, s)) /\ nth'[q] = nth[q]
      BY <2>1, <2>2, <2>5 DEF Writing
    <3>3. \A q \in Servers : \A n \in DOMAIN Decisions[q] : Gone(s, q, n)' <=> Gone(s, q, n)
      BY <2>1 DEF Gone
    <3>4. QED
      BY <3>1, <3>2, <3>3, SinkQuiet
  <2>6. ASSUME NEW s \in DOMAIN Sinks, s = sink[p] PROVE Recorded(s)'
    <3>1. sink'[p] = sink[p]
      BY <2>1
    <3>2. QED
      BY <2>4, <2>6, <3>1 DEF Recorded, Resting, LinesWhole, Once, Writing, Whole, Gone, Wanted, Dropped
  <2>7. QED
    BY <2>5, <2>6 DEF Recording
<1>5. ASSUME NEW p \in Servers, EndLine(p) PROVE Recording'
  <2>1. /\ Goes(p, "rest", "sink") /\ (Passed(p, FALSE) \/ Passed(p, TRUE)) /\ UNCHANGED nth
        /\ Writes(p, 2) \/ lines' = lines
    BY <1>5 DEF EndLine
  <2>2. at[p] = "rest" /\ at'[p] = "sink" /\ \A q \in Servers : q # p => at'[q] = at[q]
    BY <2>1, Moved DEF Steps
  <2>3. sink[p] \in DOMAIN Sinks /\ sink[p] \in Nat /\ nth[p] \in Nat
    BY <2>2 DEF SinksHeld, Types
  <2>4. sink'[p] = sink[p] + 1 /\ \A q \in Servers : q # p => sink'[q] = sink[q]
    BY <2>1, Passing DEF Types
  <2>5. ASSUME NEW s \in DOMAIN Sinks, s # sink[p] PROVE Recorded(s)'
    <3>1. Recorded(s) /\ s \in Nat
      BY SinksAre DEF Recording
    <3>2. lines'[s] = lines[s]
      BY <2>1, <2>2, <2>3, <2>5, HalfWritten
    <3>3. \A q \in Servers : (Writing(q, s)' <=> Writing(q, s)) /\ nth'[q] = nth[q]
      BY <2>1, <2>2, <2>4, <2>5 DEF Writing
    <3>4. \A q \in Servers : \A n \in DOMAIN Decisions[q] : Gone(s, q, n)' <=> Gone(s, q, n)
      BY <2>1, <2>3, <2>4, <2>5, <3>1 DEF Gone
    <3>5. QED
      BY <3>1, <3>2, <3>3, <3>4, SinkQuiet
  <2>6. ASSUME NEW s \in DOMAIN Sinks, s = sink[p] PROVE Recorded(s)'
    <3>1. Recorded(sink[p])
      BY <2>3 DEF Recording
    <3>2. QED
      BY <1>5, <2>6, <3>1, EndRecorded
  <2>7. QED
    BY <2>5, <2>6 DEF Recording
<1>6. ASSUME NEW p \in Servers, Finish(p) PROVE Recording'
  <2>1. /\ Goes(p, "sink", "idle") /\ UNCHANGED lines /\ sink[p] > Len(Sinks)
        /\ nth' = [nth EXCEPT ![p] = nth[p] + 1] /\ sink' = [sink EXCEPT ![p] = 1]
    BY <1>6 DEF Finish, writing
  <2>2. at[p] = "sink" /\ at'[p] = "idle" /\ \A q \in Servers : q # p => at'[q] = at[q]
    BY <2>1, Moved DEF Steps
  <2>3. /\ nth[p] \in Nat /\ sink[p] \in Nat /\ nth'[p] = nth[p] + 1 /\ sink'[p] = 1
        /\ \A q \in Servers : q # p => nth'[q] = nth[q] /\ sink'[q] = sink[q]
    BY <2>1 DEF Types
  <2>4. ASSUME NEW s \in DOMAIN Sinks PROVE Recorded(s)'
    <3>1. Recorded(s) /\ lines'[s] = lines[s] /\ s \in 1..Len(Sinks) /\ Len(Sinks) \in Nat
      BY <2>1, SinksAre DEF Recording
    <3>2. \A q \in Servers : (Writing(q, s)' <=> Writing(q, s)) /\ (Writing(q, s) => nth'[q] = nth[q])
      BY <2>2, <2>3 DEF Writing
    <3>3. ASSUME NEW q \in Servers, NEW n \in DOMAIN Decisions[q]
          PROVE  Gone(s, q, n)' <=> Gone(s, q, n)
      <4>1. n \in Nat
        BY DecisionIs
      <4>2. QED
        BY <2>1, <2>3, <3>1, <4>1 DEF Gone
    <3>4. QED
      BY <3>1, <3>2, <3>3, SinkQuiet
  <2>5. QED
    BY <2>4 DEF Recording
<1>7. ASSUME Snapshot \/ Reset \/ UNCHANGED vars PROVE Recording'
  <2>1. UNCHANGED <<lines, nth, sink, at>>
    BY <1>7 DEF Snapshot, ReadCounter, ReadMaps, Reset, BeginReset, ResetCounter, ResetMaps, vars, serving, writing
  <2>2. QED
    BY <2>1, AllQuiet
<1>8. QED
  BY <1>1, <1>2, <1>3, <1>4, <1>5, <1>6, <1>7 DEF Next, Audit, Idle

LEMMA WritesWantedKept ==
  ASSUME Types, SinksHeld, WritesWanted, [Next]_vars
  PROVE  WritesWanted'
<1>0. \A s, q, n : Wanted(s, q, n)' <=> Wanted(s, q, n)
  BY DEF Wanted, Dropped
<1>1. ASSUME NEW p \in Servers, Observe(p) PROVE WritesWanted'
  <2>1. UNCHANGED <<nth, sink>>
    BY <1>1 DEF Observe, Count, CountVerdict, CountReason, AddNanos, LoadMax, SwapMax, LockRules, CountRule, CountSeverity
  <2>2. \A q \in Servers : at'[q] \in {"line", "rest"} => at[q] \in {"line", "rest"}
    BY <1>1 DEF Observe, Count, CountVerdict, CountReason, AddNanos, LoadMax, SwapMax, LockRules, CountRule, CountSeverity, Goes, Again, Types
  <2>3. QED
    BY <2>1, <2>2 DEF WritesWanted, Wanted, Dropped
<1>2. ASSUME NEW p \in Servers, SkipSink(p) \/ EndLine(p) \/ Finish(p) PROVE WritesWanted'
  <2>1. Goes(p, "sink", "sink") \/ Goes(p, "rest", "sink") \/ Goes(p, "sink", "idle")
    BY <1>2 DEF SkipSink, EndLine, Finish
  <2>2. at'[p] \notin {"line", "rest"} /\ \A q \in Servers : q # p => at'[q] = at[q]
    BY <2>1, Moved DEF Steps
  <2>3. \A q \in Servers : q # p => nth'[q] = nth[q] /\ sink'[q] = sink[q]
    BY <1>2 DEF SkipSink, EndLine, Finish, Passed, Types
  <2>4. QED
    BY <2>2, <2>3 DEF WritesWanted, Wanted, Dropped
<1>3. ASSUME NEW p \in Servers, LockSink(p) PROVE WritesWanted'
  <2>1. UNCHANGED <<nth, sink>> /\ \A q \in Servers : q # p => at'[q] = at[q]
    BY <1>3 DEF LockSink, Goes, Types
  <2>2. Wanted(sink[p], p, nth[p])
    BY <1>3, WantedIs DEF LockSink
  <2>3. QED
    BY <2>1, <2>2 DEF WritesWanted, Wanted, Dropped
<1>4. ASSUME NEW p \in Servers, StartLine(p) PROVE WritesWanted'
  <2>1. UNCHANGED <<nth, sink>> /\ at[p] = "line" /\ \A q \in Servers : q # p => at'[q] = at[q]
    BY <1>4 DEF StartLine, Goes, Types
  <2>2. QED
    BY <2>1 DEF WritesWanted, Wanted, Dropped
<1>5. ASSUME Snapshot \/ Reset \/ UNCHANGED vars PROVE WritesWanted'
  <2>1. UNCHANGED <<nth, sink, at>>
    BY <1>5 DEF Snapshot, ReadCounter, ReadMaps, Reset, BeginReset, ResetCounter, ResetMaps, vars, serving
  <2>2. QED
    BY <2>1 DEF WritesWanted, Wanted, Dropped
<1>6. QED
  BY <1>1, <1>2, <1>3, <1>4, <1>5 DEF Next, Audit, Idle

LEMMA PathsBoundedKept ==
  ASSUME Types, SinksHeld, PathsBounded, [Next]_vars
  PROVE  PathsBounded'
<1>1. ASSUME NEW p \in Servers, NEW h \in {1, 2}, at[p] \in {"line", "rest"}, Writes(p, h)
      PROVE  PathsBounded'
  <2>1. sink[p] \in DOMAIN Sinks
    BY <1>1 DEF SinksHeld
  <2>2. Width(Unmarked(NewRecord(p).path)) <= MaxPath
    BY <1>1, RecordIs
  <2> DEFINE s == sink[p]
             L == Len(lines[s])
  <2>3. /\ \A t \in DOMAIN Sinks : t # s => lines'[t] = lines[t]
        /\ DOMAIN lines'[s] = 1..(L + 1)
        /\ lines'[s][L + 1] = [record |-> NewRecord(p), half |-> h]
        /\ \A i \in 1..L : lines'[s][i] = lines[s][i]
        /\ L \in Nat /\ DOMAIN lines[s] = 1..L
    BY <1>1, <2>1, HalfWritten
  <2> HIDE DEF s, L
  <2>4. ASSUME NEW t \in DOMAIN Sinks, NEW i \in DOMAIN lines'[t]
        PROVE  Width(Unmarked(lines'[t][i].record.path)) <= MaxPath
    <3>1. CASE t # s
      BY <2>3, <2>4, <3>1 DEF PathsBounded
    <3>2. CASE t = s /\ i = L + 1
      <4>1. lines'[t][i].record = NewRecord(p)
        BY <2>3, <3>2
      <4>2. QED
        BY <2>2, <4>1
    <3>3. CASE t = s /\ i # L + 1
      <4>1. i \in 1..L
        BY <2>3, <3>3
      <4>2. QED
        BY <2>3, <3>3, <4>1 DEF PathsBounded
    <3>4. QED
      BY <3>1, <3>2, <3>3
  <2>5. QED
    BY <2>4 DEF PathsBounded
<1>2. ASSUME UNCHANGED lines PROVE PathsBounded'
  BY <1>2 DEF PathsBounded
<1>3. ASSUME NEW p \in Servers, Observe(p) \/ SkipSink(p) \/ LockSink(p) \/ Finish(p) PROVE UNCHANGED lines
  BY <1>3 DEF Observe, Count, CountVerdict, CountReason, AddNanos, LoadMax, SwapMax, LockRules, CountRule, CountSeverity, SkipSink, LockSink, Finish, writing
<1>4. ASSUME NEW p \in Servers, StartLine(p) \/ EndLine(p) PROVE PathsBounded'
  <2>1. at[p] \in {"line", "rest"} /\ (Writes(p, 1) \/ Writes(p, 2) \/ UNCHANGED lines)
    BY <1>4 DEF StartLine, EndLine, Goes
  <2>2. QED
    BY <1>1, <1>2, <2>1
<1>5. ASSUME Snapshot \/ Reset \/ UNCHANGED vars PROVE UNCHANGED lines
  BY <1>5 DEF Snapshot, ReadCounter, ReadMaps, Reset, BeginReset, ResetCounter, ResetMaps, vars, writing
<1>6. QED
  BY <1>2, <1>3, <1>4, <1>5 DEF Next, Audit, Idle

LEMMA RecordingStart == Init => WritesWanted /\ PathsBounded /\ Recording
<1> SUFFICES ASSUME Init PROVE WritesWanted /\ PathsBounded /\ Recording
  OBVIOUS
<1>1. \A s \in DOMAIN Sinks : lines[s] = <<>> /\ DOMAIN lines[s] = {}
  BY DEF Init
<1>2. WritesWanted
  BY DEF WritesWanted, Init
<1>3. PathsBounded
  BY <1>1 DEF PathsBounded
<1>4. ASSUME NEW s \in DOMAIN Sinks PROVE Recorded(s)
  <2>1. Resting(s)
    BY <1>1 DEF Resting, Writing, Init
  <2>2. LinesWhole(s)
    BY <1>1 DEF LinesWhole
  <2>3. ASSUME NEW p \in Servers, NEW n \in DOMAIN Decisions[p]
        PROVE  Cardinality(Whole(s, p, n)) = IF Wanted(s, p, n) /\ Gone(s, p, n) THEN 1 ELSE 0
    <3>1. Whole(s, p, n) = {}
      BY <1>1 DEF Whole
    <3>2. n \in 1..Len(Decisions[p]) /\ s \in 1..Len(Sinks) /\ Len(Sinks) \in Nat
      BY DecisionIs, SinksAre
    <3>3. ~Gone(s, p, n)
      BY <3>2 DEF Gone, Init
    <3>4. QED
      BY <3>1, <3>3, FS_EmptySet
  <2>4. Once(s)
    BY <2>3 DEF Once
  <2>5. QED
    BY <2>1, <2>2, <2>4 DEF Recorded
<1>5. QED
  BY <1>2, <1>3, <1>4 DEF Recording

\* Where the sink judges a decision as it should, it takes what it wants.
LEMMA Judged ==
  ASSUME NEW s \in DOMAIN Sinks, NEW p \in Servers, NEW n \in DOMAIN Decisions[p],
         ~Misjudged(Sinks[s], Decisions[p][n])
  PROVE  Wanted(s, p, n) <=> Wants(Sinks[s], Decisions[p][n])
<1>1. /\ Decisions[p][n].severity \in Nat /\ Decisions[p][n].rule \in Nat
      /\ Decisions[p][n].score \in Nat /\ Decisions[p][n].blocked \in BOOLEAN
  BY DecisionIs
<1>2. Sinks[s].min \in Nat /\ Sinks[s].nil \in BOOLEAN /\ Sinks[s].relevantOnly \in BOOLEAN
  <2> DEFINE R == [nil : BOOLEAN, relevantOnly : BOOLEAN, min : Nat, fails : BOOLEAN]
  <2>1. Sinks \in Seq(R) /\ \A q \in R : q.min \in Nat /\ q.nil \in BOOLEAN /\ q.relevantOnly \in BOOLEAN
    BY SinksAre
  <2> HIDE DEF R
  <2>2. Sinks[s] \in R
    BY <2>1
  <2>3. QED
    BY <2>1, <2>2
<1>3. QED
  BY <1>1, <1>2 DEF Wanted, Dropped, Wants, Misjudged

LEMMA RecordedFromRecording ==
  ASSUME Recording, PathsBounded
  PROVE  RecordedEverywhere
<1> SUFFICES ASSUME NEW s \in DOMAIN Sinks, ~Sinks[s].fails
             PROVE  /\ LinesWhole(s)
                    /\ \A i \in DOMAIN lines[s] : Width(Unmarked(lines[s][i].record.path)) <= MaxPath
                    /\ \A p \in Servers : \A n \in DOMAIN Decisions[p] :
                         n < nth[p] /\ ~Misjudged(Sinks[s], Decisions[p][n]) =>
                           Cardinality(Whole(s, p, n)) =
                             (IF Wants(Sinks[s], Decisions[p][n]) THEN 1 ELSE 0)
  BY DEF RecordedEverywhere, Whole
<1>1. LinesWhole(s) /\ Once(s)
  BY DEF Recording, Recorded
<1>2. ASSUME NEW p \in Servers, NEW n \in DOMAIN Decisions[p], n < nth[p],
             ~Misjudged(Sinks[s], Decisions[p][n])
      PROVE  Cardinality(Whole(s, p, n)) = (IF Wants(Sinks[s], Decisions[p][n]) THEN 1 ELSE 0)
  <2>1. Cardinality(Whole(s, p, n)) = IF Wanted(s, p, n) THEN 1 ELSE 0
    BY <1>1, <1>2 DEF Once, Gone
  <2>2. Wanted(s, p, n) <=> Wants(Sinks[s], Decisions[p][n])
    BY <1>2, Judged
  <2>3. QED
    BY <2>1, <2>2
<1>3. QED
  BY <1>1, <1>2 DEF PathsBounded

-----------------------------------------------------------------------------
(* The theorems *)

Inv ==
  /\ Types /\ RulesHeld /\ SinksHeld /\ Unreset
  /\ Balance /\ SnapshotWhole /\ Counts
  /\ WritesWanted /\ PathsBounded /\ Recording

(* The counters, the maps, the lines and who is where, in every state        *)
(* (Metrics, Multi, JSON).                                                   *)
THEOREM Kept == Spec => []Inv
<1>1. Init => Inv
  BY TypesStart, HeldStart, BalanceStart, CountsStart, RecordingStart DEF Inv
<1>2. Inv /\ [Next]_vars => Inv'
  BY TypesKept, RulesHeldKept, SinksHeldKept, UnresetKept, BalanceKept, SnapshotKept, CountsKept,
     WritesWantedKept, PathsBoundedKept, RecordingKept DEF Inv
<1>3. QED
  BY <1>1, <1>2, PTL DEF Spec

(* No increment and no maximum is lost to another goroutine, and no snapshot *)
(* sees half a match, for every number of goroutines and decisions           *)
(* (Metrics.Observe, Snapshot, Reset).                                       *)
THEOREM CountedExactlyHolds == Spec => []CountedExactly
<1>1. Inv => CountedExactly
  BY CountedFromCounts DEF Inv
<1>2. QED
  BY <1>1, Kept, PTL

(* Every sink that wants a decision, as its comment says, has its line,      *)
(* whole, once and bounded, whatever the other sinks do, and no sink has one *)
(* it does not want; not so for the records RelevantOnly misjudges           *)
(* (Multi.Write, JSON.Write, bound).                                         *)
THEOREM RecordedEverywhereHolds == Spec => []RecordedEverywhere
<1>1. Inv => RecordedEverywhere
  BY RecordedFromRecording DEF Inv
<1>2. QED
  BY <1>1, Kept, PTL

-----------------------------------------------------------------------------
(***************************************************************************)
(* The transactions of Pool, for any number of goroutines, transactions    *)
(* and plans, however often each is closed.                                *)
(***************************************************************************)

-----------------------------------------------------------------------------
(* Types of the pool *)

States == {"idle", "got", "open", "closing", "closed"}
Runs == [plan : Plans, room : Nat]

TypeInv ==
  /\ TypeOK
  /\ values \in [Txs -> Seq(Procs)]
  /\ repeats \in [Txs -> Nat] /\ recorded \in [Procs -> Nat]
  /\ ran \in [Procs -> SUBSET Runs] /\ loaded \in [Procs -> SUBSET Plans]
  /\ \A g \in Procs : pc[g] # "idle" => own[g] \in made

LEMMA TypeStep == TypeInv /\ [PoolNext]_poolVars => TypeInv'
<1> SUFFICES ASSUME TypeInv, [PoolNext]_poolVars PROVE TypeInv'
  OBVIOUS
<1> USE PoolAssumption, NilAssumption DEF TypeInv, TypeOK
<1>0. \A c, n \in Nat : Grown(c, n) \in Nat
  BY DEF Grown
<1>1. ASSUME NEW p \in Plans, SwapRuleset(p) PROVE TypeInv'
  BY <1>1 DEF SwapRuleset
<1>2. ASSUME NEW g \in Procs, NEW t \in Txs, GetPooled(g, t) PROVE TypeInv'
  BY <1>2 DEF GetPooled, Take
<1>3. ASSUME NEW g \in Procs, NEW t \in Txs, GetNew(g, t) PROVE TypeInv'
  BY <1>0, <1>3 DEF GetNew, Take
<1>4. ASSUME NEW g \in Procs, Begin(g) PROVE TypeInv'
  BY <1>4 DEF Begin, Loaded
<1>5. ASSUME NEW g \in Procs, Record(g) PROVE TypeInv'
  BY SMTT(30), <1>5 DEF Record
<1>6. ASSUME NEW g \in Procs, Evaluate(g) PROVE TypeInv'
  <2>1. own[g] \in Txs /\ plan[own[g]] \in Plans
    BY <1>6 DEF Evaluate
  <2>2. Fitted(room[own[g]], plan[own[g]]) \in Nat
    BY <1>0, <2>1 DEF Fitted
  <2>3. room' \in [Txs -> Nat] /\ room'[own[g]] \in Nat
    BY <1>6, <2>1, <2>2 DEF Evaluate
  <2>4. ran' \in [Procs -> SUBSET Runs]
    BY <1>6, <2>1, <2>3 DEF Evaluate, Runs
  <2> QED
    BY <1>6, <2>3, <2>4 DEF Evaluate
<1>7. ASSUME NEW g \in Procs, Close(g) PROVE TypeInv'
  <2>1. pc[g] # "idle" /\ UNCHANGED <<active, pooled, made, room, own, recorded, ran, loaded>>
    BY <1>7 DEF Close, Clear
  <2>2. own[g] \in made
    BY <2>1
  <2>3. repeats' \in [Txs -> Nat]
    <3>1. repeats' = repeats \/ repeats' = [repeats EXCEPT ![own[g]] = @ + 1]
      BY <1>7 DEF Close, Clear
    <3>2. repeats[own[g]] + 1 \in Nat
      BY <2>2
    <3> QED
      BY <3>1, <3>2
  <2>4. /\ pc' = [pc EXCEPT ![g] = "closing"] /\ plan' = [plan EXCEPT ![own[g]] = NoPlan]
        /\ values' = [values EXCEPT ![own[g]] = <<>>]
    BY <1>7 DEF Close, Clear
  <2>5. /\ pc' \in [Procs -> {"idle", "got", "open", "closing", "closed"}]
        /\ plan' \in [Txs -> Plans \cup {NoPlan}]
    BY <2>4
  <2>6. values' \in [Txs -> Seq(Procs)]
    <3>1. <<>> \in Seq(Procs)
      OBVIOUS
    <3> QED
      BY <2>4, <3>1
  <2>7. \A h \in Procs : pc'[h] # "idle" => own'[h] \in made'
    BY <2>1, <2>2, <2>4
  <2> QED
    BY <2>1, <2>3, <2>5, <2>6, <2>7
<1>8. ASSUME NEW g \in Procs, Put(g) PROVE TypeInv'
  BY <1>8 DEF Put
<1>9. ASSUME NEW g \in Procs, Leave(g) PROVE TypeInv'
  BY <1>9 DEF Leave
<1>10. ASSUME NEW t \in Txs, Drop(t) PROVE TypeInv'
  BY <1>10 DEF Drop
<1>11. CASE UNCHANGED poolVars
  BY <1>11 DEF poolVars
<1> QED
  BY <1>1, <1>2, <1>3, <1>4, <1>5, <1>6, <1>7, <1>8, <1>9, <1>10, <1>11 DEF PoolNext

LEMMA TypeInit == PoolInit => TypeInv
BY PoolAssumption, NilAssumption DEF PoolInit, TypeInv, TypeOK

\* The pool and the goroutines only ever refer to constructed transactions.
THEOREM PoolTypes == PoolSpec => []TypeOK
<1>1. TypeInv => TypeOK
  BY DEF TypeInv
<1> QED
  BY <1>1, TypeInit, TypeStep, PTL DEF PoolSpec

-----------------------------------------------------------------------------
(* Ownership *)

\* A transaction is in the pool and with goroutines at most once in all, and once more
\* for each repeated Close.
HomeInv == \A t \in Txs : pooled[t] + Cardinality(Holders(t)) <= 1 + repeats[t]

LEMMA Countable == \A t \in Txs : IsFiniteSet(Holders(t)) /\ Cardinality(Holders(t)) \in Nat
<1> SUFFICES ASSUME NEW t \in Txs PROVE IsFiniteSet(Holders(t)) /\ Cardinality(Holders(t)) \in Nat
  OBVIOUS
<1>1. PICK S : S = Holders(t)
  OBVIOUS
<1>2. S \subseteq Procs
  BY <1>1 DEF Holders
<1>3. IsFiniteSet(S)
  BY <1>2, PoolAssumption, FS_Subset
<1>4. Cardinality(S) \in Nat
  BY <1>3, FS_CardinalityType
<1> QED
  BY <1>1, <1>3, <1>4

\* One goroutine comes, and one goes.
Gained(S, T, g) == T = S \cup {g}
Lost(S, T, g) == g \in S /\ T = S \ {g}

LEMMA OneComes ==
  ASSUME NEW S, NEW T, NEW g, IsFiniteSet(S), Gained(S, T, g)
  PROVE  Cardinality(T) <= Cardinality(S) + 1
<1>1. Cardinality(S) \in Nat
  BY FS_CardinalityType
<1>2. Cardinality(S \cup {g}) = IF g \in S THEN Cardinality(S) ELSE Cardinality(S) + 1
  BY FS_AddElement
<1> QED
  BY <1>1, <1>2 DEF Gained

LEMMA OneGoes ==
  ASSUME NEW S, NEW T, NEW g, IsFiniteSet(S), Lost(S, T, g)
  PROVE  Cardinality(T) = Cardinality(S) - 1
BY FS_RemoveElement DEF Lost

LEMMA HomeStep == TypeInv /\ HomeInv /\ [PoolNext]_poolVars => HomeInv'
<1> SUFFICES ASSUME TypeInv, HomeInv, [PoolNext]_poolVars, NEW u \in Txs
             PROVE  pooled'[u] + Cardinality(Holders(u)') <= 1 + repeats'[u]
  BY DEF HomeInv
<1> USE PoolAssumption, NilAssumption DEF TypeInv, TypeOK
<1>0. PICK S : S = Holders(u)
  OBVIOUS
<1>01. PICK T : T = Holders(u)'
  OBVIOUS
<1>02. /\ IsFiniteSet(S) /\ Cardinality(S) \in Nat
       /\ pooled[u] + Cardinality(S) <= 1 + repeats[u]
       /\ pooled[u] \in Nat /\ repeats[u] \in Nat
  BY <1>0, Countable DEF HomeInv
<1> DEFINE Bounded == pooled'[u] + Cardinality(T) <= 1 + repeats'[u]
<1>1. ASSUME NEW p \in Plans, SwapRuleset(p) PROVE Bounded
  <2>1. T = S /\ pooled' = pooled /\ repeats' = repeats
    BY <1>0, <1>01, <1>1 DEF SwapRuleset, Holders
  <2> QED
    BY <1>02, <2>1
<1>2. ASSUME NEW g \in Procs, NEW t \in Txs, GetPooled(g, t) PROVE Bounded
  <2>1. pc[g] = "idle" /\ pooled[t] > 0 /\ pooled' = [pooled EXCEPT ![t] = @ - 1]
        /\ pc' = [pc EXCEPT ![g] = "got"] /\ own' = [own EXCEPT ![g] = t] /\ repeats' = repeats
    BY <1>2 DEF GetPooled, Take
  <2>2. CASE t = u
    <3>1. Gained(S, T, g) /\ pooled'[u] = pooled[u] - 1
      BY <1>0, <1>01, <2>1, <2>2 DEF Holders, Gained
    <3>2. Cardinality(T) <= Cardinality(S) + 1 /\ Cardinality(T) \in Nat
      BY <1>02, <3>1, <1>01, OneComes, FS_AddElement, FS_CardinalityType DEF Gained
    <3> QED
      BY <1>02, <2>1, <3>1, <3>2
  <2>3. CASE t # u
    <3>1. T = S /\ pooled'[u] = pooled[u]
      BY <1>0, <1>01, <2>1, <2>3 DEF Holders
    <3> QED
      BY <1>02, <2>1, <3>1
  <2> QED
    BY <2>2, <2>3
<1>3. ASSUME NEW g \in Procs, NEW t \in Txs, GetNew(g, t) PROVE Bounded
  <2>1. pc[g] = "idle" /\ t \notin made /\ pooled' = pooled
        /\ pc' = [pc EXCEPT ![g] = "got"] /\ own' = [own EXCEPT ![g] = t] /\ repeats' = repeats
    BY <1>3 DEF GetNew, Take
  <2>2. CASE t = u
    <3>1. pooled[u] = 0 /\ S = {}
      BY <1>0, <2>1, <2>2 DEF Holders
    <3>2. T = {g}
      BY <1>0, <1>01, <2>1, <2>2, <3>1 DEF Holders
    <3>3. Cardinality(T) = 1
      BY <3>2, FS_Singleton
    <3> QED
      BY <1>02, <2>1, <2>2, <3>1, <3>3
  <2>3. CASE t # u
    <3>1. T = S
      BY <1>0, <1>01, <2>1, <2>3 DEF Holders
    <3> QED
      BY <1>02, <2>1, <3>1
  <2> QED
    BY <2>2, <2>3
<1>4. ASSUME NEW g \in Procs, Begin(g) PROVE Bounded
  <2>1. pooled' = pooled /\ repeats' = repeats /\ pc[g] = "got"
        /\ pc' = [pc EXCEPT ![g] = "open"] /\ own' = own
    BY <1>4 DEF Begin
  <2>2. T = S
    BY <1>0, <1>01, <2>1 DEF Holders
  <2> QED
    BY <1>02, <2>1, <2>2
<1>5. ASSUME NEW g \in Procs, Record(g) \/ Evaluate(g) PROVE Bounded
  <2>1. T = S /\ pooled' = pooled /\ repeats' = repeats
    BY <1>0, <1>01, <1>5 DEF Record, Evaluate, Holders
  <2> QED
    BY <1>02, <2>1
<1>6. ASSUME NEW g \in Procs, Close(g) PROVE Bounded
  <2>1. own[g] \in Txs /\ pooled' = pooled /\ own' = own
        /\ pc' = [pc EXCEPT ![g] = "closing"]
    BY <1>6 DEF Close, Clear
  <2>2. CASE pc[g] = "open"
    <3>1. T = S
      BY <1>0, <1>01, <2>1, <2>2 DEF Holders
    <3>2. repeats' = repeats
      BY <1>6, <2>2 DEF Close, Clear
    <3> QED
      BY <1>02, <2>1, <3>1, <3>2
  <2>3. CASE pc[g] = "closed" /\ own[g] = u
    <3>1. Gained(S, T, g)
      BY <1>0, <1>01, <2>1, <2>3 DEF Holders, Gained
    <3>2. Cardinality(T) <= Cardinality(S) + 1 /\ Cardinality(T) \in Nat
      BY <1>02, <3>1, OneComes, FS_AddElement, FS_CardinalityType DEF Gained
    <3>3. repeats'[u] = repeats[u] + 1
      BY <1>6, <2>3 DEF Close, Clear
    <3> QED
      BY <1>02, <2>1, <3>2, <3>3
  <2>4. CASE pc[g] = "closed" /\ own[g] # u
    <3>1. T = S
      BY <1>0, <1>01, <2>1, <2>4 DEF Holders
    <3>2. repeats'[u] = repeats[u]
      BY <1>6, <2>4 DEF Close, Clear
    <3> QED
      BY <1>02, <2>1, <3>1, <3>2
  <2>5. pc[g] = "open" \/ pc[g] = "closed"
    BY <1>6 DEF Close, Clear
  <2> QED
    BY <2>2, <2>3, <2>4, <2>5
<1>7. ASSUME NEW g \in Procs, Put(g) PROVE Bounded
  <2>1. pc[g] = "closing" /\ own[g] \in Txs /\ pooled' = [pooled EXCEPT ![own[g]] = @ + 1]
        /\ pc' = [pc EXCEPT ![g] = "closed"] /\ own' = own /\ repeats' = repeats
    BY <1>7 DEF Put
  <2>2. CASE own[g] = u
    <3>1. Lost(S, T, g) /\ pooled'[u] = pooled[u] + 1
      BY <1>0, <1>01, <2>1, <2>2 DEF Holders, Lost
    <3>2. Cardinality(T) = Cardinality(S) - 1
      BY <1>02, <3>1, OneGoes
    <3> QED
      BY <1>02, <2>1, <3>1, <3>2
  <2>3. CASE own[g] # u
    <3>1. T = S /\ pooled'[u] = pooled[u]
      BY <1>0, <1>01, <2>1, <2>3 DEF Holders
    <3> QED
      BY <1>02, <2>1, <3>1
  <2> QED
    BY <2>2, <2>3
<1>8. ASSUME NEW g \in Procs, Leave(g) PROVE Bounded
  <2>1. pc[g] = "closed" /\ pc' = [pc EXCEPT ![g] = "idle"] /\ own' = [own EXCEPT ![g] = NoTx]
        /\ pooled' = pooled /\ repeats' = repeats
    BY <1>8 DEF Leave
  <2>2. T = S
    BY <1>0, <1>01, <2>1 DEF Holders
  <2> QED
    BY <1>02, <2>1, <2>2
<1>9. ASSUME NEW t \in Txs, Drop(t) PROVE Bounded
  <2>1. pooled[t] > 0 /\ pooled' = [pooled EXCEPT ![t] = @ - 1] /\ T = S /\ repeats' = repeats
    BY <1>0, <1>01, <1>9 DEF Drop, Holders
  <2>2. pooled'[u] <= pooled[u] /\ pooled'[u] \in Int
    BY <2>1
  <2> QED
    BY <1>02, <2>1, <2>2
<1>10. ASSUME UNCHANGED poolVars PROVE Bounded
  <2>1. T = S /\ pooled' = pooled /\ repeats' = repeats
    BY <1>0, <1>01, <1>10 DEF poolVars, Holders
  <2> QED
    BY <1>02, <2>1
<1>11. Bounded
  BY <1>1, <1>2, <1>3, <1>4, <1>5, <1>6, <1>7, <1>8, <1>9, <1>10 DEF PoolNext
<1> QED
  BY <1>01, <1>11

LEMMA HomeInit == PoolInit => HomeInv
<1> SUFFICES ASSUME PoolInit, NEW t \in Txs
             PROVE  pooled[t] + Cardinality(Holders(t)) <= 1 + repeats[t]
  BY DEF HomeInv
<1>1. pooled[t] = 0 /\ repeats[t] = 0 /\ \A g \in Procs : pc[g] = "idle"
  BY DEF PoolInit
<1>2. Holders(t) = {}
  BY <1>1 DEF Holders
<1> QED
  BY <1>1, <1>2, FS_EmptySet

\* In a set of one element two are the same.
LEMMA NotTwo ==
  ASSUME NEW S, IsFiniteSet(S), Cardinality(S) <= 1, NEW g \in S, NEW h \in S
  PROVE  g = h
<1>1. Cardinality(S) \in Nat
  BY FS_CardinalityType
<1>2. Cardinality(S) # 0
  BY FS_EmptySet
<1>3. Cardinality(S) = 1
  BY <1>1, <1>2
<1> QED
  BY <1>3, FS_Singleton

-----------------------------------------------------------------------------
(* What a goroutine finds in its transaction *)

DataInv ==
  /\ \A g \in Procs : pc[g] = "got" => active \in loaded[g] /\ recorded[g] = 0
  /\ \A g \in Procs : pc[g] = "open" /\ Unrepeated(g) =>
       /\ values[own[g]] = [i \in 1..recorded[g] |-> g]
       /\ plan[own[g]] \in loaded[g] /\ plan[own[g]] \in Plans
  /\ \A g \in Procs : Unrepeated(g) => \A e \in ran[g] :
       e.plan \in loaded[g] /\ e.room >= GroupRules[e.plan]

\* One more value of the same goroutine.
LEMMA OneMoreValue ==
  ASSUME NEW n \in Nat, NEW g \in Procs
  PROVE  Append([i \in 1..n |-> g], g) = [i \in 1..n + 1 |-> g]
<1>1. [i \in 1..n |-> g] \in Seq(Procs) /\ Len([i \in 1..n |-> g]) = n
  OBVIOUS
<1> QED
  BY <1>1

\* Another goroutine's step leaves the transaction of g alone, unless one closed it again.
LEMMA Undisturbed ==
  ASSUME TypeInv, HomeInv, NEW g \in Procs, NEW h \in Procs, h # g,
         pc[h] \in {"got", "open", "closing"}, pc[g] \in {"got", "open", "closing"},
         Unrepeated(g)
  PROVE  own[h] # own[g]
<1> SUFFICES ASSUME own[h] = own[g] PROVE FALSE
  OBVIOUS
<1>1. own[g] \in Txs /\ repeats[own[g]] = 0
  BY DEF Unrepeated
<1>2. PICK S : S = Holders(own[g])
  OBVIOUS
<1>3. g \in S /\ h \in S
  BY <1>2 DEF Holders
<1>4. IsFiniteSet(S) /\ Cardinality(S) \in Nat
  BY <1>1, <1>2, Countable
<1>5. pooled[own[g]] \in Nat /\ pooled[own[g]] + Cardinality(S) <= 1
  BY <1>1, <1>2 DEF HomeInv, TypeInv, TypeOK
<1>6. Cardinality(S) <= 1
  BY <1>4, <1>5
<1> QED
  BY <1>3, <1>4, <1>6, NotTwo

LEMMA NoneYet == ASSUME NEW g PROVE <<>> = [i \in 1..0 |-> g]
OBVIOUS

LEMMA DataStep ==
  ASSUME TypeInv, HomeInv, DataInv, [PoolNext]_poolVars
  PROVE  DataInv'
<1> USE PoolAssumption, NilAssumption DEF TypeInv, TypeOK, DataInv
<1>1. ASSUME NEW p \in Plans, SwapRuleset(p) PROVE DataInv'
  BY <1>1 DEF SwapRuleset, Unrepeated
<1>2. ASSUME NEW g \in Procs, NEW t \in Txs, GetPooled(g, t) \/ GetNew(g, t) PROVE DataInv'
  <2>1. /\ pc' = [pc EXCEPT ![g] = "got"] /\ own' = [own EXCEPT ![g] = t]
        /\ recorded' = [recorded EXCEPT ![g] = 0] /\ ran' = [ran EXCEPT ![g] = {}]
        /\ loaded' = [loaded EXCEPT ![g] = {active}]
        /\ UNCHANGED <<active, plan, values, repeats>>
    BY <1>2 DEF GetPooled, GetNew, Take
  <2> QED
    BY <2>1 DEF Unrepeated
<1>3. ASSUME NEW g \in Procs, Begin(g) PROVE DataInv'
  <2>1. \A h \in Procs : h # g /\ pc[h] = "open" /\ Unrepeated(h) => own[h] # own[g]
    BY <1>3, Undisturbed DEF Begin
  <2>2. pc[g] = "got" /\ own[g] \in Txs
    BY <1>3 DEF Begin
  <2>3. /\ pc' = [pc EXCEPT ![g] = "open"] /\ plan' = [plan EXCEPT ![own[g]] = active]
        /\ values' = [values EXCEPT ![own[g]] = <<>>]
        /\ UNCHANGED <<active, own, repeats, recorded, ran, loaded>>
    BY <1>3 DEF Begin, Loaded
  <2>4. values'[own'[g]] = [i \in 1..recorded'[g] |-> g]
    BY <2>2, <2>3, NoneYet
  <2>5. plan'[own'[g]] \in loaded'[g] /\ plan'[own'[g]] \in Plans
    BY <2>2, <2>3
  <2>6. \A h \in Procs : Unrepeated(h)' <=> Unrepeated(h)
    BY <2>3 DEF Unrepeated
  <2>7. ASSUME NEW h \in Procs, h # g, pc'[h] = "open", Unrepeated(h)'
        PROVE  /\ values'[own'[h]] = [i \in 1..recorded'[h] |-> h]
               /\ plan'[own'[h]] \in loaded'[h] /\ plan'[own'[h]] \in Plans
    <3>1. pc[h] = "open" /\ Unrepeated(h) /\ own[h] # own[g]
      BY <2>1, <2>3, <2>6, <2>7
    <3>2. own[h] \in Txs
      BY <3>1 DEF Unrepeated
    <3>3. values'[own[h]] = values[own[h]] /\ plan'[own[h]] = plan[own[h]]
      BY <2>3, <3>1, <3>2
    <3> QED
      BY <2>3, <3>1, <3>3
  <2>8. \A h \in Procs : pc'[h] = "got" => active' \in loaded'[h] /\ recorded'[h] = 0
    BY <2>3
  <2>9. \A h \in Procs : Unrepeated(h)' => \A e \in ran'[h] :
          e.plan \in loaded'[h] /\ e.room >= GroupRules[e.plan]
    BY <2>3, <2>6
  <2> QED
    BY <2>4, <2>5, <2>7, <2>8, <2>9
<1>4. ASSUME NEW g \in Procs, Record(g) PROVE DataInv'
  <2>1. \A h \in Procs : h # g /\ pc[h] = "open" /\ Unrepeated(h) => own[h] # own[g]
    BY <1>4, Undisturbed DEF Record
  <2>2. pc[g] = "open" /\ own[g] \in Txs
    BY <1>4 DEF Record
  <2>3. /\ values' = [values EXCEPT ![own[g]] = Append(@, g)]
        /\ recorded' = [recorded EXCEPT ![g] = @ + 1]
        /\ UNCHANGED <<active, plan, pc, own, repeats, ran, loaded>>
    BY <1>4 DEF Record
  <2>4. Unrepeated(g) => values'[own'[g]] = [i \in 1..recorded'[g] |-> g]
    <3> SUFFICES ASSUME Unrepeated(g) PROVE values'[own'[g]] = [i \in 1..recorded'[g] |-> g]
      OBVIOUS
    <3>1. values'[own'[g]] = Append([i \in 1..recorded[g] |-> g], g)
      BY <2>2, <2>3
    <3>2. recorded'[g] = recorded[g] + 1 /\ recorded[g] \in Nat
      BY <2>3
    <3> QED
      BY <3>1, <3>2, OneMoreValue
  <2>5. \A h \in Procs : Unrepeated(h)' <=> Unrepeated(h)
    BY <2>3 DEF Unrepeated
  <2>6. ASSUME NEW h \in Procs, pc'[h] = "open", Unrepeated(h)'
        PROVE  /\ values'[own'[h]] = [i \in 1..recorded'[h] |-> h]
               /\ plan'[own'[h]] \in loaded'[h] /\ plan'[own'[h]] \in Plans
    <3>1. CASE h = g
      BY <2>3, <2>4, <2>5, <2>6, <3>1
    <3>2. CASE h # g
      <4>1. own[h] # own[g] /\ own[h] \in Txs
        BY <2>1, <2>3, <2>5, <2>6, <3>2 DEF Unrepeated
      <4>2. values'[own[h]] = values[own[h]] /\ recorded'[h] = recorded[h]
        BY <2>3, <3>2, <4>1
      <4> QED
        BY <2>3, <2>5, <2>6, <4>2
    <3> QED
      BY <3>1, <3>2
  <2>7. \A h \in Procs : pc'[h] = "got" => active' \in loaded'[h] /\ recorded'[h] = 0
    BY <2>2, <2>3
  <2>8. \A h \in Procs : Unrepeated(h)' => \A e \in ran'[h] :
          e.plan \in loaded'[h] /\ e.room >= GroupRules[e.plan]
    BY <2>3, <2>5
  <2> QED
    BY <2>6, <2>7, <2>8
<1>5. ASSUME NEW g \in Procs, Evaluate(g) PROVE DataInv'
  <2>1. pc[g] = "open" /\ own[g] \in Txs /\ plan[own[g]] \in Plans
    BY <1>5 DEF Evaluate
  <2>2. \A c, n \in Nat : Grown(c, n) >= n
    BY DEF Grown
  <2>3. room'[own[g]] >= GroupRules[plan[own[g]]]
    BY <1>5, <2>1, <2>2 DEF Evaluate, Fitted
  <2>4. /\ ran' = [ran EXCEPT ![g] =
                     @ \cup {[plan |-> plan[own[g]], room |-> room'[own[g]]]}]
        /\ UNCHANGED <<active, plan, values, pc, own, repeats, recorded, loaded>>
    BY <1>5 DEF Evaluate
  <2> DEFINE e == [plan |-> plan[own[g]], room |-> room'[own[g]]]
  <2>5. Unrepeated(g) => e.plan \in loaded[g] /\ e.room >= GroupRules[e.plan]
    BY <2>1, <2>3
  <2>6. \A h \in Procs : ran'[h] = IF h = g THEN ran[g] \cup {e} ELSE ran[h]
    BY <2>4
  <2> HIDE DEF e
  <2>7. \A h \in Procs : Unrepeated(h)' <=> Unrepeated(h)
    BY <2>4 DEF Unrepeated
  <2>8. ASSUME NEW h \in Procs, Unrepeated(h), NEW f \in ran'[h]
        PROVE  f.plan \in loaded[h] /\ f.room >= GroupRules[f.plan]
    <3>1. CASE h = g /\ f = e
      BY <2>5, <2>8, <3>1
    <3>2. CASE f \in ran[h]
      BY <2>8, <3>2
    <3> QED
      BY <2>6, <2>8, <3>1, <3>2
  <2> QED
    BY <2>4, <2>7, <2>8
<1>6. ASSUME NEW g \in Procs, Close(g) PROVE DataInv'
  <2>1. /\ pc' = [pc EXCEPT ![g] = "closing"] /\ plan' = [plan EXCEPT ![own[g]] = NoPlan]
        /\ values' = [values EXCEPT ![own[g]] = <<>>]
        /\ UNCHANGED <<active, own, recorded, ran, loaded>>
    BY <1>6 DEF Close, Clear
  <2>2. \/ pc[g] = "open" /\ repeats' = repeats
        \/ pc[g] = "closed" /\ repeats' = [repeats EXCEPT ![own[g]] = @ + 1]
    BY <1>6 DEF Close, Clear
  <2>3. own[g] \in Txs
    BY <2>2
  <2>4. \A t \in Txs : repeats'[t] = 0 => repeats[t] = 0
    BY <2>2
  <2>5. \A h \in Procs : Unrepeated(h)' => Unrepeated(h)
    BY <2>1, <2>4 DEF Unrepeated
  <2>6. \A h \in Procs : h # g /\ pc[h] = "open" /\ Unrepeated(h)' => own[h] # own[g]
    <3>1. CASE pc[g] = "open"
      BY <2>5, <3>1, Undisturbed
    <3>2. CASE repeats' = [repeats EXCEPT ![own[g]] = @ + 1]
      <4>1. repeats'[own[g]] # 0
        BY <2>3, <3>2
      <4> QED
        BY <2>1, <4>1 DEF Unrepeated
    <3> QED
      BY <2>2, <3>1, <3>2
  <2>7. ASSUME NEW h \in Procs, pc'[h] = "open", Unrepeated(h)'
        PROVE  /\ values'[own'[h]] = [i \in 1..recorded'[h] |-> h]
               /\ plan'[own'[h]] \in loaded'[h] /\ plan'[own'[h]] \in Plans
    <3>1. h # g /\ pc[h] = "open" /\ Unrepeated(h)
      BY <2>1, <2>5, <2>7
    <3>2. own[h] # own[g] /\ own[h] \in Txs
      BY <2>6, <2>7, <3>1 DEF Unrepeated
    <3>3. values'[own[h]] = values[own[h]] /\ plan'[own[h]] = plan[own[h]]
      BY <2>1, <3>2
    <3> QED
      BY <2>1, <3>1, <3>3
  <2>8. \A h \in Procs : pc'[h] = "got" => active' \in loaded'[h] /\ recorded'[h] = 0
    BY <2>1
  <2>9. \A h \in Procs : Unrepeated(h)' => \A e \in ran'[h] :
          e.plan \in loaded'[h] /\ e.room >= GroupRules[e.plan]
    BY <2>1, <2>5
  <2> QED
    BY <2>7, <2>8, <2>9
<1>7. ASSUME NEW g \in Procs, Put(g) \/ Leave(g) PROVE DataInv'
  <2>1. /\ UNCHANGED <<active, plan, values, repeats, recorded, ran, loaded>>
        /\ pc'[g] \notin {"got", "open"} /\ (own'[g] = own[g] \/ own'[g] = NoTx)
        /\ \A h \in Procs : h # g => pc'[h] = pc[h] /\ own'[h] = own[h]
    BY <1>7 DEF Put, Leave
  <2>2. \A h \in Procs : pc'[h] \in {"got", "open"} => pc'[h] = pc[h] /\ own'[h] = own[h]
    BY <2>1
  <2>3. \A h \in Procs : pc'[h] = "got" => active' \in loaded'[h] /\ recorded'[h] = 0
    BY <2>1, <2>2
  <2>4. \A h \in Procs : Unrepeated(h)' => Unrepeated(h)
    <3>1. \A h \in Procs : own'[h] = own[h] \/ own'[h] = NoTx
      BY <2>1
    <3> QED
      BY <2>1, <3>1 DEF Unrepeated
  <2>5. \A h \in Procs : pc'[h] = "open" /\ Unrepeated(h)' =>
          /\ values'[own'[h]] = [i \in 1..recorded'[h] |-> h]
          /\ plan'[own'[h]] \in loaded'[h] /\ plan'[own'[h]] \in Plans
    BY <2>1, <2>2, <2>4
  <2> QED
    BY <2>1, <2>3, <2>4, <2>5
<1>8. ASSUME NEW t \in Txs, Drop(t) PROVE DataInv'
  BY <1>8 DEF Drop, Unrepeated
<1>9. CASE UNCHANGED poolVars
  BY <1>9 DEF poolVars, Unrepeated
<1> QED
  BY <1>1, <1>2, <1>3, <1>4, <1>5, <1>6, <1>7, <1>8, <1>9 DEF PoolNext

LEMMA DataInit == PoolInit => DataInv
<1> SUFFICES ASSUME PoolInit PROVE DataInv
  OBVIOUS
<1>1. \A g \in Procs : pc[g] = "idle" /\ ran[g] = {}
  BY DEF PoolInit
<1> QED
  BY <1>1 DEF DataInv

LEMMA PoolInvariant == PoolSpec => [](TypeInv /\ HomeInv /\ DataInv)
<1>1. TypeInv /\ HomeInv /\ DataInv /\ [PoolNext]_poolVars => DataInv'
  BY DataStep
<1>2. TypeInv /\ HomeInv /\ [PoolNext]_poolVars => HomeInv'
  BY HomeStep
<1> QED
  BY <1>1, <1>2, TypeInit, TypeStep, HomeInit, DataInit, PTL DEF PoolSpec

\* NewTransaction, reset and Close: each repeated Close adds at most one owner to a
\* transaction; without one it has a single owner, whose values are all it holds.
THEOREM OneOwnerHolds == PoolSpec => []OneOwner
<1>1. TypeInv /\ HomeInv /\ DataInv => OneOwner
  BY DEF HomeInv, DataInv, OneOwner
<1> QED
  BY <1>1, PoolInvariant, PTL

\* NewTransaction and SwapRuleset: unless its transaction was closed again, a phase is
\* evaluated against a plan that was active while the transaction was opened.
THEOREM PlanIsCurrentHolds == PoolSpec => []PlanIsCurrent
<1>1. DataInv => PlanIsCurrent
  BY DEF DataInv, PlanIsCurrent
<1> QED
  BY <1>1, PoolInvariant, PTL

\* Reset and Grow: however transactions are recycled between rulesets of different
\* size, the candidate set has a place for every rule of the plan.
THEOREM CandidatesFitHolds == PoolSpec => []CandidatesFit
<1>1. DataInv => CandidatesFit
  BY DEF DataInv, CandidatesFit
<1> QED
  BY <1>1, PoolInvariant, PTL

\* The plan of an open transaction that nobody closed again stays what it is, whatever
\* is swapped in.
THEOREM PlanKeptHolds == PoolSpec => PlanIsKept
<1> DEFINE PlanStays == \A g \in Procs : pc[g] = "open" /\ pc'[g] = "open" /\ Unrepeated(g)' =>
                          plan'[own[g]] = plan[own[g]]
<1>1. TypeInv /\ HomeInv /\ DataInv /\ [PoolNext]_poolVars => PlanStays
  <2> SUFFICES ASSUME TypeInv, HomeInv, DataInv, [PoolNext]_poolVars,
                      NEW g \in Procs, pc[g] = "open", pc'[g] = "open", Unrepeated(g)'
               PROVE  plan'[own[g]] = plan[own[g]]
    OBVIOUS
  <2> USE DEF TypeInv, TypeOK
  <2>1. ASSUME NEW h \in Procs, Begin(h) PROVE plan'[own[g]] = plan[own[g]]
    <3>1. pc[h] = "got" /\ h # g /\ Unrepeated(g)
      BY <2>1 DEF Begin, Unrepeated
    <3>2. own[h] # own[g]
      BY <3>1, Undisturbed
    <3> QED
      BY <2>1, <3>2 DEF Begin
  <2>2. ASSUME NEW h \in Procs, Close(h) PROVE plan'[own[g]] = plan[own[g]]
    <3>1. h # g /\ own' = own /\ plan' = [plan EXCEPT ![own[h]] = NoPlan]
      BY <2>2 DEF Close, Clear
    <3>2. own[h] # own[g]
      <4>1. CASE pc[h] = "open" /\ repeats' = repeats
        <5>1. Unrepeated(g)
          BY <3>1, <4>1 DEF Unrepeated
        <5> QED
          BY <3>1, <4>1, <5>1, Undisturbed
      <4>2. CASE pc[h] = "closed" /\ repeats' = [repeats EXCEPT ![own[h]] = @ + 1]
        <5>1. own[h] \in Txs
          BY <4>2
        <5>2. repeats'[own[h]] # 0
          BY <4>2, <5>1
        <5> QED
          BY <3>1, <5>2 DEF Unrepeated
      <4> QED
        BY <2>2, <4>1, <4>2 DEF Close, Clear
    <3> QED
      BY <3>1, <3>2
  <2>3. CASE UNCHANGED plan
    BY <2>3
  <2> QED
    BY <2>1, <2>2, <2>3 DEF PoolNext, poolVars, SwapRuleset, GetPooled, GetNew, Take, Record, Evaluate,
       Put, Leave, Drop
<1> QED
  BY <1>1, PoolInvariant, PTL DEF PoolSpec, PlanIsKept
=============================================================================
