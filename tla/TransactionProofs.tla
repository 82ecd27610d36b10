------------------------- MODULE TransactionProofs -------------------------
(***************************************************************************)
(* Proofs about Transaction for every deployment, every limit, every       *)
(* request and every response.                                             *)
(*                                                                         *)
(* What a call records is a fold over its data, so the proofs start from   *)
(* the folds: what each one returns, by induction over the places of a     *)
(* sequence, and then Grown, the one fact every call has in common: what   *)
(* is recorded stays where it is, and what is added is of known kinds.     *)
(* From it come the types and the marks (Typed), and over them one         *)
(* inductive invariant per promise: what each boundary of the transaction  *)
(* leaves behind for the phases to come.                                   *)
(***************************************************************************)
EXTENDS Transaction, FiniteSetTheorems, SequenceTheorems, WellFoundedInduction, TLAPS
-----------------------------------------------------------------------------
(* Decisions of the strictest deployment: blocking, fail-closed.            *)

\* Under fail-closed blocking both ways of refusing refuse.
LEMMA StrictVerdicts ==
  ASSUME Strictest, NEW r
  PROVE  Undone(r).verdict = "block" /\ Refuse(r).verdict = "block"
BY DEF Strictest, Enforcing, Undone, Refuse

\* How ProcessRequestBody ends: five ways to stop, and the rules.
LEMMA BodyPhaseEnds ==
  ASSUME ProcessRequestBody
  PROVE  \/ \E s : Stop(Undone("limit"), s) \/ Stop(Undone("undecidable"), s)
         \/ \E s : Stop(Refuse("schema"), s)
         \/ \E s : Stop([verdict |-> "block", reason |-> "schema"], s)
         \/ \E s : RunPhase("RequestBody", s, 0)
<1> DEFINE both == BodyViews(HeaderViews(store, marks.query), marks.query)
           viewed == HeaderViews(store, marks.query)
<1>1. \/ Stop(Undone("limit"), store)
      \/ Stop([verdict |-> "block", reason |-> "schema"], store)
      \/ Stop(Refuse("schema"), store)
      \/ Stop(Undone("limit"), viewed)
      \/ Stop(Undone("limit"), both)
      \/ Stop(Undone("undecidable"), both)
      \/ RunPhase("RequestBody", both, 0)
  BY ZenonT(60) DEF ProcessRequestBody
<1> QED
  BY <1>1

\* The step predicate of RefusalIsFinal.
RefusalKept ==
  Strictest /\ decided /\ decision.verdict = "block" =>
    Reset \/ (decided' /\ decision'.verdict = "block")

\* No call of the transaction takes back a refusal of the strictest deployment:
\* a later limit breach overwrites the recorded decision (finish), but only with
\* another refusal.
THEOREM RefusalStands == Spec => RefusalIsFinal
<1>1. [Next]_vars => RefusalKept
  <2> SUFFICES ASSUME [Next]_vars, Strictest, decided, decision.verdict = "block"
               PROVE  Reset \/ (decided' /\ decision'.verdict = "block")
    BY DEF RefusalKept
  <2>1. CASE UNCHANGED <<decided, decision>>
    BY <2>1
  <2>2. ASSUME NEW p, NEW s, NEW n, RunPhase(p, s, n)
        PROVE  UNCHANGED <<decided, decision>>
    BY <2>2 DEF RunPhase
  <2>3. ASSUME NEW d, NEW s, d.verdict = "block", Stop(d, s)
        PROVE  decided' /\ decision'.verdict = "block"
    BY <2>3 DEF Stop, Finish
  <2>4. CASE ProcessRequestHeaders
    BY ZenonT(30), <2>1, <2>2, <2>3, <2>4, StrictVerdicts DEF ProcessRequestHeaders
  <2>5. CASE ProcessRequestBody
    BY <2>1, <2>2, <2>3, <2>5, BodyPhaseEnds, StrictVerdicts
  <2>6. CASE ProcessResponseHeaders
    BY <2>1, <2>2, <2>6 DEF ProcessResponseHeaders
  <2>7. CASE ProcessResponseBody
    BY <2>1, <2>2, <2>3, <2>7, StrictVerdicts DEF ProcessResponseBody
  <2>8. ASSUME NEW c \in Chunks, WriteResponseBody(c)
        PROVE  decided' /\ decision'.verdict = "block"
    BY <2>8, StrictVerdicts DEF WriteResponseBody, Finish
  <2>9. CASE SetRemoteAddr \/ (\E l \in Lines : SetRequestLine(l))
             \/ (\E h \in Headers : AddRequestHeader(h))
             \/ (\E a \in Arguments : AddArgument(a))
             \/ (\E c \in Samples : AddResolver(c))
             \/ (\E b \in Bodies : SetRequestBody(b))
             \/ (\E c \in Samples : SetResponseStatus(c))
             \/ (\E c \in Samples : AddResponseHeader(c))
    BY <2>1, <2>9 DEF SetRemoteAddr, SetRequestLine, AddRequestHeader, AddArgument,
      AddResolver, SetRequestBody, SetResponseStatus, AddResponseHeader, Judgement
  <2>10. CASE UNCHANGED vars
    BY <2>1, <2>10 DEF vars
  <2> QED
    BY <2>4, <2>5, <2>6, <2>7, <2>8, <2>9, <2>10 DEF Next
<1> QED
  BY <1>1, PTL DEF Spec, RefusalIsFinal, RefusalKept
-----------------------------------------------------------------------------
(* Induction, and functions by recursion over the places of a sequence       *)

\* Induction over the set of numbers for which something holds.
LEMMA Upwards ==
  ASSUME NEW S, 0 \in S, \A n \in Nat : n \in S => n + 1 \in S
  PROVE  Nat \subseteq S
<1> SUFFICES ASSUME Nat \ S # {} PROVE FALSE
  OBVIOUS
<1> DEFINE less == OpToRel(<, Nat)
<1>1. IsWellFoundedOn(less, Nat)
  BY NatLessThanWellFounded
<1>2. \A x, y \in Nat : <<x, y>> \in less <=> x < y
  BY DEF OpToRel
<1> HIDE DEF less
<1>3. Nat \ S \in SUBSET Nat /\ Nat \ S # {}
  OBVIOUS
<1>4. PICK n \in Nat \ S : \A k \in Nat \ S : ~(<<k, n>> \in less)
  BY <1>1, <1>3, WFMin
<1>5. CASE n = 0
  BY <1>5
<1>6. CASE n # 0
  <2>1. n - 1 \in Nat /\ n - 1 < n /\ (n - 1) + 1 = n
    BY <1>6
  <2>2. n - 1 \in S
    BY <1>2, <1>4, <2>1
  <2>3. QED
    BY <2>1, <2>2
<1>7. QED
  BY <1>5, <1>6

\* The same, as far as a bound.
LEMMA UpTo ==
  ASSUME NEW n \in Nat, NEW S, 0 \in S, \A k \in 1..n : k - 1 \in S => k \in S
  PROVE  0..n \subseteq S
<1> DEFINE T == {k \in Nat : k <= n => k \in S}
<1>1. 0 \in T
  OBVIOUS
<1>2. \A k \in Nat : k \in T => k + 1 \in T
  <2> SUFFICES ASSUME NEW k \in Nat, k \in T, k + 1 <= n PROVE k + 1 \in S
    OBVIOUS
  <2>1. k \in S /\ k + 1 \in 1..n /\ (k + 1) - 1 = k
    OBVIOUS
  <2> QED
    BY <2>1
<1> HIDE DEF T
<1>3. Nat \subseteq T
  BY <1>1, <1>2, Upwards
<1> QED
  BY <1>3 DEF T

\* A set of numbers that is not empty has a least member.
LEMMA Least ==
  ASSUME NEW S \in SUBSET Nat, S # {}
  PROVE  Min(S) \in S /\ \A x \in S : Min(S) <= x
<1> DEFINE less == OpToRel(<, Nat)
<1>1. IsWellFoundedOn(less, Nat)
  BY NatLessThanWellFounded
<1>2. \A x, y \in Nat : <<x, y>> \in less <=> x < y
  BY DEF OpToRel
<1> HIDE DEF less
<1>3. PICK n \in S : \A k \in S : ~(<<k, n>> \in less)
  BY <1>1, WFMin
<1>4. \A k \in S : n <= k
  <2> TAKE k \in S
  <2>1. n \in Nat /\ k \in Nat /\ ~(k < n)
    BY <1>2, <1>3
  <2> QED
    BY <2>1
<1> QED
  BY <1>4 DEF Min

\* The lesser of two numbers.
LEMMA Lesser ==
  ASSUME NEW a \in Int, NEW b \in Int
  PROVE  Min({a, b}) \in {a, b} /\ Min({a, b}) <= a /\ Min({a, b}) <= b
<1>1. \E m \in {a, b} : \A y \in {a, b} : m =< y
  <2>1. CASE a <= b
    BY <2>1
  <2>2. CASE b <= a
    BY <2>2
  <2> QED
    BY <2>1, <2>2
<1> DEFINE m == Min({a, b})
<1>2. m \in {a, b} /\ \A y \in {a, b} : m =< y
  BY <1>1 DEF Min
<1> HIDE DEF m
<1> QED
  BY <1>2 DEF m

\* f is what step makes of base, place by place.
Iterates(f, T, n, base, step) ==
  /\ f \in [0..n -> T] /\ f[0] = base
  /\ \A k \in 1..n : f[k] = step[<<f[k - 1], k>>]

\* A function over 0..n by recursion exists and keeps to the set of its values.
LEMMA IterationExists ==
  ASSUME NEW T, NEW n \in Nat, NEW base \in T, NEW step \in [T \X (1..n) -> T]
  PROVE  \E f : Iterates(f, T, n, base, step)
<1> DEFINE S == {m \in 0..n : \E f : Iterates(f, T, m, base, step)}
<1>1. 0 \in S
  <2> DEFINE f == [k \in 0..0 |-> base]
  <2>1. Iterates(f, T, 0, base, step)
    BY DEF Iterates
  <2> QED
    BY <2>1
<1>2. \A k \in 1..n : k - 1 \in S => k \in S
  <2> SUFFICES ASSUME NEW k \in 1..n, k - 1 \in S PROVE \E f : Iterates(f, T, k, base, step)
    OBVIOUS
  <2>1. PICK g : Iterates(g, T, k - 1, base, step)
    OBVIOUS
  <2>2. g \in [0..k - 1 -> T] /\ k - 1 \in 0..k - 1 /\ k \in Nat
    BY <2>1 DEF Iterates
  <2>3. step[<<g[k - 1], k>>] \in T
    <3>1. g[k - 1] \in T
      BY <2>2
    <3>2. <<g[k - 1], k>> \in T \X (1..n)
      BY <3>1
    <3> QED
      BY <3>2
  <2> DEFINE f == [j \in 0..k |-> IF j = k THEN step[<<g[k - 1], k>>] ELSE g[j]]
  <2>4. \A j \in 0..k - 1 : f[j] = g[j]
    BY <2>2
  <2>5. f[k] = step[<<g[k - 1], k>>]
    BY <2>2
  <2>6. f \in [0..k -> T]
    <3>1. \A j \in 0..k : j # k => j \in 0..k - 1
      BY <2>2
    <3> QED
      BY <2>2, <2>3, <3>1
  <2> HIDE DEF f
  <2>7. f[0] = base
    BY <2>1, <2>2, <2>4 DEF Iterates
  <2>8. \A j \in 1..k : f[j] = step[<<f[j - 1], j>>]
    <3> SUFFICES ASSUME NEW j \in 1..k PROVE f[j] = step[<<f[j - 1], j>>]
      OBVIOUS
    <3>1. j - 1 \in 0..k - 1 /\ (j = k \/ j \in 1..k - 1)
      BY <2>2
    <3>2. f[j - 1] = g[j - 1]
      BY <2>4, <3>1
    <3>3. CASE j = k
      BY <2>5, <3>2, <3>3
    <3>4. CASE j \in 1..k - 1
      <4>1. g[j] = step[<<g[j - 1], j>>] /\ j \in 0..k - 1
        BY <2>1, <2>2, <3>4 DEF Iterates
      <4> QED
        BY <2>4, <3>2, <4>1
    <3> QED
      BY <3>1, <3>3, <3>4
  <2> QED
    BY <2>6, <2>7, <2>8 DEF Iterates
<1> HIDE DEF S
<1>3. n \in S
  BY <1>1, <1>2, UpTo
<1> QED
  BY <1>3 DEF S
-----------------------------------------------------------------------------
(* Sequences picked from another, and joined end to end                      *)

\* Picked, place by place.
Picks(f, vs, S, n) ==
  /\ f[0] = <<>>
  /\ \A k \in 1..n : f[k] = IF k \in S THEN Append(f[k - 1], vs[k]) ELSE f[k - 1]

\* Picked is the last place of its recursion.
LEMMA PickedUnfolds ==
  ASSUME NEW n \in Nat, NEW vs, Len(vs) = n, NEW S
  PROVE  \E f : Picks(f, vs, S, n) /\ Picked(vs, S) = f[n]
<1> DEFINE Is(f) == f = [k \in 0..n |-> IF k = 0 THEN <<>>
                           ELSE IF k \in S THEN Append(f[k - 1], vs[k]) ELSE f[k - 1]]
           f == CHOOSE f : Is(f)
<1>1. Picked(vs, S) = f[n]
  BY DEF Picked
<1>2. \E g : Is(g)
  <2> DEFINE T == {vs[k] : k \in 1..n}
             step == [p \in Seq(T) \X (1..n) |->
                        IF p[2] \in S THEN Append(p[1], vs[p[2]]) ELSE p[1]]
  <2>1. <<>> \in Seq(T)
    OBVIOUS
  <2>2. \A k \in 1..n : vs[k] \in T
    OBVIOUS
  <2>3. step \in [Seq(T) \X (1..n) -> Seq(T)]
    <3> HIDE DEF T
    <3>1. \A q \in Seq(T), k \in 1..n : Append(q, vs[k]) \in Seq(T)
      BY <2>2
    <3> QED
      BY <3>1
  <2>4. \A q \in Seq(T), k \in 1..n :
          step[<<q, k>>] = IF k \in S THEN Append(q, vs[k]) ELSE q
    OBVIOUS
  <2> HIDE DEF T, step
  <2>5. PICK g : Iterates(g, Seq(T), n, <<>>, step)
    BY <2>1, <2>3, IterationExists
  <2>6. \A k \in 1..n : g[k] = IF k \in S THEN Append(g[k - 1], vs[k]) ELSE g[k - 1]
    <3> TAKE k \in 1..n
    <3>1. k - 1 \in 0..n
      OBVIOUS
    <3>2. g[k - 1] \in Seq(T) /\ g[k] = step[<<g[k - 1], k>>]
      BY <2>5, <3>1 DEF Iterates
    <3> QED
      BY <2>4, <3>2
  <2>7. g \in [0..n -> Seq(T)] /\ g[0] = <<>>
    BY <2>5 DEF Iterates
  <2>8. \A k \in 0..n : k = 0 \/ k \in 1..n
    OBVIOUS
  <2>9. g = [k \in 0..n |-> IF k = 0 THEN <<>>
                           ELSE IF k \in S THEN Append(g[k - 1], vs[k]) ELSE g[k - 1]]
    BY <2>6, <2>7, <2>8
  <2> QED
    BY <2>9
<1> HIDE DEF Is
<1>3. Is(f)
  BY <1>2
<1> HIDE DEF f
<1>4. Picks(f, vs, S, n)
  <2>1. \A k \in 0..n : f[k] = IF k = 0 THEN <<>>
                           ELSE IF k \in S THEN Append(f[k - 1], vs[k]) ELSE f[k - 1]
    BY <1>3 DEF Is
  <2>2. 0 \in 0..n /\ \A k \in 1..n : k \in 0..n /\ k # 0
    OBVIOUS
  <2> QED
    BY <2>1, <2>2 DEF Picks
<1> QED
  BY <1>1, <1>4

\* p are the places of vs that the members of q come from: those of S, in order.
Places(p, q, vs, S) ==
  /\ p \in Seq(S) /\ Len(p) = Len(q)
  /\ \A x \in 1..Len(p) : q[x] = vs[p[x]]
  /\ \A x, y \in 1..Len(p) : x < y => p[x] < p[y]
  /\ \A k \in S : \E x \in 1..Len(p) : p[x] = k

\* Picked keeps the values of S, each once and in their order.
LEMMA PickedPlaces ==
  ASSUME NEW T, NEW n \in Nat, NEW vs, Len(vs) = n, NEW S,
         \A k \in 1..n : k \in S => vs[k] \in T
  PROVE  /\ Picked(vs, S) \in Seq(T)
         /\ \E p : Places(p, Picked(vs, S), vs, S \cap 1..n)
<1>1. PICK f : Picks(f, vs, S, n) /\ Picked(vs, S) = f[n]
  BY PickedUnfolds
<1> DEFINE K == {k \in 0..n : /\ f[k] \in Seq(T)
                              /\ \E p : Places(p, f[k], vs, S \cap 1..k)}
<1>2. 0 \in K
  <2>1. f[0] = <<>> /\ S \cap 1..0 = {}
    BY <1>1 DEF Picks
  <2>2. <<>> \in Seq(T) /\ Places(<<>>, <<>>, vs, {})
    BY DEF Places
  <2>3. f[0] \in Seq(T) /\ \E p : Places(p, f[0], vs, S \cap 1..0)
    BY <2>1, <2>2
  <2> QED
    BY <2>3
<1>3. ASSUME NEW k \in 1..n, k - 1 \in K PROVE k \in K
  <2> DEFINE U == S \cap 1..k - 1
             W == S \cap 1..k
             q == f[k - 1]
  <2>1. f[k - 1] \in Seq(T) /\ \E p : Places(p, f[k - 1], vs, U)
    BY <1>3
  <2>2. PICK p : Places(p, q, vs, U)
    BY <2>1
  <2>3. f[k] = IF k \in S THEN Append(q, vs[k]) ELSE q
    BY <1>1, <1>3 DEF Picks
  <2>4. k \in Nat /\ \A j \in U : j \in Nat /\ j < k /\ j \in W
    BY <1>3
  <2>5. CASE k \notin S
    <3>1. U = W
      BY <1>3, <2>5
    <3> HIDE DEF U, W
    <3> QED
      BY <2>1, <2>2, <2>3, <2>5, <3>1 DEF W
  <2>6. CASE k \in S
    <3> DEFINE r == Append(p, k)
               t == Append(q, vs[k])
    <3>1. W = U \cup {k} /\ vs[k] \in T
      BY <1>3, <2>6
    <3>2. f[k] = t /\ q \in Seq(T)
      BY <2>1, <2>3, <2>6
    <3> HIDE DEF q, U, W
    <3>3. p \in Seq(U) /\ Len(p) = Len(q) /\ Len(p) \in Nat
      BY <2>2 DEF Places
    <3>4. p \in Seq(W)
      BY <3>1, <3>3
    <3>5. /\ r \in Seq(W) /\ Len(r) = Len(p) + 1 /\ r[Len(p) + 1] = k
          /\ \A x \in 1..Len(p) : r[x] = p[x]
      BY <3>1, <3>4
    <3>6. /\ t \in Seq(T) /\ Len(t) = Len(p) + 1 /\ t[Len(p) + 1] = vs[k]
          /\ \A x \in 1..Len(p) : t[x] = q[x]
      BY <3>1, <3>2, <3>3
    <3> HIDE DEF r, t
    <3>7. \A x \in 1..Len(r) : x \in 1..Len(p) \/ x = Len(p) + 1
      BY <3>3, <3>5
    <3>8. \A x \in 1..Len(p) : p[x] \in U
      BY <3>3
    <3>9. Places(r, t, vs, W)
      <4>1. \A x \in 1..Len(r) : t[x] = vs[r[x]]
        BY <2>2, <3>5, <3>6, <3>7 DEF Places
      <4>2. \A x, y \in 1..Len(r) : x < y => r[x] < r[y]
        <5> SUFFICES ASSUME NEW x \in 1..Len(r), NEW y \in 1..Len(r), x < y PROVE r[x] < r[y]
          OBVIOUS
        <5>1. x \in 1..Len(p)
          BY <3>3, <3>5
        <5>2. CASE y \in 1..Len(p)
          BY <2>2, <3>5, <5>1, <5>2 DEF Places
        <5>3. CASE y = Len(p) + 1
          BY <2>4, <3>5, <3>8, <5>1, <5>3
        <5> QED
          BY <3>7, <5>2, <5>3
      <4>3. \A j \in W : \E x \in 1..Len(r) : r[x] = j
        <5> SUFFICES ASSUME NEW j \in W PROVE \E x \in 1..Len(r) : r[x] = j
          OBVIOUS
        <5>1. CASE j = k
          <6>1. Len(p) + 1 \in 1..Len(r)
            BY <3>3, <3>5
          <6> QED
            BY <3>5, <5>1, <6>1
        <5>2. CASE j \in U
          <6>1. PICK x \in 1..Len(p) : p[x] = j
            BY <2>2, <5>2 DEF Places
          <6>2. x \in 1..Len(r)
            BY <3>3, <3>5
          <6> QED
            BY <3>5, <6>1, <6>2
        <5> QED
          BY <3>1, <5>1, <5>2
      <4> QED
        BY <3>5, <3>6, <4>1, <4>2, <4>3 DEF Places
    <3> QED
      BY <3>2, <3>6, <3>9 DEF W
  <2> QED
    BY <2>5, <2>6
<1> HIDE DEF K
<1>4. n \in K
  BY <1>2, <1>3, UpTo
<1> QED
  BY <1>1, <1>4 DEF K
-----------------------------------------------------------------------------
(* Recorded values                                                           *)

\* The collections a value can be recorded in, and the names an argument can have.
Kinds == {"line", "addr", "header", "arg", "argname", "body", "resolved"}
           \cup ResponseKinds \cup Views

\* The name of an argument, or none.
Names == STRING \cup {""}

\* The values of some kinds, and what the transaction's buffers hold.
ValueOf(K) ==
  [kind : K, content : Severities, size : Nat, inert : BOOLEAN, name : Names,
   cookies : Nat, of : Nat, from : {"call", "line", "join", "body", "view"}]

AnyValue == ValueOf(Kinds)

Stores == [values : Seq(AnyValue), arena : Nat, oversize : SUBSET Kinds,
           unkeyed : SUBSET Kinds, dropped : SUBSET Kinds]

\* What t remembers of a value it did not record.
PassedOver(t, v) ==
  v.kind \in t.dropped \cup (IF Keyed(v) THEN t.oversize ELSE t.unkeyed)

\* t records what s does, and values of T after it; what s passed over stays noted.
Grown(s, t, T) ==
  /\ t \in Stores
  /\ s.oversize \subseteq t.oversize /\ s.unkeyed \subseteq t.unkeyed
  /\ s.dropped \subseteq t.dropped
  /\ Len(s.values) <= Len(t.values)
  /\ \A i \in 1..Len(s.values) : t.values[i] = s.values[i]
  /\ \A i \in 1..Len(t.values) : i > Len(s.values) => t.values[i] \in T

\* A value made by Value is of its kind.
LEMMA SomeValues ==
  ASSUME NEW K \in SUBSET Kinds
  PROVE  /\ ValueOf(K) \subseteq AnyValue
         /\ \A v \in ValueOf(K) : v.kind \in K
         /\ \A k \in K, c \in Severities, n \in Nat : Value(k, c, n) \in ValueOf(K)
<1>1. ASSUME NEW v \in ValueOf(K) PROVE v \in AnyValue /\ v.kind \in K
  <2>1. v.kind \in K /\ v.kind \in Kinds
    BY DEF ValueOf
  <2>2. v \in AnyValue
    BY <2>1 DEF ValueOf, AnyValue
  <2> QED
    BY <2>1, <2>2
<1>2. ASSUME NEW k \in K, NEW c \in Severities, NEW n \in Nat
      PROVE  Value(k, c, n) \in ValueOf(K)
  BY DEF ValueOf, Value, Names
<1> QED
  BY <1>1, <1>2

\* The fields of a recorded value have their types.
LEMMA ValueParts ==
  ASSUME NEW v \in AnyValue
  PROVE  /\ v.kind \in Kinds /\ v.content \in Severities /\ v.size \in Nat
         /\ v.inert \in BOOLEAN /\ v.cookies \in Nat /\ v.of \in Nat
BY DEF AnyValue, ValueOf

\* The fields of what is recorded have their types.
LEMMA StoreParts ==
  ASSUME NEW s \in Stores
  PROVE  /\ s.values \in Seq(AnyValue) /\ Len(s.values) \in Nat /\ DOMAIN s.values = 1..Len(s.values)
         /\ \A i \in 1..Len(s.values) : s.values[i] \in AnyValue
         /\ s.arena \in Nat /\ s.oversize \in SUBSET Kinds /\ s.dropped \in SUBSET Kinds
         /\ s.unkeyed \in SUBSET Kinds
<1>1. /\ s.values \in Seq(AnyValue) /\ s.arena \in Nat /\ s.oversize \in SUBSET Kinds
      /\ s.dropped \in SUBSET Kinds /\ s.unkeyed \in SUBSET Kinds
  BY DEF Stores
<1> DEFINE vs == s.values
<1> HIDE DEF vs
<1>2. vs \in Seq(AnyValue) => /\ Len(vs) \in Nat /\ DOMAIN vs = 1..Len(vs)
                              /\ \A i \in 1..Len(vs) : vs[i] \in AnyValue
  OBVIOUS
<1> QED
  BY <1>1, <1>2 DEF vs

\* Recording nothing is a growth.
LEMMA GrownNothing == ASSUME NEW s \in Stores, NEW T PROVE Grown(s, s, T)
BY StoreParts DEF Grown

\* Growth composes.
LEMMA GrownTwice ==
  ASSUME NEW s \in Stores, NEW t, NEW u, NEW T, Grown(s, t, T), Grown(t, u, T)
  PROVE  Grown(s, u, T)
<1>1. t \in Stores /\ u \in Stores
  BY DEF Grown
<1>2. Len(s.values) \in Nat /\ Len(t.values) \in Nat /\ Len(u.values) \in Nat
  BY <1>1, StoreParts
<1>3. \A i \in 1..Len(s.values) : i \in 1..Len(t.values)
  BY <1>2 DEF Grown
<1> QED
  BY <1>1, <1>2, <1>3 DEF Grown

\* Growth by few values is growth by more.
LEMMA GrownMore ==
  ASSUME NEW s, NEW t, NEW T, NEW U, T \subseteq U, Grown(s, t, T)
  PROVE  Grown(s, t, U)
BY DEF Grown

\* A sequence behind another.
LEMMA Behind ==
  ASSUME NEW A, NEW vs \in Seq(A), NEW T \in SUBSET A, NEW items \in Seq(T)
  PROVE  LET ws == vs \o items
         IN  /\ ws \in Seq(A) /\ Len(ws) = Len(vs) + Len(items)
             /\ \A i \in 1..Len(vs) : ws[i] = vs[i]
             /\ \A i \in 1..Len(ws) : i > Len(vs) => ws[i] \in T
             /\ \A k \in 1..Len(items) : ws[Len(vs) + k] = items[k]
<1> DEFINE ws == vs \o items
<1>1. items \in Seq(A)
  OBVIOUS
<1>2. /\ ws \in Seq(A) /\ Len(ws) = Len(vs) + Len(items)
      /\ \A i \in 1..Len(ws) : ws[i] = IF i <= Len(vs) THEN vs[i] ELSE items[i - Len(vs)]
  BY <1>1, ConcatProperties
<1> HIDE DEF ws
<1>3. Len(vs) \in Nat /\ Len(items) \in Nat
  OBVIOUS
<1>4. \A i \in 1..Len(vs) : ws[i] = vs[i]
  BY <1>2, <1>3
<1>5. \A i \in 1..Len(ws) : i > Len(vs) => ws[i] \in T
  <2> SUFFICES ASSUME NEW i \in 1..Len(ws), i > Len(vs) PROVE ws[i] \in T
    OBVIOUS
  <2>1. i - Len(vs) \in 1..Len(items)
    BY <1>2, <1>3
  <2>2. items[i - Len(vs)] \in T
    BY <2>1
  <2> QED
    BY <1>2, <1>3, <2>2
<1>6. \A k \in 1..Len(items) : ws[Len(vs) + k] = items[k]
  <2> SUFFICES ASSUME NEW k \in 1..Len(items) PROVE ws[Len(vs) + k] = items[k]
    OBVIOUS
  <2>1. Len(vs) + k \in 1..Len(ws) /\ ~(Len(vs) + k <= Len(vs)) /\ (Len(vs) + k) - Len(vs) = k
    BY <1>2, <1>3
  <2> QED
    BY <1>2, <2>1
<1> QED
  BY <1>2, <1>4, <1>5, <1>6 DEF ws

\* Views are pushed behind what is recorded, without a limit check.
LEMMA PushAllGrows ==
  ASSUME NEW s \in Stores, NEW T \in SUBSET AnyValue, NEW items \in Seq(T)
  PROVE  /\ Grown(s, PushAll(s, items), T)
         /\ PushAll(s, items) = [s EXCEPT !.values = s.values \o items]
         /\ PushAll(s, items).values = s.values \o items
         /\ PushAll(s, items).oversize = s.oversize
         /\ PushAll(s, items).unkeyed = s.unkeyed
<1> DEFINE ws == s.values \o items
<1>1. PushAll(s, items) = [s EXCEPT !.values = ws]
  BY DEF PushAll
<1>2. /\ ws \in Seq(AnyValue) /\ Len(ws) = Len(s.values) + Len(items)
      /\ \A i \in 1..Len(s.values) : ws[i] = s.values[i]
      /\ \A i \in 1..Len(ws) : i > Len(s.values) => ws[i] \in T
  BY StoreParts, Behind
<1>3. Len(s.values) \in Nat /\ Len(items) \in Nat
  BY StoreParts
<1> HIDE DEF ws
<1>4. /\ [s EXCEPT !.values = ws] \in Stores /\ [s EXCEPT !.values = ws].values = ws
      /\ [s EXCEPT !.values = ws].oversize = s.oversize
      /\ [s EXCEPT !.values = ws].unkeyed = s.unkeyed
  BY <1>2 DEF Stores
<1>5. Grown(s, [s EXCEPT !.values = ws], T)
  BY <1>2, <1>3, <1>4 DEF Grown
<1> QED
  BY <1>1, <1>4, <1>5 DEF ws

\* One value pushed is the last one recorded.
LEMMA PushGrows ==
  ASSUME NEW s \in Stores, NEW T \in SUBSET AnyValue, NEW v \in T
  PROVE  /\ Grown(s, Push(s, v), T)
         /\ Push(s, v).values = Append(s.values, v) /\ Push(s, v).arena = s.arena
         /\ Push(s, v).oversize = s.oversize /\ Push(s, v).dropped = s.dropped
         /\ Push(s, v).unkeyed = s.unkeyed
<1> DEFINE ws == Append(s.values, v)
<1>1. v \in AnyValue /\ s.values \in Seq(AnyValue) /\ Len(s.values) \in Nat
  BY StoreParts
<1>2. /\ ws \in Seq(AnyValue) /\ Len(ws) = Len(s.values) + 1 /\ ws[Len(s.values) + 1] = v
      /\ \A i \in 1..Len(s.values) : ws[i] = s.values[i]
  BY <1>1, AppendProperties
<1> HIDE DEF ws
<1>3. \A i \in 1..Len(ws) : i > Len(s.values) => ws[i] \in T
  BY <1>1, <1>2
<1>4. /\ [s EXCEPT !.values = ws] \in Stores /\ [s EXCEPT !.values = ws].values = ws
      /\ [s EXCEPT !.values = ws].arena = s.arena
      /\ [s EXCEPT !.values = ws].oversize = s.oversize /\ [s EXCEPT !.values = ws].dropped = s.dropped
      /\ [s EXCEPT !.values = ws].unkeyed = s.unkeyed
  BY <1>2 DEF Stores
<1>5. Push(s, v) = [s EXCEPT !.values = ws]
  BY DEF Push, ws
<1> QED
  BY <1>1, <1>2, <1>3, <1>4, <1>5 DEF Grown, ws

\* A value too large leaves a note under its key, or none.
LEMMA NoteKept ==
  ASSUME NEW s \in Stores, NEW v \in AnyValue
  PROVE  LET t == NoteOversize(s, v)
         IN  /\ t \in Stores /\ t.values = s.values /\ t.dropped = s.dropped
             /\ s.oversize \subseteq t.oversize /\ s.unkeyed \subseteq t.unkeyed
             /\ t.oversize \subseteq s.oversize \cup {v.kind} /\ PassedOver(t, v)
<1>1. v.kind \in Kinds
  BY ValueParts
<1>2. CASE Keyed(v)
  <2> DEFINE t == [s EXCEPT !.oversize = @ \cup {v.kind}]
  <2>1. /\ t \in Stores /\ t.values = s.values /\ t.dropped = s.dropped
        /\ t.oversize = s.oversize \cup {v.kind} /\ t.unkeyed = s.unkeyed
    BY <1>1 DEF Stores
  <2>2. NoteOversize(s, v) = t
    BY <1>2 DEF NoteOversize
  <2> HIDE DEF t
  <2> QED
    BY <1>2, <2>1, <2>2 DEF PassedOver
<1>3. CASE ~Keyed(v)
  <2> DEFINE t == [s EXCEPT !.unkeyed = @ \cup {v.kind}]
  <2>1. /\ t \in Stores /\ t.values = s.values /\ t.dropped = s.dropped
        /\ t.unkeyed = s.unkeyed \cup {v.kind} /\ t.oversize = s.oversize
    BY <1>1 DEF Stores
  <2>2. NoteOversize(s, v) = t
    BY <1>3 DEF NoteOversize
  <2> HIDE DEF t
  <2> QED
    BY <1>3, <2>1, <2>2 DEF PassedOver
<1> QED
  BY <1>2, <1>3

\* add: a value is recorded last, or passed over as too large or for want of room.
LEMMA PutGrows ==
  ASSUME cfg \in Config, NEW s \in Stores, NEW T \in SUBSET AnyValue, NEW v \in T
  PROVE  /\ Grown(s, Put(s, v), T)
         /\ s.oversize \subseteq Put(s, v).oversize /\ s.dropped \subseteq Put(s, v).dropped
         /\ s.unkeyed \subseteq Put(s, v).unkeyed
         /\ \/ Put(s, v).values = Append(s.values, v)
            \/ Put(s, v).values = s.values /\ PassedOver(Put(s, v), v)
<1>1. /\ v \in AnyValue /\ v.kind \in Kinds /\ v.size \in Nat /\ MaxValueLen \in Nat
      /\ cfg.arena \in Nat
  BY ConstantsAssumption DEF AnyValue, ValueOf, Config
<1>2. CASE v.size > MaxValueLen
  <2> DEFINE t == NoteOversize(s, v)
  <2>1. /\ t \in Stores /\ t.values = s.values /\ t.dropped = s.dropped
        /\ s.oversize \subseteq t.oversize /\ s.unkeyed \subseteq t.unkeyed /\ PassedOver(t, v)
    BY <1>1, NoteKept
  <2>2. Put(s, v) = t
    BY <1>2 DEF Put
  <2> HIDE DEF t
  <2> QED
    BY <2>1, <2>2, StoreParts DEF Grown
<1>3. CASE ~(v.size > MaxValueLen) /\ s.arena + v.size > cfg.arena
  <2> DEFINE t == [s EXCEPT !.dropped = @ \cup {v.kind}]
  <2>1. /\ t \in Stores /\ t.values = s.values /\ t.oversize = s.oversize
        /\ t.unkeyed = s.unkeyed /\ t.dropped = s.dropped \cup {v.kind}
    BY <1>1 DEF Stores
  <2>2. Put(s, v) = t
    BY <1>3 DEF Put
  <2> HIDE DEF t
  <2> QED
    BY <2>1, <2>2, StoreParts DEF Grown, PassedOver
<1>4. CASE ~(v.size > MaxValueLen) /\ ~(s.arena + v.size > cfg.arena)
  <2> DEFINE t == [s EXCEPT !.arena = @ + v.size]
  <2>1. /\ t \in Stores /\ t.values = s.values /\ t.oversize = s.oversize
        /\ t.unkeyed = s.unkeyed /\ t.dropped = s.dropped
    BY SMTT(30), <1>1 DEF Stores
  <2>2. Put(s, v) = Push(t, v)
    BY <1>4 DEF Put
  <2> HIDE DEF t
  <2>3. Grown(t, Push(t, v), T)
    BY <2>1, PushGrows
  <2>4. Grown(s, Push(t, v), T)
    BY <2>1, <2>3 DEF Grown
  <2>5. /\ Push(t, v).values = Append(s.values, v) /\ Push(t, v).oversize = s.oversize
        /\ Push(t, v).dropped = s.dropped /\ Push(t, v).unkeyed = s.unkeyed
    BY <2>1, PushGrows
  <2> QED
    BY <2>2, <2>4, <2>5
<1> QED
  BY <1>2, <1>3, <1>4
-----------------------------------------------------------------------------
(* Several values at once                                                    *)

\* PutAll, item by item.
Recorded(f, s, items, n) == f[0] = s /\ \A k \in 1..n : f[k] = Put(f[k - 1], items[k])

\* PutAll is the last place of its recursion.
LEMMA PutAllUnfolds ==
  ASSUME cfg \in Config, NEW s \in Stores, NEW items \in Seq(AnyValue)
  PROVE  \E f : Recorded(f, s, items, Len(items)) /\ PutAll(s, items) = f[Len(items)]
<1> DEFINE n == Len(items)
           Is(f) == f = [k \in 0..n |-> IF k = 0 THEN s ELSE Put(f[k - 1], items[k])]
           f == CHOOSE f : Is(f)
<1>0. n \in Nat /\ \A k \in 1..n : items[k] \in AnyValue
  OBVIOUS
<1>1. PutAll(s, items) = f[n]
  BY DEF PutAll
<1> HIDE DEF n
<1>2. \E g : Is(g)
  <2> DEFINE step == [p \in Stores \X (1..n) |-> Put(p[1], items[p[2]])]
  <2>1. \A t \in Stores, k \in 1..n : Put(t, items[k]) \in Stores
    <3> TAKE t \in Stores, k \in 1..n
    <3> QED
      BY <1>0, PutGrows DEF Grown
  <2>2. step \in [Stores \X (1..n) -> Stores]
    BY <2>1
  <2>3. \A t \in Stores, k \in 1..n : step[<<t, k>>] = Put(t, items[k])
    OBVIOUS
  <2> HIDE DEF step
  <2>4. PICK g : Iterates(g, Stores, n, s, step)
    BY <1>0, <2>2, IterationExists
  <2>5. \A k \in 1..n : g[k] = Put(g[k - 1], items[k])
    <3> TAKE k \in 1..n
    <3>1. k - 1 \in 0..n
      BY <1>0
    <3>2. g[k - 1] \in Stores /\ g[k] = step[<<g[k - 1], k>>]
      BY <2>4, <3>1 DEF Iterates
    <3> QED
      BY <2>3, <3>2
  <2>6. g \in [0..n -> Stores] /\ g[0] = s
    BY <2>4 DEF Iterates
  <2>7. \A k \in 0..n : k = 0 \/ k \in 1..n
    BY <1>0
  <2>8. g = [k \in 0..n |-> IF k = 0 THEN s ELSE Put(g[k - 1], items[k])]
    BY <2>5, <2>6, <2>7
  <2> QED
    BY <2>8
<1> HIDE DEF Is
<1>3. Is(f)
  BY <1>2
<1> HIDE DEF f
<1>4. Recorded(f, s, items, n)
  <2>1. \A k \in 0..n : f[k] = IF k = 0 THEN s ELSE Put(f[k - 1], items[k])
    BY <1>3 DEF Is
  <2>2. 0 \in 0..n /\ \A k \in 1..n : k \in 0..n /\ k # 0
    BY <1>0
  <2> QED
    BY <2>1, <2>2 DEF Recorded
<1> QED
  BY <1>1, <1>4 DEF n

\* Recording several values is a growth, and no note of one too large is lost.
LEMMA PutAllGrows ==
  ASSUME cfg \in Config, NEW s \in Stores, NEW T \in SUBSET AnyValue, NEW items \in Seq(T)
  PROVE  /\ Grown(s, PutAll(s, items), T)
         /\ s.oversize \subseteq PutAll(s, items).oversize
         /\ s.dropped \subseteq PutAll(s, items).dropped
         /\ s.unkeyed \subseteq PutAll(s, items).unkeyed
<1> DEFINE n == Len(items)
<1>1. items \in Seq(AnyValue) /\ n \in Nat /\ \A k \in 1..n : items[k] \in T
  OBVIOUS
<1>2. PICK f : Recorded(f, s, items, n) /\ PutAll(s, items) = f[n]
  BY <1>1, PutAllUnfolds
<1> HIDE DEF n
<1> DEFINE K == {k \in 0..n : /\ Grown(s, f[k], T) /\ s.oversize \subseteq f[k].oversize
                              /\ s.dropped \subseteq f[k].dropped
                              /\ s.unkeyed \subseteq f[k].unkeyed}
<1>3. 0 \in K
  BY <1>1, <1>2, GrownNothing DEF Recorded
<1>4. \A k \in 1..n : k - 1 \in K => k \in K
  <2> SUFFICES ASSUME NEW k \in 1..n, k - 1 \in K PROVE k \in K
    OBVIOUS
  <2>1. /\ Grown(s, f[k - 1], T) /\ f[k - 1] \in Stores
        /\ s.oversize \subseteq f[k - 1].oversize /\ s.dropped \subseteq f[k - 1].dropped
        /\ s.unkeyed \subseteq f[k - 1].unkeyed
    BY DEF Grown
  <2>2. f[k] = Put(f[k - 1], items[k])
    BY <1>2 DEF Recorded
  <2> DEFINE t == f[k - 1]
             v == items[k]
  <2>a. t \in Stores /\ v \in T
    BY <1>1, <2>1
  <2> HIDE DEF t, v
  <2>b. /\ Grown(t, Put(t, v), T)
        /\ t.oversize \subseteq Put(t, v).oversize /\ t.dropped \subseteq Put(t, v).dropped
        /\ t.unkeyed \subseteq Put(t, v).unkeyed
    BY <2>a, PutGrows
  <2>3. /\ Grown(f[k - 1], f[k], T)
        /\ f[k - 1].oversize \subseteq f[k].oversize /\ f[k - 1].dropped \subseteq f[k].dropped
        /\ f[k - 1].unkeyed \subseteq f[k].unkeyed
    BY <2>2, <2>b DEF t, v
  <2>4. Grown(s, f[k], T)
    BY <2>1, <2>3, GrownTwice
  <2>5. k \in 0..n
    BY <1>1
  <2> QED
    BY <2>1, <2>3, <2>4, <2>5
<1> HIDE DEF K
<1>a. n \in Nat
  BY <1>1
<1>5. n \in K
  BY <1>3, <1>4, <1>a, UpTo
<1> QED
  BY <1>2, <1>5 DEF K

\* SizeOf, value by value.
Sums(f, vs, n) == f[0] = 0 /\ \A k \in 1..n : f[k] = f[k - 1] + vs[k].size

\* SizeOf is the last place of its recursion.
LEMMA SizeOfUnfolds ==
  ASSUME NEW vs \in Seq(AnyValue)
  PROVE  \E f : Sums(f, vs, Len(vs)) /\ SizeOf(vs) = f[Len(vs)]
<1> DEFINE n == Len(vs)
           Is(f) == f = [k \in 0..n |-> IF k = 0 THEN 0 ELSE f[k - 1] + vs[k].size]
           f == CHOOSE f : Is(f)
<1>a. n \in Nat /\ \A k \in 1..n : vs[k] \in AnyValue
  OBVIOUS
<1>0. n \in Nat /\ \A k \in 1..n : vs[k] \in AnyValue /\ vs[k].size \in Nat
  BY <1>a, ValueParts
<1>1. SizeOf(vs) = f[n]
  BY DEF SizeOf
<1> HIDE DEF n
<1>2. \E g : Is(g)
  <2> DEFINE step == [p \in Nat \X (1..n) |-> p[1] + vs[p[2]].size]
  <2>1. \A t \in Nat, k \in 1..n : t + vs[k].size \in Nat
    BY <1>0
  <2>2. step \in [Nat \X (1..n) -> Nat]
    BY <2>1
  <2>3. \A t \in Nat, k \in 1..n : step[<<t, k>>] = t + vs[k].size
    OBVIOUS
  <2> HIDE DEF step
  <2>4. PICK g : Iterates(g, Nat, n, 0, step)
    BY <1>0, <2>2, IterationExists
  <2>5. \A k \in 1..n : g[k] = g[k - 1] + vs[k].size
    <3> TAKE k \in 1..n
    <3>1. k - 1 \in 0..n
      BY <1>0
    <3>2. g[k - 1] \in Nat /\ g[k] = step[<<g[k - 1], k>>]
      BY <2>4, <3>1 DEF Iterates
    <3> QED
      BY <2>3, <3>2
  <2>6. g \in [0..n -> Nat] /\ g[0] = 0
    BY <2>4 DEF Iterates
  <2>7. \A k \in 0..n : k = 0 \/ k \in 1..n
    BY <1>0
  <2>8. g = [k \in 0..n |-> IF k = 0 THEN 0 ELSE g[k - 1] + vs[k].size]
    BY <2>5, <2>6, <2>7
  <2> QED
    BY <2>8
<1> HIDE DEF Is
<1>3. Is(f)
  BY <1>2
<1> HIDE DEF f
<1>4. Sums(f, vs, n)
  <2>1. \A k \in 0..n : f[k] = IF k = 0 THEN 0 ELSE f[k - 1] + vs[k].size
    BY <1>3 DEF Is
  <2>2. 0 \in 0..n /\ \A k \in 1..n : k \in 0..n /\ k # 0
    BY <1>0
  <2> QED
    BY <2>1, <2>2 DEF Sums
<1> QED
  BY <1>1, <1>4 DEF n

\* The size of a group is a number no smaller than any of its values.
LEMMA SizeOfSums ==
  ASSUME NEW vs \in Seq(AnyValue)
  PROVE  SizeOf(vs) \in Nat /\ \A i \in 1..Len(vs) : vs[i].size <= SizeOf(vs)
<1> DEFINE n == Len(vs)
<1>a. n \in Nat /\ \A k \in 1..n : vs[k] \in AnyValue
  OBVIOUS
<1>0. n \in Nat /\ \A k \in 1..n : vs[k].size \in Nat
  BY <1>a, ValueParts
<1>1. PICK f : Sums(f, vs, n) /\ SizeOf(vs) = f[n]
  BY SizeOfUnfolds
<1> HIDE DEF n
<1> DEFINE K == {k \in 0..n : f[k] \in Nat /\ \A i \in 1..k : vs[i].size <= f[k]}
<1>2. 0 \in K
  BY <1>0, <1>1 DEF Sums
<1>3. \A k \in 1..n : k - 1 \in K => k \in K
  <2> SUFFICES ASSUME NEW k \in 1..n, k - 1 \in K PROVE k \in K
    OBVIOUS
  <2>1. f[k - 1] \in Nat /\ (\A i \in 1..k - 1 : vs[i].size <= f[k - 1]) /\ vs[k].size \in Nat
    BY <1>0
  <2>2. f[k] = f[k - 1] + vs[k].size
    BY <1>1 DEF Sums
  <2>3. \A i \in 1..k : vs[i].size <= f[k]
    <3> TAKE i \in 1..k
    <3>1. i = k \/ i \in 1..k - 1
      OBVIOUS
    <3>2. vs[i].size \in Nat
      BY <1>0
    <3> QED
      BY <2>1, <2>2, <3>1, <3>2
  <2> QED
    BY <1>0, <2>1, <2>2, <2>3
<1> HIDE DEF K
<1>b. n \in Nat
  BY <1>0
<1>c. 0..n \subseteq K
  BY <1>2, <1>3, <1>b, UpTo
<1>4. n \in K
  BY <1>b, <1>c
<1> QED
  BY <1>1, <1>4 DEF K, n

\* Sequences laid end to end.
Laid(f, seqs, n) ==
  \A k \in 1..n : f[k] = IF k = 1 THEN seqs[k] ELSE f[k - 1] \o seqs[k]

\* FlattenSeq is the last place of its recursion.
LEMMA FlattenUnfolds ==
  ASSUME NEW T, NEW seqs \in Seq(Seq(T)), Len(seqs) # 0
  PROVE  \E f : Laid(f, seqs, Len(seqs)) /\ FlattenSeq(seqs) = f[Len(seqs)]
<1> DEFINE n == Len(seqs)
           Is(f) == f = [k \in 1..n |-> IF k = 1 THEN seqs[k] ELSE f[k - 1] \o seqs[k]]
           f == CHOOSE f : Is(f)
<1>0. n \in Nat /\ n # 0 /\ \A k \in 1..n : seqs[k] \in Seq(T)
  OBVIOUS
<1>1. FlattenSeq(seqs) = f[n]
  BY DEF FlattenSeq
<1> HIDE DEF n
<1>2. \E g : Is(g)
  <2> DEFINE step == [p \in Seq(T) \X (1..n) |->
                        IF p[2] = 1 THEN seqs[1] ELSE p[1] \o seqs[p[2]]]
  <2>0. <<>> \in Seq(T) /\ 1 \in 1..n
    BY <1>0
  <2>1. \A t \in Seq(T), k \in 1..n : t \o seqs[k] \in Seq(T)
    BY <1>0
  <2>2. step \in [Seq(T) \X (1..n) -> Seq(T)]
    BY <1>0, <2>0, <2>1
  <2>3. \A t \in Seq(T), k \in 1..n : step[<<t, k>>] = IF k = 1 THEN seqs[k] ELSE t \o seqs[k]
    OBVIOUS
  <2> HIDE DEF step
  <2>4. PICK g : Iterates(g, Seq(T), n, <<>>, step)
    BY <1>0, <2>0, <2>2, IterationExists
  <2>5. \A k \in 1..n : g[k] = IF k = 1 THEN seqs[k] ELSE g[k - 1] \o seqs[k]
    <3> TAKE k \in 1..n
    <3>1. k - 1 \in 0..n
      BY <1>0
    <3>2. g[k - 1] \in Seq(T) /\ g[k] = step[<<g[k - 1], k>>]
      BY <2>4, <3>1 DEF Iterates
    <3> QED
      BY <2>3, <3>2
  <2> DEFINE h == [k \in 1..n |-> g[k]]
  <2>6. \A k \in 1..n : h[k] = IF k = 1 THEN seqs[k] ELSE h[k - 1] \o seqs[k]
    <3> TAKE k \in 1..n
    <3>1. k # 1 => k - 1 \in 1..n
      BY <1>0
    <3> QED
      BY <2>5, <3>1
  <2>7. h = [k \in 1..n |-> IF k = 1 THEN seqs[k] ELSE h[k - 1] \o seqs[k]]
    <3>1. h = [k \in 1..n |-> h[k]]
      OBVIOUS
    <3> HIDE DEF h
    <3> QED
      BY <2>6, <3>1
  <2> HIDE DEF h
  <2> QED
    BY <2>7
<1> HIDE DEF Is
<1>3. Is(f)
  BY <1>2
<1> HIDE DEF f
<1>4. Laid(f, seqs, n)
  BY <1>3 DEF Is, Laid
<1> QED
  BY <1>1, <1>4 DEF n

\* Sequences laid end to end are a sequence of the same values.
LEMMA FlattenType ==
  ASSUME NEW T, NEW seqs \in Seq(Seq(T))
  PROVE  FlattenSeq(seqs) \in Seq(T)
<1> DEFINE n == Len(seqs)
<1>0. n \in Nat /\ \A k \in 1..n : seqs[k] \in Seq(T)
  OBVIOUS
<1>1. CASE n = 0
  <2>1. seqs = <<>>
    BY <1>1, EmptySeq
  <2>2. FlattenSeq(seqs) = seqs
    BY <1>1 DEF FlattenSeq
  <2>3. <<>> \in Seq(T)
    OBVIOUS
  <2> QED
    BY <2>1, <2>2, <2>3
<1>2. CASE n # 0
  <2>1. PICK f : Laid(f, seqs, n) /\ FlattenSeq(seqs) = f[n]
    BY <1>2, FlattenUnfolds
  <2> HIDE DEF n
  <2> DEFINE K == {k \in 0..n : k = 0 \/ f[k] \in Seq(T)}
  <2>2. 0 \in K
    BY <1>0
  <2>3. \A k \in 1..n : k - 1 \in K => k \in K
    <3> SUFFICES ASSUME NEW k \in 1..n, k - 1 \in K PROVE k \in K
      OBVIOUS
    <3>1. f[k] = IF k = 1 THEN seqs[k] ELSE f[k - 1] \o seqs[k]
      BY <2>1 DEF Laid
    <3>2. k # 1 => k - 1 # 0
      BY <1>0
    <3>3. f[k] \in Seq(T)
      <4>1. CASE k = 1
        BY <1>0, <3>1, <4>1
      <4>2. CASE k # 1
        <5>1. f[k - 1] \in Seq(T) /\ seqs[k] \in Seq(T)
          BY <1>0, <3>2, <4>2
        <5> QED
          BY <3>1, <4>2, <5>1
      <4> QED
        BY <4>1, <4>2
    <3>4. k \in 0..n
      BY <1>0
    <3> QED
      BY <3>3, <3>4
  <2> HIDE DEF K
  <2>a. n \in Nat
    BY <1>0 DEF n
  <2>b. 0..n \subseteq K
    BY <2>2, <2>3, <2>a, UpTo
  <2>4. n \in K
    BY <2>a, <2>b
  <2> QED
    BY <1>2, <2>1, <2>4 DEF K
<1> QED
  BY <1>1, <1>2
-----------------------------------------------------------------------------
(* The values each call records                                              *)

\* The sets of kinds the calls name are kinds.
LEMMA KindsKnown ==
  /\ \A k \in Kinds : {k} \in SUBSET Kinds
  /\ {"arg", "argname"} \in SUBSET Kinds /\ {"arg"} \in SUBSET Kinds
  /\ {"arg", "argname", "body"} \in SUBSET Kinds
  /\ {"line", "addr", "header", "arg", "argname", "body", "resolved"} \in SUBSET Kinds
  /\ Views \in SUBSET Kinds /\ ResponseKinds \in SUBSET Kinds
  /\ "joined" \in Views /\ "cookie" \in Views /\ "argsget" \in Views /\ "argspost" \in Views
BY DEF Kinds, Views, ResponseKinds

\* A joined value is recorded in the collection it is joined for.
LEMMA JoinedType ==
  ASSUME NEW k \in Kinds, NEW group \in Seq(AnyValue)
  PROVE  Joined(k, group) \in ValueOf({k})
<1>1. Combined(ContentsOf(group)) \in Severities
  BY DEF Combined, Severities
<1>2. SizeOf(group) \in Nat
  BY SizeOfSums
<1> QED
  BY <1>1, <1>2, SomeValues, KindsKnown DEF Joined

\* An argument and its name are recorded as such.
LEMMA ArgValueType ==
  ASSUME NEW a \in Argument, NEW op, NEW from \in {"call", "line", "join", "body", "view"}
  PROVE  /\ ArgValue(a, op, from) \in ValueOf({"arg"})
         /\ ArgValue(a, op, from).content = a.content /\ ArgValue(a, op, from).size = a.size
         /\ ArgValue(a, op, from).name = a.name /\ ArgValue(a, op, from).from = from
         /\ NameValue(a) \in ValueOf({"argname"})
<1>1. a.content \in Severities /\ a.size \in Nat /\ a.name \in Names /\ a.key \in Severities
  BY DEF Argument, Names
<1>2. (op # {} /\ a.field = "inert") \in BOOLEAN
  OBVIOUS
<1>3. NameValue(a) \in ValueOf({"argname"})
  BY <1>1, SomeValues, KindsKnown DEF NameValue, Kinds
<1> QED
  BY <1>1, <1>2, <1>3 DEF ArgValue, Value, ValueOf

\* Arguments and their names, whatever set both lie in.
LEMMA ArgItemsIn ==
  ASSUME NEW args \in Seq(Argument), NEW op, NEW from, NEW T,
         \A a \in Argument : ArgValue(a, op, from) \in T /\ NameValue(a) \in T
  PROVE  ArgItems(args, op, from) \in Seq(T)
<1> DEFINE seqs == [i \in DOMAIN args |-> <<ArgValue(args[i], op, from), NameValue(args[i])>>]
<1>1. \A i \in 1..Len(args) : args[i] \in Argument
  OBVIOUS
<1>2. \A i \in 1..Len(args) : <<ArgValue(args[i], op, from), NameValue(args[i])>> \in Seq(T)
  BY <1>1
<1>a. Len(args) \in Nat /\ DOMAIN args = 1..Len(args)
  OBVIOUS
<1>b. seqs \in [1..Len(args) -> Seq(T)]
  BY <1>2, <1>a
<1> HIDE DEF seqs
<1>3. seqs \in Seq(Seq(T))
  BY <1>a, <1>b
<1>4. FlattenSeq(seqs) \in Seq(T)
  BY <1>3, FlattenType
<1> QED
  BY <1>4 DEF ArgItems, seqs

\* Arguments and their names are recorded as such.
LEMMA ArgItemsType ==
  ASSUME NEW args \in Seq(Argument), NEW op, NEW from \in {"call", "line", "join", "body", "view"}
  PROVE  ArgItems(args, op, from) \in Seq(ValueOf({"arg", "argname"}))
<1> DEFINE T == ValueOf({"arg", "argname"})
<1>1. ValueOf({"arg"}) \subseteq T /\ ValueOf({"argname"}) \subseteq T
  BY DEF ValueOf
<1> HIDE DEF T
<1>2. \A a \in Argument : ArgValue(a, op, from) \in T /\ NameValue(a) \in T
  BY <1>1, ArgValueType
<1>3. ArgItems(args, op, from) \in Seq(T)
  BY <1>2, ArgItemsIn
<1> QED
  BY <1>3 DEF T

\* What a body hands over: its arguments come from the body.
FromBody(K) == {v \in ValueOf(K) : IsArg(v) => v.from = "body"}

\* The fields of a body are recorded as arguments of the body.
LEMMA FieldItemsType ==
  ASSUME NEW fields \in Seq(Argument), NEW op
  PROVE  FieldItems(fields, op) \in Seq(FromBody({"arg", "argname"}))
<1> DEFINE T == FromBody({"arg", "argname"})
           B == {v \in ValueOf({"arg"}) : v.from = "body"}
           Hid(a) == IF a.hidden = "none" THEN <<>>
                     ELSE <<[Value("arg", a.hidden, a.size) EXCEPT !.name = a.name, !.from = "body"]>>
           Each(a) == <<NameValue(a)>> \o Hid(a) \o <<ArgValue(a, op, "body")>>
           seqs == [i \in DOMAIN fields |-> Each(fields[i])]
<1>1. B \subseteq T /\ ValueOf({"argname"}) \subseteq T
  BY DEF ValueOf, FromBody, IsArg
<1>2. \A i \in 1..Len(fields) : fields[i] \in Argument
  OBVIOUS
<1>3. ASSUME NEW a \in Argument PROVE Each(a) \in Seq(T)
  <2>1. NameValue(a) \in T /\ ArgValue(a, op, "body") \in T
    BY <1>1, ArgValueType
  <2>2. Hid(a) \in Seq(T)
    <3>1. CASE a.hidden = "none"
      BY <3>1
    <3>2. CASE a.hidden # "none"
      <4> DEFINE v == [Value("arg", a.hidden, a.size) EXCEPT !.name = a.name, !.from = "body"]
      <4>1. a.hidden \in Severities /\ a.size \in Nat /\ a.name \in Names
        BY <3>2 DEF Argument, Names
      <4>2. v \in B
        BY <4>1 DEF Value, ValueOf
      <4> HIDE DEF v, T, B
      <4>3. <<v>> \in Seq(T)
        BY <1>1, <4>2
      <4> QED
        BY <3>2, <4>3 DEF v
    <3> QED
      BY <3>1, <3>2
  <2> HIDE DEF T, Hid
  <2> QED
    BY <2>1, <2>2
<1> HIDE DEF T, Each
<1>a. Len(fields) \in Nat /\ DOMAIN fields = 1..Len(fields)
  OBVIOUS
<1>b. seqs \in [1..Len(fields) -> Seq(T)]
  BY <1>2, <1>3, <1>a
<1> HIDE DEF seqs
<1>4. seqs \in Seq(Seq(T))
  BY <1>a, <1>b
<1>5. FlattenSeq(seqs) \in Seq(T)
  BY <1>4, FlattenType
<1> QED
  BY <1>5 DEF FieldItems, T, Each, seqs

\* The body's values: its fields, and what it is read as whole.
LEMMA BodyItemsType ==
  ASSUME NEW b \in Body, NEW op
  PROVE  FieldItems(b.fields, op) \o [i \in DOMAIN b.raw |-> Value("body", b.raw[i], b.size)]
           \in Seq(FromBody({"arg", "argname", "body"}))
<1> DEFINE T == FromBody({"arg", "argname", "body"})
           raw == [i \in DOMAIN b.raw |-> Value("body", b.raw[i], b.size)]
<1>1. b.fields \in Seq(Argument) /\ b.raw \in Seq(Severities) /\ b.size \in Nat
  BY DEF Body
<1>2. FromBody({"arg", "argname"}) \subseteq T /\ ValueOf({"body"}) \subseteq T
  BY DEF ValueOf, FromBody, IsArg
<1>3. \A i \in 1..Len(b.raw) : Value("body", b.raw[i], b.size) \in ValueOf({"body"})
  <2>1. \A i \in 1..Len(b.raw) : b.raw[i] \in Severities
    BY <1>1
  <2> QED
    BY <1>1, <2>1, SomeValues, KindsKnown DEF Kinds
<1> HIDE DEF T
<1>4. raw \in Seq(T)
  BY <1>1, <1>2, <1>3
<1>5. FieldItems(b.fields, op) \in Seq(FromBody({"arg", "argname"}))
  BY <1>1, FieldItemsType
<1>6. FieldItems(b.fields, op) \in Seq(T)
  BY <1>2, <1>5
<1> HIDE DEF raw
<1>7. FieldItems(b.fields, op) \o raw \in Seq(T)
  BY <1>4, <1>6
<1> QED
  BY <1>7 DEF T, raw

\* The arguments within the limit are arguments.
LEMMA KeptType ==
  ASSUME NEW args \in Seq(Argument), counts.args \in Nat
  PROVE  Kept(args) \in Seq(Argument)
<1>1. Len(args) \in Nat /\ MaxArgs - counts.args \in Int
  BY ConstantsAssumption
<1> DEFINE a == Len(args)
           b == MaxArgs - counts.args
           m == Min({a, b})
<1>a. a \in Int /\ b \in Int
  BY <1>1
<1> HIDE DEF a, b
<1>b. m \in {a, b} /\ m <= a
  BY <1>a, Lesser
<1> HIDE DEF m
<1>2. m \in Int /\ m <= Len(args)
  BY <1>a, <1>b DEF a
<1>3. SubSeq(args, 1, m) \in Seq(Argument)
  <2>1. \A i \in 1..m : i \in 1..Len(args)
    BY <1>1, <1>2
  <2> QED
    BY <1>2, <2>1, SubSeqProperties
<1> QED
  BY <1>3 DEF Kept, m, a, b

\* The values of one name behind the place lo, where each of these groups starts, and
\* the one argument made of it.
SameName(vs, lo, i) == {j \in lo + 1 .. Len(vs) : IsArg(vs[j]) /\ vs[j].name = vs[i].name}

Firsts(vs, lo) ==
  {i \in lo + 1 .. Len(vs) :
     /\ IsArg(vs[i]) /\ vs[i].name # "" /\ SameName(vs, lo, i) # {i}
     /\ \A j \in SameName(vs, lo, i) : i <= j}

OneName(vs, lo, i) ==
  LET group == Picked(vs, SameName(vs, lo, i))
  IN  [Joined("arg", group) EXCEPT
         !.size = @ + Len(group) - 1, !.name = vs[i].name, !.from = "join"]

\* joinDuplicateArgs: every repeated name is joined, while few values were recorded.
LEMMA DuplicatesType ==
  ASSUME NEW vs \in Seq(AnyValue), marks.body \in Int
  PROVE  LET lo == IF marks.body < 0 THEN 0 ELSE marks.body IN
         /\ Duplicates(vs) \in Seq({v \in ValueOf({"arg"}) : v.from = "join"})
         /\ Len(vs) - lo <= JoinScanLimit =>
              \A i \in Firsts(vs, lo) :
                \E x \in 1..Len(Duplicates(vs)) : Duplicates(vs)[x] = OneName(vs, lo, i)
<1> DEFINE n == Len(vs)
           lo == IF marks.body < 0 THEN 0 ELSE marks.body
           T == {v \in ValueOf({"arg"}) : v.from = "join"}
           joined == [i \in DOMAIN vs |-> OneName(vs, lo, i)]
<1>1. n \in Nat /\ lo \in Nat /\ DOMAIN vs = 1..n /\ \A i \in 1..n : vs[i] \in AnyValue
  OBVIOUS
<1>2. ASSUME NEW i \in 1..n, i \in Firsts(vs, lo) PROVE OneName(vs, lo, i) \in T
  <2> DEFINE S == SameName(vs, lo, i)
             group == Picked(vs, S)
  <2>1. group \in Seq(AnyValue) /\ \E p : Places(p, group, vs, S \cap 1..n)
    <3> HIDE DEF S
    <3> QED
      BY <1>1, PickedPlaces
  <2>2. Len(group) \in Nat /\ Len(group) >= 1
    <3>1. PICK p : Places(p, group, vs, S \cap 1..n)
      BY <2>1
    <3>2. i \in S \cap 1..n
      BY <1>1, <1>2 DEF SameName, Firsts
    <3> HIDE DEF group, S
    <3>3. PICK x \in 1..Len(p) : p[x] = i
      BY <3>1, <3>2 DEF Places
    <3>4. Len(p) = Len(group) /\ Len(p) \in Nat
      BY <3>1 DEF Places
    <3> QED
      BY <3>3, <3>4
  <2> HIDE DEF group
  <2> DEFINE v == Joined("arg", group)
  <2>3. v \in ValueOf({"arg"})
    BY <2>1, JoinedType DEF Kinds
  <2> HIDE DEF v
  <2>4. v.size + Len(group) - 1 \in Nat /\ vs[i].name \in Names
    <3>1. v.size \in Nat
      BY <2>3 DEF ValueOf
    <3>2. vs[i].name \in Names
      BY <1>1 DEF AnyValue, ValueOf
    <3> QED
      BY <2>2, <3>1, <3>2
  <2>5. [v EXCEPT !.size = @ + Len(group) - 1, !.name = vs[i].name, !.from = "join"] \in T
    BY <2>3, <2>4 DEF ValueOf
  <2> QED
    BY <2>5 DEF v, group, OneName
<1>3. Len(joined) = n /\ \A i \in 1..n : joined[i] = OneName(vs, lo, i)
  BY <1>1
<1>4. \A i \in 1..n : i \in Firsts(vs, lo) => joined[i] \in T
  BY <1>2, <1>3
<1>5. Duplicates(vs) = IF n - lo > JoinScanLimit THEN <<>> ELSE Picked(joined, Firsts(vs, lo))
  BY DEF Duplicates, Firsts, SameName, OneName
<1>6. Firsts(vs, lo) \subseteq 1..n
  <2>1. Firsts(vs, lo) \subseteq lo + 1 .. n
    BY DEF Firsts
  <2> HIDE DEF lo, n
  <2> QED
    BY <1>1, <2>1
<1> HIDE DEF joined, n, lo, T
<1> DEFINE q == Picked(joined, Firsts(vs, lo))
<1>7. q \in Seq(T) /\ \E p : Places(p, q, joined, Firsts(vs, lo) \cap 1..n)
  BY <1>1, <1>3, <1>4, PickedPlaces
<1> HIDE DEF q
<1>8. ASSUME NEW i \in Firsts(vs, lo) PROVE \E x \in 1..Len(q) : q[x] = OneName(vs, lo, i)
  <2>1. PICK p : Places(p, q, joined, Firsts(vs, lo) \cap 1..n)
    BY <1>7
  <2>2. i \in Firsts(vs, lo) \cap 1..n
    BY <1>6
  <2>3. PICK x \in 1..Len(p) : p[x] = i
    BY <2>1, <2>2 DEF Places
  <2>4. Len(p) = Len(q) /\ q[x] = joined[i]
    BY <2>1, <2>3 DEF Places
  <2> QED
    BY <1>3, <2>2, <2>3, <2>4
<1>9. n - lo <= JoinScanLimit => Duplicates(vs) = q
  <2>1. JoinScanLimit \in Nat /\ n - lo \in Int
    BY <1>1, ConstantsAssumption
  <2> QED
    BY <1>5, <2>1 DEF q
<1>10. Duplicates(vs) \in Seq(T)
  <2>1. <<>> \in Seq(T)
    OBVIOUS
  <2> QED
    BY <1>5, <1>7, <2>1 DEF q
<1> QED
  BY <1>8, <1>9, <1>10 DEF n, lo, T
-----------------------------------------------------------------------------
(* The derived collections                                                   *)

\* A sequence over a set is one over a larger set.
LEMMA Wider == ASSUME NEW T, NEW U, T \subseteq U, NEW q \in Seq(T) PROVE q \in Seq(U)
OBVIOUS

\* A view stands for the value it copies.
LEMMA ViewType ==
  ASSUME NEW vs \in Seq(AnyValue), NEW i \in 1..Len(vs), NEW k \in Kinds
  PROVE  /\ View(vs, i, k) \in ValueOf({k}) /\ View(vs, i, k).of = i
         /\ View(vs, i, k).kind = k /\ View(vs, i, k).inert = vs[i].inert
         /\ [View(vs, i, k) EXCEPT !.cookies = 0] \in ValueOf({k})
<1>1. vs[i] \in AnyValue /\ i \in Nat
  OBVIOUS
<1> DEFINE v == vs[i]
<1>2. v \in AnyValue
  BY <1>1
<1>3. View(vs, i, k) = [v EXCEPT !.kind = k, !.of = i, !.from = "view"]
  BY DEF View
<1> HIDE DEF v
<1>4. [v EXCEPT !.kind = k, !.of = i, !.from = "view"] \in ValueOf({k})
  BY <1>1, <1>2 DEF AnyValue, ValueOf
<1>5. /\ [v EXCEPT !.kind = k, !.of = i, !.from = "view"].of = i
      /\ [v EXCEPT !.kind = k, !.of = i, !.from = "view"].kind = k
      /\ [v EXCEPT !.kind = k, !.of = i, !.from = "view"].inert = v.inert
  BY <1>1, <1>2 DEF AnyValue, ValueOf
<1> DEFINE w == View(vs, i, k)
<1>6. w \in ValueOf({k})
  BY <1>3, <1>4
<1> HIDE DEF w
<1>7. [w EXCEPT !.cookies = 0] \in ValueOf({k})
  BY <1>6 DEF ValueOf
<1> QED
  BY <1>3, <1>4, <1>5, <1>7 DEF v, w

\* The places a derived collection copies.
Copied(vs, from, to) == {i \in from + 1 .. to : IsArg(vs[i])}

\* copyArgs: a view of every argument between the marks, and of nothing else.
LEMMA CopiesType ==
  ASSUME NEW vs \in Seq(AnyValue), NEW from \in Nat, NEW to \in Nat, to <= Len(vs), NEW k \in Kinds
  PROVE  /\ Copies(vs, from, to, k) \in Seq({View(vs, i, k) : i \in Copied(vs, from, to)})
         /\ Copies(vs, from, to, k) \in Seq(ValueOf({k}))
         /\ \A i \in Copied(vs, from, to) :
              \E x \in 1..Len(Copies(vs, from, to, k)) : Copies(vs, from, to, k)[x] = View(vs, i, k)
<1> DEFINE n == Len(vs)
           S == Copied(vs, from, to)
           T == {View(vs, i, k) : i \in S}
           all == [i \in DOMAIN vs |-> View(vs, i, k)]
           q == Picked(all, S)
<1>1. n \in Nat /\ DOMAIN vs = 1..n
  OBVIOUS
<1>2. S \subseteq 1..n
  BY <1>1 DEF Copied
<1>3. Len(all) = n /\ \A i \in 1..n : all[i] = View(vs, i, k)
  BY <1>1
<1>4. \A i \in 1..n : i \in S => all[i] \in T
  BY <1>3
<1>5. T \subseteq ValueOf({k})
  <2> SUFFICES ASSUME NEW i \in S PROVE View(vs, i, k) \in ValueOf({k})
    OBVIOUS
  <2>1. i \in 1..Len(vs)
    BY <1>2
  <2> QED
    BY <2>1, ViewType
<1>6. Copies(vs, from, to, k) = q
  BY DEF Copies, Copied
<1> HIDE DEF n, all, S, T
<1>7. q \in Seq(T) /\ \E p : Places(p, q, all, S \cap 1..n)
  BY <1>1, <1>3, <1>4, PickedPlaces
<1> HIDE DEF q
<1>a. q \in Seq(T)
  BY <1>7
<1>8. q \in Seq(ValueOf({k}))
  BY <1>5, <1>a, Wider
<1>9. \A i \in S : \E x \in 1..Len(q) : q[x] = View(vs, i, k)
  <2> SUFFICES ASSUME NEW i \in S PROVE \E x \in 1..Len(q) : q[x] = View(vs, i, k)
    OBVIOUS
  <2>1. PICK p : Places(p, q, all, S \cap 1..n)
    BY <1>7
  <2>2. PICK x \in 1..Len(p) : p[x] = i
    BY <1>2, <2>1 DEF Places
  <2>3. x \in 1..Len(q) /\ q[x] = all[i]
    BY <2>1, <2>2 DEF Places
  <2> QED
    BY <1>2, <1>3, <2>3
<1> QED
  BY <1>6, <1>7, <1>8, <1>9 DEF S, T

\* Cookies are recorded as cookies.
LEMMA CookiesType ==
  ASSUME NEW vs \in Seq(AnyValue), NEW end \in Nat, end <= Len(vs)
  PROVE  Cookies(vs, end) \in Seq(ValueOf({"cookie"}))
<1> DEFINE T == ValueOf({"cookie"})
           Each(i) == [k \in 1..vs[i].cookies |-> [View(vs, i, "cookie") EXCEPT !.cookies = 0]]
           seqs == [i \in 1..end |-> Each(i)]
<1>1. ASSUME NEW i \in 1..end PROVE Each(i) \in Seq(T)
  <2>1. i \in 1..Len(vs) /\ vs[i] \in AnyValue
    OBVIOUS
  <2>2. vs[i].cookies \in Nat
    BY <2>1, ValueParts
  <2>3. [View(vs, i, "cookie") EXCEPT !.cookies = 0] \in T
    BY <2>1, ViewType, KindsKnown DEF Kinds
  <2> HIDE DEF T
  <2> DEFINE c == [View(vs, i, "cookie") EXCEPT !.cookies = 0]
             m == vs[i].cookies
  <2>4. c \in T /\ m \in Nat /\ Each(i) = [k \in 1..m |-> c]
    BY <2>2, <2>3
  <2> HIDE DEF c, m, Each
  <2>5. [k \in 1..m |-> c] \in Seq(T)
    BY <2>4
  <2> QED
    BY <2>4, <2>5
<1> HIDE DEF T, Each
<1>2. seqs \in [1..end -> Seq(T)]
  BY <1>1
<1> HIDE DEF seqs
<1>3. seqs \in Seq(Seq(T))
  BY <1>2
<1>4. FlattenSeq(seqs) \in Seq(T)
  BY <1>3, FlattenType
<1> QED
  BY <1>4 DEF Cookies, T, Each, seqs

\* The cut between the arguments of the query and the others is a recorded place.
LEMMA QueryCutType ==
  ASSUME NEW query \in Int, NEW n \in Nat, query <= n, marks.body \in Int
  PROVE  QueryCut(query, n) \in 0..n
BY DEF QueryCut

\* A prefix of the cookies is a sequence of cookies.
LEMMA FirstCookies ==
  ASSUME NEW T, NEW cookies \in Seq(T)
  PROVE  SubSeq(cookies, 1, Min({Len(cookies), MaxArgs})) \in Seq(T)
<1> DEFINE n == Len(cookies)
           m == Min({n, MaxArgs})
<1>1. n \in Int /\ n \in Nat /\ MaxArgs \in Int
  BY ConstantsAssumption
<1> HIDE DEF n
<1>2. m \in {n, MaxArgs} /\ m <= n
  BY <1>1, Lesser
<1> HIDE DEF m
<1>3. m \in Int /\ \A i \in 1..m : i \in 1..Len(cookies)
  BY <1>1, <1>2 DEF n
<1>4. SubSeq(cookies, 1, m) \in Seq(T)
  BY <1>3, SubSeqProperties
<1> QED
  BY <1>4 DEF m, n

\* The views recordHeaderViews records.
HeaderItems(s, query) ==
  LET end == QueryCut(query, Len(s.values))
      cookies == Cookies(s.values, end)
  IN  (IF "argsget" \in cfg.views THEN Copies(s.values, 0, end, "argsget") ELSE <<>>)
      \o (IF "cookie" \in cfg.views
          THEN SubSeq(cookies, 1, Min({Len(cookies), MaxArgs})) ELSE <<>>)

\* The views of the header phase are of the kinds ARGS_GET and REQUEST_COOKIES.
LEMMA HeaderItemsType ==
  ASSUME NEW s \in Stores, NEW query \in Int, query <= Len(s.values), marks.body \in Int
  PROVE  HeaderItems(s, query) \in Seq(ValueOf({"argsget", "cookie"}))
<1> DEFINE T == ValueOf({"argsget", "cookie"})
           vs == s.values
           end == QueryCut(query, Len(vs))
           cookies == Cookies(vs, end)
           a == IF "argsget" \in cfg.views THEN Copies(vs, 0, end, "argsget") ELSE <<>>
           c == IF "cookie" \in cfg.views
                THEN SubSeq(cookies, 1, Min({Len(cookies), MaxArgs})) ELSE <<>>
<1>1. vs \in Seq(AnyValue) /\ Len(vs) \in Nat
  BY StoreParts
<1>a. end \in 0..Len(vs)
  BY <1>1, QueryCutType
<1> HIDE DEF end
<1>2. end \in Nat /\ end <= Len(vs)
  BY <1>1, <1>a
<1>3. ValueOf({"argsget"}) \subseteq T /\ ValueOf({"cookie"}) \subseteq T
  BY DEF ValueOf
<1> HIDE DEF T, vs
<1>4. a \in Seq(T)
  <2>1. Copies(vs, 0, end, "argsget") \in Seq(ValueOf({"argsget"}))
    BY <1>1, <1>2, CopiesType DEF Kinds, Views
  <2>2. Copies(vs, 0, end, "argsget") \in Seq(T)
    BY <1>3, <2>1
  <2> QED
    BY <2>2
<1>5. c \in Seq(T)
  <2>1. cookies \in Seq(ValueOf({"cookie"}))
    BY <1>1, <1>2, CookiesType
  <2> HIDE DEF cookies
  <2>2. cookies \in Seq(T)
    BY <1>3, <2>1
  <2> QED
    BY <2>2, FirstCookies
<1> HIDE DEF a, c
<1>6. a \o c \in Seq(T)
  BY <1>4, <1>5
<1> QED
  BY <1>6 DEF HeaderItems, T, vs, end, a, c

\* The header phase's collections, when they are derived.
LEMMA HeaderViewsGrow ==
  ASSUME NEW s \in Stores, NEW query \in Int, query <= Len(s.values), marks.body \in Int
  PROVE  /\ Grown(s, HeaderViews(s, query), ValueOf({"argsget", "cookie"}))
         /\ HeaderViews(s, query).oversize = s.oversize
         /\ HeaderViews(s, query).values =
              IF marks.headerViews THEN s.values ELSE s.values \o HeaderItems(s, query)
<1> DEFINE T == ValueOf({"argsget", "cookie"})
<1>1. T \in SUBSET AnyValue
  BY DEF ValueOf, AnyValue, Kinds, Views
<1>2. HeaderViews(s, query) = IF marks.headerViews THEN s ELSE PushAll(s, HeaderItems(s, query))
  BY DEF HeaderViews, HeaderItems
<1>3. HeaderItems(s, query) \in Seq(T)
  BY HeaderItemsType
<1> HIDE DEF T
<1>4. Grown(s, PushAll(s, HeaderItems(s, query)), T)
      /\ PushAll(s, HeaderItems(s, query)).oversize = s.oversize
      /\ PushAll(s, HeaderItems(s, query)).values = s.values \o HeaderItems(s, query)
  BY <1>1, <1>3, PushAllGrows
<1>5. Grown(s, s, T)
  BY GrownNothing
<1> QED
  BY <1>2, <1>4, <1>5 DEF T

\* The value recordJoinedArgs records.
Whole(vs) == Joined("joined", Picked(vs, {i \in DOMAIN vs : IsArg(vs[i])}))

\* ARGS_JOINED is one value.
LEMMA WholeType ==
  ASSUME NEW vs \in Seq(AnyValue)
  PROVE  Whole(vs) \in ValueOf({"joined"})
<1> DEFINE n == Len(vs)
           S == {i \in DOMAIN vs : IsArg(vs[i])}
<1>1. n \in Nat /\ \A i \in 1..n : i \in S => vs[i] \in AnyValue
  OBVIOUS
<1> HIDE DEF S
<1>2. Picked(vs, S) \in Seq(AnyValue)
  BY <1>1, PickedPlaces
<1> QED
  BY <1>2, JoinedType DEF Whole, S, Kinds, Views

\* The views recordBodyViews records of the arguments.
PostItems(vs, query) ==
  IF "argspost" \in cfg.views
  THEN Copies(vs, QueryCut(query, Len(vs)), Len(vs), "argspost") ELSE <<>>

\* The views of the body phase are of the kind ARGS_POST.
LEMMA PostItemsType ==
  ASSUME NEW vs \in Seq(AnyValue), NEW query \in Int, query <= Len(vs), marks.body \in Int
  PROVE  PostItems(vs, query) \in Seq(ValueOf({"argspost"}))
<1> DEFINE cut == QueryCut(query, Len(vs))
<1>1. Len(vs) \in Nat
  OBVIOUS
<1>a. cut \in 0..Len(vs)
  BY <1>1, QueryCutType
<1> HIDE DEF cut
<1>2. cut \in Nat /\ Len(vs) <= Len(vs) /\ "argspost" \in Kinds
  BY <1>1, <1>a DEF Kinds, Views
<1>3. Copies(vs, cut, Len(vs), "argspost") \in Seq(ValueOf({"argspost"}))
  BY <1>1, <1>2, CopiesType
<1>4. <<>> \in Seq(ValueOf({"argspost"}))
  OBVIOUS
<1> QED
  BY <1>3, <1>4 DEF PostItems, cut

\* The body phase's collections, when they are derived.
LEMMA BodyViewsGrow ==
  ASSUME cfg \in Config, NEW s \in Stores, NEW query \in Int, query <= Len(s.values),
         marks.body \in Int
  PROVE  /\ Grown(s, BodyViews(s, query), ValueOf({"argspost", "joined"}))
         /\ s.oversize \subseteq BodyViews(s, query).oversize
         /\ LET posted == PushAll(s, PostItems(s.values, query))
            IN  /\ posted \in Stores /\ posted.values = s.values \o PostItems(s.values, query)
                /\ posted.oversize = s.oversize
                /\ BodyViews(s, query) =
                     IF marks.bodyViews THEN s
                     ELSE IF "joined" \in cfg.views /\ Whole(s.values).size > 0
                          THEN Put(posted, Whole(s.values)) ELSE posted
<1> DEFINE T == ValueOf({"argspost", "joined"})
           items == PostItems(s.values, query)
           posted == PushAll(s, items)
           whole == Whole(s.values)
<1>1. T \in SUBSET AnyValue /\ ValueOf({"argspost"}) \subseteq T /\ ValueOf({"joined"}) \subseteq T
  BY DEF ValueOf, AnyValue, Kinds, Views
<1>2. BodyViews(s, query) = IF marks.bodyViews THEN s
                     ELSE IF "joined" \in cfg.views /\ whole.size > 0 THEN Put(posted, whole)
                     ELSE posted
  BY DEF BodyViews, PostItems, Whole
<1>3. s.values \in Seq(AnyValue)
  BY StoreParts
<1>4. items \in Seq(ValueOf({"argspost"})) /\ whole \in ValueOf({"joined"})
  BY <1>3, PostItemsType, WholeType
<1> HIDE DEF T, items, whole
<1>5. items \in Seq(T) /\ whole \in T
  BY <1>1, <1>4
<1>6. /\ Grown(s, posted, T) /\ posted.values = s.values \o items /\ posted.oversize = s.oversize
  BY <1>1, <1>5, PushAllGrows
<1>7. posted \in Stores
  BY <1>6 DEF Grown
<1> HIDE DEF posted
<1>8. Grown(posted, Put(posted, whole), T) /\ posted.oversize \subseteq Put(posted, whole).oversize
  BY <1>1, <1>5, <1>7, PutGrows
<1>9. Grown(s, Put(posted, whole), T)
  BY <1>6, <1>8, GrownTwice
<1>10. Grown(s, s, T)
  BY GrownNothing
<1> QED
  BY <1>2, <1>6, <1>7, <1>8, <1>9, <1>10 DEF T, items, posted, whole
-----------------------------------------------------------------------------
(* The walk of a phase over the recorded values                              *)

\* The values a phase walks: those that are not inert, after lo.
Live(vs, lo) == {i \in lo + 1 .. Len(vs) : ~vs[i].inert}

\* What a phase ends with: every value read, the fuel out, a value too ambiguous to
\* read, or a terminal rule.
LEMMA EvalFacts ==
  ASSUME cfg \in Config, fuel \in Nat, NEW phase \in Phases,
         NEW vs \in Seq(AnyValue), NEW lo \in Nat
  PROVE  LET r == Eval(phase, vs, lo) IN
         /\ r.why \in {"end", "exhausted", "ambiguous", "block", "allow"}
         /\ r.seen \subseteq Live(vs, lo) /\ IsFiniteSet(r.seen)
         /\ r.spent \in Nat /\ r.score \in Nat
         /\ r.score = Cardinality({i \in r.seen : vs[i].content = "score" /\ Reads(phase, vs[i].kind)})
         /\ r.why = "end" =>
              /\ r.seen = Live(vs, lo)
              /\ \A i \in Live(vs, lo) : ~(vs[i].content = "block" /\ Reads(phase, vs[i].kind))
<1> DEFINE live == Live(vs, lo)
           Starved(i) == cfg.fuel > 0 /\ fuel + Cardinality({j \in live : j <= i}) > cfg.fuel
           Fires(i, c) == vs[i].content = c /\ Reads(phase, vs[i].kind)
           Ends(i) == Starved(i) \/ vs[i].content = "ambiguous"
                      \/ Fires(i, "block") \/ Fires(i, "allow")
           ends == {i \in live : Ends(i)}
           stop == IF ends = {} THEN Len(vs) + 1 ELSE Min(ends)
           why == IF ends = {} THEN "end"
                  ELSE IF Starved(stop) THEN "exhausted" ELSE vs[stop].content
           seen == {i \in live : i < stop \/ (i = stop /\ why \in {"block", "allow"})}
           scoring == {i \in seen : Fires(i, "score")}
           spent == {i \in live : i <= stop}
<1>1. Eval(phase, vs, lo) = [why |-> why, seen |-> seen, score |-> Cardinality(scoring),
                             spent |-> Cardinality(spent)]
  BY DEF Eval, Live
<1>2. live \subseteq lo + 1 .. Len(vs) /\ live \in SUBSET Nat /\ Len(vs) \in Nat
  BY DEF Live
<1>3. IsFiniteSet(live)
  <2>1. IsFiniteSet(lo + 1 .. Len(vs))
    BY <1>2, FS_Interval
  <2> QED
    BY <1>2, <2>1, FS_Subset
<1> HIDE DEF live, Starved
<1>4. seen \subseteq live /\ scoring \subseteq live /\ spent \subseteq live
  OBVIOUS
<1>5. /\ IsFiniteSet(seen) /\ Cardinality(scoring) \in Nat /\ Cardinality(spent) \in Nat
  <2> HIDE DEF seen, scoring, spent
  <2> QED
    BY <1>3, <1>4, FS_Subset, FS_CardinalityType
<1>6. ends # {} => stop \in ends
  <2>1. ends \in SUBSET Nat
    BY <1>2
  <2> HIDE DEF ends
  <2> QED
    BY <2>1, Least
<1>7. why \in {"end", "exhausted", "ambiguous", "block", "allow"}
  <2> HIDE DEF stop
  <2> QED
    BY <1>6
<1>8. why = "end" => ends = {}
  <2> HIDE DEF stop
  <2> QED
    BY <1>6
<1>9. ends = {} => /\ seen = live
                   /\ \A i \in live : ~(vs[i].content = "block" /\ Reads(phase, vs[i].kind))
  <2> SUFFICES ASSUME ends = {}
               PROVE  /\ seen = live
                      /\ \A i \in live : ~(vs[i].content = "block" /\ Reads(phase, vs[i].kind))
    OBVIOUS
  <2>1. stop = Len(vs) + 1
    OBVIOUS
  <2>2. \A i \in live : i < stop
    BY <1>2, <2>1
  <2>3. \A i \in live : ~Ends(i)
    OBVIOUS
  <2> HIDE DEF stop, ends
  <2> QED
    BY <2>2, <2>3
<1> HIDE DEF ends, stop, why, seen
<1> QED
  BY <1>1, <1>4, <1>5, <1>7, <1>8, <1>9 DEF live

\* The types of the remaining variables.
Counters == [headers : Nat, args : Nat, body : Nat]
Routes == [op : SUBSET Operation, violation : BOOLEAN, seen : SUBSET STRING]
Marks == [body : Int, query : Int, headerViews : BOOLEAN, bodyViews : BOOLEAN]
Replies == [start : Int, len : Nat, total : Nat, end : Nat, truncated : BOOLEAN,
            content : Severities]
Resolvers == [state : {"none", "registered", "done"}, content : Severities, size : Nat]

\* The judgement: what a phase works out.
JudgementTypes ==
  /\ resolver \in Resolvers
  /\ fuel \in Nat /\ score \in Nat
  /\ decided \in BOOLEAN /\ decision \in Verdicts /\ returned \in Verdicts
  /\ inspected \in [Phases -> SUBSET Nat]

\* The marks are places of the recorded values.
MarksWithin ==
  /\ marks.body <= Len(store.values) /\ marks.query <= Len(store.values)
  /\ reply.start <= Len(store.values)

Types ==
  /\ cfg \in Configs /\ calls \in Nat
  /\ stage \in {"line", "headers", "body", "response", "chunks", "done"}
  /\ store \in Stores /\ counts \in Counters /\ route \in Routes
  /\ marks \in Marks /\ reply \in Replies /\ undecodable \in BOOLEAN
  /\ JudgementTypes
  /\ MarksWithin

\* Every decision is one of Verdicts.
LEMMA VerdictsOf ==
  /\ \A r \in {"limit", "undecidable", "budget"} : Undone(r) \in Verdicts
  /\ \A r \in {"desync", "schema", "rule", "threshold"} : Refuse(r) \in Verdicts
  /\ NoMatch \in Verdicts /\ [verdict |-> "block", reason |-> "schema"] \in Verdicts
  /\ \A r, t : Outcome(r, t) \in Verdicts
<1>1. \A r \in {"limit", "undecidable", "budget"} : Undone(r) \in Verdicts
  BY DEF Undone, Verdicts
<1>2. \A r \in {"desync", "schema", "rule", "threshold"} : Refuse(r) \in Verdicts
  BY DEF Refuse, Verdicts
<1>3. /\ NoMatch \in Verdicts /\ [verdict |-> "block", reason |-> "schema"] \in Verdicts
      /\ [verdict |-> "allow", reason |-> "rule"] \in Verdicts
  BY DEF NoMatch, Verdicts
<1>4. ASSUME NEW r, NEW t PROVE Outcome(r, t) \in Verdicts
  <2>1. \/ Outcome(r, t) \in {Undone("budget"), Undone("undecidable"), Refuse("rule"), Refuse("threshold")}
        \/ Outcome(r, t) = NoMatch \/ Outcome(r, t) = [verdict |-> "allow", reason |-> "rule"]
    BY DEF Outcome
  <2> QED
    BY <1>1, <1>2, <1>3, <2>1
<1> QED
  BY <1>1, <1>2, <1>3, <1>4

\* The rules of a phase run over the recorded values s: t is what is recorded then.
Ran(phase, s, start, t, r, total) ==
  LET asks == resolver.state = "registered" /\ phase \in cfg.resolvedIn
  IN  /\ t = IF asks THEN Put(s, Value("resolved", resolver.content, resolver.size)) ELSE s
      /\ r = Eval(phase, t.values, Window(phase, start))
      /\ total = score + (IF "score" \in cfg.excepted THEN 0 ELSE r.score)

\* A phase that runs: what it records, and what its walk decides.
LEMMA RunUnfolds ==
  ASSUME Types, NEW phase \in Phases, NEW s \in Stores, NEW start \in Nat,
         RunPhase(phase, s, start), ~decided
  PROVE  \E t, r, total :
           /\ Ran(phase, s, start, t, r, total)
           /\ store' = t
           /\ resolver' = resolver \/ resolver' = [resolver EXCEPT !.state = "done"]
           /\ fuel' = IF cfg.fuel = 0 THEN 0 ELSE fuel + r.spent
           /\ score' = total
           /\ inspected' = [inspected EXCEPT ![phase] = @ \cup r.seen]
           /\ IF Outcome(r, total) = NoMatch
              THEN returned' = NoMatch /\ UNCHANGED <<decided, decision>>
              ELSE Finish(Outcome(r, total))
<1> DEFINE asks == resolver.state = "registered" /\ phase \in cfg.resolvedIn
           t == IF asks THEN Put(s, Value("resolved", resolver.content, resolver.size)) ELSE s
           r == Eval(phase, t.values, Window(phase, start))
           total == score + (IF "score" \in cfg.excepted THEN 0 ELSE r.score)
           d == Outcome(r, total)
<1>a. /\ store' = t
      /\ resolver' = IF asks THEN [resolver EXCEPT !.state = "done"] ELSE resolver
      /\ fuel' = IF cfg.fuel = 0 THEN 0 ELSE fuel + r.spent
      /\ score' = total
      /\ inspected' = [inspected EXCEPT ![phase] = @ \cup r.seen]
      /\ IF d = NoMatch THEN returned' = d /\ UNCHANGED <<decided, decision>> ELSE Finish(d)
  BY DEF RunPhase
<1> HIDE DEF asks
<1>1. /\ store' = t
      /\ resolver' = resolver \/ resolver' = [resolver EXCEPT !.state = "done"]
      /\ fuel' = IF cfg.fuel = 0 THEN 0 ELSE fuel + r.spent
      /\ score' = total
      /\ inspected' = [inspected EXCEPT ![phase] = @ \cup r.seen]
      /\ IF Outcome(r, total) = NoMatch
         THEN returned' = NoMatch /\ UNCHANGED <<decided, decision>>
         ELSE Finish(Outcome(r, total))
  <2> HIDE DEF t, r, total
  <2> QED
    BY <1>a
<1>2. Ran(phase, s, start, t, r, total)
  BY DEF Ran, asks
<1> HIDE DEF t, r, total
<1> QED
  BY <1>1, <1>2

\* The walk of a phase reads live values after its window, and only those.
LEMMA RanFacts ==
  ASSUME Types, NEW phase \in Phases, NEW s \in Stores, NEW start \in Nat,
         NEW t, NEW r, NEW total, Ran(phase, s, start, t, r, total)
  PROVE  /\ Grown(s, t, ValueOf({"resolved"}))
         /\ Window(phase, start) \in Nat
         /\ total \in Nat /\ r.spent \in Nat
         /\ r.seen \subseteq Live(t.values, Window(phase, start))
         /\ r.seen \subseteq Nat /\ IsFiniteSet(r.seen)
<1> DEFINE v == Value("resolved", resolver.content, resolver.size)
           lo == Window(phase, start)
<1>1. v \in ValueOf({"resolved"}) /\ ValueOf({"resolved"}) \in SUBSET AnyValue
  BY SomeValues, KindsKnown DEF Types, JudgementTypes, Resolvers, Kinds
<1> HIDE DEF v
<1>2. cfg \in Config /\ fuel \in Nat /\ score \in Nat /\ marks.body \in Int
  BY ConstantsAssumption DEF Types, JudgementTypes, Marks
<1>3. t = s \/ t = Put(s, v)
  BY DEF Ran, v
<1>4. Grown(s, t, ValueOf({"resolved"}))
  BY <1>1, <1>2, <1>3, PutGrows, GrownNothing
<1>5. lo \in Nat
  BY <1>2 DEF Window
<1> HIDE DEF lo
<1>6. t \in Stores
  BY <1>4 DEF Grown
<1>7. t.values \in Seq(AnyValue)
  BY <1>6, StoreParts
<1>8. r = Eval(phase, t.values, lo) /\ total = score + (IF "score" \in cfg.excepted THEN 0 ELSE r.score)
  BY DEF Ran, lo
<1>9. /\ r.seen \subseteq Live(t.values, lo) /\ IsFiniteSet(r.seen)
      /\ r.spent \in Nat /\ r.score \in Nat
  BY <1>2, <1>5, <1>7, <1>8, EvalFacts
<1>10. Live(t.values, lo) \subseteq Nat
  BY <1>5 DEF Live
<1> QED
  BY <1>2, <1>4, <1>5, <1>8, <1>9, <1>10 DEF lo

\* What is recorded, and the types of what a phase works out.
LEMMA RunGrows ==
  ASSUME Types, NEW phase \in Phases, NEW s \in Stores, NEW start \in Nat,
         RunPhase(phase, s, start)
  PROVE  Grown(s, store', ValueOf({"resolved"})) /\ JudgementTypes'
<1>1. CASE decided
  <2>1. store' = s
    BY <1>1 DEF RunPhase
  <2>2. Grown(s, store', ValueOf({"resolved"}))
    BY <2>1, GrownNothing
  <2>3. JudgementTypes'
    BY <1>1 DEF RunPhase, Types, JudgementTypes
  <2> QED
    BY <2>2, <2>3
<1>2. CASE ~decided
  <2>1. PICK t, r, total :
           /\ Ran(phase, s, start, t, r, total)
           /\ store' = t
           /\ resolver' = resolver \/ resolver' = [resolver EXCEPT !.state = "done"]
           /\ fuel' = IF cfg.fuel = 0 THEN 0 ELSE fuel + r.spent
           /\ score' = total
           /\ inspected' = [inspected EXCEPT ![phase] = @ \cup r.seen]
           /\ IF Outcome(r, total) = NoMatch
              THEN returned' = NoMatch /\ UNCHANGED <<decided, decision>>
              ELSE Finish(Outcome(r, total))
    BY <1>2, RunUnfolds
  <2>2. /\ Grown(s, t, ValueOf({"resolved"})) /\ total \in Nat /\ r.spent \in Nat /\ r.seen \subseteq Nat
    BY <2>1, RanFacts
  <2>3. resolver' \in Resolvers
    <3>1. resolver \in Resolvers
      BY DEF Types, JudgementTypes
    <3>2. [resolver EXCEPT !.state = "done"] \in Resolvers
      BY <3>1 DEF Resolvers
    <3> QED
      BY <2>1, <3>1, <3>2
  <2>4. fuel' \in Nat /\ score' \in Nat
    BY <2>1, <2>2 DEF Types, JudgementTypes
  <2>5. inspected' \in [Phases -> SUBSET Nat]
    <3>1. inspected \in [Phases -> SUBSET Nat]
      BY DEF Types, JudgementTypes
    <3>2. inspected[phase] \cup r.seen \in SUBSET Nat
      BY <2>2, <3>1
    <3> QED
      BY <2>1, <3>1, <3>2
  <2>6. decided' \in BOOLEAN /\ decision' \in Verdicts /\ returned' \in Verdicts
    <3>1. decided \in BOOLEAN /\ decision \in Verdicts
      BY DEF Types, JudgementTypes
    <3>2. CASE returned' = NoMatch /\ UNCHANGED <<decided, decision>>
      BY <3>1, <3>2, VerdictsOf
    <3>3. CASE Finish(Outcome(r, total))
      BY <3>3, VerdictsOf DEF Finish
    <3> QED
      BY <2>1, <3>2, <3>3
  <2> QED
    BY <2>1, <2>2, <2>3, <2>4, <2>5, <2>6 DEF JudgementTypes
<1>3. decided \in BOOLEAN
  BY DEF Types, JudgementTypes
<1> QED
  BY <1>1, <1>2, <1>3

\* A phase that stops records what it is given and decides.
LEMMA StopTypes ==
  ASSUME Types, NEW d \in Verdicts, NEW s, Stop(d, s)
  PROVE  store' = s /\ JudgementTypes' /\ decided'
BY DEF Stop, Finish, Types, JudgementTypes

\* How ProcessRequestHeaders ends: it refuses, or runs the rules of its phase over what it
\* records.
LEMMA HeaderPhaseEnds ==
  ASSUME Types, ProcessRequestHeaders
  PROVE  \E s \in Stores :
           /\ Grown(store, s, ValueOf({"argsget", "cookie"}))
           /\ \/ s = store /\ marks'.headerViews = marks.headerViews
              \/ s = HeaderViews(store, marks'.query) /\ marks'.headerViews
           /\ \/ \E d \in Verdicts : Stop(d, s)
              \/ /\ s = HeaderViews(store, marks'.query) /\ marks'.headerViews
                 /\ counts.headers <= MaxHeaders /\ ~Noted(store)
                 /\ RunPhase("RequestHeaders", s, 0)
<1> DEFINE query == IF marks.query < 0 THEN Len(store.values) ELSE marks.query
           viewed == HeaderViews(store, query)
           T == ValueOf({"argsget", "cookie"})
           Enter(b) == marks' = [marks EXCEPT !.query = query, !.headerViews = @ \/ b]
<1>2. marks \in Marks /\ store \in Stores /\ counts.headers \in Nat /\ MaxHeaders \in Nat
  BY ConstantsAssumption DEF Types, Counters
<1>3. Len(store.values) \in Nat /\ marks.body \in Int
  BY <1>2, StoreParts DEF Marks
<1>4. query \in Int /\ query <= Len(store.values)
  BY <1>2, <1>3 DEF Types, MarksWithin, Marks
<1>8. \/ Enter(FALSE) /\ \E d \in Verdicts : Stop(d, store)
      \/ Enter(TRUE) /\ \E d \in Verdicts : Stop(d, viewed)
      \/ /\ ~(counts.headers > MaxHeaders) /\ ~Noted(store)
         /\ Enter(TRUE) /\ RunPhase("RequestHeaders", viewed, 0)
  <2>1. \/ Enter(FALSE) /\ \E r \in {"limit"} : Stop(Undone(r), store)
        \/ Enter(FALSE) /\ \E r \in {"desync", "schema"} : Stop(Refuse(r), store)
        \/ Enter(TRUE) /\ Stop(Undone("limit"), viewed)
        \/ /\ ~(counts.headers > MaxHeaders) /\ ~Noted(store)
           /\ Enter(TRUE) /\ RunPhase("RequestHeaders", viewed, 0)
    <3>1. IF counts.headers > MaxHeaders THEN Enter(FALSE) /\ Stop(Undone("limit"), store)
          ELSE IF Ambiguous THEN Enter(FALSE) /\ Stop(Refuse("desync"), store)
          ELSE IF Noted(store) THEN Enter(FALSE) /\ Stop(Undone("limit"), store)
          ELSE IF route.violation THEN Enter(FALSE) /\ Stop(Refuse("schema"), store)
          ELSE IF TooManyCookies(store, query) THEN Enter(TRUE) /\ Stop(Undone("limit"), viewed)
          ELSE Enter(TRUE) /\ RunPhase("RequestHeaders", viewed, 0)
      BY DEF ProcessRequestHeaders
    <3> HIDE DEF Enter, query, viewed
    <3> QED
      BY <3>1
  <2> HIDE DEF Enter, viewed
  <2> QED
    BY <2>1, VerdictsOf
<1> HIDE DEF query
<1>5. \A b \in BOOLEAN : Enter(b) => marks'.query = query /\ marks'.headerViews = (marks.headerViews \/ b)
  BY <1>2, <1>4 DEF Marks
<1>6. Grown(store, viewed, T) /\ Grown(store, store, T)
  BY <1>2, <1>3, <1>4, HeaderViewsGrow, GrownNothing
<1>7. viewed \in Stores
  BY <1>6 DEF Grown
<1>9. /\ Enter(TRUE) => marks'.query = query /\ marks'.headerViews
      /\ Enter(FALSE) => marks'.headerViews = marks.headerViews
  <2>1. marks.headerViews \in BOOLEAN
    BY <1>2 DEF Marks
  <2> HIDE DEF Enter
  <2> QED
    BY <1>5, <2>1
<1> HIDE DEF viewed, Enter
<1>10. CASE Enter(FALSE) /\ \E d \in Verdicts : Stop(d, store)
  BY <1>2, <1>6, <1>9, <1>10
<1>11. CASE Enter(TRUE) /\ \E d \in Verdicts : Stop(d, viewed)
  BY <1>6, <1>7, <1>9, <1>11 DEF viewed
<1>12. CASE /\ ~(counts.headers > MaxHeaders) /\ ~Noted(store)
            /\ Enter(TRUE) /\ RunPhase("RequestHeaders", viewed, 0)
  BY <1>2, <1>6, <1>7, <1>9, <1>12 DEF viewed
<1> QED
  BY <1>8, <1>10, <1>11, <1>12

\* What ProcessRequestHeaders marks.
LEMMA HeaderPhaseMarks ==
  ASSUME Types, ProcessRequestHeaders
  PROVE  /\ marks' \in Marks /\ marks'.body = marks.body /\ marks'.bodyViews = marks.bodyViews
         /\ marks'.query = IF marks.query < 0 THEN Len(store.values) ELSE marks.query
<1> DEFINE query == IF marks.query < 0 THEN Len(store.values) ELSE marks.query
<1>1. \E b \in BOOLEAN : marks' = [marks EXCEPT !.query = query, !.headerViews = @ \/ b]
  BY DEF ProcessRequestHeaders
<1>2. marks \in Marks /\ store \in Stores
  BY DEF Types
<1>3. query \in Int
  BY <1>2, StoreParts DEF Marks
<1> HIDE DEF query
<1>4. /\ marks' \in Marks /\ marks'.body = marks.body /\ marks'.bodyViews = marks.bodyViews
      /\ marks'.query = query
  <2>1. PICK b \in BOOLEAN : marks' = [marks EXCEPT !.query = query, !.headerViews = @ \/ b]
    BY <1>1
  <2>2. (marks.headerViews \/ b) \in BOOLEAN
    OBVIOUS
  <2> QED
    BY <1>2, <1>3, <2>1, <2>2 DEF Marks
<1> QED
  BY <1>4 DEF query

\* How ProcessRequestBody ends over s, likewise.
BodyEnds(s) ==
  LET viewed == HeaderViews(store, marks.query)
      both == BodyViews(viewed, marks.query)
  IN  /\ Grown(store, s, ValueOf(Views))
      /\ \/ \E d \in Verdicts : Stop(d, s)
         \/ /\ RunPhase("RequestBody", s, 0)
            /\ ~(counts.body > MaxBodySize) /\ ~(counts.args > MaxArgs)
            /\ ~route.violation /\ ~undecodable /\ route' = route /\ ~Noted(s)
            /\ s = both /\ marks'.bodyViews
      /\ \/ s = store /\ marks' = marks
         \/ s = viewed /\ marks' = [marks EXCEPT !.headerViews = TRUE]
         \/ s = both /\ marks' = [marks EXCEPT !.headerViews = TRUE, !.bodyViews = TRUE]

\* ProcessRequestBody ends in one of the ways of BodyEnds.
LEMMA BodyPhaseStops ==
  ASSUME Types, ProcessRequestBody
  PROVE  \E s \in Stores : BodyEnds(s)
<1> DEFINE viewed == HeaderViews(store, marks.query)
           both == BodyViews(viewed, marks.query)
           T == ValueOf(Views)
           Built(h, b) == marks' = [marks EXCEPT !.headerViews = @ \/ h, !.bodyViews = @ \/ b]
<1>1. marks \in Marks /\ store \in Stores /\ cfg \in Config
  BY ConstantsAssumption DEF Types
<1>2. /\ Len(store.values) \in Nat /\ marks.body \in Int /\ marks.query \in Int
      /\ marks.query <= Len(store.values)
  BY <1>1, StoreParts DEF Marks, Types, MarksWithin
<1>3. Grown(store, viewed, ValueOf({"argsget", "cookie"})) /\ Grown(store, store, T)
  BY <1>1, <1>2, HeaderViewsGrow, GrownNothing
<1>4. viewed \in Stores /\ Len(viewed.values) \in Nat /\ Len(store.values) <= Len(viewed.values)
  <2>1. viewed \in Stores /\ Len(store.values) <= Len(viewed.values)
    BY <1>3 DEF Grown
  <2> QED
    BY <2>1, StoreParts
<1>5. Grown(viewed, both, ValueOf({"argspost", "joined"}))
  <2> HIDE DEF viewed
  <2>1. marks.query <= Len(viewed.values)
    BY <1>2, <1>4
  <2> QED
    BY <1>1, <1>2, <1>4, <2>1, BodyViewsGrow
<1>6. ValueOf({"argsget", "cookie"}) \subseteq T /\ ValueOf({"argspost", "joined"}) \subseteq T
  BY DEF ValueOf, Views
<1>7. \/ (/\ Built(FALSE, FALSE)
          /\ \/ Stop(Undone("limit"), store)
             \/ Stop([verdict |-> "block", reason |-> "schema"], store)
             \/ Stop(Refuse("schema"), store))
      \/ Built(TRUE, FALSE) /\ Stop(Undone("limit"), viewed)
      \/ Built(TRUE, TRUE) /\ (Stop(Undone("limit"), both) \/ Stop(Undone("undecidable"), both))
      \/ /\ Built(TRUE, TRUE) /\ RunPhase("RequestBody", both, 0)
         /\ ~(counts.body > MaxBodySize) /\ ~(counts.args > MaxArgs)
         /\ ~route.violation /\ ~undecodable /\ route' = route /\ ~Noted(both)
  BY ZenonT(120) DEF ProcessRequestBody
<1> HIDE DEF viewed, both, T
<1>8. Grown(store, viewed, T) /\ Grown(store, both, T)
  <2>1. Grown(store, viewed, T) /\ Grown(viewed, both, T)
    BY <1>3, <1>5, <1>6, GrownMore
  <2> QED
    BY <1>1, <2>1, GrownTwice
<1>9. both \in Stores
  BY <1>8 DEF Grown
<1>10. /\ Built(FALSE, FALSE) => marks' = marks
       /\ Built(TRUE, FALSE) => marks' = [marks EXCEPT !.headerViews = TRUE]
       /\ Built(TRUE, TRUE) => marks' = [marks EXCEPT !.headerViews = TRUE, !.bodyViews = TRUE]
  BY <1>1 DEF Marks
<1> HIDE DEF Built
<1>11. CASE /\ Built(FALSE, FALSE)
            /\ \/ Stop(Undone("limit"), store)
               \/ Stop([verdict |-> "block", reason |-> "schema"], store)
               \/ Stop(Refuse("schema"), store)
  <2>1. \E d \in Verdicts : Stop(d, store)
    BY <1>11, VerdictsOf
  <2>2. marks' = marks
    BY <1>10, <1>11
  <2>3. BodyEnds(store)
    BY <1>3, <2>1, <2>2 DEF BodyEnds, T
  <2> QED
    BY <1>1, <2>3
<1>12. CASE Built(TRUE, FALSE) /\ Stop(Undone("limit"), viewed)
  <2>1. \E d \in Verdicts : Stop(d, viewed)
    BY <1>12, VerdictsOf
  <2>2. marks' = [marks EXCEPT !.headerViews = TRUE]
    BY <1>10, <1>12
  <2>3. BodyEnds(viewed)
    BY <1>8, <2>1, <2>2 DEF BodyEnds, viewed, T
  <2> QED
    BY <1>4, <2>3
<1>13. CASE Built(TRUE, TRUE) /\ (Stop(Undone("limit"), both) \/ Stop(Undone("undecidable"), both))
  <2>1. \E d \in Verdicts : Stop(d, both)
    BY <1>13, VerdictsOf
  <2>2. marks' = [marks EXCEPT !.headerViews = TRUE, !.bodyViews = TRUE]
    BY <1>10, <1>13
  <2>3. BodyEnds(both)
    BY <1>8, <2>1, <2>2 DEF BodyEnds, viewed, both, T
  <2> QED
    BY <1>9, <2>3
<1>14. CASE /\ Built(TRUE, TRUE) /\ RunPhase("RequestBody", both, 0)
            /\ ~(counts.body > MaxBodySize) /\ ~(counts.args > MaxArgs)
            /\ ~route.violation /\ ~undecodable /\ route' = route /\ ~Noted(both)
  <2>1. marks' = [marks EXCEPT !.headerViews = TRUE, !.bodyViews = TRUE]
    BY <1>10, <1>14
  <2>2. marks'.bodyViews
    BY <1>1, <2>1 DEF Marks
  <2>3. BodyEnds(both)
    BY <1>8, <1>14, <2>1, <2>2 DEF BodyEnds, viewed, both, T
  <2> QED
    BY <1>9, <2>3
<1> QED
  BY <1>7, <1>11, <1>12, <1>13, <1>14
-----------------------------------------------------------------------------
(* What each call records                                                    *)

\* The kinds of what a call records of the request.
RequestKinds == Kinds \ ResponseKinds

\* The kinds of what a call hands over of the request, beside the views and what a
\* resolver supplies.
HandedKinds == {"line", "addr", "header", "arg", "argname", "body"}

\* The sets of kinds the calls record are kinds of the request.
LEMMA KindSets ==
  /\ RequestKinds \in SUBSET Kinds /\ ValueOf(RequestKinds) \in SUBSET AnyValue
  /\ \A K \in SUBSET RequestKinds : ValueOf(K) \subseteq ValueOf(RequestKinds)
  /\ \A k \in {"line", "addr", "header", "arg", "argname", "body", "resolved"} :
       k \in RequestKinds /\ {k} \in SUBSET RequestKinds
  /\ {"arg", "argname"} \in SUBSET RequestKinds
  /\ {"arg", "argname", "body"} \in SUBSET RequestKinds
  /\ Views \in SUBSET RequestKinds /\ {"argsget", "cookie"} \in SUBSET RequestKinds
  /\ HandedKinds \in SUBSET Kinds /\ HandedKinds \in SUBSET RequestKinds
  /\ ValueOf(HandedKinds) \in SUBSET AnyValue
  /\ \A K \in SUBSET HandedKinds : ValueOf(K) \subseteq ValueOf(HandedKinds)
  /\ \A k \in {"line", "addr", "header", "arg", "argname", "body"} :
       k \in HandedKinds /\ {k} \in SUBSET HandedKinds
  /\ {"arg", "argname"} \in SUBSET HandedKinds
  /\ {"arg", "argname", "body"} \in SUBSET HandedKinds
<1>1. RequestKinds \in SUBSET Kinds
  BY DEF RequestKinds
<1>2. \A K \in SUBSET RequestKinds : ValueOf(K) \subseteq ValueOf(RequestKinds)
  BY DEF ValueOf
<1>3. ValueOf(RequestKinds) \subseteq AnyValue
  BY <1>1, SomeValues
<1>4. \A k \in {"line", "addr", "header", "arg", "argname", "body", "resolved"} : k \in RequestKinds
  BY DEF RequestKinds, Kinds, ResponseKinds
<1>5. Views \subseteq RequestKinds /\ {"argsget", "cookie"} \subseteq Views
  BY DEF RequestKinds, Kinds, ResponseKinds, Views
<1>6. HandedKinds \subseteq RequestKinds
  BY <1>4 DEF HandedKinds
<1>7. /\ \A K \in SUBSET HandedKinds : ValueOf(K) \subseteq ValueOf(HandedKinds)
      /\ ValueOf(HandedKinds) \subseteq ValueOf(RequestKinds)
  BY <1>6 DEF ValueOf
<1>8. /\ \A k \in {"line", "addr", "header", "arg", "argname", "body"} :
           k \in HandedKinds /\ {k} \in SUBSET HandedKinds
      /\ {"arg", "argname"} \in SUBSET HandedKinds
      /\ {"arg", "argname", "body"} \in SUBSET HandedKinds
  BY DEF HandedKinds
<1>9. ValueOf(HandedKinds) \in SUBSET AnyValue
  BY <1>3, <1>7
<1> QED
  BY <1>1, <1>2, <1>3, <1>4, <1>5, <1>6, <1>7, <1>8, <1>9

\* What the embedder hands over is of the request.
LEMMA HandedGrown ==
  ASSUME NEW s, NEW t, Grown(s, t, ValueOf(HandedKinds))
  PROVE  Grown(s, t, ValueOf(RequestKinds))
<1>1. ValueOf(HandedKinds) \subseteq ValueOf(RequestKinds)
  BY KindSets
<1> QED
  BY <1>1, GrownMore

\* The parts of the types most steps need.
LEMMA InForce ==
  ASSUME Types
  PROVE  /\ cfg \in Config /\ store \in Stores /\ store.values \in Seq(AnyValue)
         /\ Len(store.values) \in Nat /\ marks.body \in Int /\ marks.query \in Int
         /\ counts.args \in Nat /\ counts.headers \in Nat /\ counts.body \in Nat
         /\ cfg.ordered \in BOOLEAN /\ marks.headerViews \in BOOLEAN /\ marks.bodyViews \in BOOLEAN
         /\ reply.start \in Int /\ route.op \in SUBSET Operation
         /\ decided \in BOOLEAN /\ undecodable \in BOOLEAN
<1>1. cfg \in Config /\ store \in Stores
  BY ConstantsAssumption DEF Types
<1>2. store.values \in Seq(AnyValue) /\ Len(store.values) \in Nat
  BY <1>1, StoreParts
<1>3. cfg.ordered \in BOOLEAN
  BY <1>1 DEF Config
<1> QED
  BY <1>1, <1>2, <1>3 DEF Types, Marks, Counters, Replies, Routes, JudgementTypes

\* SetRemoteAddr records an address.
LEMMA AddrGrows ==
  ASSUME Types, SetRemoteAddr
  PROVE  Grown(store, store', ValueOf(HandedKinds))
<1> DEFINE v == Value("addr", "benign", 1)
<1>1. v \in ValueOf(HandedKinds)
  BY KindSets, SomeValues DEF Severities
<1> HIDE DEF v
<1>2. store' = Put(store, v)
  BY DEF SetRemoteAddr, v
<1> QED
  BY <1>1, <1>2, InForce, KindSets, PutGrows

\* SetRequestLine records the line, its arguments and what is joined of them.
LEMMA LineGrows ==
  ASSUME Types, NEW l \in Lines, SetRequestLine(l)
  PROVE  Grown(store, store', ValueOf(HandedKinds))
<1> DEFINE T == ValueOf(HandedKinds)
           op == IF cfg.schema # "none" /\ l.op # {} THEN l.op ELSE route.op
           v == Value("line", l.content, 1)
           first == Put(store, v)
           items == ArgItems(Kept(l.args), op, "line")
           put == PutAll(first, items)
           dup == Duplicates(put.values)
<1>1. store' = PutAll(put, dup)
  BY DEF SetRequestLine
<1>2. l.content \in Severities /\ l.args \in Seq(Argument)
  BY ConstantsAssumption DEF Line
<1>3. T \in SUBSET AnyValue /\ v \in T
  BY <1>2, KindSets, SomeValues
<1>4. items \in Seq(T)
  <2>1. Kept(l.args) \in Seq(Argument)
    BY <1>2, InForce, KeptType
  <2> HIDE DEF op
  <2>2. items \in Seq(ValueOf({"arg", "argname"}))
    BY <2>1, ArgItemsType
  <2> HIDE DEF items
  <2> QED
    BY <2>2, KindSets, Wider
<1> HIDE DEF T, v, items
<1>5. Grown(store, first, T)
  BY <1>3, InForce, PutGrows
<1>6. first \in Stores
  BY <1>5 DEF Grown
<1> HIDE DEF first
<1>7. Grown(first, put, T)
  BY <1>3, <1>4, <1>6, InForce, PutAllGrows
<1>8. put \in Stores
  BY <1>7 DEF Grown
<1> HIDE DEF put
<1>9. dup \in Seq({w \in ValueOf({"arg"}) : w.from = "join"})
  BY <1>8, InForce, StoreParts, DuplicatesType
<1> HIDE DEF dup
<1>10. dup \in Seq(T)
  <2>1. {w \in ValueOf({"arg"}) : w.from = "join"} \subseteq T
    BY KindSets DEF T
  <2> QED
    BY <1>9, <2>1, Wider
<1>11. Grown(put, PutAll(put, dup), T)
  BY <1>3, <1>8, <1>10, InForce, PutAllGrows
<1>12. Grown(store, put, T)
  BY <1>5, <1>7, InForce, GrownTwice
<1>13. Grown(store, store', T)
  BY <1>1, <1>11, <1>12, InForce, GrownTwice
<1> QED
  BY <1>13 DEF T

\* AddRequestHeader records a header.
LEMMA HeaderGrows ==
  ASSUME Types, NEW h \in Headers, AddRequestHeader(h)
  PROVE  Grown(store, store', ValueOf(HandedKinds))
<1> DEFINE v == [Value("header", h.content, h.size) EXCEPT !.name = h.name, !.cookies = h.cookies]
<1>1. h.content \in Severities /\ h.size \in Nat /\ h.cookies \in Nat /\ h.name \in STRING
  BY ConstantsAssumption DEF Header
<1>2. "header" \in HandedKinds
  BY KindSets
<1>3. v \in ValueOf(HandedKinds)
  BY <1>1, <1>2 DEF Value, ValueOf, Names
<1>4. store' = store \/ store' = Put(store, v)
  BY DEF AddRequestHeader
<1> HIDE DEF v
<1> QED
  BY ZenonT(30), <1>3, <1>4, InForce, KindSets, PutGrows, GrownNothing

\* AddArgument records an argument and what is joined with it.
LEMMA ArgumentGrows ==
  ASSUME Types, NEW a \in Arguments, AddArgument(a)
  PROVE  Grown(store, store', ValueOf(HandedKinds))
<1> DEFINE items == ArgItems(Kept(<<a>>), route.op, "call")
<1>1. a \in Argument
  BY ConstantsAssumption
<1>2. <<a>> \in Seq(Argument)
  BY <1>1
<1>3. Kept(<<a>>) \in Seq(Argument)
  BY <1>2, InForce, KeptType
<1>4. items \in Seq(ValueOf({"arg", "argname"}))
  BY <1>3, ArgItemsType
<1>5. store' = PutAll(store, items)
  BY DEF AddArgument
<1> HIDE DEF items
<1>6. items \in Seq(ValueOf(HandedKinds))
  BY <1>4, KindSets, Wider
<1> QED
  BY <1>5, <1>6, InForce, KindSets, PutAllGrows

\* SetRequestBody records fields of the body.
LEMMA BodyGrows ==
  ASSUME Types, NEW b \in Bodies, SetRequestBody(b)
  PROVE  /\ Grown(store, store', FromBody(HandedKinds))
         /\ Grown(store, store', ValueOf(HandedKinds)) /\ Grown(store, store', ValueOf(RequestKinds))
<1> DEFINE items == FieldItems(b.fields, BodyOf(route.op))
                      \o [i \in DOMAIN b.raw |-> Value("body", b.raw[i], b.size)]
<1>1. b \in Body
  BY ConstantsAssumption
<1>2. items \in Seq(FromBody({"arg", "argname", "body"}))
  BY <1>1, BodyItemsType
<1>3. store' = store \/ store' = PutAll(store, items)
  BY DEF SetRequestBody
<1> HIDE DEF items
<1>4. items \in Seq(FromBody(HandedKinds))
  <2>1. FromBody({"arg", "argname", "body"}) \subseteq FromBody(HandedKinds)
    BY KindSets DEF FromBody
  <2> QED
    BY <1>2, <2>1, Wider
<1>a. FromBody(HandedKinds) \in SUBSET AnyValue /\ FromBody(HandedKinds) \subseteq ValueOf(HandedKinds)
  BY KindSets DEF FromBody
<1>5. Grown(store, store', FromBody(HandedKinds))
  BY <1>3, <1>4, <1>a, InForce, PutAllGrows, GrownNothing
<1>6. Grown(store, store', ValueOf(HandedKinds))
  BY <1>5, <1>a, GrownMore
<1> QED
  BY <1>5, <1>6, HandedGrown

\* The header phase records views and the resolved value.
LEMMA HeaderPhaseGrows ==
  ASSUME Types, ProcessRequestHeaders
  PROVE  Grown(store, store', ValueOf(RequestKinds)) /\ JudgementTypes'
<1> DEFINE T == ValueOf(RequestKinds)
<1>1. PICK s \in Stores :
           /\ Grown(store, s, ValueOf({"argsget", "cookie"}))
           /\ \/ \E d \in Verdicts : Stop(d, s)
              \/ RunPhase("RequestHeaders", s, 0)
  BY HeaderPhaseEnds
<1>2. Grown(store, s, T)
  BY <1>1, KindSets, GrownMore
<1>3. CASE \E d \in Verdicts : Stop(d, s)
  BY <1>2, <1>3, StopTypes
<1>4. CASE RunPhase("RequestHeaders", s, 0)
  <2>1. "RequestHeaders" \in Phases /\ 0 \in Nat
    BY DEF Phases, RequestPhases
  <2>2. Grown(s, store', ValueOf({"resolved"})) /\ JudgementTypes'
    BY <1>4, <2>1, RunGrows
  <2>3. Grown(s, store', T)
    BY <2>2, KindSets, GrownMore
  <2> QED
    BY <1>2, <2>2, <2>3, InForce, GrownTwice
<1> QED
  BY <1>1, <1>3, <1>4

\* The body phase records views and the resolved value, and leaves the marks of places.
LEMMA BodyPhaseGrows ==
  ASSUME Types, ProcessRequestBody
  PROVE  /\ Grown(store, store', ValueOf(RequestKinds)) /\ JudgementTypes'
         /\ marks' \in Marks /\ marks'.body = marks.body /\ marks'.query = marks.query
<1> DEFINE T == ValueOf(RequestKinds)
<1>1. PICK s \in Stores : BodyEnds(s)
  BY BodyPhaseStops
<1>2. Grown(store, s, T)
  BY <1>1, KindSets, GrownMore DEF BodyEnds
<1>3. marks' \in Marks /\ marks'.body = marks.body /\ marks'.query = marks.query
  <2>1. marks \in Marks
    BY DEF Types
  <2>2. \/ marks' = marks \/ marks' = [marks EXCEPT !.headerViews = TRUE]
        \/ marks' = [marks EXCEPT !.headerViews = TRUE, !.bodyViews = TRUE]
    BY <1>1 DEF BodyEnds
  <2> QED
    BY <2>1, <2>2 DEF Marks
<1>4. CASE \E d \in Verdicts : Stop(d, s)
  BY <1>2, <1>3, <1>4, StopTypes
<1>5. CASE RunPhase("RequestBody", s, 0)
  <2>1. "RequestBody" \in Phases /\ 0 \in Nat
    BY DEF Phases, RequestPhases
  <2>2. Grown(s, store', ValueOf({"resolved"})) /\ JudgementTypes'
    BY <1>5, <2>1, RunGrows
  <2>3. Grown(s, store', T)
    BY <2>2, KindSets, GrownMore
  <2> QED
    BY <1>2, <1>3, <2>2, <2>3, InForce, GrownTwice
<1> QED
  BY <1>1, <1>4, <1>5 DEF BodyEnds

\* What is recorded of the response.
LEMMA ResponseGrows ==
  ASSUME Types, NEW c \in Samples, SetResponseStatus(c) \/ AddResponseHeader(c)
  PROVE  Grown(store, store', {v \in ValueOf(ResponseKinds) : ~v.inert})
<1> DEFINE T == {v \in ValueOf(ResponseKinds) : ~v.inert}
           a == Value("status", c.content, 1)
           b == Value("respheader", c.content, c.size)
<1>1. c.content \in Severities /\ c.size \in Nat
  BY ConstantsAssumption DEF Chunk
<1>2. T \in SUBSET AnyValue
  BY KindsKnown, SomeValues
<1>3. a \in T /\ b \in T
  <2>1. a \in ValueOf(ResponseKinds) /\ b \in ValueOf(ResponseKinds)
    BY <1>1, KindsKnown, SomeValues DEF ResponseKinds
  <2>2. ~a.inert /\ ~b.inert
    BY DEF Value
  <2> QED
    BY <2>1, <2>2
<1>4. store' = Put(store, a) \/ store' = Put(store, b)
  BY DEF SetResponseStatus, AddResponseHeader
<1> HIDE DEF a, b, T
<1>5. Grown(store, store', T)
  BY <1>2, <1>3, <1>4, InForce, PutGrows
<1> QED
  BY <1>5 DEF T

\* Where the response starts once something of it is recorded.
MarkedStart == IF reply.start < 0 THEN Len(store.values) ELSE reply.start

\* The mark of the response is a recorded place.
LEMMA MarkedType ==
  ASSUME Types
  PROVE  /\ Marked \in Replies /\ Marked.start = MarkedStart /\ Marked.start \in Nat
         /\ Marked.start <= Len(store.values)
         /\ Marked.len = reply.len /\ Marked.total = reply.total /\ Marked.truncated = reply.truncated
<1>1. reply \in Replies /\ Len(store.values) \in Nat /\ reply.start <= Len(store.values)
  BY InForce DEF Types, MarksWithin
<1>2. Marked = [reply EXCEPT !.start = MarkedStart] /\ MarkedStart \in Nat
  BY <1>1 DEF Marked, MarkedStart, Replies
<1>3. MarkedStart <= Len(store.values)
  BY <1>1 DEF MarkedStart
<1> QED
  BY <1>1, <1>2, <1>3 DEF Replies

\* The header phase of a response records at most the resolved value.
LEMMA ResponseHeadersGrow ==
  ASSUME Types, ProcessResponseHeaders
  PROVE  Grown(store, store', ValueOf({"resolved"})) /\ JudgementTypes'
<1>1. "ResponseHeaders" \in Phases /\ Marked.start \in Nat
  BY MarkedType DEF Phases, ResponsePhases
<1>2. RunPhase("ResponseHeaders", store, Marked.start)
  BY DEF ProcessResponseHeaders
<1> QED
  BY <1>1, <1>2, InForce, RunGrows

\* Writing a chunk changes no recorded value.
LEMMA ChunkGrows ==
  ASSUME Types, NEW c \in Chunks, WriteResponseBody(c)
  PROVE  /\ store' \in Stores /\ store'.values = store.values /\ store'.oversize = store.oversize
         /\ store'.dropped = store.dropped /\ store'.unkeyed = store.unkeyed /\ reply' \in Replies
         /\ reply'.start = MarkedStart
<1> DEFINE moved == reply.len > 0 /\ reply.end # store.arena
           need == IF moved THEN reply.len + c.size ELSE c.size
           total == reply.total + c.size
<1>1. c.size \in Nat /\ reply \in Replies /\ store \in Stores
  BY ConstantsAssumption, InForce DEF Types, Chunk
<1>2. need \in Nat /\ total \in Nat /\ store.arena \in Nat
  BY <1>1, StoreParts DEF Replies
<1>3. \/ store' = store /\ reply' = [Marked EXCEPT !.total = total, !.truncated = TRUE]
      \/ /\ store' = [store EXCEPT !.arena = @ + need]
         /\ reply' = [Marked EXCEPT !.total = total, !.len = @ + c.size,
                        !.end = store.arena + need, !.content = Combined(<<@, c.content>>)]
  BY DEF WriteResponseBody
<1> HIDE DEF need, total
<1>4. /\ store' \in Stores /\ store'.values = store.values /\ store'.oversize = store.oversize
      /\ store'.dropped = store.dropped /\ store'.unkeyed = store.unkeyed
  BY <1>1, <1>2, <1>3 DEF Stores
<1>5. Marked \in Replies /\ Marked.start = MarkedStart
  BY MarkedType
<1> DEFINE both == Combined(<<Marked.content, c.content>>)
<1>6. both \in Severities
  BY DEF Combined, Severities
<1>a. reply' = [Marked EXCEPT !.total = total, !.truncated = TRUE]
      \/ reply' = [Marked EXCEPT !.total = total, !.len = @ + c.size,
                     !.end = store.arena + need, !.content = both]
  BY <1>3
<1> HIDE DEF both
<1>b. Marked.len + c.size \in Nat /\ store.arena + need \in Nat
  BY <1>1, <1>2, <1>5 DEF Replies
<1>7. reply' \in Replies /\ reply'.start = MarkedStart
  <2>1. CASE reply' = [Marked EXCEPT !.total = total, !.truncated = TRUE]
    BY <1>2, <1>5, <2>1 DEF Replies
  <2>2. CASE reply' = [Marked EXCEPT !.total = total, !.len = @ + c.size,
                     !.end = store.arena + need, !.content = both]
    BY <1>2, <1>5, <1>6, <1>b, <2>2 DEF Replies
  <2> QED
    BY <1>a, <2>1, <2>2
<1> QED
  BY <1>4, <1>7

\* The body of the response, recorded when its phase is asked for.
Answered == Push(store, Value("respbody", reply.content, reply.len))

\* The body of a response is recorded whole.
LEMMA AnsweredGrows ==
  ASSUME Types
  PROVE  /\ Grown(store, Answered, {v \in ValueOf(ResponseKinds) : ~v.inert})
         /\ Answered.values = Append(store.values, Value("respbody", reply.content, reply.len))
         /\ Answered.oversize = store.oversize
<1> DEFINE T == {v \in ValueOf(ResponseKinds) : ~v.inert}
           b == Value("respbody", reply.content, reply.len)
<1>1. reply.content \in Severities /\ reply.len \in Nat
  BY DEF Types, Replies
<1>2. T \in SUBSET AnyValue
  BY KindsKnown, SomeValues
<1>3. b \in ValueOf(ResponseKinds) /\ ~b.inert
  <2>1. b \in ValueOf(ResponseKinds)
    BY <1>1, KindsKnown, SomeValues DEF ResponseKinds
  <2>2. ~b.inert
    BY DEF Value
  <2> QED
    BY <2>1, <2>2
<1>4. b \in T
  BY <1>3
<1> HIDE DEF b, T
<1>5. Grown(store, Push(store, b), T) /\ Push(store, b).values = Append(store.values, b)
      /\ Push(store, b).oversize = store.oversize
  BY <1>2, <1>4, InForce, PushGrows
<1> QED
  BY <1>5 DEF Answered, b, T

\* How ProcessResponseBody ends.
LEMMA ResponseBodyEnds ==
  ASSUME Types, ProcessResponseBody
  PROVE  \/ reply.truncated /\ \E d \in Verdicts : Stop(d, store)
         \/ /\ ~reply.truncated
            /\ \E s \in Stores :
                 /\ Grown(store, s, {v \in ValueOf(ResponseKinds) : ~v.inert})
                 /\ \/ s = store /\ reply.len = 0
                    \/ s.values = store.values /\ "respbody" \in s.oversize
                    \/ s = Answered
                 /\ RunPhase("ResponseBody", s, Marked.start)
<1> DEFINE T == {v \in ValueOf(ResponseKinds) : ~v.inert}
           big == [store EXCEPT !.oversize = @ \cup {"respbody"}]
<1>1. \/ reply.truncated /\ Stop(Undone("limit"), store)
      \/ /\ ~reply.truncated
         /\ \/ reply.len = 0 /\ RunPhase("ResponseBody", store, Marked.start)
            \/ RunPhase("ResponseBody", big, Marked.start)
            \/ RunPhase("ResponseBody", Answered, Marked.start)
  BY DEF ProcessResponseBody, Answered
<1>2. /\ big \in Stores /\ big.values = store.values /\ "respbody" \in big.oversize
      /\ store.oversize \subseteq big.oversize /\ store.dropped = big.dropped
      /\ store.unkeyed = big.unkeyed
  BY InForce DEF Stores, Kinds, ResponseKinds
<1> HIDE DEF big
<1>3. Grown(store, big, T) /\ Grown(store, store, T) /\ Grown(store, Answered, T)
  <2>1. Grown(store, store, T)
    BY InForce, GrownNothing
  <2> QED
    BY <1>2, <2>1, InForce, StoreParts, AnsweredGrows DEF Grown
<1>4. store \in Stores /\ Answered \in Stores
  BY <1>3, InForce DEF Grown
<1>5. Undone("limit") \in Verdicts
  BY VerdictsOf
<1> QED
  BY <1>1, <1>2, <1>3, <1>4, <1>5

\* The body phase of a response records its body and the resolved value.
LEMMA ResponseBodyGrows ==
  ASSUME Types, ProcessResponseBody
  PROVE  Grown(store, store', AnyValue) /\ JudgementTypes'
<1> DEFINE T == {v \in ValueOf(ResponseKinds) : ~v.inert}
<1>1. T \subseteq AnyValue /\ ValueOf({"resolved"}) \subseteq AnyValue
  BY KindsKnown, SomeValues DEF Kinds
<1>2. CASE \E d \in Verdicts : Stop(d, store)
  BY <1>2, InForce, StopTypes, GrownNothing
<1>3. ASSUME NEW s \in Stores, Grown(store, s, T), RunPhase("ResponseBody", s, Marked.start)
      PROVE  Grown(store, store', AnyValue) /\ JudgementTypes'
  <2>1. "ResponseBody" \in Phases /\ Marked.start \in Nat
    BY MarkedType DEF Phases, ResponsePhases
  <2>2. Grown(s, store', ValueOf({"resolved"})) /\ JudgementTypes'
    BY <1>3, <2>1, RunGrows
  <2> HIDE DEF T
  <2>3. Grown(store, s, AnyValue) /\ Grown(s, store', AnyValue)
    BY <1>1, <1>3, <2>2, GrownMore
  <2> QED
    BY <2>2, <2>3, InForce, GrownTwice
<1> QED
  BY <1>2, <1>3, ResponseBodyEnds
-----------------------------------------------------------------------------
(* Types, and the marks as places of the recorded values                     *)

\* The types after a step, part by part.
LEMMA TypesFrom ==
  ASSUME Types, cfg' = cfg, calls' \in Nat,
         stage' \in {"line", "headers", "body", "response", "chunks", "done"},
         Grown(store, store', AnyValue), counts' \in Counters, route' \in Routes,
         marks' \in Marks, reply' \in Replies, undecodable' \in BOOLEAN, JudgementTypes',
         marks'.body <= Len(store.values), marks'.query <= Len(store.values),
         reply'.start <= Len(store.values)
  PROVE  Types'
<1>1. store' \in Stores /\ Len(store.values) <= Len(store'.values)
  BY DEF Grown
<1>2. Len(store.values) \in Nat /\ Len(store'.values) \in Nat
  BY <1>1, InForce, StoreParts
<1>3. marks'.body \in Int /\ marks'.query \in Int /\ reply'.start \in Int
  BY DEF Marks, Replies
<1>4. MarksWithin'
  BY <1>1, <1>2, <1>3 DEF MarksWithin
<1>5. cfg' \in Configs
  BY DEF Types
<1> QED
  BY <1>1, <1>4, <1>5 DEF Types

\* What leaves the decision alone keeps its types.
LEMMA SameJudgement ==
  ASSUME Types, UNCHANGED Judgement
  PROVE  JudgementTypes'
BY DEF Types, JudgementTypes, Judgement

\* The parts of the types the calls of the embedder need.
LEMMA StagesOf ==
  ASSUME Types
  PROVE  /\ calls \in Nat /\ stage \in {"line", "headers", "body", "response", "chunks", "done"}
         /\ counts \in Counters /\ route \in Routes /\ marks \in Marks /\ reply \in Replies
         /\ undecodable \in BOOLEAN /\ JudgementTypes
         /\ marks.body <= Len(store.values) /\ marks.query <= Len(store.values)
         /\ reply.start <= Len(store.values)
         /\ \A S : Supply(S) => calls' \in Nat
         /\ \A f, t \in {"line", "headers", "body", "response", "chunks", "done"} :
              Ask(f, t) => /\ calls' \in Nat
                           /\ stage' \in {"line", "headers", "body", "response", "chunks", "done"}
BY DEF Types, MarksWithin, Supply, Ask

\* Growth by values of a kind is growth by recorded values.
LEMMA WiderGrown ==
  ASSUME NEW s, NEW t, NEW T, T \subseteq AnyValue, Grown(s, t, T)
  PROVE  Grown(s, t, AnyValue)
BY GrownMore

\* Every call keeps the types.
LEMMA TypeStep == Types /\ [Next]_vars => Types'
<1> SUFFICES ASSUME Types, [Next]_vars PROVE Types'
  OBVIOUS
<1>a. ValueOf(RequestKinds) \subseteq AnyValue /\ ValueOf(HandedKinds) \subseteq AnyValue /\ ValueOf({"resolved"}) \subseteq AnyValue
  BY KindSets, SomeValues, KindsKnown DEF Kinds
<1>b. Grown(store, store, AnyValue)
  BY InForce, GrownNothing
<1>1. CASE SetRemoteAddr
  <2>1. Grown(store, store', AnyValue)
    BY <1>1, <1>a, AddrGrows, WiderGrown
  <2>2. /\ UNCHANGED <<cfg, stage, counts, framing, route, marks, undecodable, reply, Judgement>>
        /\ Supply({"line"})
    BY <1>1 DEF SetRemoteAddr
  <2>3. UNCHANGED Judgement /\ calls' \in Nat
    BY <2>2, StagesOf
  <2> QED
    BY <2>1, <2>2, <2>3, StagesOf, SameJudgement, TypesFrom
<1>2. ASSUME NEW l \in Lines, SetRequestLine(l) PROVE Types'
  <2>1. Grown(store, store', AnyValue)
    BY <1>2, <1>a, LineGrows, WiderGrown
  <2>2. /\ UNCHANGED <<cfg, marks, undecodable, reply>> /\ UNCHANGED Judgement
        /\ calls' \in Nat /\ stage' \in {stage, "headers"}
    BY <1>2, StagesOf DEF SetRequestLine
  <2>3. counts' \in Counters
    <3>1. counts' = [counts EXCEPT !.args = @ + Len(l.args)] /\ Len(l.args) \in Nat
      BY <1>2, ConstantsAssumption DEF SetRequestLine, Line
    <3> QED
      BY <3>1, StagesOf DEF Counters
  <2>4. route' \in Routes
    <3> DEFINE op == IF cfg.schema # "none" /\ l.op # {} THEN l.op ELSE route.op
               v == route.violation \/ (cfg.schema = "closed" /\ ~(cfg.schema # "none" /\ l.op # {}))
                      \/ AnyOffends(Kept(l.args), op)
    <3>1. route' = [route EXCEPT !.op = op, !.violation = v]
      BY <1>2 DEF SetRequestLine
    <3>2. op \in SUBSET Operation /\ v \in BOOLEAN
      BY ConstantsAssumption, InForce DEF Line
    <3> HIDE DEF op, v
    <3> QED
      BY <3>1, <3>2, StagesOf DEF Routes
  <2> QED
    BY <2>1, <2>2, <2>3, <2>4, StagesOf, SameJudgement, TypesFrom
<1>3. ASSUME NEW h \in Headers, AddRequestHeader(h) PROVE Types'
  <2>1. Grown(store, store', AnyValue)
    BY <1>3, <1>a, HeaderGrows, WiderGrown
  <2>2. /\ UNCHANGED <<cfg, stage, route, marks, undecodable, reply>> /\ UNCHANGED Judgement
        /\ calls' \in Nat
    BY <1>3, StagesOf DEF AddRequestHeader
  <2>3. counts' \in Counters
    <3>1. counts' = [counts EXCEPT !.headers = @ + 1]
      BY <1>3 DEF AddRequestHeader
    <3> QED
      BY <3>1, StagesOf DEF Counters
  <2> QED
    BY <2>1, <2>2, <2>3, StagesOf, SameJudgement, TypesFrom
<1>4. ASSUME NEW a \in Arguments, AddArgument(a) PROVE Types'
  <2>1. Grown(store, store', AnyValue)
    BY <1>4, <1>a, ArgumentGrows, WiderGrown
  <2>2. /\ UNCHANGED <<cfg, stage, marks, undecodable, reply>> /\ UNCHANGED Judgement
        /\ calls' \in Nat
    BY <1>4, StagesOf DEF AddArgument
  <2>3. counts' \in Counters
    <3>1. counts' = [counts EXCEPT !.args = @ + 1]
      BY <1>4 DEF AddArgument
    <3> QED
      BY <3>1, StagesOf DEF Counters
  <2>4. route' \in Routes
    <3> DEFINE v == route.violation \/ AnyOffends(Kept(<<a>>), route.op)
    <3>1. route' = [route EXCEPT !.violation = v] /\ v \in BOOLEAN
      BY <1>4 DEF AddArgument
    <3> HIDE DEF v
    <3> QED
      BY <3>1, StagesOf DEF Routes
  <2> QED
    BY <2>1, <2>2, <2>3, <2>4, StagesOf, SameJudgement, TypesFrom
<1>5. ASSUME NEW c \in Samples, AddResolver(c) PROVE Types'
  <2>1. /\ UNCHANGED <<cfg, stage, store, counts, route, marks, undecodable, reply, fuel, score,
                       decided, decision, returned, inspected>>
        /\ calls' \in Nat
        /\ resolver' = [state |-> "registered", content |-> c.content, size |-> c.size]
    BY <1>5, StagesOf DEF AddResolver
  <2>2. resolver' \in Resolvers
    BY <2>1, ConstantsAssumption DEF Resolvers, Chunk
  <2>3. JudgementTypes'
    BY <2>1, <2>2 DEF Types, JudgementTypes
  <2> QED
    BY <1>b, <2>1, <2>3, StagesOf, TypesFrom
<1>6. CASE ProcessRequestHeaders
  <2>1. Grown(store, store', AnyValue) /\ JudgementTypes'
    BY <1>6, <1>a, HeaderPhaseGrows, WiderGrown
  <2>2. UNCHANGED <<cfg, counts, route, undecodable, reply>> /\ Ask("headers", "body")
    BY <1>6 DEF ProcessRequestHeaders
  <2>3. marks' \in Marks /\ marks'.body <= Len(store.values) /\ marks'.query <= Len(store.values)
    <3> DEFINE query == IF marks.query < 0 THEN Len(store.values) ELSE marks.query
    <3>1. marks' = [marks EXCEPT !.query = query, !.headerViews = @ \/ FALSE]
          \/ marks' = [marks EXCEPT !.query = query, !.headerViews = @ \/ TRUE]
      BY <1>6, ZenonT(60) DEF ProcessRequestHeaders
    <3>2. query \in Int /\ query <= Len(store.values) /\ marks \in Marks /\ marks.body <= Len(store.values)
      BY InForce, StagesOf
    <3> HIDE DEF query
    <3> QED
      BY <3>1, <3>2 DEF Marks
  <2> QED
    BY <2>1, <2>2, <2>3, StagesOf, TypesFrom
<1>7. ASSUME NEW b \in Bodies, SetRequestBody(b) PROVE Types'
  <2>1. Grown(store, store', AnyValue)
    BY <1>7, <1>a, BodyGrows, WiderGrown
  <2>2. /\ UNCHANGED <<cfg, stage, reply>> /\ UNCHANGED Judgement
        /\ calls' \in Nat
        /\ marks' = [marks EXCEPT !.body = IF @ < 0 THEN Len(store.values) ELSE @]
        /\ counts' = [counts EXCEPT !.body = b.size]
        /\ undecodable' = undecodable \/ undecodable' = (undecodable \/ b.undecodable)
    BY <1>7, StagesOf DEF SetRequestBody
  <2>3. b.size \in Nat /\ b.undecodable \in BOOLEAN /\ b.fields \in Seq(Argument)
    BY ConstantsAssumption DEF Body
  <2>4. counts' \in Counters
    BY <2>2, <2>3, StagesOf DEF Counters
  <2>5. marks' \in Marks /\ marks'.body <= Len(store.values) /\ marks'.query <= Len(store.values)
    BY <2>2, StagesOf, InForce DEF Marks
  <2>6. route' \in Routes
    <3> DEFINE op == BodyOf(route.op)
               seen == {b.fields[i].name : i \in
                           {k \in DOMAIN b.fields : op # {} /\ b.fields[k].field # "undeclared"}}
               v == route.violation \/ AnyOffends(b.fields, op)
    <3>1. route' = route \/ route' = [route EXCEPT !.violation = v, !.seen = @ \cup seen]
      BY <1>7 DEF SetRequestBody
    <3>2. \A i \in DOMAIN b.fields : b.fields[i].name \in STRING
      <4>1. \A i \in DOMAIN b.fields : b.fields[i] \in Argument
        BY <2>3
      <4> QED
        BY <4>1 DEF Argument
    <3>3. seen \in SUBSET STRING /\ v \in BOOLEAN
      BY <3>2, InForce
    <3> HIDE DEF seen, v
    <3> QED
      BY <3>1, <3>3, StagesOf DEF Routes
  <2>7. undecodable' \in BOOLEAN
    BY <2>2, <2>3, StagesOf
  <2> QED
    BY <2>1, <2>2, <2>4, <2>5, <2>6, <2>7, StagesOf, SameJudgement, TypesFrom
<1>8. CASE ProcessRequestBody
  <2>1. /\ Grown(store, store', AnyValue) /\ JudgementTypes'
        /\ marks' \in Marks /\ marks'.body = marks.body /\ marks'.query = marks.query
    BY <1>8, <1>a, BodyPhaseGrows, WiderGrown
  <2>2. UNCHANGED <<cfg, counts, undecodable, reply>> /\ Ask("body", "response")
    BY <1>8 DEF ProcessRequestBody
  <2>3. route' = route \/ route' = [route EXCEPT !.violation = TRUE]
    BY <1>8, ZenonT(60) DEF ProcessRequestBody
  <2>4. route' \in Routes
    BY <2>3, StagesOf DEF Routes
  <2> QED
    BY <2>1, <2>2, <2>4, StagesOf, TypesFrom
<1>9. ASSUME NEW c \in Samples, SetResponseStatus(c) \/ AddResponseHeader(c) PROVE Types'
  <2> DEFINE T == {v \in ValueOf(ResponseKinds) : ~v.inert}
  <2>1. T \subseteq AnyValue
    BY KindsKnown, SomeValues
  <2>2. Grown(store, store', AnyValue)
    BY <1>9, <2>1, ResponseGrows, WiderGrown
  <2>3. /\ UNCHANGED <<cfg, stage, counts, route, marks, undecodable>> /\ UNCHANGED Judgement
        /\ calls' \in Nat /\ reply' = Marked
    BY <1>9, StagesOf DEF SetResponseStatus, AddResponseHeader
  <2> QED
    BY <2>2, <2>3, StagesOf, MarkedType, SameJudgement, TypesFrom
<1>10. CASE ProcessResponseHeaders
  <2>1. Grown(store, store', AnyValue) /\ JudgementTypes'
    BY <1>10, <1>a, ResponseHeadersGrow, WiderGrown
  <2>2. /\ UNCHANGED <<cfg, counts, route, marks, undecodable>> /\ reply' = Marked
        /\ Ask("response", "chunks")
    BY <1>10 DEF ProcessResponseHeaders
  <2> QED
    BY <2>1, <2>2, StagesOf, MarkedType, TypesFrom
<1>11. ASSUME NEW c \in Chunks, WriteResponseBody(c) PROVE Types'
  <2>1. /\ store' \in Stores /\ store'.values = store.values
        /\ store'.oversize = store.oversize /\ store'.dropped = store.dropped
        /\ store'.unkeyed = store.unkeyed
        /\ reply' \in Replies /\ reply'.start = MarkedStart
    BY <1>11, ChunkGrows
  <2>2. Grown(store, store', AnyValue)
    BY <2>1, InForce, StoreParts DEF Grown
  <2>3. /\ UNCHANGED <<cfg, counts, route, marks, undecodable, resolver, fuel, score, inspected>>
        /\ calls' \in Nat /\ stage' \in {stage, "done"}
    BY <1>11, StagesOf DEF WriteResponseBody
  <2>4. decided' \in BOOLEAN /\ decision' \in Verdicts /\ returned' \in Verdicts
    <3>1. Finish(Undone("limit")) \/ (returned' = Decision /\ UNCHANGED <<decided, decision>>)
      BY <1>11, ZenonT(60) DEF WriteResponseBody
    <3>2. Decision \in Verdicts /\ decision \in Verdicts /\ decided \in BOOLEAN
      BY VerdictsOf DEF Types, JudgementTypes, Decision
    <3> QED
      BY <3>1, <3>2, VerdictsOf DEF Finish
  <2>5. JudgementTypes'
    BY <2>3, <2>4 DEF Types, JudgementTypes
  <2>6. reply'.start <= Len(store.values)
    BY <2>1, MarkedType
  <2> QED
    BY <2>1, <2>2, <2>3, <2>5, <2>6, StagesOf, TypesFrom
<1>12. CASE ProcessResponseBody
  <2>1. Grown(store, store', AnyValue) /\ JudgementTypes'
    BY <1>12, ResponseBodyGrows
  <2>2. /\ UNCHANGED <<cfg, counts, route, marks, undecodable>> /\ reply' = Marked
        /\ Ask("chunks", "done")
    BY <1>12 DEF ProcessResponseBody
  <2> QED
    BY <2>1, <2>2, StagesOf, MarkedType, TypesFrom
<1>13. CASE Reset
  <2>1. /\ cfg' = cfg /\ stage' = "line" /\ calls' = 0 /\ store' = NewStore
        /\ counts' = [headers |-> 0, args |-> 0, body |-> 0]
        /\ route' = NewRoute /\ marks' = NewMarks /\ undecodable' = FALSE /\ reply' = NewReply
        /\ resolver' = [state |-> "none", content |-> "benign", size |-> 0]
        /\ fuel' = 0 /\ score' = 0
        /\ decided' = FALSE /\ decision' = NoMatch /\ returned' = NoMatch
        /\ inspected' = [p \in Phases |-> {}]
    BY <1>13 DEF Reset
  <2>2. /\ NewStore \in Stores /\ NewRoute \in Routes /\ NewMarks \in Marks /\ NewReply \in Replies
        /\ [headers |-> 0, args |-> 0, body |-> 0] \in Counters
    BY DEF NewStore, Stores, NewRoute, Routes, NewMarks, Marks, NewReply, Replies, Severities, Counters
  <2>3. JudgementTypes'
    BY <2>1, VerdictsOf DEF JudgementTypes, Resolvers, Severities
  <2>4. MarksWithin'
    BY <2>1 DEF MarksWithin, NewStore, NewMarks, NewReply
  <2> QED
    BY <2>1, <2>2, <2>3, <2>4 DEF Types
<1>14. CASE UNCHANGED vars
  <2>1. UNCHANGED <<cfg, stage, calls, store, counts, route, marks, undecodable, reply>>
        /\ UNCHANGED Judgement
    BY <1>14 DEF vars, Judgement
  <2> QED
    BY <1>b, <2>1, StagesOf, SameJudgement, TypesFrom
<1> QED
  BY <1>1, <1>2, <1>3, <1>4, <1>5, <1>6, <1>7, <1>8, <1>9, <1>10, <1>11, <1>12, <1>13,
     <1>14 DEF Next

\* At every point, whatever the order of the calls: what is recorded and counted has its
\* type, every decision is one of Verdicts, and the marks the phases leave (bodyStart,
\* queryEnd, responseStart) are places of the recorded values.
THEOREM Typed == Spec => []Types
<1>1. Init => Types
  <2> SUFFICES ASSUME Init PROVE Types
    OBVIOUS
  <2>1. /\ cfg \in Configs /\ stage = "line" /\ calls = 0 /\ store = NewStore
        /\ counts = [headers |-> 0, args |-> 0, body |-> 0]
        /\ route = NewRoute /\ marks = NewMarks /\ undecodable = FALSE /\ reply = NewReply
        /\ resolver = [state |-> "none", content |-> "benign", size |-> 0]
        /\ fuel = 0 /\ score = 0
        /\ decided = FALSE /\ decision = NoMatch /\ returned = NoMatch
        /\ inspected = [p \in Phases |-> {}]
    BY DEF Init
  <2>2. /\ NewStore \in Stores /\ NewRoute \in Routes /\ NewMarks \in Marks /\ NewReply \in Replies
        /\ [headers |-> 0, args |-> 0, body |-> 0] \in Counters
    BY DEF NewStore, Stores, NewRoute, Routes, NewMarks, Marks, NewReply, Replies, Severities, Counters
  <2>3. JudgementTypes
    BY <2>1, VerdictsOf DEF JudgementTypes, Resolvers, Severities
  <2>4. MarksWithin
    BY <2>1 DEF MarksWithin, NewStore, NewMarks, NewReply
  <2> QED
    BY <2>1, <2>2, <2>3, <2>4 DEF Types
<1> QED
  BY <1>1, TypeStep, PTL DEF Spec
-----------------------------------------------------------------------------
(* A phase that decides nothing has read everything in its window            *)

\* The terminal rules an exception may suppress: the walk stops at them all the same.
NoTerminalExcepted == cfg.excepted \cap {"allow", "block"} = {}

\* A walk that decides nothing came to the end of the rules.
LEMMA CleanOutcome ==
  ASSUME NoTerminalExcepted, NEW r, NEW total, Outcome(r, total) = NoMatch,
         r.why \in {"end", "exhausted", "ambiguous", "block", "allow"}
  PROVE  r.why = "end"
<1>1. /\ Undone("budget") # NoMatch /\ Undone("undecidable") # NoMatch
      /\ Refuse("rule") # NoMatch /\ Refuse("threshold") # NoMatch
      /\ [verdict |-> "allow", reason |-> "rule"] # NoMatch
  BY DEF Undone, Refuse, NoMatch
<1>2. "allow" \notin cfg.excepted /\ "block" \notin cfg.excepted
  BY DEF NoTerminalExcepted
<1> QED
  BY <1>1, <1>2 DEF Outcome

\* A phase that decides nothing has read every live value after its window, and none held
\* what a rule it runs blocks on.
LEMMA CleanRun ==
  ASSUME Types, NEW phase \in Phases, NEW s \in Stores, NEW start \in Nat,
         RunPhase(phase, s, start), ~decided', NoTerminalExcepted
  PROVE  /\ ~decided /\ Window(phase, start) \in Nat
         /\ \A p \in Phases : inspected[p] \subseteq inspected'[p]
         /\ Live(store'.values, Window(phase, start)) \subseteq inspected'[phase]
         /\ \A i \in Live(store'.values, Window(phase, start)) :
              ~(store'.values[i].content = "block" /\ Reads(phase, store'.values[i].kind))
<1>1. ~decided
  BY DEF RunPhase
<1>2. PICK t, r, total :
           /\ Ran(phase, s, start, t, r, total)
           /\ store' = t
           /\ inspected' = [inspected EXCEPT ![phase] = @ \cup r.seen]
           /\ IF Outcome(r, total) = NoMatch
              THEN returned' = NoMatch /\ UNCHANGED <<decided, decision>>
              ELSE Finish(Outcome(r, total))
  BY <1>1, RunUnfolds
<1>3. Outcome(r, total) = NoMatch
  BY <1>2 DEF Finish
<1>4. t \in Stores /\ Window(phase, start) \in Nat
  BY <1>2, RanFacts DEF Grown
<1>5. t.values \in Seq(AnyValue) /\ cfg \in Config /\ fuel \in Nat
  BY <1>4, StoreParts, InForce DEF Types, JudgementTypes
<1>6. r = Eval(phase, t.values, Window(phase, start))
  BY <1>2 DEF Ran
<1>7. /\ r.why \in {"end", "exhausted", "ambiguous", "block", "allow"}
      /\ r.why = "end" =>
           /\ r.seen = Live(t.values, Window(phase, start))
           /\ \A i \in Live(t.values, Window(phase, start)) :
                ~(t.values[i].content = "block" /\ Reads(phase, t.values[i].kind))
  BY <1>4, <1>5, <1>6, EvalFacts
<1>8. /\ r.seen = Live(t.values, Window(phase, start))
      /\ \A i \in Live(t.values, Window(phase, start)) :
           ~(t.values[i].content = "block" /\ Reads(phase, t.values[i].kind))
  BY <1>3, <1>7, CleanOutcome
<1>9. inspected \in [Phases -> SUBSET Nat]
  BY DEF Types, JudgementTypes
<1> QED
  BY <1>1, <1>2, <1>4, <1>8, <1>9

\* A decision stands until the transaction is reused.
LEMMA StopDecides == ASSUME NEW d, NEW s, Stop(d, s) PROVE decided' = TRUE
BY DEF Stop, Finish

\* The kinds of calls that make up a step, and what each leaves alone.
LEMMA StepKinds ==
  ASSUME Types, [Next]_vars
  PROVE  /\ cfg' = cfg
         /\ \/ /\ cfg.ordered => stage \in {"line", "headers"} /\ stage' \in {"line", "headers"}
               /\ UNCHANGED <<marks, reply, fuel, score, decided, decision, returned, inspected>>
               /\ Grown(store, store', ValueOf(HandedKinds))
               /\ Grown(store, store', ValueOf(RequestKinds))
            \/ ProcessRequestHeaders
            \/ \E b \in Bodies : SetRequestBody(b)
            \/ ProcessRequestBody
            \/ \E c \in Samples : SetResponseStatus(c) \/ AddResponseHeader(c)
            \/ ProcessResponseHeaders
            \/ \E c \in Chunks : WriteResponseBody(c)
            \/ ProcessResponseBody
            \/ Reset
            \/ UNCHANGED vars
<1>1. cfg' = cfg
  BY DEF Next, vars, SetRemoteAddr, SetRequestLine, AddRequestHeader, AddArgument, AddResolver,
     ProcessRequestHeaders, SetRequestBody, ProcessRequestBody, SetResponseStatus,
     AddResponseHeader, ProcessResponseHeaders, WriteResponseBody, ProcessResponseBody, Reset
<1> DEFINE Told == /\ cfg.ordered => stage \in {"line", "headers"} /\ stage' \in {"line", "headers"}
                   /\ UNCHANGED <<marks, reply, fuel, score, decided, decision, returned, inspected>>
                   /\ Grown(store, store', ValueOf(HandedKinds))
                   /\ Grown(store, store', ValueOf(RequestKinds))
<1>2. CASE SetRemoteAddr
  BY <1>2, AddrGrows, HandedGrown DEF SetRemoteAddr, Supply, At, Judgement
<1>3. ASSUME NEW l \in Lines, SetRequestLine(l) PROVE Told
  BY <1>3, LineGrows, HandedGrown DEF SetRequestLine, Supply, At, Judgement
<1>4. ASSUME NEW h \in Headers, AddRequestHeader(h) PROVE Told
  BY <1>4, HeaderGrows, HandedGrown DEF AddRequestHeader, Supply, At, Judgement
<1>5. ASSUME NEW a \in Arguments, AddArgument(a) PROVE Told
  BY <1>5, ArgumentGrows, HandedGrown DEF AddArgument, Supply, At, Judgement
<1>6. ASSUME NEW c \in Samples, AddResolver(c) PROVE Told
  BY <1>6, InForce, GrownNothing DEF AddResolver, Supply, At, Judgement
<1> HIDE DEF Told
<1>7. Told \/ ProcessRequestHeaders \/ (\E b \in Bodies : SetRequestBody(b)) \/ ProcessRequestBody
      \/ (\E c \in Samples : SetResponseStatus(c) \/ AddResponseHeader(c))
      \/ ProcessResponseHeaders \/ (\E c \in Chunks : WriteResponseBody(c))
      \/ ProcessResponseBody \/ Reset \/ UNCHANGED vars
  <2>1. CASE SetRemoteAddr
    BY <1>2, <2>1 DEF Told
  <2> QED
    BY <1>3, <1>4, <1>5, <1>6, <2>1 DEF Next
<1> QED
  BY <1>1, <1>7 DEF Told
-----------------------------------------------------------------------------
(* A request reported clean was inspected                                    *)

\* What each boundary leaves: after the header phase the values recorded before the body
\* were read, after the body phase all of them.
ReadInv ==
  cfg.ordered =>
    /\ stage \in {"line", "headers"} => marks.body < 0
    /\ ~decided /\ NoTerminalExcepted =>
         /\ stage = "body" =>
              \A i \in 1..Len(store.values) :
                (marks.body >= 0 => i <= marks.body) =>
                  store.values[i].inert \/ i \in inspected["RequestHeaders"]
         /\ stage \in {"response", "chunks"} => NothingUnread

\* A response leaves the values of the request as they were, and every value recorded
\* beside its own is read.
LEMMA StaysRead ==
  ASSUME Types, NothingUnread, NEW T, Grown(store, store', T),
         \A p \in Phases : inspected[p] \subseteq inspected'[p],
         \A i \in 1..Len(store'.values) : i > Len(store.values) =>
            \/ store'.values[i].kind \in ResponseKinds \/ store'.values[i].inert
            \/ \E p \in Phases : i \in inspected'[p]
  PROVE  NothingUnread'
<1>1. /\ Len(store.values) \in Nat /\ DOMAIN store.values = 1..Len(store.values)
      /\ Len(store'.values) \in Nat /\ DOMAIN store'.values = 1..Len(store'.values)
  BY InForce, StoreParts DEF Grown
<1> SUFFICES ASSUME NEW i \in 1..Len(store'.values)
             PROVE  \/ store'.values[i].inert \/ store'.values[i].kind \in ResponseKinds
                    \/ \E p \in Phases : i \in inspected'[p]
  BY <1>1 DEF NothingUnread
<1>2. CASE i > Len(store.values)
  BY <1>2
<1>3. CASE i \in 1..Len(store.values)
  <2>1. store'.values[i] = store.values[i]
    BY <1>3 DEF Grown
  <2>2. \/ store.values[i].inert \/ store.values[i].kind \in ResponseKinds
        \/ \E p \in Phases : i \in inspected[p]
    BY <1>1, <1>3 DEF NothingUnread
  <2> QED
    BY <2>1, <2>2
<1> QED
  BY <1>1, <1>2, <1>3

\* Every call keeps ReadInv.
LEMMA ReadStep == Types /\ ReadInv /\ [Next]_vars => ReadInv'
<1> SUFFICES ASSUME Types, ReadInv, [Next]_vars, cfg'.ordered PROVE ReadInv'
  BY DEF ReadInv
<1>a. cfg' = cfg /\ cfg.ordered
  BY StepKinds
<1>b. /\ stage \in {"line", "headers"} => marks.body < 0
      /\ ~decided /\ NoTerminalExcepted =>
         /\ stage = "body" =>
              \A i \in 1..Len(store.values) :
                (marks.body >= 0 => i <= marks.body) =>
                  store.values[i].inert \/ i \in inspected["RequestHeaders"]
         /\ stage \in {"response", "chunks"} => NothingUnread
  BY <1>a DEF ReadInv
<1>c. Len(store.values) \in Nat /\ marks.body \in Int /\ marks.body <= Len(store.values)
      /\ marks \in Marks /\ decided \in BOOLEAN
  BY InForce, StagesOf
<1>d. NoTerminalExcepted' <=> NoTerminalExcepted
  BY <1>a DEF NoTerminalExcepted
<1>1. CASE stage' \in {"line", "headers"} /\ marks'.body < 0
  BY <1>1 DEF ReadInv
<1>2. CASE stage' = "done"
  BY <1>2 DEF ReadInv
<1>3. CASE /\ stage' \in {"response", "chunks"}
           /\ (~decided' /\ NoTerminalExcepted => NothingUnread')
  BY <1>3, <1>d DEF ReadInv
<1>4. CASE /\ stage \in {"line", "headers"} /\ stage' \in {"line", "headers"}
           /\ UNCHANGED marks
  BY <1>1, <1>4, <1>b
<1>5. CASE ProcessRequestHeaders
  <2>1. stage = "headers" /\ stage' \in {"body", "done"}
    BY <1>5, <1>a DEF ProcessRequestHeaders, Ask, At
  <2>2. SUFFICES ASSUME stage' = "body", ~decided', NoTerminalExcepted,
                        NEW i \in 1..Len(store'.values)
                 PROVE  store'.values[i].inert \/ i \in inspected'["RequestHeaders"]
    BY <1>2, <1>d, <2>1 DEF ReadInv
  <2>3. PICK s \in Stores : \/ \E d \in Verdicts : Stop(d, s)
                            \/ RunPhase("RequestHeaders", s, 0)
    BY <1>5, HeaderPhaseEnds
  <2>4. RunPhase("RequestHeaders", s, 0)
    BY <2>2, <2>3, StopDecides
  <2>5. "RequestHeaders" \in Phases /\ 0 \in Nat /\ Window("RequestHeaders", 0) = 0
    BY DEF Phases, RequestPhases, ResponsePhases, Window
  <2>6. Live(store'.values, 0) \subseteq inspected'["RequestHeaders"]
    BY <2>2, <2>4, <2>5, CleanRun
  <2> QED
    BY <2>6 DEF Live
<1>6. ASSUME NEW b \in Bodies, SetRequestBody(b) PROVE ReadInv'
  <2>1. /\ stage = "body" /\ stage' = stage /\ marks.body < 0
        /\ marks' = [marks EXCEPT !.body = IF @ < 0 THEN Len(store.values) ELSE @]
        /\ UNCHANGED Judgement
    BY <1>6, <1>a DEF SetRequestBody, Supply, At
  <2>2. marks'.body = Len(store.values) /\ decided' = decided /\ inspected' = inspected
    BY <1>c, <2>1 DEF Marks, Judgement
  <2>3. Grown(store, store', ValueOf(RequestKinds))
    BY <1>6, BodyGrows
  <2> SUFFICES ASSUME ~decided', NoTerminalExcepted, NEW i \in 1..Len(store'.values),
                      marks'.body >= 0 => i <= marks'.body
               PROVE  store'.values[i].inert \/ i \in inspected'["RequestHeaders"]
    BY <1>d, <2>1 DEF ReadInv
  <2>4. i \in 1..Len(store.values)
    BY <1>c, <2>2
  <2>5. store.values[i].inert \/ i \in inspected["RequestHeaders"]
    BY <1>b, <2>1, <2>2, <2>4, <1>c
  <2> QED
    BY <2>2, <2>3, <2>4, <2>5 DEF Grown
<1>7. CASE ProcessRequestBody
  <2>1. stage = "body" /\ stage' \in {"response", "done"}
    BY <1>7, <1>a DEF ProcessRequestBody, Ask, At
  <2> SUFFICES ASSUME ~decided', NoTerminalExcepted, stage' = "response"
               PROVE  NothingUnread'
    BY <1>2, <1>3, <2>1
  <2>2. PICK s \in Stores : BodyEnds(s)
    BY <1>7, BodyPhaseStops
  <2>3. RunPhase("RequestBody", s, 0)
    BY <2>2, StopDecides DEF BodyEnds
  <2>4. "RequestBody" \in Phases /\ "RequestHeaders" \in Phases /\ 0 \in Nat
    BY DEF Phases, RequestPhases
  <2> DEFINE lo == Window("RequestBody", 0)
  <2>5. lo \in {0, marks.body} /\ lo >= 0
    BY <1>c DEF Window, ResponsePhases
  <2>6. /\ ~decided /\ \A p \in Phases : inspected[p] \subseteq inspected'[p]
        /\ Live(store'.values, lo) \subseteq inspected'["RequestBody"] /\ lo \in Nat
    BY <2>3, <2>4, CleanRun
  <2>7. Grown(store, store', ValueOf(RequestKinds))
    BY <1>7, BodyPhaseGrows
  <2>8. Len(store'.values) \in Nat /\ DOMAIN store'.values = 1..Len(store'.values)
    BY <2>7, StoreParts DEF Grown
  <2> SUFFICES ASSUME NEW i \in 1..Len(store'.values)
               PROVE  store'.values[i].inert \/ \E p \in Phases : i \in inspected'[p]
    BY <2>8 DEF NothingUnread
  <2> HIDE DEF lo
  <2>9. CASE i > lo
    <3>1. i \in lo + 1 .. Len(store'.values)
      BY <2>6, <2>8, <2>9
    <3> QED
      BY <2>4, <2>6, <3>1 DEF Live
  <2>10. CASE i <= lo
    <3>1. lo = marks.body /\ i \in 1..Len(store.values)
      BY <1>c, <2>5, <2>6, <2>8, <2>10
    <3>2. store.values[i].inert \/ i \in inspected["RequestHeaders"]
      BY <1>b, <2>1, <2>6, <2>10, <3>1
    <3> QED
      BY <2>4, <2>6, <2>7, <3>1, <3>2 DEF Grown
  <2> QED
    BY <2>6, <2>8, <2>9, <2>10
<1>8. ASSUME NEW c \in Samples, SetResponseStatus(c) \/ AddResponseHeader(c) PROVE ReadInv'
  <2>1. stage \in {"response", "chunks"} /\ stage' = stage /\ UNCHANGED <<decided, inspected>>
    BY <1>8, <1>a DEF SetResponseStatus, AddResponseHeader, Supply, At, Judgement
  <2>2. Grown(store, store', {v \in ValueOf(ResponseKinds) : ~v.inert})
    BY <1>8, ResponseGrows
  <2>3. \A i \in 1..Len(store'.values) :
          i > Len(store.values) => store'.values[i].kind \in ResponseKinds
    BY <2>2, SomeValues, KindsKnown DEF Grown
  <2>4. ~decided /\ NoTerminalExcepted => NothingUnread'
    BY <1>b, <2>1, <2>2, <2>3, StaysRead
  <2> QED
    BY <1>3, <2>1, <2>4
<1>9. CASE ProcessResponseHeaders
  <2>1. stage = "response" /\ stage' \in {"chunks", "done"}
    BY <1>9, <1>a DEF ProcessResponseHeaders, Ask, At
  <2> SUFFICES ASSUME ~decided', NoTerminalExcepted, stage' = "chunks"
               PROVE  NothingUnread'
    BY <1>2, <1>3, <2>1
  <2>2. /\ RunPhase("ResponseHeaders", store, Marked.start)
        /\ "ResponseHeaders" \in Phases /\ Marked.start \in Nat /\ Marked.start <= Len(store.values)
    BY <1>9, MarkedType DEF ProcessResponseHeaders, Phases, ResponsePhases
  <2>3. Window("ResponseHeaders", Marked.start) = Marked.start
    BY DEF Window, ResponsePhases
  <2>4. /\ ~decided /\ \A p \in Phases : inspected[p] \subseteq inspected'[p]
        /\ Live(store'.values, Marked.start) \subseteq inspected'["ResponseHeaders"]
    BY <2>2, <2>3, InForce, CleanRun
  <2>5. Grown(store, store', ValueOf({"resolved"}))
    BY <1>9, ResponseHeadersGrow
  <2>6. Len(store'.values) \in Nat
    BY <2>5, StoreParts DEF Grown
  <2>7. ASSUME NEW i \in 1..Len(store'.values), i > Len(store.values)
        PROVE  store'.values[i].inert \/ i \in inspected'["ResponseHeaders"]
    <3>1. i \in Marked.start + 1 .. Len(store'.values)
      BY <1>c, <2>2, <2>6, <2>7
    <3> QED
      BY <2>4, <3>1 DEF Live
  <2> QED
    BY <1>b, <2>1, <2>2, <2>4, <2>5, <2>7, StaysRead
<1>10. ASSUME NEW c \in Chunks, WriteResponseBody(c) PROVE ReadInv'
  <2>1. stage = "chunks" /\ stage' \in {"chunks", "done"} /\ inspected' = inspected
    BY <1>10, <1>a DEF WriteResponseBody, Supply, At
  <2>2. decided' = TRUE \/ decided' = decided
    BY <1>10 DEF WriteResponseBody, Finish
  <2>3. store'.values = store.values
    BY <1>10, ChunkGrows
  <2>4. NothingUnread => NothingUnread'
    BY <2>1, <2>3 DEF NothingUnread
  <2> QED
    BY <1>2, <1>3, <1>b, <2>1, <2>2, <2>4
<1>11. CASE ProcessResponseBody
  BY <1>2, <1>11, <1>a DEF ProcessResponseBody, Ask
<1>12. CASE Reset
  BY <1>1, <1>12 DEF Reset, NewMarks
<1>13. CASE UNCHANGED vars
  BY <1>13 DEF vars, ReadInv, NoTerminalExcepted, NothingUnread
<1> QED
  BY <1>4, <1>5, <1>6, <1>7, <1>8, <1>9, <1>10, <1>11, <1>12, <1>13, <1>a, StepKinds
-----------------------------------------------------------------------------
(* A breach is refused, or at least decided                                  *)

\* What one call may find too large: the values it records.
LEMMA PutNotes ==
  ASSUME NEW s \in Stores, NEW v \in AnyValue
  PROVE  Put(s, v).oversize \subseteq s.oversize \cup {v.kind}
<1>1. v.kind \in Kinds /\ v.size \in Nat
  BY ValueParts
<1>2. \A x : /\ [s EXCEPT !.dropped = @ \cup x].oversize = s.oversize
             /\ Push([s EXCEPT !.arena = @ + v.size], v).oversize = s.oversize
  BY DEF Stores, Push
<1>3. NoteOversize(s, v).oversize \subseteq s.oversize \cup {v.kind}
  BY NoteKept
<1> QED
  BY <1>2, <1>3 DEF Put

\* A phase notes at most the resolved value as too large.
LEMMA RunNotes ==
  ASSUME Types, NEW p, NEW s \in Stores, NEW n, RunPhase(p, s, n)
  PROVE  store'.oversize \subseteq s.oversize \cup {"resolved"}
<1> DEFINE v == Value("resolved", resolver.content, resolver.size)
<1>1. v \in AnyValue /\ v.kind = "resolved"
  <2>1. resolver.content \in Severities /\ resolver.size \in Nat
    BY DEF Types, JudgementTypes, Resolvers
  <2>2. v \in ValueOf({"resolved"})
    BY <2>1, SomeValues, KindsKnown DEF Kinds
  <2> HIDE DEF v
  <2> QED
    BY <2>2, SomeValues, KindsKnown DEF Kinds
<1>2. store' = s \/ store' = Put(s, v)
  BY DEF RunPhase
<1> HIDE DEF v
<1> QED
  BY <1>1, <1>2, PutNotes

\* What each boundary has established is kept by the calls the order allows after it,
\* where every breach is refused, and anywhere as long as nothing was decided.
BreachInv ==
  cfg.ordered /\ (Strictest \/ ~decided) =>
    /\ stage \in {"body", "response", "chunks"} => counts.headers <= MaxHeaders
    /\ stage \in {"response", "chunks"} => ~Breach

\* ProcessRequestBody goes on undecided, or at all in the strictest deployment, only
\* through its rules, and only when none of the checks before them found anything.
LEMMA BodyPhaseClean ==
  ASSUME Types, ProcessRequestBody, ~decided' \/ (Strictest /\ returned'.verdict # "block")
  PROVE  /\ ~(counts.body > MaxBodySize) /\ ~(counts.args > MaxArgs)
         /\ ~route.violation /\ ~undecodable /\ route' = route
         /\ \E s \in Stores : ~Noted(s) /\ RunPhase("RequestBody", s, 0)
<1>1. \A s : ~Stop(Undone("limit"), s) /\ ~Stop(Undone("undecidable"), s)
             /\ ~Stop(Refuse("schema"), s)
             /\ ~Stop([verdict |-> "block", reason |-> "schema"], s)
  BY StrictVerdicts, StopDecides DEF Stop, Finish
<1>2. PICK s \in Stores : BodyEnds(s)
  BY BodyPhaseStops
<1> DEFINE viewed == HeaderViews(store, marks.query)
           both == BodyViews(viewed, marks.query)
<1>3. /\ ~(counts.body > MaxBodySize) /\ ~(counts.args > MaxArgs)
      /\ ~route.violation /\ ~undecodable /\ route' = route
      /\ ~Noted(both) /\ RunPhase("RequestBody", both, 0)
  BY <1>1, ZenonT(60) DEF ProcessRequestBody
<1>4. both \in Stores
  <2>1. Grown(store, viewed, ValueOf({"argsget", "cookie"}))
    BY InForce, StagesOf, HeaderViewsGrow
  <2> HIDE DEF viewed
  <2>2. viewed \in Stores /\ Len(store.values) <= Len(viewed.values)
    BY <2>1 DEF Grown
  <2>3. Len(viewed.values) \in Nat /\ marks.query <= Len(viewed.values)
    BY <2>2, StoreParts, InForce, StagesOf
  <2>4. Grown(viewed, both, ValueOf({"argspost", "joined"}))
    BY <2>2, <2>3, InForce, BodyViewsGrow
  <2> QED
    BY <2>4 DEF Grown
<1> QED
  BY <1>3, <1>4

\* Every call keeps BreachInv.
LEMMA BreachStep == Types /\ BreachInv /\ [Next]_vars => BreachInv'
<1> SUFFICES ASSUME Types, BreachInv, [Next]_vars, cfg'.ordered, Strictest' \/ ~decided'
             PROVE  /\ stage' \in {"body", "response", "chunks"} => counts'.headers <= MaxHeaders
                    /\ stage' \in {"response", "chunks"} => ~Breach'
  BY DEF BreachInv
<1>a. cfg' = cfg /\ cfg.ordered /\ (Strictest' <=> Strictest)
  BY StepKinds DEF Strictest, Enforcing
<1>b. Strictest \/ ~decided =>
        /\ stage \in {"body", "response", "chunks"} => counts.headers <= MaxHeaders
        /\ stage \in {"response", "chunks"} => ~Breach
  BY <1>a DEF BreachInv
<1>c. counts \in Counters /\ decided \in BOOLEAN
  BY StagesOf, InForce
<1>d. MaxHeaders \in Nat /\ MaxArgs \in Nat /\ MaxBodySize \in Nat
  BY ConstantsAssumption
<1>1. CASE stage' \in {"line", "headers", "done"}
  BY <1>1
<1>2. ASSUME NEW p, NEW s, NEW n, RunPhase(p, s, n), Strictest \/ ~decided' PROVE Strictest \/ ~decided
  BY <1>2 DEF RunPhase
<1>3. CASE ProcessRequestHeaders
  <2>1. /\ counts' = counts /\ stage = "headers"
        /\ stage' = IF returned'.verdict = "block" THEN "done" ELSE "body"
    BY <1>a, <1>3 DEF ProcessRequestHeaders, Ask, At
  <2>2. CASE counts.headers > MaxHeaders
    <3>1. \E s : Stop(Undone("limit"), s)
      BY <1>3, <2>2 DEF ProcessRequestHeaders
    <3>2. Strictest
      BY <1>a, <3>1, StopDecides
    <3>3. returned'.verdict = "block"
      BY <3>1, <3>2, StrictVerdicts DEF Stop, Finish
    <3> QED
      BY <2>1, <3>3
  <2>3. CASE ~(counts.headers > MaxHeaders)
    BY <1>c, <1>d, <2>1, <2>3 DEF Counters
  <2> QED
    BY <2>2, <2>3
<1>4. ASSUME NEW b \in Bodies, SetRequestBody(b)
      PROVE  stage' = "body" /\ counts'.headers <= MaxHeaders
  <2>1. /\ stage = "body" /\ stage' = stage /\ counts' = [counts EXCEPT !.body = b.size]
        /\ decided' = decided
    BY <1>a, <1>4 DEF SetRequestBody, Supply, At, Judgement
  <2> QED
    BY <1>a, <1>b, <1>c, <2>1 DEF Counters
<1>5. CASE ProcessRequestBody
  <2>1. /\ counts' = counts /\ undecodable' = undecodable
        /\ stage = "body" /\ stage' = IF returned'.verdict = "block" THEN "done" ELSE "response"
    BY <1>a, <1>5 DEF ProcessRequestBody, Ask, At
  <2>2. CASE returned'.verdict # "block"
    <3>1. /\ ~(counts.body > MaxBodySize) /\ ~(counts.args > MaxArgs)
          /\ ~route.violation /\ ~undecodable /\ route' = route
          /\ \E s \in Stores : ~Noted(s) /\ RunPhase("RequestBody", s, 0)
      BY <1>a, <1>5, <2>2, BodyPhaseClean
    <3>2. store'.oversize \subseteq {"resolved"} /\ (Strictest \/ ~decided)
      BY <1>2, <1>a, <3>1, RunNotes DEF Noted
    <3> QED
      BY <1>b, <1>c, <1>d, <2>1, <3>1, <3>2 DEF Breach, Unanswered, Counters
  <2> QED
    BY <2>1, <2>2
<1>6. ASSUME store'.oversize \ Unanswered \subseteq store.oversize \ Unanswered,
             UNCHANGED <<counts, route, undecodable>>, stage \in {"response", "chunks"},
             Strictest \/ ~decided
      PROVE  counts'.headers <= MaxHeaders /\ ~Breach'
  BY <1>b, <1>6 DEF Breach, Unanswered
<1>7. ASSUME NEW c \in Samples, SetResponseStatus(c) \/ AddResponseHeader(c)
      PROVE  counts'.headers <= MaxHeaders /\ ~Breach'
  <2>1. c.content \in Severities /\ c.size \in Nat
    BY ConstantsAssumption DEF Chunk
  <2>2. \A k \in {"status", "respheader"}, n \in Nat :
          /\ Value(k, c.content, n) \in AnyValue
          /\ Value(k, c.content, n).kind \in ResponseKinds
    <3>1. \A k \in {"status", "respheader"}, n \in Nat :
            Value(k, c.content, n) \in ValueOf(ResponseKinds)
      BY <2>1, SomeValues, KindsKnown DEF ResponseKinds
    <3> QED
      BY <3>1, SomeValues, KindsKnown
  <2>3. PICK v \in AnyValue : v.kind \in ResponseKinds /\ store' = Put(store, v)
    <3>1. \/ store' = Put(store, Value("status", c.content, 1))
          \/ store' = Put(store, Value("respheader", c.content, c.size))
      BY <1>7 DEF SetResponseStatus, AddResponseHeader
    <3> QED
      BY <2>1, <2>2, <3>1
  <2>4. store'.oversize \ Unanswered \subseteq store.oversize \ Unanswered
    <3>1. store'.oversize \subseteq store.oversize \cup {v.kind}
      BY <2>3, InForce, PutNotes
    <3> QED
      BY <2>3, <3>1 DEF Unanswered
  <2>5. UNCHANGED <<counts, route, undecodable, decided>> /\ stage \in {"response", "chunks"}
    BY <1>a, <1>7 DEF SetResponseStatus, AddResponseHeader, Supply, At, Judgement
  <2> QED
    BY <1>a, <1>6, <2>4, <2>5
<1>8. CASE ProcessResponseHeaders
  <2>1. RunPhase("ResponseHeaders", store, Marked.start)
    BY <1>8 DEF ProcessResponseHeaders
  <2>2. store'.oversize \ Unanswered \subseteq store.oversize \ Unanswered
    <3>1. store'.oversize \subseteq store.oversize \cup {"resolved"}
      BY <2>1, InForce, RunNotes
    <3> QED
      BY <3>1 DEF Unanswered
  <2>3. UNCHANGED <<counts, route, undecodable>> /\ stage \in {"response", "chunks"}
    BY <1>a, <1>8 DEF ProcessResponseHeaders, Ask, At
  <2> QED
    BY <1>2, <1>a, <1>6, <2>1, <2>2, <2>3
<1>9. ASSUME NEW c \in Chunks, WriteResponseBody(c)
      PROVE  counts'.headers <= MaxHeaders /\ ~Breach'
  <2>1. store'.oversize = store.oversize
    BY <1>9, ChunkGrows
  <2>2. UNCHANGED <<counts, route, undecodable>> /\ stage \in {"response", "chunks"}
    BY <1>a, <1>9 DEF WriteResponseBody, Supply, At
  <2>3. decided' = TRUE \/ decided' = decided
    BY <1>9 DEF WriteResponseBody, Finish
  <2> QED
    BY <1>6, <1>a, <2>1, <2>2, <2>3
<1>10. CASE ProcessResponseBody
  BY <1>1, <1>a, <1>10 DEF ProcessResponseBody, Ask
<1>11. CASE Reset
  BY <1>11 DEF Reset
<1>12. CASE UNCHANGED vars
  BY <1>a, <1>b, <1>12 DEF vars, Breach
<1> QED
  BY <1>1, <1>3, <1>4, <1>5, <1>7, <1>8, <1>9, <1>10, <1>11, <1>12, <1>a, StepKinds

\* With fail-closed blocking, nothing beyond the limits, undecodable or outside the
\* schema is ever forwarded, whatever the rules decided first.
THEOREM BreachesRefused == Spec => []FailClosedRefuses
<1>1. Init => BreachInv
  BY DEF Init, BreachInv
<1>2. BreachInv => FailClosedRefuses
  BY DEF BreachInv, FailClosedRefuses, Forwarded
<1> QED
  BY <1>1, <1>2, Typed, BreachStep, PTL DEF Spec

\* What ProcessRequestBody reports as no_match was inspected: every value of the request was
\* read by the rules of a phase or is inert, although the body phase may start where the
\* header phase left off, and no limit, decoder or schema check was passed over.
THEOREM CleanInspected == Spec => []CleanMeansInspected
<1>1. Init => ReadInv /\ BreachInv
  BY DEF Init, ReadInv, BreachInv, NewMarks
<1>2. ReadInv /\ BreachInv => CleanMeansInspected
  BY DEF ReadInv, BreachInv, CleanMeansInspected, Forwarded, NoTerminalExcepted
<1> QED
  BY <1>1, <1>2, Typed, ReadStep, BreachStep, PTL DEF Spec
-----------------------------------------------------------------------------
(* A response reported clean was read whole                                  *)

\* A value recorded of the response.
Answer(v) == v.kind \in ResponseKinds

\* The values of the response lie behind the mark its phases start at, none of them inert,
\* and until something is decided the body kept is the body written.
AnswerInv ==
  cfg.ordered =>
    /\ stage \in {"line", "headers", "body"} =>
         /\ reply.total = 0 /\ reply.len = 0 /\ reply.start < 0 /\ ~reply.truncated
         /\ \A i \in 1..Len(store.values) : ~Answer(store.values[i])
    /\ stage \in {"response", "chunks"} =>
         /\ \A i \in 1..Len(store.values) :
              Answer(store.values[i]) => ~store.values[i].inert /\ reply.start >= 0 /\ i > reply.start
         /\ ~decided => reply.len = reply.total /\ ~reply.truncated
    /\ stage = "done" => ResponseReadWhole

\* A refusal is decided, so an embedder that was not decided against goes on.
LEMMA RefusedDecided ==
  ASSUME Types, NEW p, NEW s, NEW n, RunPhase(p, s, n), ~decided'
  PROVE  returned' = NoMatch /\ ~decided
BY DEF RunPhase, Finish

\* A call that records nothing of the response adds no answer.
LEMMA GrownAnswers ==
  ASSUME Types, NEW T, Grown(store, store', T), \A v \in T : ~Answer(v),
         NEW i \in 1..Len(store'.values), Answer(store'.values[i])
  PROVE  i \in 1..Len(store.values) /\ store'.values[i] = store.values[i]
<1>1. Len(store.values) \in Nat /\ Len(store'.values) \in Nat
  BY InForce, StoreParts DEF Grown
<1>2. ~(i > Len(store.values))
  BY DEF Grown
<1>3. i \in 1..Len(store.values)
  BY <1>1, <1>2
<1> QED
  BY <1>3 DEF Grown

\* What is recorded of the request is no answer.
LEMMA RequestKindsNoAnswer ==
  /\ \A v \in ValueOf(RequestKinds) : ~Answer(v)
  /\ \A v \in ValueOf({"resolved"}) : ~Answer(v)
<1>1. \A v \in ValueOf(RequestKinds) : v.kind \in RequestKinds
  BY KindSets, SomeValues
<1>2. \A v \in ValueOf({"resolved"}) : v.kind = "resolved"
  BY KindSets, SomeValues, KindsKnown DEF Kinds
<1> QED
  BY <1>1, <1>2 DEF Answer, RequestKinds, ResponseKinds

\* Every call keeps AnswerInv.
LEMMA AnswerStep == Types /\ AnswerInv /\ [Next]_vars => AnswerInv'
<1> SUFFICES ASSUME Types, AnswerInv, [Next]_vars, cfg'.ordered PROVE AnswerInv'
  BY DEF AnswerInv
<1>a. cfg' = cfg /\ cfg.ordered
  BY StepKinds
<1>b. /\ stage \in {"line", "headers", "body"} =>
         /\ reply.total = 0 /\ reply.len = 0 /\ reply.start < 0 /\ ~reply.truncated
         /\ \A i \in 1..Len(store.values) : ~Answer(store.values[i])
      /\ stage \in {"response", "chunks"} =>
         /\ \A i \in 1..Len(store.values) :
              Answer(store.values[i]) => ~store.values[i].inert /\ reply.start >= 0 /\ i > reply.start
         /\ ~decided => reply.len = reply.total /\ ~reply.truncated
  BY <1>a DEF AnswerInv
<1>c. /\ Len(store.values) \in Nat /\ reply.start \in Int /\ reply \in Replies /\ decided \in BOOLEAN
      /\ reply.len \in Nat /\ reply.total \in Nat
  BY InForce, StagesOf DEF Replies
<1>1. ASSUME NEW T, Grown(store, store', T), \A v \in T : ~Answer(v), UNCHANGED reply,
             stage \in {"line", "headers", "body"}, stage' \in {"line", "headers", "body"}
      PROVE  AnswerInv'
  <2>1. \A i \in 1..Len(store'.values) : ~Answer(store'.values[i])
    BY <1>1, <1>b, GrownAnswers
  <2> QED
    BY <1>1, <1>b, <2>1 DEF AnswerInv
<1>2. CASE stage' = "done" /\ decided'
  BY <1>2 DEF AnswerInv, ResponseReadWhole
<1>3. ASSUME /\ stage \in {"line", "headers"} /\ stage' \in {"line", "headers"}
             /\ UNCHANGED reply /\ Grown(store, store', ValueOf(RequestKinds))
      PROVE  AnswerInv'
  BY <1>1, <1>3, RequestKindsNoAnswer
<1>4. ASSUME Ask("headers", "body") \/ Ask("body", "response") \/ Ask("response", "chunks"),
             (\E d, s : Stop(d, s)) \/ (\E p, s, n : RunPhase(p, s, n))
      PROVE  stage' = "done" => decided'
  <2> SUFFICES ASSUME ~decided' PROVE stage' # "done"
    OBVIOUS
  <2>1. returned' = NoMatch
    BY <1>4, StopDecides, RefusedDecided
  <2> QED
    BY <1>4, <1>a, <2>1 DEF Ask, NoMatch
<1>5. CASE ProcessRequestHeaders
  <2>1. stage = "headers" /\ stage' \in {"body", "done"} /\ Ask("headers", "body") /\ reply' = reply
    BY <1>5, <1>a DEF ProcessRequestHeaders, Ask, At
  <2>2. (\E d, s : Stop(d, s)) \/ (\E p, s, n : RunPhase(p, s, n))
    BY <1>5, HeaderPhaseEnds
  <2>3. Grown(store, store', ValueOf(RequestKinds))
    BY <1>5, HeaderPhaseGrows
  <2> QED
    BY <1>1, <1>2, <1>4, <2>1, <2>2, <2>3, RequestKindsNoAnswer
<1>6. ASSUME NEW b \in Bodies, SetRequestBody(b) PROVE AnswerInv'
  <2>1. stage = "body" /\ stage' = stage /\ reply' = reply
    BY <1>6, <1>a DEF SetRequestBody, Supply, At
  <2> QED
    BY <1>1, <1>6, <2>1, BodyGrows, RequestKindsNoAnswer
<1>7. CASE ProcessRequestBody
  <2>1. stage = "body" /\ stage' \in {"response", "done"} /\ Ask("body", "response") /\ reply' = reply
    BY <1>7, <1>a DEF ProcessRequestBody, Ask, At
  <2>2. (\E d, s : Stop(d, s)) \/ (\E p, s, n : RunPhase(p, s, n))
    BY <1>7, BodyPhaseStops DEF BodyEnds
  <2>3. Grown(store, store', ValueOf(RequestKinds))
    BY <1>7, BodyPhaseGrows
  <2>4. \A i \in 1..Len(store'.values) : ~Answer(store'.values[i])
    BY <1>b, <2>1, <2>3, GrownAnswers, RequestKindsNoAnswer
  <2>5. stage' = "response" => AnswerInv'
    BY <1>b, <2>1, <2>4 DEF AnswerInv
  <2> QED
    BY <1>2, <1>4, <2>1, <2>2, <2>5
<1>8. MarkedStart >= 0 /\ (reply.start >= 0 => MarkedStart = reply.start) /\ MarkedStart \in Nat
      /\ MarkedStart <= Len(store.values)
  BY <1>c, StagesOf DEF MarkedStart
<1>9. ASSUME NEW c \in Samples, SetResponseStatus(c) \/ AddResponseHeader(c) PROVE AnswerInv'
  <2>1. /\ stage \in {"response", "chunks"} /\ stage' = stage /\ UNCHANGED <<decided, inspected>>
        /\ reply' = Marked
    BY <1>9, <1>a DEF SetResponseStatus, AddResponseHeader, Supply, At, Judgement
  <2>2. Grown(store, store', {v \in ValueOf(ResponseKinds) : ~v.inert})
    BY <1>9, ResponseGrows
  <2>3. Len(store'.values) \in Nat
    BY <2>2, StoreParts DEF Grown
  <2>4. /\ reply'.start = MarkedStart /\ reply'.len = reply.len /\ reply'.total = reply.total
        /\ reply'.truncated = reply.truncated
    BY <2>1, MarkedType
  <2>5. ASSUME NEW i \in 1..Len(store'.values), Answer(store'.values[i])
        PROVE  ~store'.values[i].inert /\ reply'.start >= 0 /\ i > reply'.start
    <3>1. CASE i > Len(store.values)
      <4>1. ~store'.values[i].inert
        BY <2>2, <3>1 DEF Grown
      <4> QED
        BY <1>8, <1>c, <2>3, <2>4, <3>1, <4>1
    <3>2. CASE i \in 1..Len(store.values)
      <4>1. store'.values[i] = store.values[i]
        BY <2>2, <3>2 DEF Grown
      <4> QED
        BY <1>8, <1>b, <2>1, <2>4, <2>5, <3>2, <4>1
    <3> QED
      BY <1>c, <2>3, <3>1, <3>2
  <2> QED
    BY <1>b, <2>1, <2>4, <2>5 DEF AnswerInv
<1>10. CASE ProcessResponseHeaders
  <2>1. /\ stage = "response" /\ stage' \in {"chunks", "done"} /\ Ask("response", "chunks")
        /\ reply' = Marked
    BY <1>10, <1>a DEF ProcessResponseHeaders, Ask, At
  <2>2. RunPhase("ResponseHeaders", store, Marked.start)
    BY <1>10 DEF ProcessResponseHeaders
  <2>3. Grown(store, store', ValueOf({"resolved"}))
    BY <1>10, ResponseHeadersGrow
  <2>4. /\ reply'.start = MarkedStart /\ reply'.len = reply.len /\ reply'.total = reply.total
        /\ reply'.truncated = reply.truncated
    BY <2>1, MarkedType
  <2>5. ASSUME NEW i \in 1..Len(store'.values), Answer(store'.values[i])
        PROVE  ~store'.values[i].inert /\ reply'.start >= 0 /\ i > reply'.start
    <3>1. i \in 1..Len(store.values) /\ store'.values[i] = store.values[i]
      BY <2>3, <2>5, GrownAnswers, RequestKindsNoAnswer
    <3> QED
      BY <1>8, <1>b, <2>1, <2>4, <2>5, <3>1
  <2>6. ~decided' => ~decided
    BY <2>2, RefusedDecided
  <2>7. stage' = "chunks" => AnswerInv'
    BY <1>b, <2>1, <2>4, <2>5, <2>6 DEF AnswerInv
  <2> QED
    BY <1>2, <1>4, <2>1, <2>2, <2>7
<1>11. ASSUME NEW c \in Chunks, WriteResponseBody(c) PROVE AnswerInv'
  <2>1. /\ stage = "chunks"
        /\ stage' = IF cfg.ordered /\ returned'.verdict = "block" THEN "done" ELSE stage
    BY <1>11, <1>a DEF WriteResponseBody, Supply, At
  <2>2. store'.values = store.values /\ reply'.start = MarkedStart
    BY <1>11, ChunkGrows
  <2>3. \/ Finish(Undone("limit"))
        \/ /\ returned' = Decision /\ UNCHANGED <<decided, decision>>
           /\ \E e, o : reply' = [Marked EXCEPT !.total = reply.total + c.size, !.len = @ + c.size,
                                    !.end = e, !.content = o]
    BY <1>11 DEF WriteResponseBody
  <2>4. ASSUME ~decided'
        PROVE  /\ ~decided /\ returned' = NoMatch
               /\ reply.len = reply.total /\ ~reply.truncated
                    => reply'.len = reply'.total /\ ~reply'.truncated
    <3>1. PICK e, o : /\ returned' = Decision /\ decided' = decided
                      /\ reply' = [Marked EXCEPT !.total = reply.total + c.size, !.len = @ + c.size,
                                    !.end = e, !.content = o]
      BY <2>3, <2>4 DEF Finish
    <3>2. Marked \in Replies /\ Marked.len = reply.len /\ Marked.truncated = reply.truncated
      BY MarkedType
    <3>3. /\ reply'.total = reply.total + c.size /\ reply'.len = Marked.len + c.size
          /\ reply'.truncated = Marked.truncated
      BY <3>1, <3>2 DEF Replies
    <3> QED
      BY <2>4, <3>1, <3>2, <3>3 DEF Decision
  <2>5. stage' = "done" => decided'
    BY <2>1, <2>4 DEF NoMatch
  <2>6. \A i \in 1..Len(store'.values) :
          Answer(store'.values[i]) => ~store'.values[i].inert /\ reply'.start >= 0 /\ i > reply'.start
    BY <1>8, <1>b, <2>1, <2>2
  <2>7. stage' = "chunks" => AnswerInv'
    BY <1>b, <2>1, <2>4, <2>6 DEF AnswerInv
  <2> QED
    BY <1>2, <2>1, <2>5, <2>7
<1>12. CASE ProcessResponseBody
  <2>1. stage = "chunks" /\ stage' = "done" /\ reply' = Marked
    BY <1>12, <1>a DEF ProcessResponseBody, Ask, At
  <2> SUFFICES ASSUME ~decided', NoTerminalExcepted', store'.oversize \cap ResponseKinds = {}
               PROVE  LET read == inspected'["ResponseHeaders"] \cup inspected'["ResponseBody"]
                      IN  /\ \A i \in DOMAIN store'.values :
                               store'.values[i].kind \in ResponseKinds => i \in read
                          /\ reply'.total > 0 =>
                               \E i \in read : /\ store'.values[i].kind = "respbody"
                                               /\ store'.values[i].size = reply'.total
    BY <2>1 DEF AnswerInv, ResponseReadWhole, NoTerminalExcepted
  <2> DEFINE start == Marked.start
  <2>2. NoTerminalExcepted
    BY <1>a DEF NoTerminalExcepted
  <2>3. PICK s \in Stores :
          /\ Grown(store, s, {v \in ValueOf(ResponseKinds) : ~v.inert})
          /\ \/ s = store /\ reply.len = 0
             \/ s.values = store.values /\ "respbody" \in s.oversize
             \/ s = Answered
          /\ RunPhase("ResponseBody", s, start)
    BY <1>12, ResponseBodyEnds, StopDecides
  <2>4. /\ start \in Nat /\ start = MarkedStart /\ start <= Len(store.values)
        /\ "ResponseBody" \in Phases /\ Window("ResponseBody", start) = start
        /\ reply'.total = reply.total
    BY <2>1, MarkedType DEF Phases, ResponsePhases, Window
  <2> HIDE DEF start
  <2>5. ~decided /\ Live(store'.values, start) \subseteq inspected'["ResponseBody"]
    BY <2>2, <2>3, <2>4, CleanRun
  <2>6. Grown(s, store', ValueOf({"resolved"}))
    BY <2>3, <2>4, RunGrows
  <2>7. /\ s.oversize \subseteq store'.oversize /\ Len(s.values) \in Nat /\ Len(store'.values) \in Nat
        /\ DOMAIN store'.values = 1..Len(store'.values) /\ Len(store.values) <= Len(s.values)
        /\ Len(s.values) <= Len(store'.values)
    BY <2>3, <2>6, StoreParts DEF Grown
  <2>8. "respbody" \notin s.oversize
    BY <2>7 DEF ResponseKinds
  <2>9. ASSUME NEW i \in 1..Len(store'.values), Answer(store'.values[i])
        PROVE  i \in inspected'["ResponseBody"] /\ ~store'.values[i].inert
    <3>1. ~(i > Len(s.values))
      BY <2>6, <2>9, RequestKindsNoAnswer DEF Grown
    <3>2. i \in 1..Len(s.values)
      BY <2>7, <3>1
    <3>3. store'.values[i] = s.values[i]
      BY <2>6, <3>2 DEF Grown
    <3>4. ~s.values[i].inert /\ i > start
      <4>1. CASE i > Len(store.values)
        <5>1. ~s.values[i].inert
          BY <2>3, <3>2, <4>1 DEF Grown
        <5> QED
          BY <1>c, <2>4, <4>1, <5>1
      <4>2. CASE i \in 1..Len(store.values)
        <5>1. s.values[i] = store.values[i]
          BY <2>3, <4>2 DEF Grown
        <5> QED
          BY <1>8, <1>b, <2>1, <2>4, <2>9, <3>3, <4>2, <5>1
      <4> QED
        BY <1>c, <2>7, <3>2, <4>1, <4>2
    <3>5. i \in start + 1 .. Len(store'.values)
      BY <2>4, <2>7, <3>4
    <3> QED
      BY <2>5, <3>3, <3>4, <3>5 DEF Live
  <2>10. ASSUME reply'.total > 0
         PROVE  \E i \in inspected'["ResponseBody"] :
                  store'.values[i].kind = "respbody" /\ store'.values[i].size = reply'.total
    <3> DEFINE body == Value("respbody", reply.content, reply.len)
               n == Len(store.values) + 1
    <3>1. reply.len = reply.total /\ reply.len # 0
      BY <1>b, <1>c, <2>1, <2>4, <2>5, <2>10
    <3>2. s.values = Append(store.values, body)
      BY <2>3, <2>8, <3>1, AnsweredGrows
    <3>3. body.kind = "respbody" /\ body.size = reply.len
      BY DEF Value
    <3> HIDE DEF body
    <3>4. n \in 1..Len(s.values) /\ s.values[n] = body
      BY <1>c, <3>2, InForce
    <3>5. store'.values[n] = body /\ n \in 1..Len(store'.values)
      BY <2>6, <2>7, <3>4 DEF Grown
    <3>6. Answer(store'.values[n])
      BY <3>3, <3>5 DEF Answer, ResponseKinds
    <3> QED
      BY <2>4, <2>9, <3>1, <3>3, <3>5, <3>6
  <2> QED
    BY <2>7, <2>9, <2>10 DEF Answer
<1>13. CASE Reset
  BY <1>13 DEF Reset, NewReply, NewStore, AnswerInv
<1>14. CASE UNCHANGED vars
  BY <1>14 DEF vars, AnswerInv, ResponseReadWhole
<1> QED
  BY <1>3, <1>5, <1>6, <1>7, <1>9, <1>10, <1>11, <1>12, <1>13, <1>14, <1>a, StepKinds

\* A response reported clean was read whole: its status, its headers and any trailer by one
\* of the response phases, and every byte the origin wrote as one body, in whatever order
\* trailers and chunks arrived.
THEOREM ResponseRead == Spec => []ResponseReadWhole
<1>1. Init => AnswerInv
  BY DEF Init, AnswerInv, NewReply, NewStore
<1>2. Types /\ AnswerInv => ResponseReadWhole
  BY DEF AnswerInv, ResponseReadWhole
<1> QED
  BY <1>1, <1>2, Typed, AnswerStep, PTL DEF Spec
-----------------------------------------------------------------------------
(* No finding is counted twice                                               *)

\* The values up to n that a scoring rule can find something in.
ScoringIn(vs, n) == {i \in 1..n : vs[i].content = "score" /\ ~vs[i].inert}

\* How far the values have been counted.
CountedTo ==
  IF stage = "body" /\ marks.body >= 0 THEN marks.body
  ELSE IF stage = "response" /\ reply.start >= 0 THEN reply.start
  ELSE Len(store.values)

\* The windows of the phases do not overlap: the score is at most the number of scoring
\* values as far as they have been counted.
CountInv ==
  cfg.ordered /\ cfg.mirrorsOnly =>
    /\ stage \in {"line", "headers"} => score = 0 /\ marks.body < 0
    /\ stage \in {"line", "headers", "body"} => reply.start < 0
    /\ \/ stage = "body"
       \/ stage = "response" /\ marks.body > 0
       \/ stage \in {"chunks", "done"} /\ marks.body > 0 /\ inspected["ResponseBody"] = {}
       => score <= Cardinality(ScoringIn(store.values, CountedTo))

\* The values a scoring rule finds something in can be counted, and more places have more.
LEMMA ScoringCounts ==
  ASSUME NEW vs, NEW n \in Nat
  PROVE  /\ IsFiniteSet(ScoringIn(vs, n)) /\ Cardinality(ScoringIn(vs, n)) \in Nat
         /\ \A m \in Nat : m <= n => Cardinality(ScoringIn(vs, m)) <= Cardinality(ScoringIn(vs, n))
<1>1. ASSUME NEW m \in Nat PROVE IsFiniteSet(ScoringIn(vs, m))
  <2>1. IsFiniteSet(1..m)
    BY FS_Interval
  <2>2. ScoringIn(vs, m) \subseteq 1..m
    BY DEF ScoringIn
  <2> QED
    BY <2>1, <2>2, FS_Subset
<1>2. ASSUME NEW m \in Nat, m <= n PROVE ScoringIn(vs, m) \subseteq ScoringIn(vs, n)
  BY <1>2 DEF ScoringIn
<1> QED
  BY <1>1, <1>2, FS_Subset, FS_CardinalityType

\* Recording more keeps them.
LEMMA ScoringKept ==
  ASSUME NEW s \in Stores, NEW t, NEW T, Grown(s, t, T), NEW n \in Nat, n <= Len(s.values)
  PROVE  /\ ScoringIn(t.values, n) = ScoringIn(s.values, n)
         /\ Cardinality(ScoringIn(s.values, n)) <= Cardinality(ScoringIn(t.values, Len(t.values)))
         /\ Len(t.values) \in Nat /\ n <= Len(t.values)
<1>1. Len(s.values) \in Nat /\ Len(t.values) \in Nat /\ n <= Len(t.values)
  BY StoreParts DEF Grown
<1>2. \A i \in 1..n : t.values[i] = s.values[i]
  BY <1>1 DEF Grown
<1>3. ScoringIn(t.values, n) = ScoringIn(s.values, n)
  BY <1>2 DEF ScoringIn
<1> QED
  BY <1>1, <1>3, ScoringCounts

\* What a phase adds to the score it finds in its own window.
LEMMA RunCounts ==
  ASSUME Types, NEW phase \in Phases, NEW s \in Stores, NEW start \in Nat,
         RunPhase(phase, s, start),
         Window(phase, start) <= Len(s.values),
         score <= Cardinality(ScoringIn(s.values, Window(phase, start)))
  PROVE  score' <= Cardinality(ScoringIn(store'.values, Len(store'.values)))
<1> DEFINE lo == Window(phase, start)
<1>a. score \in Nat /\ decided \in BOOLEAN /\ cfg \in Config /\ fuel \in Nat /\ marks.body \in Int
  BY InForce DEF Types, JudgementTypes
<1>b. lo \in Nat
  BY <1>a DEF Window
<1>1. CASE decided
  <2>1. score' = score /\ store' = s
    BY <1>1 DEF RunPhase
  <2>2. Grown(s, s, AnyValue)
    BY GrownNothing
  <2>3. Cardinality(ScoringIn(s.values, lo)) <= Cardinality(ScoringIn(s.values, Len(s.values)))
        /\ Len(s.values) \in Nat
    BY <1>b, <2>2, ScoringKept
  <2> HIDE DEF lo
  <2>4. Cardinality(ScoringIn(s.values, lo)) \in Nat /\ Cardinality(ScoringIn(s.values, Len(s.values))) \in Nat
    BY <1>b, <2>3, ScoringCounts
  <2> QED
    BY <1>a, <2>1, <2>3, <2>4 DEF lo
<1>2. CASE ~decided
  <2>1. PICK t, r, total : Ran(phase, s, start, t, r, total) /\ store' = t /\ score' = total
    BY <1>2, RunUnfolds
  <2>2. /\ Grown(s, t, ValueOf({"resolved"})) /\ r.seen \subseteq Live(t.values, lo)
        /\ IsFiniteSet(r.seen)
    BY <2>1, RanFacts
  <2>3. t.values \in Seq(AnyValue) /\ Len(t.values) \in Nat
    BY <2>2, StoreParts DEF Grown
  <2>4. /\ r = Eval(phase, t.values, lo)
        /\ total = score + (IF "score" \in cfg.excepted THEN 0 ELSE r.score)
    BY <2>1 DEF Ran
  <2> DEFINE A == ScoringIn(t.values, lo)
             B == {i \in r.seen : t.values[i].content = "score" /\ Reads(phase, t.values[i].kind)}
             C == ScoringIn(t.values, Len(t.values))
  <2>5. r.score = Cardinality(B) /\ r.score \in Nat
    BY ZenonT(30), <1>a, <1>b, <2>3, <2>4, EvalFacts
  <2>6. ScoringIn(t.values, lo) = ScoringIn(s.values, lo) /\ lo <= Len(t.values)
    BY <1>b, <2>2, ScoringKept
  <2> HIDE DEF lo
  <2>7. A \subseteq C /\ B \subseteq C /\ A \cap B = {}
    <3>1. \A i \in Live(t.values, lo) : i \in 1..Len(t.values) /\ i > lo /\ ~t.values[i].inert
      BY <1>b, <2>3 DEF Live
    <3>2. B \subseteq C
      BY <2>2, <3>1 DEF ScoringIn
    <3>3. A \subseteq C
      BY <1>b, <2>3, <2>6 DEF ScoringIn
    <3>4. \A i \in A : i <= lo
      BY <1>b DEF ScoringIn
    <3>5. \A i \in B : ~(i <= lo)
      BY <1>b, <2>2, <3>1 DEF Live
    <3> QED
      BY <3>2, <3>3, <3>4, <3>5
  <2>8. IsFiniteSet(C) /\ Cardinality(C) \in Nat
    BY <2>3, ScoringCounts
  <2>9. /\ Cardinality(A) + Cardinality(B) <= Cardinality(C)
        /\ Cardinality(A) \in Nat /\ Cardinality(B) \in Nat
    <3> HIDE DEF A, B, C
    <3>1. IsFiniteSet(A) /\ IsFiniteSet(B) /\ IsFiniteSet(A \cup B)
          /\ Cardinality(A \cup B) <= Cardinality(C)
      <4>1. A \cup B \subseteq C
        BY <2>7
      <4> QED
        BY <2>7, <2>8, <4>1, FS_Subset
    <3>2. Cardinality(A \cup B) = Cardinality(A) + Cardinality(B) - Cardinality(A \cap B)
      BY <3>1, FS_Union
    <3>3. Cardinality(A \cap B) = 0
      BY <2>7, FS_EmptySet
    <3>4. Cardinality(A) \in Nat /\ Cardinality(B) \in Nat
      BY <3>1, FS_CardinalityType
    <3> QED
      BY <3>1, <3>2, <3>3, <3>4
  <2>10. score <= Cardinality(A)
    BY <2>6 DEF lo
  <2> HIDE DEF A, B, C
  <2>11. score' <= Cardinality(C)
    BY <1>a, <2>1, <2>4, <2>5, <2>8, <2>9, <2>10
  <2> QED
    BY <2>1, <2>11 DEF C
<1> QED
  BY <1>1, <1>2, <1>a

\* A phase that ran no rule on any value adds nothing.
LEMMA QuietRun ==
  ASSUME Types, NEW phase \in Phases, NEW s \in Stores, NEW start \in Nat,
         RunPhase(phase, s, start), inspected'[phase] = {}
  PROVE  score' = score
<1>a. score \in Nat /\ decided \in BOOLEAN /\ cfg \in Config /\ fuel \in Nat
      /\ inspected \in [Phases -> SUBSET Nat]
  BY InForce DEF Types, JudgementTypes
<1>1. CASE decided
  BY <1>1 DEF RunPhase
<1>2. CASE ~decided
  <2>1. PICK t, r, total :
          /\ Ran(phase, s, start, t, r, total) /\ store' = t /\ score' = total
          /\ inspected' = [inspected EXCEPT ![phase] = @ \cup r.seen]
    BY <1>2, RunUnfolds
  <2>2. r.seen = {}
    BY <1>a, <2>1
  <2>3. /\ t.values \in Seq(AnyValue) /\ Window(phase, start) \in Nat
        /\ r = Eval(phase, t.values, Window(phase, start))
        /\ total = score + (IF "score" \in cfg.excepted THEN 0 ELSE r.score)
    BY <2>1, RanFacts, StoreParts DEF Ran, Grown
  <2>4. r.score = Cardinality({i \in r.seen : t.values[i].content = "score"
                                              /\ Reads(phase, t.values[i].kind)})
    BY <1>a, <2>3, EvalFacts
  <2>5. r.score = Cardinality({})
    BY <2>2, <2>4
  <2>6. r.score = 0
    BY <2>5, FS_EmptySet
  <2> QED
    BY <1>a, <2>1, <2>3, <2>6
<1> QED
  BY <1>1, <1>2, <1>a

\* Every call keeps CountInv.
LEMMA CountStep == Types /\ CountInv /\ [Next]_vars => CountInv'
<1> SUFFICES ASSUME Types, CountInv, [Next]_vars, cfg'.ordered, cfg'.mirrorsOnly PROVE CountInv'
  BY DEF CountInv
<1>a. cfg' = cfg /\ cfg.ordered /\ cfg.mirrorsOnly
  BY StepKinds
<1>b. /\ stage \in {"line", "headers"} => score = 0 /\ marks.body < 0
      /\ stage \in {"line", "headers", "body"} => reply.start < 0
      /\ \/ stage = "body"
         \/ stage = "response" /\ marks.body > 0
         \/ stage \in {"chunks", "done"} /\ marks.body > 0 /\ inspected["ResponseBody"] = {}
         => score <= Cardinality(ScoringIn(store.values, CountedTo))
  BY <1>a DEF CountInv
<1> DEFINE n == Len(store.values)
           all == ScoringIn(store.values, n)
           after == ScoringIn(store'.values, Len(store'.values))
<1>c. /\ n \in Nat /\ reply.start \in Int /\ marks.body \in Int /\ score \in Nat
      /\ marks \in Marks /\ marks.body <= n /\ reply.start <= n /\ store \in Stores
  BY InForce, StagesOf DEF JudgementTypes
<1>d. CountedTo \in Nat /\ CountedTo <= n
  BY <1>c DEF CountedTo
<1>e. Cardinality(all) \in Nat /\ Cardinality(ScoringIn(store.values, CountedTo)) <= Cardinality(all)
      /\ Cardinality(ScoringIn(store.values, CountedTo)) \in Nat
  BY <1>c, <1>d, ScoringCounts
<1>f. ASSUME NEW T, Grown(store, store', T)
      PROVE  /\ Len(store'.values) \in Nat /\ n <= Len(store'.values) /\ Cardinality(after) \in Nat
             /\ Cardinality(ScoringIn(store.values, CountedTo)) <= Cardinality(after)
             /\ ScoringIn(store'.values, CountedTo) = ScoringIn(store.values, CountedTo)
  <2>1. Len(store'.values) \in Nat /\ n <= Len(store'.values)
    BY <1>f, StoreParts DEF Grown
  <2> QED
    BY <1>c, <1>d, <1>f, <2>1, ScoringKept, ScoringCounts
<1>g. reply'.start \in Int
  BY TypeStep DEF Types, Replies
<1> HIDE DEF n, all, after
<1>1. CASE stage' \in {"line", "headers"} /\ score' = 0 /\ marks'.body < 0 /\ reply'.start < 0
  BY <1>1 DEF CountInv
<1>2. CASE /\ stage' \in {"chunks", "done"} \/ (stage' = "response" /\ reply'.start < 0)
           /\ (marks'.body > 0 /\ (stage' = "response" \/ inspected'["ResponseBody"] = {}))
                 => score' <= Cardinality(after)
  <2>1. ~(stage' = "body") /\ ~(stage' = "response" /\ reply'.start >= 0)
    BY <1>2, <1>g
  <2>2. CountedTo' = Len(store'.values)
    BY <2>1 DEF CountedTo
  <2> QED
    BY <1>2, <2>1, <2>2 DEF CountInv, after
<1>3. CASE /\ stage \in {"line", "headers"} /\ stage' \in {"line", "headers"}
           /\ UNCHANGED <<marks, reply, score>>
  BY <1>1, <1>3, <1>b
<1>4. CASE ProcessRequestHeaders
  <2>1. stage = "headers" /\ stage' \in {"body", "done"} /\ reply' = reply
    BY <1>4, <1>a DEF ProcessRequestHeaders, Ask, At
  <2>2. marks'.body = marks.body
    <3>1. \E q, h : marks' = [marks EXCEPT !.query = q, !.headerViews = h]
      BY <1>4, ZenonT(60) DEF ProcessRequestHeaders
    <3> QED
      BY <1>c, <3>1 DEF Marks
  <2>3. PICK s \in Stores : \/ \E d \in Verdicts : Stop(d, s)
                            \/ RunPhase("RequestHeaders", s, 0)
    BY <1>4, HeaderPhaseEnds
  <2>4. score' <= Cardinality(after)
    <3>1. Grown(store, store', ValueOf(RequestKinds))
      BY <1>4, HeaderPhaseGrows
    <3>2. CASE \E d \in Verdicts : Stop(d, s)
      <4>1. score' = 0
        BY <1>b, <2>1, <3>2 DEF Stop
      <4> QED
        BY <1>f, <3>1, <4>1
    <3>3. CASE RunPhase("RequestHeaders", s, 0)
      <4>1. "RequestHeaders" \in Phases /\ 0 \in Nat /\ Window("RequestHeaders", 0) = 0
        BY DEF Phases, RequestPhases, ResponsePhases, Window
      <4>2. Len(s.values) \in Nat
        BY StoreParts
      <4>3. Cardinality(ScoringIn(s.values, 0)) \in Nat
        BY ScoringCounts
      <4>4. score <= Cardinality(ScoringIn(s.values, 0)) /\ 0 <= Len(s.values)
        BY <1>b, <2>1, <4>2, <4>3
      <4> QED
        BY <3>3, <4>1, <4>4, RunCounts DEF after
    <3> QED
      BY <2>3, <3>2, <3>3
  <2>5. stage' = "body" => CountedTo' = Len(store'.values)
    BY <1>b, <2>1, <2>2, <1>c DEF CountedTo
  <2> QED
    BY <1>b, <1>c, <2>1, <2>2, <2>4, <2>5 DEF CountInv, after
<1>5. ASSUME NEW b \in Bodies, SetRequestBody(b) PROVE CountInv'
  <2>1. /\ stage = "body" /\ stage' = stage /\ marks.body < 0 /\ UNCHANGED <<reply, score>>
        /\ marks' = [marks EXCEPT !.body = IF @ < 0 THEN Len(store.values) ELSE @]
    BY <1>5, <1>a DEF SetRequestBody, Supply, At, Judgement
  <2>2. marks'.body = n
    BY <1>c, <2>1 DEF Marks, n
  <2>3. Grown(store, store', ValueOf(RequestKinds))
    BY <1>5, BodyGrows
  <2>4. CountedTo' = n /\ CountedTo = n
    BY <1>c, <2>1, <2>2 DEF CountedTo, n
  <2>5. score' <= Cardinality(ScoringIn(store'.values, CountedTo'))
    BY <1>b, <1>f, <2>1, <2>3, <2>4
  <2> QED
    BY <1>b, <2>1, <2>5 DEF CountInv
<1>6. CASE ProcessRequestBody
  <2>1. stage = "body" /\ stage' \in {"response", "done"} /\ reply' = reply /\ reply.start < 0
    BY <1>6, <1>a, <1>b DEF ProcessRequestBody, Ask, At
  <2>2. Grown(store, store', ValueOf(RequestKinds)) /\ marks'.body = marks.body
    BY <1>6, BodyPhaseGrows
  <2>3. ASSUME marks.body > 0 PROVE score' <= Cardinality(after)
    <3>1. PICK s \in Stores : BodyEnds(s)
      BY <1>6, BodyPhaseStops
    <3>2. CountedTo = marks.body /\ score <= Cardinality(ScoringIn(store.values, CountedTo))
      BY <1>b, <1>c, <2>1, <2>3 DEF CountedTo
    <3>3. CASE \E d \in Verdicts : Stop(d, s)
      <4>1. score' = score
        BY <3>3 DEF Stop
      <4> QED
        BY <1>c, <1>e, <1>f, <2>2, <3>2, <4>1
    <3>4. CASE RunPhase("RequestBody", s, 0)
      <4>1. "RequestBody" \in Phases /\ 0 \in Nat /\ Window("RequestBody", 0) = marks.body
        BY <1>a, <2>3 DEF Phases, RequestPhases, ResponsePhases, Window
      <4>2. /\ ScoringIn(s.values, marks.body) = ScoringIn(store.values, marks.body)
            /\ marks.body <= Len(s.values)
        <5>1. Grown(store, s, ValueOf(Views)) /\ marks.body \in Nat
          BY <1>c, <2>3, <3>1 DEF BodyEnds
        <5> QED
          BY <1>c, <5>1, ScoringKept DEF n
      <4> QED
        BY <3>2, <3>4, <4>1, <4>2, RunCounts DEF after
    <3> QED
      BY <3>1, <3>3, <3>4 DEF BodyEnds
  <2>4. (stage' = "response" /\ reply'.start < 0) \/ stage' = "done"
    BY <2>1
  <2> QED
    BY <1>2, <2>2, <2>3, <2>4
<1>7. MarkedStart \in Nat /\ MarkedStart <= n /\ (stage = "response" => CountedTo = MarkedStart)
      /\ (stage \in {"chunks", "done"} => CountedTo = n)
  BY <1>c DEF MarkedStart, CountedTo, n
<1>8. ASSUME NEW c \in Samples, SetResponseStatus(c) \/ AddResponseHeader(c) PROVE CountInv'
  <2>1. /\ stage \in {"response", "chunks"} /\ stage' = stage /\ UNCHANGED <<score, inspected, marks>>
        /\ reply' = Marked
    BY <1>8, <1>a DEF SetResponseStatus, AddResponseHeader, Supply, At, Judgement
  <2>2. Grown(store, store', {v \in ValueOf(ResponseKinds) : ~v.inert})
    BY <1>8, ResponseGrows
  <2>3. CASE stage = "response"
    <3>1. CountedTo' = MarkedStart /\ CountedTo = MarkedStart
      BY <1>7, <2>1, <2>3, MarkedType DEF CountedTo
    <3> QED
      BY <1>b, <1>f, <2>1, <2>2, <2>3, <3>1 DEF CountInv
  <2>4. CASE stage = "chunks"
    BY <1>2, <1>b, <1>c, <1>e, <1>f, <2>1, <2>2, <2>4
  <2> QED
    BY <2>1, <2>3, <2>4
<1>9. CASE ProcessResponseHeaders
  <2>1. /\ stage = "response" /\ stage' \in {"chunks", "done"} /\ marks' = marks
        /\ RunPhase("ResponseHeaders", store, Marked.start)
    BY <1>9, <1>a DEF ProcessResponseHeaders, Ask, At
  <2>2. /\ Marked.start = MarkedStart /\ "ResponseHeaders" \in Phases
        /\ Window("ResponseHeaders", Marked.start) = MarkedStart
    BY MarkedType DEF Phases, ResponsePhases, Window
  <2>3. marks.body > 0 => score' <= Cardinality(after)
    BY <1>7, <1>b, <1>c, <2>1, <2>2, RunCounts DEF after, n
  <2> QED
    BY <1>2, <2>1, <2>3
<1>10. ASSUME NEW c \in Chunks, WriteResponseBody(c) PROVE CountInv'
  <2>1. /\ stage = "chunks" /\ stage' \in {"chunks", "done"}
        /\ UNCHANGED <<marks, score, inspected>>
    BY <1>10, <1>a DEF WriteResponseBody, Supply, At
  <2>2. store'.values = store.values
    BY <1>10, ChunkGrows
  <2> QED
    BY <1>2, <1>7, <1>b, <2>1, <2>2 DEF after, n
<1>11. CASE ProcessResponseBody
  <2>1. stage = "chunks" /\ stage' = "done" /\ marks' = marks
    BY <1>11, <1>a DEF ProcessResponseBody, Ask, At
  <2>2. Grown(store, store', AnyValue)
    BY <1>11, ResponseBodyGrows
  <2>3. ASSUME inspected'["ResponseBody"] = {} PROVE score' = score /\ inspected["ResponseBody"] = {}
    <3>1. CASE \E d \in Verdicts : Stop(d, store)
      BY <2>3, <3>1 DEF Stop
    <3>2. ASSUME NEW s \in Stores, RunPhase("ResponseBody", s, Marked.start)
          PROVE  score' = score /\ inspected["ResponseBody"] = {}
      <4>1. "ResponseBody" \in Phases /\ Marked.start \in Nat
        BY MarkedType DEF Phases, ResponsePhases
      <4>2. inspected["ResponseBody"] \subseteq inspected'["ResponseBody"]
        <5>1. inspected \in [Phases -> SUBSET Nat]
          BY DEF Types, JudgementTypes
        <5>2. inspected' = inspected \/ \E x : inspected' = [inspected EXCEPT !["ResponseBody"] = @ \cup x]
          BY <3>2 DEF RunPhase
        <5> QED
          BY <4>1, <5>1, <5>2
      <4> QED
        BY <2>3, <3>2, <4>1, <4>2, QuietRun
    <3> QED
      BY <1>11, <3>1, <3>2, ResponseBodyEnds
  <2> QED
    BY <1>2, <1>b, <1>c, <1>e, <1>f, <2>1, <2>2, <2>3
<1>12. CASE Reset
  BY <1>1, <1>12 DEF Reset, NewMarks, NewReply
<1>13. CASE UNCHANGED vars
  BY <1>13 DEF vars, CountInv, CountedTo
<1> QED
  BY <1>3, <1>4, <1>5, <1>6, <1>8, <1>9, <1>10, <1>11, <1>12, <1>13, <1>a, StepKinds

\* A body phase made of generated counterparts starts where the header phase left off, and the
\* first response phase behind the request: what the score counts until the body of the
\* response is read is no more than the values a scoring rule can find something in.
THEOREM CountedOnceHolds == Spec => []CountedOnce
<1>1. Init => CountInv
  BY DEF Init, CountInv, NewMarks, NewReply
<1>2. Types /\ CountInv => CountedOnce
  <2> SUFFICES ASSUME Types, CountInv, BeforeResponse, marks.body > 0
               PROVE  score <= Cardinality(Evidence)
    BY DEF CountedOnce
  <2>1. Evidence = ScoringIn(store.values, Len(store.values))
    BY InForce, StoreParts DEF Evidence, ScoringIn
  <2>2. score <= Cardinality(ScoringIn(store.values, CountedTo))
    BY InForce, StagesOf DEF CountInv, BeforeResponse
  <2>3. CountedTo \in Nat /\ CountedTo <= Len(store.values) /\ Len(store.values) \in Nat /\ score \in Nat
    BY InForce, StagesOf DEF CountedTo, JudgementTypes
  <2> QED
    BY <2>1, <2>2, <2>3, ScoringCounts
<1> QED
  BY <1>1, <1>2, Typed, CountStep, PTL DEF Spec
-----------------------------------------------------------------------------
(* The views split the arguments                                             *)

\* The views of one kind among the values vs.
Has(vs, kind) == {k \in 1..Len(vs) : vs[k].kind = kind}

\* Every view of a query argument is of one before cut, and before every argument
\* that has a view as a body argument.
Apart(vs, cut) ==
  /\ \A k \in Has(vs, "argsget") : vs[k].of <= cut
  /\ \A k \in Has(vs, "argsget"), l \in Has(vs, "argspost") : vs[k].of < vs[l].of

Cut == QueryCut(marks.query, Len(store.values))

ViewsInv ==
  /\ marks.bodyViews => marks.headerViews
  /\ ~marks.headerViews => Has(store.values, "argsget") = {}
  /\ ~marks.bodyViews => Has(store.values, "argspost") = {}
  /\ Apart(store.values, Cut)

\* The kinds that hold no argument of the request and no view of one.
Beside == Kinds \ {"argsget", "argspost"}

\* Recording other kinds adds no view of this one.
LEMMA NoViews ==
  ASSUME NEW s \in Stores, NEW t, NEW K \in SUBSET Kinds, NEW kind, kind \notin K,
         Grown(s, t, ValueOf(K))
  PROVE  Has(t.values, kind) = Has(s.values, kind)
<1>1. Len(s.values) \in Nat /\ Len(t.values) \in Nat /\ Len(s.values) <= Len(t.values)
  BY StoreParts DEF Grown
<1>2. \A k \in 1..Len(s.values) : t.values[k] = s.values[k]
  BY DEF Grown
<1>3. \A k \in 1..Len(t.values) : k > Len(s.values) => t.values[k].kind \in K
  BY SomeValues DEF Grown
<1>4. \A k \in 1..Len(t.values) : k > Len(s.values) \/ k \in 1..Len(s.values)
  BY <1>1
<1>5. 1..Len(s.values) \subseteq 1..Len(t.values)
  BY <1>1
<1> QED
  BY <1>2, <1>3, <1>4, <1>5 DEF Has

\* Recording what is no view keeps the views apart, at a cut no lower.
LEMMA ApartKept ==
  ASSUME NEW s \in Stores, NEW t, NEW K \in SUBSET Beside, Grown(s, t, ValueOf(K)),
         NEW c \in Int, NEW d \in Int, c <= d, Apart(s.values, c)
  PROVE  /\ Apart(t.values, d)
         /\ Has(t.values, "argsget") = Has(s.values, "argsget")
         /\ Has(t.values, "argspost") = Has(s.values, "argspost")
<1>1. K \in SUBSET Kinds /\ "argsget" \notin K /\ "argspost" \notin K
  BY DEF Beside
<1>2. /\ Has(t.values, "argsget") = Has(s.values, "argsget")
      /\ Has(t.values, "argspost") = Has(s.values, "argspost")
  BY <1>1, NoViews
<1>3. \A k \in Has(s.values, "argsget") \cup Has(s.values, "argspost") :
        t.values[k] = s.values[k] /\ s.values[k].of \in Nat
  BY StoreParts, ValueParts DEF Grown, Has
<1> QED
  BY <1>2, <1>3 DEF Apart

\* The cut moves only forward.
LEMMA CutGrows ==
  ASSUME NEW n \in Nat, NEW m \in Nat, n <= m,
         marks.body \in Int, marks.body <= n, marks.query \in Int, marks.query <= n,
         marks'.body = marks.body \/ (marks.body < 0 /\ marks'.body = n),
         marks'.query = marks.query \/ (marks.query < 0 /\ marks'.query = n)
  PROVE  /\ QueryCut(marks.query, n) \in Nat /\ QueryCut(marks.query, m) \in Nat
         /\ QueryCut(marks.query, n) <= QueryCut(marks.query, m)
         /\ LET cut == IF marks'.query < 0 THEN m ELSE marks'.query
                body == IF marks'.body >= 0 /\ marks'.body < cut THEN marks'.body ELSE cut
            IN  body \in Nat /\ QueryCut(marks.query, n) <= body
BY DEF QueryCut

\* A step that derives no view of an argument.
LEMMA ViewsKept ==
  ASSUME Types, ViewsInv, NEW K \in SUBSET Beside, Grown(store, store', ValueOf(K)),
         marks'.headerViews = marks.headerViews, marks'.bodyViews = marks.bodyViews,
         marks'.body = marks.body \/ (marks.body < 0 /\ marks'.body = Len(store.values)),
         marks'.query = marks.query \/ (marks.query < 0 /\ marks'.query = Len(store.values))
  PROVE  ViewsInv'
<1>1. /\ Len(store.values) \in Nat /\ Len(store'.values) \in Nat
      /\ Len(store.values) <= Len(store'.values) /\ store \in Stores
      /\ marks.body \in Int /\ marks.query \in Int
      /\ marks.body <= Len(store.values) /\ marks.query <= Len(store.values)
  BY InForce, StagesOf, StoreParts DEF Grown
<1>2. Cut \in Int /\ Cut' \in Int /\ Cut <= Cut'
  BY <1>1, CutGrows DEF Cut, QueryCut
<1>3. /\ Apart(store'.values, Cut')
      /\ Has(store'.values, "argsget") = Has(store.values, "argsget")
      /\ Has(store'.values, "argspost") = Has(store.values, "argspost")
  <2>1. Apart(store.values, Cut)
    BY DEF ViewsInv
  <2> DEFINE c == Cut
             d == Cut'
  <2> HIDE DEF c, d
  <2>2. c \in Int /\ d \in Int /\ c <= d /\ Apart(store.values, c)
    BY <1>2, <2>1 DEF c, d
  <2>3. /\ Apart(store'.values, d)
        /\ Has(store'.values, "argsget") = Has(store.values, "argsget")
        /\ Has(store'.values, "argspost") = Has(store.values, "argspost")
    BY <1>1, <2>2, ApartKept
  <2> QED
    BY <2>3 DEF d
<1> QED
  BY <1>3 DEF ViewsInv

\* A view names its kind and the value it stands for.
LEMMA ViewParts ==
  ASSUME NEW vs \in Seq(AnyValue), NEW i \in 1..Len(vs), NEW k \in Kinds
  PROVE  View(vs, i, k).of = i /\ View(vs, i, k).kind = k
BY ViewType, Zenon

\* A copy of an argument by either of the views.
LEMMA CopyParts ==
  ASSUME NEW vs \in Seq(AnyValue), NEW from \in Nat, NEW to \in Nat, to <= Len(vs), NEW k \in Kinds
  PROVE  Copies(vs, from, to, k) \in Seq({View(vs, i, k) : i \in Copied(vs, from, to)})
BY CopiesType, Zenon

\* copyArgs: every argument between the marks has its view.
LEMMA CopiesAll ==
  ASSUME NEW vs \in Seq(AnyValue), NEW from \in Nat, NEW to \in Nat, to <= Len(vs), NEW k \in Kinds,
         NEW i \in Copied(vs, from, to)
  PROVE  \E x \in 1..Len(Copies(vs, from, to, k)) : Copies(vs, from, to, k)[x] = View(vs, i, k)
BY CopiesType, Zenon

\* recordHeaderViews: every argument before the cut gets its view, and no other.
LEMMA HeaderViewsApart ==
  ASSUME cfg \in Config, NEW s \in Stores, NEW query \in Int, query <= Len(s.values),
         marks.body \in Int, ~marks.headerViews,
         Has(s.values, "argsget") = {}, Has(s.values, "argspost") = {}
  PROVE  LET t == HeaderViews(s, query) IN
         /\ Apart(t.values, QueryCut(query, Len(s.values)))
         /\ Has(t.values, "argspost") = {}
         /\ "argsget" \in cfg.views =>
              \A i \in 1..QueryCut(query, Len(s.values)) :
                IsArg(s.values[i]) => \E k \in Has(t.values, "argsget") : t.values[k].of = i
<1> DEFINE t == HeaderViews(s, query)
           vs == s.values
           n == Len(vs)
           cut == QueryCut(query, n)
           get == IF "argsget" \in cfg.views THEN Copies(vs, 0, cut, "argsget") ELSE <<>>
           C == Cookies(vs, cut)
           cookies == IF "cookie" \in cfg.views
                      THEN SubSeq(C, 1, Min({Len(C), MaxArgs})) ELSE <<>>
           G == {View(vs, i, "argsget") : i \in Copied(vs, 0, cut)}
<1>1. n \in Nat /\ vs \in Seq(AnyValue)
  BY StoreParts
<1>2. cut \in 0..n
  BY <1>1, QueryCutType
<1>3. t.values = vs \o (get \o cookies)
  BY HeaderViewsGrow DEF HeaderItems
<1>4. Grown(s, t, ValueOf({"argsget", "cookie"}))
  BY HeaderViewsGrow
<1> HIDE DEF t, cut, n, vs
<1>k. "argsget" \in Kinds /\ "cookie" \in Kinds
  BY DEF Kinds, Views
<1>5. /\ get \in Seq(G)
      /\ "argsget" \in cfg.views =>
           \A i \in Copied(vs, 0, cut) : \E x \in 1..Len(get) : get[x] = View(vs, i, "argsget")
  <2>1. Copies(vs, 0, cut, "argsget") \in Seq(G)
    BY <1>1, <1>2, <1>k, CopyParts DEF n
  <2>2. <<>> \in Seq(G)
    OBVIOUS
  <2>3. \A i \in Copied(vs, 0, cut) :
          \E x \in 1..Len(Copies(vs, 0, cut, "argsget")) :
            Copies(vs, 0, cut, "argsget")[x] = View(vs, i, "argsget")
    <3>1. cut \in Nat /\ cut <= Len(vs) /\ 0 \in Nat
      BY <1>1, <1>2 DEF n
    <3> QED
      BY <1>1, <1>k, <3>1, CopiesAll
  <2> DEFINE all == Copies(vs, 0, cut, "argsget")
  <2> HIDE DEF all
  <2>4. /\ (IF "argsget" \in cfg.views THEN all ELSE <<>>) \in Seq(G)
        /\ "argsget" \in cfg.views => (IF "argsget" \in cfg.views THEN all ELSE <<>>) = all
    BY <2>1, <2>2 DEF all
  <2> HIDE DEF G
  <2> QED
    BY <2>3, <2>4 DEF all
<1>6. C \in Seq(ValueOf({"cookie"}))
  BY <1>1, <1>2, CookiesType DEF n
<1>7. cookies \in Seq(ValueOf({"cookie"}))
  <2> HIDE DEF C
  <2> DEFINE first == SubSeq(C, 1, Min({Len(C), MaxArgs}))
  <2>1. first \in Seq(ValueOf({"cookie"}))
    BY <1>6, FirstCookies
  <2>2. <<>> \in Seq(ValueOf({"cookie"}))
    OBVIOUS
  <2> HIDE DEF first
  <2>3. (IF "cookie" \in cfg.views THEN first ELSE <<>>) \in Seq(ValueOf({"cookie"}))
    BY <2>1, <2>2
  <2> QED
    BY <2>3 DEF first
<1>8. Copied(vs, 0, cut) \subseteq 1..n /\ \A i \in Copied(vs, 0, cut) : i \in 1..cut
  BY <1>1, <1>2 DEF Copied
<1>9. \A g \in G : g.kind = "argsget" /\ g.of \in 1..cut
  <2> SUFFICES ASSUME NEW i \in Copied(vs, 0, cut)
               PROVE  View(vs, i, "argsget").kind = "argsget" /\ View(vs, i, "argsget").of = i
    BY <1>8
  <2>1. i \in 1..Len(vs)
    BY <1>8 DEF n
  <2> QED
    BY <1>1, <1>k, <2>1, ViewParts
<1>10. \A c \in ValueOf({"cookie"}) : c.kind = "cookie"
  BY <1>k, SomeValues
<1> HIDE DEF get, cookies, G, C
<1>11. /\ Len(t.values) = n + Len(get) + Len(cookies) /\ Len(get) \in Nat /\ Len(cookies) \in Nat
       /\ \A k \in 1..n : t.values[k] = vs[k]
       /\ \A x \in 1..Len(get) : t.values[n + x] = get[x] /\ get[x] \in G
       /\ \A x \in 1..Len(cookies) :
            t.values[n + Len(get) + x] = cookies[x] /\ cookies[x] \in ValueOf({"cookie"})
  BY <1>1, <1>3, <1>5, <1>7 DEF n
<1>12. \A k \in 1..Len(t.values) :
         \/ k \in 1..n
         \/ \E x \in 1..Len(get) : k = n + x
         \/ \E x \in 1..Len(cookies) : k = n + Len(get) + x
  <2> TAKE k \in 1..Len(t.values)
  <2> DEFINE g == Len(get)
             c == Len(cookies)
  <2>1. k \in Int /\ g \in Nat /\ c \in Nat /\ n \in Nat /\ k >= 1 /\ k <= n + g + c
    BY <1>1, <1>11
  <2> HIDE DEF g, c
  <2>2. CASE k <= n
    BY <2>1, <2>2
  <2>3. CASE k > n /\ k <= n + g
    <3>1. k - n \in 1..g /\ k = n + (k - n)
      BY <2>1, <2>3
    <3> QED
      BY <3>1 DEF g
  <2>4. CASE k > n + g
    <3>1. k - n - g \in 1..c /\ k = n + g + (k - n - g)
      BY <2>1, <2>4
    <3> QED
      BY <3>1 DEF g, c
  <2> QED
    BY <2>1, <2>2, <2>3, <2>4
<1>13. \A k \in Has(t.values, "argsget") : t.values[k].of \in 1..cut
  <2> SUFFICES ASSUME NEW k \in 1..Len(t.values), t.values[k].kind = "argsget"
               PROVE  t.values[k].of \in 1..cut
    BY DEF Has
  <2>1. ~(k \in 1..n)
    BY <1>11 DEF Has, vs, n
  <2>2. \A x \in 1..Len(cookies) : k # n + Len(get) + x
    BY <1>10, <1>11
  <2>3. PICK x \in 1..Len(get) : k = n + x
    BY <1>12, <2>1, <2>2
  <2> QED
    BY <1>9, <1>11, <2>3
<1>14. Has(t.values, "argspost") = {}
  <2>1. "argspost" \notin {"argsget", "cookie"} /\ {"argsget", "cookie"} \in SUBSET Kinds
    BY <1>k
  <2> QED
    BY <1>4, <2>1, NoViews
<1>15. Apart(t.values, cut)
  BY <1>2, <1>13, <1>14 DEF Apart
<1>16. ASSUME "argsget" \in cfg.views, NEW i \in 1..cut, IsArg(vs[i])
       PROVE  \E k \in Has(t.values, "argsget") : t.values[k].of = i
  <2>1. i \in Copied(vs, 0, cut)
    BY <1>1, <1>2, <1>16 DEF Copied
  <2>2. PICK x \in 1..Len(get) : get[x] = View(vs, i, "argsget")
    BY <1>5, <1>16, <2>1
  <2>3. n + x \in 1..Len(t.values) /\ t.values[n + x] = View(vs, i, "argsget")
    BY <1>1, <1>11, <2>2
  <2>4. i \in 1..Len(vs)
    BY <1>8, <2>1 DEF n
  <2>5. View(vs, i, "argsget").kind = "argsget" /\ View(vs, i, "argsget").of = i
    BY <1>1, <1>k, <2>4, ViewParts
  <2> QED
    BY <2>3, <2>5 DEF Has
<1> QED
  BY <1>14, <1>15, <1>16 DEF t, cut, n, vs

\* recordBodyViews: every argument from the cut gets its view, and no other.
LEMMA BodyViewsApart ==
  ASSUME cfg \in Config, NEW s \in Stores, NEW query \in Int, query <= Len(s.values),
         marks.body \in Int, ~marks.bodyViews, Has(s.values, "argspost") = {},
         Apart(s.values, QueryCut(query, Len(s.values)))
  PROVE  LET t == BodyViews(s, query) IN
         /\ Apart(t.values, QueryCut(query, Len(s.values)))
         /\ Has(t.values, "argsget") = Has(s.values, "argsget")
         /\ "argspost" \in cfg.views =>
              \A i \in 1..Len(s.values) : i > QueryCut(query, Len(s.values)) /\
                IsArg(s.values[i]) => \E k \in Has(t.values, "argspost") : t.values[k].of = i
<1> DEFINE t == BodyViews(s, query)
           vs == s.values
           n == Len(vs)
           cut == QueryCut(query, n)
           post == PostItems(vs, query)
           posted == PushAll(s, post)
           P == {View(vs, i, "argspost") : i \in Copied(vs, cut, n)}
<1>1. n \in Nat /\ vs \in Seq(AnyValue)
  BY StoreParts
<1>2. cut \in 0..n
  BY <1>1, QueryCutType
<1>k. "argspost" \in Kinds /\ "joined" \in Kinds
  BY DEF Kinds, Views
<1>3. /\ posted \in Stores /\ posted.values = vs \o post
      /\ t = posted \/ t = Put(posted, Whole(vs))
  BY BodyViewsGrow
<1>4. Grown(posted, t, ValueOf({"joined"}))
  <2>1. Whole(vs) \in ValueOf({"joined"})
    BY <1>1, WholeType
  <2>2. ValueOf({"joined"}) \in SUBSET AnyValue
    BY <1>k, SomeValues
  <2> HIDE DEF posted, vs, t
  <2>3. Grown(posted, posted, ValueOf({"joined"}))
    BY <1>3, GrownNothing
  <2>4. Grown(posted, Put(posted, Whole(vs)), ValueOf({"joined"}))
    BY <1>3, <2>1, <2>2, PutGrows
  <2> QED
    BY <1>3, <2>3, <2>4
<1>5. /\ post \in Seq(P)
      /\ "argspost" \in cfg.views =>
           \A i \in Copied(vs, cut, n) : \E x \in 1..Len(post) : post[x] = View(vs, i, "argspost")
  <2> DEFINE all == Copies(vs, cut, n, "argspost")
  <2>1. post = IF "argspost" \in cfg.views THEN all ELSE <<>>
    BY DEF PostItems
  <2> HIDE DEF cut, post, vs
  <2>2. cut \in Nat /\ n \in Nat /\ n <= Len(vs)
    BY <1>1, <1>2
  <2>3. all \in Seq(P)
    BY <1>1, <1>k, <2>2, CopyParts
  <2>4. \A i \in Copied(vs, cut, n) : \E x \in 1..Len(all) : all[x] = View(vs, i, "argspost")
    BY <1>1, <1>k, <2>2, CopiesAll
  <2>5. <<>> \in Seq(P)
    OBVIOUS
  <2> HIDE DEF all, n, P
  <2> QED
    BY <2>1, <2>3, <2>4, <2>5
<1> HIDE DEF t, cut, vs, n, post, posted
<1>6. Copied(vs, cut, n) \subseteq 1..n /\ \A i \in Copied(vs, cut, n) : i > cut
  BY <1>1, <1>2 DEF Copied
<1>7. \A i \in Copied(vs, cut, n) :
        View(vs, i, "argspost").kind = "argspost" /\ View(vs, i, "argspost").of = i
  <2> SUFFICES ASSUME NEW i \in Copied(vs, cut, n)
               PROVE  View(vs, i, "argspost").kind = "argspost" /\ View(vs, i, "argspost").of = i
    OBVIOUS
  <2>1. i \in 1..Len(vs)
    BY <1>6 DEF n
  <2> QED
    BY <1>1, <1>k, <2>1, ViewParts
<1>8. \A g \in P : g.kind = "argspost" /\ g.of > cut
  BY <1>6, <1>7
<1> HIDE DEF P
<1>9. /\ Len(posted.values) = n + Len(post) /\ Len(post) \in Nat
      /\ \A k \in 1..n : posted.values[k] = vs[k]
      /\ \A x \in 1..Len(post) : posted.values[n + x] = post[x] /\ post[x] \in P
      /\ \A k \in 1..Len(posted.values) : k > n => posted.values[k] \in P
  <2>1. /\ Len(posted.values) = n + Len(post) /\ Len(post) \in Nat
        /\ \A k \in 1..n : posted.values[k] = vs[k]
        /\ \A x \in 1..Len(post) : posted.values[n + x] = post[x] /\ post[x] \in P
    BY <1>1, <1>3, <1>5 DEF n
  <2>2. ASSUME NEW k \in 1..Len(posted.values), k > n PROVE posted.values[k] \in P
    <3>1. k - n \in 1..Len(post) /\ k = n + (k - n)
      BY <1>1, <2>1, <2>2
    <3> QED
      BY <2>1, <3>1
  <2> QED
    BY <2>1, <2>2
<1>10. Has(posted.values, "argsget") = Has(vs, "argsget")
  <2>1. \A k \in 1..Len(posted.values) : k \in 1..n \/ k > n
    BY <1>1, <1>9
  <2>2. 1..n \subseteq 1..Len(posted.values)
    BY <1>1, <1>9
  <2> QED
    BY <1>8, <1>9, <2>1, <2>2 DEF Has, n
<1>11. Has(vs, "argspost") = {} /\ Apart(vs, cut)
  BY DEF vs, cut, n
<1>12. \A l \in Has(posted.values, "argspost") : posted.values[l].of > cut /\ posted.values[l].of \in Nat
  <2> SUFFICES ASSUME NEW l \in 1..Len(posted.values), posted.values[l].kind = "argspost"
               PROVE  posted.values[l].of > cut /\ posted.values[l].of \in Nat
    BY DEF Has
  <2>1. ~(l \in 1..n)
    BY <1>9, <1>11 DEF Has, n
  <2>2. posted.values[l] \in AnyValue
    BY <1>3, StoreParts
  <2> QED
    BY <1>1, <1>8, <1>9, <2>1, <2>2, ValueParts
<1>13. Apart(posted.values, cut)
  <2>1. \A k \in Has(vs, "argsget") :
          posted.values[k] = vs[k] /\ vs[k].of <= cut /\ vs[k].of \in Nat
    BY <1>1, <1>9, <1>11, StoreParts, ValueParts DEF Apart, Has, n, vs
  <2> QED
    BY <1>2, <1>10, <1>12, <2>1 DEF Apart
<1>14. /\ Apart(t.values, cut)
       /\ Has(t.values, "argsget") = Has(posted.values, "argsget")
       /\ Has(t.values, "argspost") = Has(posted.values, "argspost")
  <2>1. {"joined"} \in SUBSET Beside
    BY <1>k DEF Beside
  <2>2. cut \in Int /\ cut <= cut
    BY <1>1, <1>2
  <2> QED
    BY <1>3, <1>4, <1>13, <2>1, <2>2, ApartKept
<1>15. ASSUME "argspost" \in cfg.views, NEW i \in 1..n, i > cut, IsArg(vs[i])
       PROVE  \E k \in Has(t.values, "argspost") : t.values[k].of = i
  <2>1. i \in Copied(vs, cut, n)
    BY <1>1, <1>2, <1>15 DEF Copied
  <2>2. PICK x \in 1..Len(post) : post[x] = View(vs, i, "argspost")
    BY <1>5, <1>15, <2>1
  <2>3. n + x \in 1..Len(posted.values) /\ posted.values[n + x] = View(vs, i, "argspost")
    BY <1>1, <1>9, <2>2
  <2>4. n + x \in Has(posted.values, "argspost") /\ posted.values[n + x].of = i
    BY <1>7, <2>1, <2>3 DEF Has
  <2>5. t.values[n + x] = posted.values[n + x]
    BY <1>4, <2>3 DEF Grown
  <2> QED
    BY <1>14, <2>4, <2>5
<1> QED
  BY <1>10, <1>14, <1>15 DEF t, cut, n, vs

\* A boundary that derives views leaves them apart, whatever it records besides.
LEMMA ViewsBuilt ==
  ASSUME Types, ViewsInv, NEW s \in Stores, NEW cut \in Nat,
         Apart(s.values, cut), Grown(s, store', ValueOf({"resolved"})),
         cut <= Cut', Cut' \in Int,
         marks'.bodyViews => marks'.headerViews,
         ~marks'.headerViews => Has(s.values, "argsget") = {},
         ~marks'.bodyViews => Has(s.values, "argspost") = {}
  PROVE  ViewsInv'
<1> DEFINE d == Cut'
<1>1. {"resolved"} \in SUBSET Beside
  BY DEF Beside, Kinds
<1>2. d \in Int /\ cut <= d
  OBVIOUS
<1> HIDE DEF d
<1>3. /\ Apart(store'.values, d)
      /\ Has(store'.values, "argsget") = Has(s.values, "argsget")
      /\ Has(store'.values, "argspost") = Has(s.values, "argspost")
  BY <1>1, <1>2, ApartKept
<1> QED
  BY <1>3 DEF ViewsInv, d

\* The kinds that are no view of an argument.
LEMMA BesideKinds ==
  /\ HandedKinds \in SUBSET Beside /\ ResponseKinds \in SUBSET Beside /\ {"resolved"} \in SUBSET Beside
  /\ ResponseKinds \cup {"resolved"} \in SUBSET Beside
  /\ Beside \in SUBSET Kinds /\ \A v \in ValueOf(ResponseKinds \cup {"resolved"}) : ~IsArg(v)
<1>1. /\ HandedKinds \in SUBSET Beside /\ ResponseKinds \in SUBSET Beside
      /\ {"resolved"} \in SUBSET Beside /\ Beside \in SUBSET Kinds
  BY DEF HandedKinds, ResponseKinds, Beside, Kinds
<1>2. \A v \in ValueOf(ResponseKinds \cup {"resolved"}) : v.kind \in ResponseKinds \cup {"resolved"}
  BY <1>1, SomeValues
<1>3. "arg" \notin ResponseKinds \cup {"resolved"}
  BY DEF ResponseKinds
<1> QED
  BY <1>1, <1>2, <1>3 DEF IsArg

\* What the calls about the response record.
LEMMA ResponseBeside ==
  ASSUME Types,
         \/ \E c \in Samples : SetResponseStatus(c) \/ AddResponseHeader(c)
         \/ ProcessResponseHeaders
         \/ \E c \in Chunks : WriteResponseBody(c)
         \/ ProcessResponseBody
  PROVE  Grown(store, store', ValueOf(ResponseKinds \cup {"resolved"})) /\ marks' = marks
<1> DEFINE T == ValueOf(ResponseKinds \cup {"resolved"})
<1>1. {v \in ValueOf(ResponseKinds) : ~v.inert} \subseteq T /\ ValueOf({"resolved"}) \subseteq T
  BY DEF ValueOf
<1> HIDE DEF T
<1>2. ASSUME NEW c \in Samples, SetResponseStatus(c) \/ AddResponseHeader(c)
      PROVE  Grown(store, store', T) /\ marks' = marks
  <2>1. Grown(store, store', {v \in ValueOf(ResponseKinds) : ~v.inert})
    BY <1>2, ResponseGrows
  <2>2. marks' = marks
    BY <1>2 DEF SetResponseStatus, AddResponseHeader
  <2> QED
    BY <1>1, <2>1, <2>2, GrownMore
<1>3. CASE ProcessResponseHeaders
  <2>1. Grown(store, store', ValueOf({"resolved"}))
    BY <1>3, ResponseHeadersGrow
  <2>2. marks' = marks
    BY <1>3 DEF ProcessResponseHeaders
  <2> QED
    BY <1>1, <2>1, <2>2, GrownMore DEF T
<1>4. ASSUME NEW c \in Chunks, WriteResponseBody(c)
      PROVE  Grown(store, store', T) /\ marks' = marks
  <2>1. /\ store' \in Stores /\ store'.values = store.values /\ store'.oversize = store.oversize
        /\ store'.dropped = store.dropped /\ store'.unkeyed = store.unkeyed
    BY <1>4, ChunkGrows
  <2>2. marks' = marks
    BY <1>4 DEF WriteResponseBody
  <2>3. Len(store.values) \in Nat
    BY InForce
  <2> QED
    BY <2>1, <2>2, <2>3 DEF Grown
<1>5. CASE ProcessResponseBody
  <2>1. marks' = marks
    BY <1>5 DEF ProcessResponseBody
  <2>2. store \in Stores /\ Grown(store, store, T)
    BY InForce, GrownNothing
  <2>3. CASE \E d \in Verdicts : Stop(d, store)
    BY <2>1, <2>2, <2>3 DEF Stop, T
  <2>4. CASE \E s \in Stores : /\ Grown(store, s, {v \in ValueOf(ResponseKinds) : ~v.inert})
                               /\ RunPhase("ResponseBody", s, Marked.start)
    <3>1. PICK s \in Stores : /\ Grown(store, s, {v \in ValueOf(ResponseKinds) : ~v.inert})
                              /\ RunPhase("ResponseBody", s, Marked.start)
      BY <2>4
    <3>2. Grown(store, s, T)
      BY <1>1, <3>1, GrownMore
    <3>3. "ResponseBody" \in Phases /\ Marked.start \in Nat
      BY MarkedType DEF Phases, ResponsePhases
    <3>4. Grown(s, store', ValueOf({"resolved"}))
      BY <3>1, <3>3, RunGrows
    <3>5. Grown(s, store', T)
      BY <1>1, <3>4, GrownMore
    <3> QED
      BY <2>1, <2>2, <3>2, <3>5, GrownTwice DEF T
  <2> QED
    BY <1>5, <2>3, <2>4, ResponseBodyEnds DEF T
<1> QED
  BY <1>2, <1>3, <1>4, <1>5 DEF T

\* What a boundary over s records besides.
LEMMA EndGrows ==
  ASSUME Types, NEW s \in Stores, NEW phase \in Phases, NEW start \in Nat,
         (\E d \in Verdicts : Stop(d, s)) \/ RunPhase(phase, s, start)
  PROVE  Grown(s, store', ValueOf({"resolved"}))
<1>1. CASE \E d \in Verdicts : Stop(d, s)
  <2>1. store' = s
    BY <1>1 DEF Stop
  <2> QED
    BY <2>1, GrownNothing
<1>2. CASE RunPhase(phase, s, start)
  BY <1>2, RunGrows
<1> QED
  BY <1>1, <1>2

\* The header views over the recorded values.
LEMMA ViewedApart ==
  ASSUME Types, ViewsInv, NEW query \in Int,
         query = marks.query \/ (marks.query < 0 /\ query = Len(store.values))
  PROVE  LET s == HeaderViews(store, query) IN
         /\ Grown(store, s, ValueOf({"argsget", "cookie"})) /\ query <= Len(store.values)
         /\ marks.headerViews => s = store
         /\ QueryCut(query, Len(store.values)) = Cut /\ Cut \in Nat
         /\ Apart(s.values, Cut)
         /\ Has(s.values, "argspost") = Has(store.values, "argspost")
<1> DEFINE s == HeaderViews(store, query)
<1>1. /\ Len(store.values) \in Nat /\ store \in Stores /\ marks.body \in Int /\ marks.query \in Int
      /\ marks.body <= Len(store.values) /\ marks.query <= Len(store.values)
      /\ marks.headerViews \in BOOLEAN /\ cfg \in Config
  BY InForce, StagesOf
<1>2. query <= Len(store.values)
  BY <1>1
<1>3. QueryCut(query, Len(store.values)) = Cut /\ Cut \in Nat
  BY <1>1 DEF Cut, QueryCut
<1>4. Grown(store, s, ValueOf({"argsget", "cookie"}))
  BY <1>1, <1>2, HeaderViewsGrow
<1>5. marks.headerViews => s = store
  BY DEF HeaderViews
<1>6. "argspost" \notin {"argsget", "cookie"} /\ {"argsget", "cookie"} \in SUBSET Kinds
  BY DEF Kinds, Views
<1> HIDE DEF s
<1>7. Has(s.values, "argspost") = Has(store.values, "argspost")
  BY <1>1, <1>4, <1>6, NoViews
<1>8. Apart(s.values, Cut)
  <2>1. CASE marks.headerViews
    BY <1>5, <2>1 DEF ViewsInv
  <2>2. CASE ~marks.headerViews
    <3>1. Has(store.values, "argsget") = {} /\ Has(store.values, "argspost") = {}
      BY <2>2 DEF ViewsInv
    <3>2. Apart(s.values, QueryCut(query, Len(store.values)))
      BY <1>1, <1>2, <2>2, <3>1, HeaderViewsApart DEF s
    <3> QED
      BY <1>3, <3>2
  <2> QED
    BY <1>1, <2>1, <2>2
<1> QED
  BY <1>2, <1>3, <1>4, <1>5, <1>7, <1>8 DEF s

\* Both kinds of views, as a body phase derives them.
LEMMA BothApart ==
  ASSUME Types, ViewsInv, ~marks.bodyViews
  PROVE  LET viewed == HeaderViews(store, marks.query)
             both == BodyViews(viewed, marks.query)
             cut == QueryCut(marks.query, Len(viewed.values))
         IN  /\ cut \in Nat /\ Len(viewed.values) \in Nat
             /\ Grown(store, viewed, ValueOf({"argsget", "cookie"}))
             /\ Grown(viewed, both, ValueOf({"argspost", "joined"}))
             /\ Apart(both.values, cut)
             /\ "argspost" \in cfg.views =>
                  \A i \in 1..Len(viewed.values) : i > cut /\
                    IsArg(viewed.values[i]) =>
                      \E k \in Has(both.values, "argspost") : both.values[k].of = i
<1> DEFINE query == marks.query
           viewed == HeaderViews(store, query)
           both == BodyViews(viewed, query)
           cut == QueryCut(query, Len(viewed.values))
<1>1. /\ Len(store.values) \in Nat /\ marks.body \in Int /\ query \in Int /\ cfg \in Config
      /\ query <= Len(store.values) /\ marks.body <= Len(store.values)
  BY InForce, StagesOf
<1>2. /\ Apart(viewed.values, Cut) /\ Cut \in Nat
      /\ Has(viewed.values, "argspost") = Has(store.values, "argspost")
      /\ Grown(store, viewed, ValueOf({"argsget", "cookie"}))
  BY <1>1, ViewedApart
<1>3. /\ viewed \in Stores /\ Len(viewed.values) \in Nat
      /\ Len(store.values) <= Len(viewed.values)
  BY <1>2, StoreParts DEF Grown
<1>4. Has(viewed.values, "argspost") = {}
  BY <1>2 DEF ViewsInv
<1>5. cut \in Nat /\ Cut <= cut /\ query <= Len(viewed.values)
  BY <1>1, <1>2, <1>3 DEF Cut, QueryCut
<1> HIDE DEF viewed, query
<1>6. Apart(viewed.values, cut)
  BY <1>2, <1>3, <1>5, StoreParts, ValueParts DEF Apart, Has
<1>7. Grown(viewed, both, ValueOf({"argspost", "joined"}))
  BY <1>1, <1>3, <1>5, BodyViewsGrow
<1>8. /\ Apart(both.values, cut)
      /\ "argspost" \in cfg.views =>
           \A i \in 1..Len(viewed.values) : i > cut /\ IsArg(viewed.values[i]) =>
               \E k \in Has(both.values, "argspost") : both.values[k].of = i
  BY <1>1, <1>3, <1>4, <1>5, <1>6, BodyViewsApart
<1> QED
  BY <1>2, <1>3, <1>5, <1>7, <1>8 DEF viewed, query

\* Every call keeps ViewsInv.
LEMMA ViewsStep == Types /\ ViewsInv /\ [Next]_vars => ViewsInv'
<1> SUFFICES ASSUME Types, ViewsInv, [Next]_vars PROVE ViewsInv'
  OBVIOUS
<1>a. /\ Len(store.values) \in Nat /\ store \in Stores /\ marks.body \in Int /\ marks.query \in Int
      /\ marks.body <= Len(store.values) /\ marks.query <= Len(store.values)
      /\ marks.headerViews \in BOOLEAN /\ marks.bodyViews \in BOOLEAN /\ cfg \in Config
      /\ marks \in Marks /\ store' \in Stores /\ Len(store'.values) \in Nat
  <2>1. store' \in Stores
    BY TypeStep DEF Types
  <2> QED
    BY <2>1, InForce, StagesOf, StoreParts
<1>b. ASSUME Grown(store, store', ValueOf({"resolved"})), marks'.body = marks.body,
             marks'.query = marks.query \/ (marks.query < 0 /\ marks'.query = Len(store.values)),
             marks'.headerViews = marks.headerViews, marks'.bodyViews = marks.bodyViews
      PROVE  ViewsInv'
  BY <1>b, BesideKinds, ViewsKept
<1>c. RequestPhases \subseteq Phases /\ "RequestHeaders" \in RequestPhases /\ "RequestBody" \in RequestPhases
  BY DEF RequestPhases, Phases
<1>1. CASE Grown(store, store', ValueOf(HandedKinds)) /\ marks' = marks
  BY <1>1, BesideKinds, ViewsKept
<1>2. CASE ProcessRequestHeaders
  <2> DEFINE query == marks'.query
             viewed == HeaderViews(store, query)
  <2>1. /\ marks'.body = marks.body /\ marks'.bodyViews = marks.bodyViews
        /\ query = marks.query \/ (marks.query < 0 /\ query = Len(store.values))
        /\ query \in Int
    BY <1>2, <1>a, HeaderPhaseMarks
  <2>2. PICK s \in Stores :
           /\ \/ s = store /\ marks'.headerViews = marks.headerViews
              \/ s = viewed /\ marks'.headerViews
           /\ (\E d \in Verdicts : Stop(d, s)) \/ RunPhase("RequestHeaders", s, 0)
    BY <1>2, HeaderPhaseEnds
  <2>3. Grown(s, store', ValueOf({"resolved"}))
    BY <1>c, <2>2, EndGrows
  <2>4. CASE s = store /\ marks'.headerViews = marks.headerViews
    BY <1>b, <2>1, <2>3, <2>4
  <2>5. CASE s = viewed /\ marks'.headerViews
    <3>1. /\ Apart(viewed.values, Cut) /\ Cut \in Nat
          /\ Has(viewed.values, "argspost") = Has(store.values, "argspost")
      BY <2>1, ViewedApart
    <3>2. ~marks'.bodyViews => Has(s.values, "argspost") = {}
      BY <2>1, <2>5, <3>1 DEF ViewsInv
    <3>3. Len(store.values) <= Len(store'.values)
      BY <1>2, HeaderPhaseGrows DEF Grown
    <3>4. Cut' \in Int /\ Cut <= Cut'
      BY <1>a, <2>1, <3>3, CutGrows DEF Cut, QueryCut
    <3> HIDE DEF viewed, query
    <3>5. Apart(s.values, Cut)
      BY <2>5, <3>1
    <3> DEFINE cut == Cut
    <3> HIDE DEF cut
    <3>6. cut \in Nat /\ cut <= Cut' /\ Apart(s.values, cut)
      BY <3>1, <3>4, <3>5 DEF cut
    <3> QED
      BY <2>3, <2>5, <3>2, <3>4, <3>6, ViewsBuilt
  <2> QED
    BY <2>2, <2>4, <2>5
<1>3. ASSUME NEW b \in Bodies, SetRequestBody(b) PROVE ViewsInv'
  <2>1. Grown(store, store', ValueOf(HandedKinds))
    BY <1>3, BodyGrows
  <2>2. marks' = [marks EXCEPT !.body = IF @ < 0 THEN Len(store.values) ELSE @]
    BY <1>3 DEF SetRequestBody
  <2>3. /\ marks'.body = marks.body \/ (marks.body < 0 /\ marks'.body = Len(store.values))
        /\ marks'.query = marks.query
        /\ marks'.headerViews = marks.headerViews /\ marks'.bodyViews = marks.bodyViews
    BY <1>a, <2>2 DEF Marks
  <2> QED
    BY <2>1, <2>3, BesideKinds, ViewsKept
<1>4. CASE ProcessRequestBody
  <2> DEFINE query == marks.query
             viewed == HeaderViews(store, query)
             both == BodyViews(viewed, query)
  <2>1. /\ marks'.body = marks.body /\ marks'.query = marks.query
        /\ Len(store.values) <= Len(store'.values)
    BY <1>4, BodyPhaseGrows DEF Grown
  <2>2. PICK s \in Stores :
           /\ \/ s = store /\ marks' = marks
              \/ s = viewed /\ marks' = [marks EXCEPT !.headerViews = TRUE]
              \/ s = both /\ marks' = [marks EXCEPT !.headerViews = TRUE, !.bodyViews = TRUE]
           /\ (\E d \in Verdicts : Stop(d, s)) \/ RunPhase("RequestBody", s, 0)
    BY <1>4, BodyPhaseStops DEF BodyEnds
  <2>3. Grown(s, store', ValueOf({"resolved"}))
    BY <1>c, <2>2, EndGrows
  <2>4. /\ Apart(viewed.values, Cut) /\ Cut \in Nat
        /\ Has(viewed.values, "argspost") = Has(store.values, "argspost")
        /\ Grown(store, viewed, ValueOf({"argsget", "cookie"})) /\ query <= Len(store.values)
        /\ marks.headerViews => viewed = store
    BY <1>a, ViewedApart
  <2>5. Cut' \in Int /\ Cut <= Cut'
    BY <1>a, <2>1, CutGrows DEF Cut, QueryCut
  <2>6. marks.bodyViews => both = viewed
    BY DEF BodyViews
  <2>7. CASE s = store /\ marks' = marks
    BY <1>b, <2>3, <2>7
  <2>8. CASE s = viewed /\ marks' = [marks EXCEPT !.headerViews = TRUE]
    <3>1. marks'.headerViews /\ marks'.bodyViews = marks.bodyViews
      BY <1>a, <2>8 DEF Marks
    <3>2. ~marks'.bodyViews => Has(s.values, "argspost") = {}
      BY <2>4, <2>8, <3>1 DEF ViewsInv
    <3> HIDE DEF viewed, both
    <3> DEFINE cut == Cut
    <3> HIDE DEF cut
    <3>3. cut \in Nat /\ cut <= Cut' /\ Apart(s.values, cut)
      BY <2>4, <2>5, <2>8 DEF cut
    <3> QED
      BY <2>3, <2>5, <3>1, <3>2, <3>3, ViewsBuilt
  <2>9. CASE s = both /\ marks' = [marks EXCEPT !.headerViews = TRUE, !.bodyViews = TRUE]
    <3>1. marks'.headerViews /\ marks'.bodyViews
      BY <1>a, <2>9 DEF Marks
    <3>2. CASE marks.bodyViews
      <4>1. marks.headerViews
        BY <3>2 DEF ViewsInv
      <4>2. s = store
        BY <2>4, <2>6, <2>9, <3>2, <4>1
      <4> QED
        BY <1>b, <2>1, <2>3, <3>1, <3>2, <4>1, <4>2
    <3>3. CASE ~marks.bodyViews
      <4> DEFINE cut == QueryCut(query, Len(viewed.values))
      <4>1. /\ cut \in Nat /\ Len(viewed.values) \in Nat /\ Apart(both.values, cut)
            /\ Len(store.values) <= Len(viewed.values) /\ Len(viewed.values) <= Len(both.values)
        BY <3>3, BothApart DEF Grown
      <4> HIDE DEF viewed, both
      <4>2. Len(viewed.values) <= Len(store'.values)
        <5>1. Len(both.values) <= Len(store'.values)
          BY <2>3, <2>9 DEF Grown
        <5>2. Len(both.values) \in Nat
          BY <2>9, StoreParts
        <5> QED
          BY <1>a, <4>1, <5>1, <5>2
      <4>3. cut <= Cut'
        BY <1>a, <2>1, <4>1, <4>2 DEF Cut, QueryCut
      <4> HIDE DEF cut, query
      <4>4. Apart(s.values, cut)
        BY <2>9, <4>1
      <4> QED
        BY <2>3, <2>5, <3>1, <4>1, <4>3, <4>4, ViewsBuilt
    <3> QED
      BY <1>a, <3>2, <3>3
  <2> QED
    BY <2>2, <2>7, <2>8, <2>9
<1>5. CASE \/ \E c \in Samples : SetResponseStatus(c) \/ AddResponseHeader(c)
           \/ ProcessResponseHeaders
           \/ \E c \in Chunks : WriteResponseBody(c)
           \/ ProcessResponseBody
  <2>1. Grown(store, store', ValueOf(ResponseKinds \cup {"resolved"})) /\ marks' = marks
    BY <1>5, ResponseBeside
  <2> DEFINE K == ResponseKinds \cup {"resolved"}
  <2>2. K \in SUBSET Beside
    BY BesideKinds
  <2> HIDE DEF K
  <2>3. Grown(store, store', ValueOf(K))
    BY <2>1 DEF K
  <2> QED
    BY <2>1, <2>2, <2>3, ViewsKept
<1>6. CASE Reset
  BY <1>6 DEF Reset, NewMarks, NewStore, ViewsInv, Apart, Has
<1>7. CASE UNCHANGED vars
  BY <1>7 DEF vars, ViewsInv, Cut, QueryCut
<1> QED
  BY <1>1, <1>2, <1>3, <1>4, <1>5, <1>6, <1>7, StepKinds

\* The value i has a view of one kind.
Shown(vs, i, kind) == \E k \in Has(vs, kind) : vs[k].of = i

CoverInv ==
  cfg.ordered =>
    /\ stage \in {"line", "headers"} => ~marks.headerViews /\ marks.body < 0 /\ marks.query < 0
    /\ stage \in {"line", "headers", "body"} => ~marks.bodyViews
    /\ stage = "body" /\ ~decided =>
         /\ marks.query >= 0 /\ (marks.body >= 0 => marks.query <= marks.body)
         /\ "argsget" \in cfg.views =>
              \A i \in 1..marks.query : IsArg(store.values[i]) => Shown(store.values, i, "argsget")
    /\ stage \in {"response", "chunks"} /\ ~decided /\ {"argsget", "argspost"} \subseteq cfg.views =>
         \A i \in 1..Len(store.values) : IsArg(store.values[i]) =>
           Shown(store.values, i, "argsget") \/ Shown(store.values, i, "argspost")

\* A view once recorded stays.
LEMMA ShownKept ==
  ASSUME NEW s \in Stores, NEW t, NEW T, Grown(s, t, T), NEW i, NEW kind, Shown(s.values, i, kind)
  PROVE  Shown(t.values, i, kind)
<1>1. Len(s.values) \in Nat /\ Len(t.values) \in Nat /\ Len(s.values) <= Len(t.values)
  BY StoreParts DEF Grown
<1>2. PICK k \in 1..Len(s.values) : s.values[k].kind = kind /\ s.values[k].of = i
  BY DEF Shown, Has
<1>3. k \in 1..Len(t.values) /\ t.values[k] = s.values[k]
  BY <1>1, <1>2 DEF Grown
<1> QED
  BY <1>2, <1>3 DEF Shown, Has

\* Recording no argument adds none.
LEMMA NoArgs ==
  ASSUME NEW s \in Stores, NEW t, NEW K \in SUBSET Kinds, "arg" \notin K, Grown(s, t, ValueOf(K)),
         NEW i \in 1..Len(t.values), IsArg(t.values[i])
  PROVE  i \in 1..Len(s.values) /\ t.values[i] = s.values[i]
<1>1. Len(s.values) \in Nat /\ Len(t.values) \in Nat
  BY StoreParts DEF Grown
<1>2. i > Len(s.values) => t.values[i].kind \in K
  BY SomeValues DEF Grown
<1>3. i \in 1..Len(s.values)
  BY <1>1, <1>2 DEF IsArg
<1> QED
  BY <1>3 DEF Grown

\* The kinds the phases and the response record are no arguments.
LEMMA KindsWithoutArgs ==
  /\ {"resolved"} \in SUBSET Kinds /\ "arg" \notin {"resolved"}
  /\ {"argsget", "cookie"} \in SUBSET Kinds /\ "arg" \notin {"argsget", "cookie"}
  /\ {"argspost", "joined"} \in SUBSET Kinds /\ "arg" \notin {"argspost", "joined"}
  /\ ResponseKinds \cup {"resolved"} \in SUBSET Kinds /\ "arg" \notin ResponseKinds \cup {"resolved"}
BY DEF Kinds, Views, ResponseKinds

\* A phase that decides nothing was entered undecided.
LEMMA RunUndecided ==
  ASSUME NEW phase, NEW s, NEW start, RunPhase(phase, s, start), decided \in BOOLEAN, ~decided'
  PROVE  ~decided
<1>1. decided => decided' = decided
  BY DEF RunPhase
<1> QED
  BY <1>1

\* The calls about the response leave a decision standing.
LEMMA ResponseStages ==
  ASSUME Types, cfg.ordered,
         \/ \E c \in Samples : SetResponseStatus(c) \/ AddResponseHeader(c)
         \/ ProcessResponseHeaders
         \/ \E c \in Chunks : WriteResponseBody(c)
         \/ ProcessResponseBody
  PROVE  /\ stage \in {"response", "chunks"} /\ stage' \in {"response", "chunks", "done"}
         /\ ~decided' => ~decided \/ stage' = "done"
<1>1. ASSUME NEW c \in Samples, SetResponseStatus(c) \/ AddResponseHeader(c)
      PROVE  stage \in {"response", "chunks"} /\ stage' = stage /\ decided' = decided
  BY <1>1 DEF SetResponseStatus, AddResponseHeader, Supply, At, Judgement
<1>2. CASE ProcessResponseHeaders
  <2>1. stage = "response" /\ stage' \in {"chunks", "done"}
    BY <1>2 DEF ProcessResponseHeaders, Ask, At
  <2>2. ~decided' => ~decided
    BY <1>2, InForce, RunUndecided DEF ProcessResponseHeaders
  <2> QED
    BY <2>1, <2>2
<1>3. ASSUME NEW c \in Chunks, WriteResponseBody(c)
      PROVE  stage = "chunks" /\ stage' \in {"chunks", "done"}
             /\ (decided' = decided \/ decided' = TRUE)
  BY <1>3 DEF WriteResponseBody, Supply, At, Finish
<1>4. CASE ProcessResponseBody
  BY <1>4 DEF ProcessResponseBody, Ask, At
<1> QED
  BY <1>1, <1>2, <1>3, <1>4

\* Every call keeps CoverInv.
LEMMA CoverStep == Types /\ ViewsInv /\ CoverInv /\ [Next]_vars => CoverInv'
<1> SUFFICES ASSUME Types, ViewsInv, CoverInv, [Next]_vars, cfg'.ordered PROVE CoverInv'
  BY DEF CoverInv
<1>a. cfg' = cfg /\ cfg.ordered
  BY StepKinds
<1>b. /\ stage \in {"line", "headers"} => ~marks.headerViews /\ marks.body < 0 /\ marks.query < 0
      /\ stage \in {"line", "headers", "body"} => ~marks.bodyViews
      /\ stage = "body" /\ ~decided =>
           /\ marks.query >= 0 /\ (marks.body >= 0 => marks.query <= marks.body)
           /\ "argsget" \in cfg.views =>
                \A i \in 1..marks.query : IsArg(store.values[i]) => Shown(store.values, i, "argsget")
      /\ stage \in {"response", "chunks"} /\ ~decided /\ {"argsget", "argspost"} \subseteq cfg.views =>
           \A i \in 1..Len(store.values) : IsArg(store.values[i]) =>
             Shown(store.values, i, "argsget") \/ Shown(store.values, i, "argspost")
  BY <1>a DEF CoverInv
<1>c. /\ Len(store.values) \in Nat /\ store \in Stores /\ marks.body \in Int /\ marks.query \in Int
      /\ marks.body <= Len(store.values) /\ marks.query <= Len(store.values)
      /\ marks \in Marks /\ cfg \in Config /\ decided \in BOOLEAN
  BY InForce, StagesOf
<1>1. CASE stage' = "done"
  BY <1>1 DEF CoverInv
<1>2. CASE /\ stage \in {"line", "headers"} /\ stage' \in {"line", "headers"} /\ marks' = marks
  BY <1>2, <1>b DEF CoverInv
<1>3. CASE ProcessRequestHeaders
  <2> DEFINE query == marks'.query
             viewed == HeaderViews(store, query)
  <2>1. stage = "headers" /\ stage' \in {"body", "done"}
    BY <1>3, <1>a DEF ProcessRequestHeaders, Ask, At
  <2>2. /\ marks'.body = marks.body /\ marks'.bodyViews = marks.bodyViews /\ query = Len(store.values)
    BY <1>3, <1>b, <2>1, HeaderPhaseMarks
  <2>3. ASSUME ~decided', "argsget" \in cfg.views, NEW i \in 1..query, IsArg(store'.values[i])
        PROVE  Shown(store'.values, i, "argsget")
    <3>1. RunPhase("RequestHeaders", viewed, 0)
      BY <1>3, <2>3, HeaderPhaseEnds, StopDecides
    <3>2. query \in Int /\ QueryCut(query, Len(store.values)) = query
      BY <1>b, <1>c, <2>1, <2>2 DEF QueryCut
    <3>3. Has(store.values, "argsget") = {} /\ Has(store.values, "argspost") = {} /\ ~marks.headerViews
      BY <1>b, <2>1 DEF ViewsInv
    <3>4. Grown(store, viewed, ValueOf({"argsget", "cookie"}))
      BY <1>c, <2>2, HeaderViewsGrow
    <3>5. viewed \in Stores /\ Len(viewed.values) \in Nat
      BY <3>4, StoreParts DEF Grown
    <3>6. query <= Len(store.values) /\ \A j \in 1..QueryCut(query, Len(store.values)) :
            IsArg(store.values[j]) => \E k \in Has(viewed.values, "argsget") : viewed.values[k].of = j
      BY <1>c, <2>2, <2>3, <3>2, <3>3, HeaderViewsApart
    <3> HIDE DEF viewed, query
    <3>7. "RequestHeaders" \in Phases
      BY DEF Phases, RequestPhases
    <3>8. Grown(viewed, store', ValueOf({"resolved"}))
      BY <3>1, <3>5, <3>7, EndGrows
    <3>9. i \in 1..Len(store.values) /\ i \in 1..Len(viewed.values)
      BY <1>c, <2>2, <3>4, <3>5 DEF Grown
    <3>10. store'.values[i] = viewed.values[i] /\ viewed.values[i] = store.values[i]
      BY <3>4, <3>8, <3>9 DEF Grown
    <3>11. Shown(viewed.values, i, "argsget")
      BY <2>3, <3>2, <3>6, <3>10 DEF Shown
    <3> QED
      BY <3>5, <3>8, <3>11, ShownKept
  <2> QED
    BY <1>a, <1>b, <1>c, <2>1, <2>2, <2>3 DEF CoverInv
<1>4. ASSUME NEW b \in Bodies, SetRequestBody(b) PROVE CoverInv'
  <2>1. /\ stage = "body" /\ stage' = stage /\ marks.body < 0 /\ decided' = decided
        /\ marks' = [marks EXCEPT !.body = IF @ < 0 THEN Len(store.values) ELSE @]
    BY <1>4, <1>a DEF SetRequestBody, Supply, At, Judgement
  <2>2. /\ marks'.body = Len(store.values) /\ marks'.query = marks.query
        /\ marks'.bodyViews = marks.bodyViews
    BY <1>c, <2>1 DEF Marks
  <2>3. Grown(store, store', ValueOf(RequestKinds))
    BY <1>4, BodyGrows
  <2>4. ASSUME ~decided, "argsget" \in cfg.views, NEW i \in 1..marks.query, IsArg(store'.values[i])
        PROVE  Shown(store'.values, i, "argsget")
    <3>1. store'.values[i] = store.values[i]
      BY <1>c, <2>3 DEF Grown
    <3>2. Shown(store.values, i, "argsget")
      BY <1>b, <2>1, <2>4, <3>1
    <3> QED
      BY <1>c, <2>3, <3>2, ShownKept
  <2> QED
    BY <1>a, <1>b, <1>c, <2>1, <2>2, <2>4 DEF CoverInv
<1>5. CASE ProcessRequestBody
  <2> DEFINE viewed == HeaderViews(store, marks.query)
             both == BodyViews(viewed, marks.query)
             cut == QueryCut(marks.query, Len(viewed.values))
  <2>1. stage = "body" /\ stage' \in {"response", "done"}
    BY <1>5, <1>a DEF ProcessRequestBody, Ask, At
  <2>2. ASSUME ~decided', {"argsget", "argspost"} \subseteq cfg.views,
               NEW i \in 1..Len(store'.values), IsArg(store'.values[i])
        PROVE  Shown(store'.values, i, "argsget") \/ Shown(store'.values, i, "argspost")
    <3>1. both \in Stores /\ RunPhase("RequestBody", both, 0)
      BY <1>5, <2>2, BodyPhaseStops, StopDecides DEF BodyEnds
    <3>2. ~decided /\ ~marks.bodyViews
      BY <1>b, <1>c, <2>1, <2>2, <3>1, RunUndecided
    <3>3. /\ cut \in Nat /\ Len(viewed.values) \in Nat
          /\ Grown(store, viewed, ValueOf({"argsget", "cookie"}))
          /\ Grown(viewed, both, ValueOf({"argspost", "joined"}))
          /\ \A j \in 1..Len(viewed.values) : j > cut /\ IsArg(viewed.values[j]) =>
                 \E k \in Has(both.values, "argspost") : both.values[k].of = j
      BY <2>2, <3>2, BothApart
    <3>4. cut = marks.query
      BY <1>b, <1>c, <2>1, <3>2 DEF QueryCut
    <3>5. "RequestBody" \in Phases
      BY DEF Phases, RequestPhases
    <3> HIDE DEF viewed, both, cut
    <3>6. Grown(both, store', ValueOf({"resolved"}))
      BY <3>1, <3>5, EndGrows
    <3>7. viewed \in Stores
      BY <3>3 DEF Grown
    <3>8. i \in 1..Len(both.values) /\ store'.values[i] = both.values[i]
      BY <2>2, <3>1, <3>6, NoArgs, KindsWithoutArgs
    <3>9. i \in 1..Len(viewed.values) /\ both.values[i] = viewed.values[i]
      BY <2>2, <3>3, <3>7, <3>8, NoArgs, KindsWithoutArgs
    <3>10. i \in 1..Len(store.values) /\ viewed.values[i] = store.values[i]
      BY <1>c, <2>2, <3>3, <3>8, <3>9, NoArgs, KindsWithoutArgs
    <3>11. CASE i <= cut
      <4>1. Shown(store.values, i, "argsget")
        BY <1>b, <1>c, <2>1, <2>2, <3>2, <3>4, <3>8, <3>9, <3>10, <3>11
      <4>2. Shown(viewed.values, i, "argsget")
        BY <1>c, <3>3, <4>1, ShownKept
      <4>3. Shown(both.values, i, "argsget")
        BY <3>3, <3>7, <4>2, ShownKept
      <4> QED
        BY <3>1, <3>6, <4>3, ShownKept
    <3>12. CASE i > cut
      <4>1. Shown(both.values, i, "argspost")
        BY <2>2, <3>3, <3>8, <3>9, <3>12 DEF Shown
      <4> QED
        BY <3>1, <3>6, <4>1, ShownKept
    <3> QED
      BY <3>3, <3>11, <3>12
  <2> QED
    BY <1>a, <2>1, <2>2 DEF CoverInv
<1>6. CASE \/ \E c \in Samples : SetResponseStatus(c) \/ AddResponseHeader(c)
           \/ ProcessResponseHeaders
           \/ \E c \in Chunks : WriteResponseBody(c)
           \/ ProcessResponseBody
  <2>1. stage \in {"response", "chunks"} /\ stage' \in {"response", "chunks", "done"}
    BY <1>6, <1>a, ResponseStages
  <2>2. ~decided' => ~decided \/ stage' = "done"
    BY <1>6, <1>a, ResponseStages
  <2>3. Grown(store, store', ValueOf(ResponseKinds \cup {"resolved"})) /\ marks' = marks
    BY <1>6, ResponseBeside
  <2>4. ASSUME ~decided', stage' # "done", {"argsget", "argspost"} \subseteq cfg.views,
               NEW i \in 1..Len(store'.values), IsArg(store'.values[i])
        PROVE  Shown(store'.values, i, "argsget") \/ Shown(store'.values, i, "argspost")
    <3>1. i \in 1..Len(store.values) /\ store'.values[i] = store.values[i]
      BY <1>c, <2>3, <2>4, NoArgs, KindsWithoutArgs
    <3>2. Shown(store.values, i, "argsget") \/ Shown(store.values, i, "argspost")
      BY <1>b, <2>1, <2>2, <2>4, <3>1
    <3> QED
      BY <1>c, <2>3, <3>2, ShownKept
  <2> QED
    BY <1>a, <2>1, <2>4 DEF CoverInv
<1>7. CASE Reset
  BY <1>7 DEF Reset, NewMarks, CoverInv
<1>8. CASE UNCHANGED vars
  BY <1>8 DEF vars, CoverInv
<1> QED
  BY <1>a, <1>2, <1>3, <1>4, <1>5, <1>6, <1>7, <1>8, StepKinds

\* recordHeaderViews and recordBodyViews: an argument is never in ARGS_GET and ARGS_POST at
\* once, whatever order the calls came in, and a request forwarded clean has each of its
\* arguments in one of them.
THEOREM ViewsPartition == Spec => []ViewsPartitionArguments
<1>1. Init => ViewsInv /\ CoverInv
  BY DEF Init, ViewsInv, CoverInv, NewMarks, NewStore, Apart, Has
<1>2. Types /\ ViewsInv /\ CoverInv => ViewsPartitionArguments
  <2> SUFFICES ASSUME Types, ViewsInv, CoverInv PROVE ViewsPartitionArguments
    OBVIOUS
  <2> DEFINE Viewed(i, kind) ==
               \E k \in DOMAIN store.values : store.values[k].kind = kind /\ store.values[k].of = i
  <2>1. \A i, kind : Viewed(i, kind) <=> Shown(store.values, i, kind)
    BY InForce, StoreParts DEF Shown, Has
  <2>2. ASSUME NEW i PROVE ~(Shown(store.values, i, "argsget") /\ Shown(store.values, i, "argspost"))
    <3> SUFFICES ASSUME NEW k \in Has(store.values, "argsget"), NEW l \in Has(store.values, "argspost"),
                        store.values[k].of = i, store.values[l].of = i
                 PROVE  FALSE
      BY DEF Shown
    <3>1. store.values[k].of < store.values[l].of
      BY DEF ViewsInv, Apart
    <3>2. store.values[k].of \in Nat
      BY InForce, StoreParts, ValueParts DEF Has
    <3> QED
      BY <3>1, <3>2
  <2>3. ASSUME NEW i \in DOMAIN store.values, IsArg(store.values[i]), Forwarded, ~decided,
               {"argsget", "argspost"} \subseteq cfg.views
        PROVE  Shown(store.values, i, "argsget") \/ Shown(store.values, i, "argspost")
    BY <2>3, InForce, StoreParts DEF CoverInv, Forwarded
  <2> HIDE DEF Viewed
  <2>4. \A i \in {k \in DOMAIN store.values : IsArg(store.values[k])} :
          /\ ~(Viewed(i, "argsget") /\ Viewed(i, "argspost"))
          /\ Forwarded /\ ~decided /\ {"argsget", "argspost"} \subseteq cfg.views =>
               Viewed(i, "argsget") \/ Viewed(i, "argspost")
    BY <2>1, <2>2, <2>3
  <2> QED
    BY <2>4 DEF ViewsPartitionArguments, Viewed
<1> QED
  BY <1>1, <1>2, Typed, ViewsStep, CoverStep, PTL DEF Spec
-----------------------------------------------------------------------------
(* A payload split over two arguments                                        *)

\* An argument that holds one half of a payload.
Half(v) == IsArg(v) /\ v.content = "half" /\ v.size > 0

\* joinDuplicateArgs scans at most JoinScanLimit values.
Within(s) == s.dropped = {} /\ Len(s.values) <= JoinScanLimit

\* Two halves over one name of the query, and over any two arguments.
SplitLine(vs) ==
  \E i, j \in 1..Len(vs) :
    /\ i # j /\ Half(vs[i]) /\ Half(vs[j])
    /\ vs[i].name = vs[j].name /\ vs[i].name # ""
    /\ vs[i].from = "line" /\ vs[j].from = "line"

\* Two halves among any arguments.
SplitAny(vs) == \E i, j \in 1..Len(vs) : i # j /\ Half(vs[i]) /\ Half(vs[j])

\* An argument the engine reads in which a rule finds a whole payload.
Found(vs) == \E i \in 1..Len(vs) : IsArg(vs[i]) /\ vs[i].content = "block" /\ ~vs[i].inert

\* What recording more values cannot undo.
LEMMA SplitKept ==
  ASSUME NEW s \in Stores, NEW t, NEW T, Grown(s, t, T)
  PROVE  /\ Within(t) => Within(s)
         /\ Noted(s) => Noted(t)
         /\ Found(s.values) => Found(t.values)
         /\ (\A v \in T : IsArg(v) => v.from # "line") => (SplitLine(t.values) => SplitLine(s.values))
         /\ (\A v \in T : ~IsArg(v)) => (SplitAny(t.values) => SplitAny(s.values))
<1>1. Len(s.values) \in Nat /\ Len(t.values) \in Nat /\ Len(s.values) <= Len(t.values)
  BY StoreParts DEF Grown
<1>2. /\ \A k \in 1..Len(s.values) : k \in 1..Len(t.values) /\ t.values[k] = s.values[k]
      /\ \A k \in 1..Len(t.values) : k \in 1..Len(s.values) \/ t.values[k] \in T
  <2>1. \A k \in 1..Len(t.values) : k \in 1..Len(s.values) \/ k > Len(s.values)
    BY <1>1
  <2> QED
    BY <1>1, <2>1 DEF Grown
<1>3. Within(t) => Within(s)
  <2>1. s.dropped \subseteq t.dropped /\ JoinScanLimit \in Nat
    BY ConstantsAssumption DEF Grown
  <2> QED
    BY <1>1, <2>1 DEF Within
<1>4. Noted(s) => Noted(t)
  BY DEF Grown, Noted
<1>5. Found(s.values) => Found(t.values)
  BY <1>2 DEF Found
<1>6. ASSUME \A v \in T : IsArg(v) => v.from # "line", SplitLine(t.values) PROVE SplitLine(s.values)
  <2>1. PICK i, j \in 1..Len(t.values) :
           /\ i # j /\ Half(t.values[i]) /\ Half(t.values[j])
           /\ t.values[i].name = t.values[j].name /\ t.values[i].name # ""
           /\ t.values[i].from = "line" /\ t.values[j].from = "line"
    BY <1>6 DEF SplitLine
  <2>2. i \in 1..Len(s.values) /\ j \in 1..Len(s.values)
    BY <1>2, <1>6, <2>1 DEF Half
  <2>3. t.values[i] = s.values[i] /\ t.values[j] = s.values[j]
    BY <1>2, <2>2
  <2> QED
    BY <2>1, <2>2, <2>3 DEF SplitLine
<1>7. ASSUME \A v \in T : ~IsArg(v), SplitAny(t.values) PROVE SplitAny(s.values)
  <2>1. PICK i, j \in 1..Len(t.values) : i # j /\ Half(t.values[i]) /\ Half(t.values[j])
    BY <1>7 DEF SplitAny
  <2>2. i \in 1..Len(s.values) /\ j \in 1..Len(s.values)
    BY <1>2, <1>7, <2>1 DEF Half
  <2>3. t.values[i] = s.values[i] /\ t.values[j] = s.values[j]
    BY <1>2, <2>2
  <2> QED
    BY <2>1, <2>2, <2>3 DEF SplitAny
<1> QED
  BY <1>3, <1>4, <1>5, <1>6, <1>7

\* Two halves laid end to end are a whole payload.
LEMMA TwoHalves ==
  ASSUME NEW vs \in Seq(AnyValue), NEW S, NEW i \in 1..Len(vs), NEW j \in 1..Len(vs),
         i \in S, j \in S, i # j, vs[i].content = "half", vs[j].content = "half"
  PROVE  LET group == Picked(vs, S) IN
         /\ group \in Seq(AnyValue) /\ Combined(ContentsOf(group)) = "block"
         /\ SizeOf(group) \in Nat /\ vs[i].size <= SizeOf(group)
<1> DEFINE n == Len(vs)
           group == Picked(vs, S)
           contents == ContentsOf(group)
           halves == {x \in DOMAIN contents : contents[x] = "half"}
<1>1. n \in Nat /\ \A k \in 1..n : vs[k] \in AnyValue
  OBVIOUS
<1>2. group \in Seq(AnyValue) /\ \E p : Places(p, group, vs, S \cap 1..n)
  BY <1>1, PickedPlaces
<1>3. PICK p : Places(p, group, vs, S \cap 1..n)
  BY <1>2
<1>4. i \in S \cap 1..n /\ j \in S \cap 1..n
  OBVIOUS
<1> HIDE DEF group, n
<1>5. PICK x \in 1..Len(p) : p[x] = i
  BY <1>3, <1>4 DEF Places
<1>6. PICK y \in 1..Len(p) : p[y] = j
  BY <1>3, <1>4 DEF Places
<1>7. Len(p) = Len(group) /\ group[x] = vs[i] /\ group[y] = vs[j] /\ x # y
  BY <1>3, <1>5, <1>6 DEF Places
<1>8. DOMAIN group = 1..Len(group) /\ Len(group) \in Nat
  BY <1>2
<1>9. DOMAIN contents = 1..Len(group) /\ \A k \in 1..Len(group) : contents[k] = group[k].content
  BY <1>8 DEF ContentsOf
<1> HIDE DEF contents
<1>10. IsFiniteSet(halves) /\ {x, y} \subseteq halves
  <2>1. halves \subseteq 1..Len(group)
    BY <1>9
  <2>2. IsFiniteSet(1..Len(group))
    BY <1>8, FS_Interval
  <2>3. x \in halves /\ y \in halves
    BY <1>5, <1>6, <1>7, <1>9
  <2> QED
    BY <2>1, <2>2, <2>3, FS_Subset
<1> HIDE DEF halves
<1>11. Cardinality(halves) > 1
  <2>1. IsFiniteSet({x}) /\ Cardinality({x}) = 1
    BY FS_Singleton
  <2> DEFINE one == {x}
             two == one \cup {y}
  <2>2. two = {x, y} /\ y \notin one
    BY <1>7
  <2>3. Cardinality({x, y}) = 2
    <3>1. IsFiniteSet(one) /\ Cardinality(one) = 1
      BY <2>1
    <3> HIDE DEF one
    <3>2. Cardinality(two) = Cardinality(one) + 1
      BY <2>2, <3>1, FS_AddElement
    <3> HIDE DEF two
    <3> QED
      BY <2>2, <3>1, <3>2
  <2>4. Cardinality({x, y}) <= Cardinality(halves) /\ Cardinality(halves) \in Nat
    BY <1>10, FS_Subset, FS_CardinalityType
  <2> QED
    BY <2>3, <2>4
<1>12. Combined(contents) = "block"
  BY <1>11 DEF Combined, halves
<1>13. SizeOf(group) \in Nat /\ vs[i].size <= SizeOf(group)
  BY <1>2, <1>5, <1>7, SizeOfSums
<1> QED
  BY <1>2, <1>12, <1>13 DEF group, contents

\* PutAll records each item or passes it over.
LEMMA PutAllRecords ==
  ASSUME cfg \in Config, NEW s \in Stores, NEW items \in Seq(AnyValue), NEW x \in 1..Len(items)
  PROVE  LET t == PutAll(s, items)
         IN  (\E k \in 1..Len(t.values) : t.values[k] = items[x])
               \/ PassedOver(t, items[x])
<1> DEFINE n == Len(items)
           v == items[x]
           R(t) == (\E k \in 1..Len(t.values) : t.values[k] = v) \/ PassedOver(t, v)
<1>1. n \in Nat /\ (\A k \in 1..n : items[k] \in AnyValue) /\ x \in 1..n /\ AnyValue \in SUBSET AnyValue
  OBVIOUS
<1>2. PICK f : Recorded(f, s, items, n) /\ PutAll(s, items) = f[n]
  BY PutAllUnfolds
<1> HIDE DEF n
<1> DEFINE K == {k \in 0..n : f[k] \in Stores /\ (x <= k => R(f[k]))}
<1>3. 0 \in K
  BY <1>1, <1>2 DEF Recorded
<1>4. \A k \in 1..n : k - 1 \in K => k \in K
  <2> SUFFICES ASSUME NEW k \in 1..n, k - 1 \in K PROVE k \in K
    OBVIOUS
  <2> DEFINE t == f[k - 1]
             u == f[k]
             w == items[k]
  <2>1. t \in Stores /\ (x <= k - 1 => R(t)) /\ u = Put(t, w) /\ w \in AnyValue /\ k \in 0..n
    BY <1>1, <1>2 DEF Recorded
  <2> HIDE DEF t, u, w, v
  <2>2. /\ Grown(t, u, AnyValue)
        /\ u.values = Append(t.values, w) \/ (u.values = t.values /\ PassedOver(u, w))
    BY <1>1, <2>1, PutGrows
  <2>3. u \in Stores /\ Len(t.values) \in Nat /\ Len(u.values) \in Nat /\ t.values \in Seq(AnyValue)
    BY <2>1, <2>2, StoreParts DEF Grown
  <2>4. ASSUME R(t) PROVE R(u)
    <3>1. \A j \in 1..Len(t.values) : j \in 1..Len(u.values) /\ u.values[j] = t.values[j]
      BY <2>2, <2>3 DEF Grown
    <3>2. PassedOver(t, v) => PassedOver(u, v)
      BY <2>2 DEF Grown, PassedOver
    <3> QED
      BY <2>4, <3>1, <3>2
  <2>5. ASSUME x = k PROVE R(u)
    <3>1. w = v
      BY <2>5 DEF w, v
    <3>2. u.values = Append(t.values, w) => u.values[Len(u.values)] = w /\ Len(u.values) \in 1..Len(u.values)
      BY <2>3
    <3> QED
      BY <2>2, <3>1, <3>2
  <2>6. x <= k => x <= k - 1 \/ x = k
    BY <1>1
  <2>7. x <= k => R(u)
    BY <2>1, <2>4, <2>5, <2>6
  <2> HIDE DEF R
  <2> QED
    BY <2>1, <2>3, <2>7 DEF u
<1> HIDE DEF K
<1>5. n \in K
  <2>1. 0..n \subseteq K
    BY <1>1, <1>3, <1>4, UpTo
  <2> QED
    BY <1>1, <2>1
<1>6. R(f[n])
  BY <1>1, <1>5 DEF K
<1> QED
  BY <1>2, <1>6 DEF v

\* What SetRequestLine joins: two halves over one name are a whole payload of that name.
LEMMA LineJoins ==
  ASSUME Types, NEW l \in Lines, SetRequestLine(l), marks.body < 0,
         Within(store'), SplitLine(store'.values)
  PROVE  Noted(store') \/ Found(store'.values)
<1> DEFINE op == IF cfg.schema # "none" /\ l.op # {} THEN l.op ELSE route.op
           v == Value("line", l.content, 1)
           first == Put(store, v)
           items == ArgItems(Kept(l.args), op, "line")
           put == PutAll(first, items)
           vs == put.values
           dup == Duplicates(vs)
           J == {w \in ValueOf({"arg"}) : w.from = "join"}
<1>1. store' = PutAll(put, dup)
  BY DEF SetRequestLine
<1>2. l.content \in Severities /\ l.args \in Seq(Argument)
  BY ConstantsAssumption DEF Line
<1>3. /\ cfg \in Config /\ store \in Stores /\ AnyValue \in SUBSET AnyValue
      /\ v \in AnyValue /\ marks.body \in Int /\ J \in SUBSET AnyValue
  <2>1. v \in ValueOf({"line"}) /\ ValueOf({"line"}) \subseteq AnyValue
    BY <1>2, KindsKnown, SomeValues DEF Kinds
  <2>2. ValueOf({"arg"}) \subseteq AnyValue
    BY KindsKnown, SomeValues
  <2> QED
    BY <2>1, <2>2, InForce
<1>4. items \in Seq(AnyValue)
  <2>1. Kept(l.args) \in Seq(Argument)
    BY <1>2, InForce, KeptType
  <2> HIDE DEF op
  <2>2. items \in Seq(ValueOf({"arg", "argname"}))
    BY <2>1, ArgItemsType
  <2> HIDE DEF items
  <2>3. ValueOf({"arg", "argname"}) \subseteq AnyValue
    BY KindsKnown, SomeValues
  <2> QED
    BY <2>2, <2>3, Wider
<1> HIDE DEF v, items
<1>5. first \in Stores
  BY <1>3, PutGrows DEF Grown
<1> HIDE DEF first
<1>6. put \in Stores
  BY <1>3, <1>4, <1>5, PutAllGrows DEF Grown
<1> HIDE DEF put
<1>7. /\ vs \in Seq(AnyValue) /\ Len(vs) \in Nat /\ DOMAIN vs = 1..Len(vs)
      /\ \A k \in 1..Len(vs) : vs[k] \in AnyValue
  BY <1>6, StoreParts
<1> HIDE DEF vs
<1>8. dup \in Seq(J)
  BY <1>3, <1>7, DuplicatesType
<1>9. Len(vs) <= JoinScanLimit =>
        \A i \in Firsts(vs, 0) : \E x \in 1..Len(dup) : dup[x] = OneName(vs, 0, i)
  <2> DEFINE lo == IF marks.body < 0 THEN 0 ELSE marks.body
  <2>1. Len(vs) - lo <= JoinScanLimit =>
          \A i \in Firsts(vs, lo) : \E x \in 1..Len(dup) : dup[x] = OneName(vs, lo, i)
    BY <1>3, <1>7, DuplicatesType
  <2>2. lo = 0
    OBVIOUS
  <2> HIDE DEF lo, dup
  <2>3. Len(vs) - 0 <= JoinScanLimit =>
          \A i \in Firsts(vs, 0) : \E x \in 1..Len(dup) : dup[x] = OneName(vs, 0, i)
    BY <2>1, <2>2
  <2> QED
    BY <1>7, <2>3
<1> HIDE DEF dup
<1>10. Grown(put, store', J)
  BY <1>1, <1>3, <1>6, <1>8, PutAllGrows
<1>11. SplitLine(vs) /\ Within(put)
  <2>1. \A w \in J : IsArg(w) => w.from # "line"
    OBVIOUS
  <2> QED
    BY <1>6, <1>10, <2>1, SplitKept DEF vs
<1>12. PICK i, j \in 1..Len(vs) :
          /\ i # j /\ Half(vs[i]) /\ Half(vs[j])
          /\ vs[i].name = vs[j].name /\ vs[i].name # ""
  BY <1>11 DEF SplitLine
<1> DEFINE S == SameName(vs, 0, i)
           f == Min(S)
<1>13. i \in S /\ j \in S /\ S \in SUBSET Nat /\ S \subseteq 1..Len(vs)
  <2>1. \A k \in S : k \in 0 + 1 .. Len(vs)
    BY DEF SameName
  <2>2. \A k \in 1..Len(vs) : k \in 0 + 1 .. Len(vs)
    BY <1>7
  <2>3. i \in S /\ j \in S
    BY <1>12, <2>2 DEF SameName, Half
  <2> HIDE DEF S
  <2> QED
    BY <1>7, <2>1, <2>3
<1>14. f \in S /\ \A k \in S : f <= k
  BY <1>13, Least
<1> HIDE DEF f
<1>15. SameName(vs, 0, f) = S /\ vs[f].name = vs[i].name /\ IsArg(vs[f]) /\ f \in 1..Len(vs)
  BY <1>13, <1>14 DEF SameName
<1>16. f \in Firsts(vs, 0)
  <2>1. S # {f}
    <3>1. i # j /\ i \in S /\ j \in S
      BY <1>12, <1>13
    <3> HIDE DEF S
    <3> QED
      BY <3>1
  <2>2. f \in 0 + 1 .. Len(vs)
    BY <1>15
  <2> HIDE DEF S
  <2> QED
    BY <1>12, <1>14, <1>15, <2>1, <2>2 DEF Firsts
<1>17. PICK x \in 1..Len(dup) : dup[x] = OneName(vs, 0, f)
  BY <1>9, <1>11, <1>16 DEF Within, vs
<1> DEFINE whole == OneName(vs, 0, f)
<1>18. whole.content = "block" /\ IsArg(whole) /\ ~whole.inert /\ whole.name # ""
  <2> DEFINE group == Picked(vs, S)
             w == Joined("arg", group)
  <2> HIDE DEF S
  <2>1. group \in Seq(AnyValue) /\ Combined(ContentsOf(group)) = "block"
    BY <1>7, <1>12, <1>13, TwoHalves DEF Half
  <2>2. whole = [w EXCEPT !.size = @ + Len(group) - 1, !.name = vs[f].name, !.from = "join"]
    BY <1>15 DEF OneName
  <2>3. w.content = "block" /\ w.kind = "arg" /\ w.inert = FALSE
    BY <2>1 DEF Joined, Value
  <2>4. w \in ValueOf({"arg"})
    BY <2>1, JoinedType, KindsKnown DEF Kinds
  <2> HIDE DEF w, group
  <2> QED
    BY <1>12, <1>15, <2>2, <2>3, <2>4 DEF ValueOf, IsArg
<1>19. (\E k \in 1..Len(store'.values) : store'.values[k] = dup[x])
         \/ PassedOver(store', dup[x])
  <2>1. dup \in Seq(AnyValue)
    BY <1>3, <1>8, Wider
  <2> QED
    BY <1>1, <1>3, <1>6, <2>1, PutAllRecords
<1>20. CASE \E k \in 1..Len(store'.values) : store'.values[k] = dup[x]
  BY <1>17, <1>18, <1>20 DEF Found
<1>21. CASE PassedOver(store', dup[x])
  <2>1. dup[x].kind = "arg" /\ Keyed(dup[x])
    BY <1>17, <1>18 DEF IsArg, Keyed
  <2>2. "arg" \in store'.oversize
    BY <1>21, <2>1 DEF Within, PassedOver
  <2> QED
    BY <2>2 DEF Noted
<1> QED
  BY <1>19, <1>20, <1>21
\* A sequence with more behind it is at least as long.
LEMMA Longer ==
  ASSUME NEW T, NEW U, NEW p \in Seq(T), NEW q \in Seq(U), NEW r, r = p \o q
  PROVE  Len(p) <= Len(r) /\ Len(r) \in Nat
BY SMT

\* What recordJoinedArgs joins: two halves among the arguments end the body phase.
LEMMA BodyJoins ==
  ASSUME Types, ~marks.bodyViews, NEW viewed \in Stores, NEW T, Grown(store, viewed, T),
         RunPhase("RequestBody", BodyViews(viewed, marks.query), 0),
         ~Noted(BodyViews(viewed, marks.query)), ~decided', NoTerminalExcepted,
         Within(store'), "joined" \in cfg.views
  PROVE  ~SplitAny(viewed.values)
<1> SUFFICES ASSUME SplitAny(viewed.values) PROVE FALSE
  OBVIOUS
<1> DEFINE vs == viewed.values
           both == BodyViews(viewed, marks.query)
           S == {k \in DOMAIN vs : IsArg(vs[k])}
           group == Picked(vs, S)
           whole == Whole(vs)
           posted == PushAll(viewed, PostItems(vs, marks.query))
           W == Window("RequestBody", 0)
<1>1. /\ cfg \in Config /\ Len(store.values) \in Nat /\ marks.body \in Int /\ marks.query \in Int
      /\ marks.body <= Len(store.values) /\ marks.query <= Len(store.values)
  BY InForce, StagesOf
<1>2. /\ vs \in Seq(AnyValue) /\ Len(vs) \in Nat /\ DOMAIN vs = 1..Len(vs)
      /\ Len(store.values) <= Len(vs)
  BY StoreParts DEF Grown
<1>3. marks.query <= Len(vs)
  BY <1>1, <1>2
<1>4. /\ posted \in Stores /\ posted.values = vs \o PostItems(vs, marks.query)
      /\ whole.size > 0 => both = Put(posted, whole)
  BY <1>1, <1>3, BodyViewsGrow
<1>5. Len(vs) <= Len(posted.values) /\ Len(posted.values) \in Nat
  <2>1. PostItems(vs, marks.query) \in Seq(ValueOf({"argspost"}))
    BY <1>1, <1>2, <1>3, PostItemsType
  <2> HIDE DEF vs, posted
  <2> QED
    BY <1>2, <1>4, <2>1, Longer
<1>6. PICK i, j \in 1..Len(vs) : i # j /\ Half(vs[i]) /\ Half(vs[j])
  BY DEF SplitAny
<1>7. i \in S /\ j \in S
  BY <1>2, <1>6 DEF Half
<1>8. whole = Joined("joined", group)
  BY DEF Whole
<1>9. whole \in ValueOf({"joined"}) /\ {"joined"} \in SUBSET Kinds
  BY <1>2, WholeType, KindsWithoutArgs DEF Kinds, Views
<1> HIDE DEF vs, both, posted, whole, S
<1>10. /\ Combined(ContentsOf(group)) = "block"
       /\ SizeOf(group) \in Nat /\ vs[i].size <= SizeOf(group) /\ vs[i].size > 0 /\ vs[i].size \in Nat
  <2>1. vs[i].content = "half" /\ vs[j].content = "half" /\ vs[i].size > 0 /\ vs[i] \in AnyValue
    BY <1>2, <1>6 DEF Half
  <2>2. Combined(ContentsOf(group)) = "block" /\ SizeOf(group) \in Nat /\ vs[i].size <= SizeOf(group)
    BY <1>2, <1>6, <1>7, <2>1, TwoHalves
  <2> QED
    BY <2>1, <2>2, ValueParts
<1> HIDE DEF group
<1>11. /\ whole.content = "block" /\ whole.kind = "joined" /\ ~whole.inert /\ whole.size > 0
  <2>1. /\ whole.content = Combined(ContentsOf(group)) /\ whole.kind = "joined"
        /\ whole.inert = FALSE /\ whole.size = SizeOf(group)
    BY <1>8 DEF Joined, Value
  <2>2. SizeOf(group) > 0
    BY <1>10
  <2> QED
    BY <1>10, <2>1, <2>2
<1>12. both = Put(posted, whole)
  BY <1>4, <1>11
<1>13. /\ Grown(posted, both, ValueOf({"joined"}))
       /\ \/ both.values = Append(posted.values, whole)
          \/ "joined" \in both.oversize \cup both.dropped
  <2>1. ValueOf({"joined"}) \in SUBSET AnyValue
    BY <1>9, SomeValues
  <2> QED
    BY <1>1, <1>4, <1>9, <1>11, <1>12, <2>1, PutGrows DEF PassedOver, Keyed
<1>14. both \in Stores
  BY <1>13 DEF Grown
<1>15. RunPhase("RequestBody", both, 0) /\ ~Noted(both) /\ "RequestBody" \in Phases
  BY DEF both, vs, Phases, RequestPhases
<1>16. Grown(both, store', ValueOf({"resolved"}))
  BY <1>14, <1>15, EndGrows
<1>17. both.values = Append(posted.values, whole)
  <2>1. "joined" \notin both.dropped
    BY <1>16 DEF Grown, Within
  <2>2. "joined" \notin both.oversize
    BY <1>15 DEF Noted
  <2> QED
    BY <1>13, <2>1, <2>2
<1> DEFINE k == Len(posted.values) + 1
<1>18. k \in 1..Len(both.values) /\ both.values[k] = whole
  <2>1. posted.values \in Seq(AnyValue)
    BY <1>4, StoreParts
  <2> QED
    BY <1>5, <1>17, <2>1
<1>19. store'.values[k] = whole /\ k \in 1..Len(store'.values)
  <2>1. Len(both.values) \in Nat /\ Len(store'.values) \in Nat /\ Len(both.values) <= Len(store'.values)
    BY <1>14, <1>16, StoreParts DEF Grown
  <2> QED
    BY <1>16, <1>18, <2>1 DEF Grown
<1>20. W \in Nat /\ W < k
  <2>1. W = 0 \/ (marks.body > 0 /\ W = marks.body)
    BY DEF Window, ResponsePhases
  <2> QED
    BY <1>1, <1>2, <1>5, <2>1 DEF vs
<1>21. k \in Live(store'.values, W)
  BY <1>5, <1>11, <1>19, <1>20 DEF Live
<1>22. ~(store'.values[k].content = "block" /\ Reads("RequestBody", store'.values[k].kind))
  BY <1>14, <1>15, <1>21, CleanRun
<1>23. Reads("RequestBody", "joined")
  BY DEF Reads, ResponseKinds, ResponsePhases
<1> QED
  BY <1>11, <1>19, <1>22, <1>23

\* After the request line two halves over one name are found or too large, and past the
\* header phase a request that goes on has none; past the body phase it has no two halves
\* at all where ARGS_JOINED is read.
SplitInv ==
  cfg.ordered =>
    /\ stage = "headers" /\ Within(store) /\ SplitLine(store.values) =>
         Noted(store) \/ Found(store.values)
    /\ ~decided /\ NoTerminalExcepted /\ Within(store) =>
         /\ stage \in {"body", "response", "chunks"} => ~SplitLine(store.values)
         /\ stage \in {"response", "chunks"} /\ "joined" \in cfg.views => ~SplitAny(store.values)

\* A call that adds no argument of the query.
LEMMA SplitTold ==
  ASSUME Types, SplitInv, cfg.ordered, cfg' = cfg, stage \in {"headers", "body"}, stage' = stage,
         decided' = decided, NEW T, Grown(store, store', T), \A v \in T : IsArg(v) => v.from # "line"
  PROVE  SplitInv'
<1>1. /\ Within(store') => Within(store)
      /\ Noted(store) => Noted(store')
      /\ Found(store.values) => Found(store'.values)
      /\ SplitLine(store'.values) => SplitLine(store.values)
  BY InForce, SplitKept
<1> QED
  BY <1>1 DEF SplitInv, NoTerminalExcepted

\* The calls between the request line and the header phase.
LEMMA HeadersTold ==
  ASSUME Types, SplitInv, cfg.ordered,
         \/ \E h \in Headers : AddRequestHeader(h)
         \/ \E a \in Arguments : AddArgument(a)
         \/ \E c \in Samples : AddResolver(c)
  PROVE  SplitInv'
<1> DEFINE T == {v \in AnyValue : IsArg(v) => v.from # "line"}
<1>1. /\ cfg \in Config /\ store \in Stores /\ T \in SUBSET AnyValue
      /\ \A v \in T : IsArg(v) => v.from # "line"
  BY InForce
<1>2. ASSUME NEW h \in Headers, AddRequestHeader(h) PROVE Grown(store, store', T)
  <2> DEFINE v == [Value("header", h.content, h.size) EXCEPT !.name = h.name, !.cookies = h.cookies]
  <2>1. h.content \in Severities /\ h.size \in Nat /\ h.cookies \in Nat /\ h.name \in STRING
    BY ConstantsAssumption DEF Header
  <2>2. v \in T
    BY <2>1 DEF Value, AnyValue, ValueOf, Names, Kinds, IsArg
  <2>3. store' = store \/ store' = Put(store, v)
    BY <1>2 DEF AddRequestHeader
  <2> HIDE DEF v, T
  <2> QED
    BY <1>1, <2>2, <2>3, PutGrows, GrownNothing
<1>3. ASSUME NEW a \in Arguments, AddArgument(a) PROVE Grown(store, store', T)
  <2> DEFINE items == ArgItems(Kept(<<a>>), route.op, "call")
  <2>1. a \in Argument
    BY ConstantsAssumption
  <2>2. <<a>> \in Seq(Argument)
    BY <2>1
  <2>3. Kept(<<a>>) \in Seq(Argument)
    BY <2>2, InForce, KeptType
  <2>4. \A b \in Argument : ArgValue(b, route.op, "call") \in T /\ NameValue(b) \in T
    <3> TAKE b \in Argument
    <3>1. /\ ArgValue(b, route.op, "call") \in ValueOf({"arg"})
          /\ ArgValue(b, route.op, "call").from = "call"
          /\ NameValue(b) \in ValueOf({"argname"})
      BY ArgValueType
    <3>2. ValueOf({"arg"}) \subseteq AnyValue /\ ValueOf({"argname"}) \subseteq AnyValue
      BY KindsKnown, SomeValues DEF Kinds
    <3>3. NameValue(b).kind = "argname"
      BY DEF NameValue, Value
    <3> QED
      BY <3>1, <3>2, <3>3 DEF IsArg
  <2>5. store' = PutAll(store, items)
    BY <1>3 DEF AddArgument
  <2> HIDE DEF T
  <2>6. items \in Seq(T)
    BY <2>3, <2>4, ArgItemsIn
  <2> HIDE DEF items
  <2> QED
    BY <1>1, <2>5, <2>6, PutAllGrows
<1>4. ASSUME NEW c \in Samples, AddResolver(c) PROVE Grown(store, store', T)
  <2>1. store' = store
    BY <1>4 DEF AddResolver
  <2> HIDE DEF T
  <2> QED
    BY <1>1, <2>1, GrownNothing
<1>5. /\ stage = "headers" /\ stage' = stage /\ decided' = decided /\ cfg' = cfg
  BY DEF AddRequestHeader, AddArgument, AddResolver, Supply, At, Judgement
<1>6. Grown(store, store', T)
  BY <1>2, <1>3, <1>4
<1> HIDE DEF T
<1> QED
  BY <1>1, <1>5, <1>6, SplitTold

\* Every call keeps SplitInv.
LEMMA SplitStep == Types /\ CoverInv /\ SplitInv /\ [Next]_vars => SplitInv'
<1> SUFFICES ASSUME Types, CoverInv, SplitInv, [Next]_vars, cfg'.ordered PROVE SplitInv'
  BY DEF SplitInv
<1>a. cfg' = cfg /\ cfg.ordered
  BY StepKinds
<1>b. /\ stage \in {"line", "headers"} => marks.body < 0
      /\ stage \in {"line", "headers", "body"} => ~marks.bodyViews
  BY <1>a DEF CoverInv
<1>c. /\ stage = "headers" /\ Within(store) /\ SplitLine(store.values) =>
           Noted(store) \/ Found(store.values)
      /\ ~decided /\ NoTerminalExcepted /\ Within(store) =>
           /\ stage \in {"body", "response", "chunks"} => ~SplitLine(store.values)
           /\ stage \in {"response", "chunks"} /\ "joined" \in cfg.views => ~SplitAny(store.values)
  BY <1>a DEF SplitInv
<1>d. /\ Len(store.values) \in Nat /\ store \in Stores /\ decided \in BOOLEAN
      /\ marks.query \in Int /\ marks.query <= Len(store.values) /\ marks.body \in Int
  BY InForce, StagesOf
<1>e. NoTerminalExcepted' <=> NoTerminalExcepted
  BY <1>a DEF NoTerminalExcepted
<1>1. CASE stage' \in {"line", "done"}
  BY <1>1 DEF SplitInv
<1>2. CASE SetRemoteAddr
  <2>1. stage' = "line"
    BY <1>2, <1>a DEF SetRemoteAddr, Supply, At
  <2> QED
    BY <1>1, <2>1
<1>3. ASSUME NEW l \in Lines, SetRequestLine(l) PROVE SplitInv'
  <2>1. stage = "line" /\ stage' = "headers"
    BY <1>3, <1>a DEF SetRequestLine, Supply, At
  <2>2. Within(store') /\ SplitLine(store'.values) => Noted(store') \/ Found(store'.values)
    BY <1>3, <1>b, <2>1, LineJoins
  <2> QED
    BY <2>1, <2>2 DEF SplitInv
<1>4. CASE \/ \E h \in Headers : AddRequestHeader(h)
           \/ \E a \in Arguments : AddArgument(a)
           \/ \E c \in Samples : AddResolver(c)
  BY <1>4, <1>a, HeadersTold
<1>5. CASE ProcessRequestHeaders
  <2>1. stage = "headers" /\ stage' \in {"body", "done"}
    BY <1>5, <1>a DEF ProcessRequestHeaders, Ask, At
  <2>2. ASSUME ~decided', NoTerminalExcepted, Within(store'), SplitLine(store'.values) PROVE FALSE
    <3>1. PICK s \in Stores :
             /\ Grown(store, s, ValueOf({"argsget", "cookie"}))
             /\ ~Noted(store) /\ RunPhase("RequestHeaders", s, 0)
      BY <1>5, <2>2, HeaderPhaseEnds, StopDecides
    <3>2. "RequestHeaders" \in Phases /\ Window("RequestHeaders", 0) = 0 /\ 0 \in Nat
      BY DEF Phases, RequestPhases, ResponsePhases, Window
    <3>3. Grown(s, store', ValueOf({"resolved"}))
      BY <3>1, <3>2, EndGrows
    <3> DEFINE R == ValueOf({"resolved"})
               V == ValueOf({"argsget", "cookie"})
    <3>4. (\A v \in R : IsArg(v) => v.from # "line") /\ (\A v \in V : IsArg(v) => v.from # "line")
      BY SomeValues, KindsWithoutArgs DEF IsArg
    <3> HIDE DEF R, V
    <3>5. Grown(s, store', R) /\ Grown(store, s, V)
      BY <3>1, <3>3 DEF R, V
    <3>6. SplitLine(s.values) /\ Within(s) /\ (Found(s.values) => Found(store'.values))
      BY <2>2, <3>1, <3>4, <3>5, SplitKept
    <3>7. SplitLine(store.values) /\ Within(store) /\ (Found(store.values) => Found(s.values))
      BY <1>d, <3>4, <3>5, <3>6, SplitKept
    <3>8. Found(store'.values)
      BY <1>c, <2>1, <3>1, <3>6, <3>7
    <3>9. PICK i \in 1..Len(store'.values) :
             IsArg(store'.values[i]) /\ store'.values[i].content = "block" /\ ~store'.values[i].inert
      BY <3>8 DEF Found
    <3>10. i \in Live(store'.values, 0)
      BY <3>9 DEF Live
    <3>11. ~(store'.values[i].content = "block" /\ Reads("RequestHeaders", store'.values[i].kind))
      BY <2>2, <3>1, <3>2, <3>10, CleanRun
    <3>12. Reads("RequestHeaders", "arg")
      BY DEF Reads, ResponseKinds, ResponsePhases
    <3> QED
      BY <3>9, <3>11, <3>12 DEF IsArg
  <2> QED
    BY <1>a, <1>e, <2>1, <2>2 DEF SplitInv
<1>6. ASSUME NEW b \in Bodies, SetRequestBody(b) PROVE SplitInv'
  <2>1. stage = "body" /\ stage' = stage /\ decided' = decided
    BY <1>6, <1>a DEF SetRequestBody, Supply, At, Judgement
  <2> DEFINE T == FromBody(HandedKinds)
  <2>2. Grown(store, store', T)
    BY <1>6, BodyGrows
  <2>3. \A v \in T : IsArg(v) => v.from # "line"
    BY DEF FromBody
  <2> HIDE DEF T
  <2> QED
    BY <1>a, <2>1, <2>2, <2>3, SplitTold
<1>7. CASE ProcessRequestBody
  <2> DEFINE viewed == HeaderViews(store, marks.query)
             both == BodyViews(viewed, marks.query)
             R == ValueOf({"resolved"})
             V == ValueOf({"argsget", "cookie"})
             P == ValueOf({"argspost", "joined"})
  <2>1. stage = "body" /\ stage' \in {"response", "done"} /\ ~marks.bodyViews
    BY <1>7, <1>a, <1>b DEF ProcessRequestBody, Ask, At
  <2>2. ASSUME ~decided', NoTerminalExcepted, Within(store')
        PROVE  ~SplitLine(store'.values) /\ ("joined" \in cfg.views => ~SplitAny(store'.values))
    <3>1. both \in Stores /\ RunPhase("RequestBody", both, 0) /\ ~Noted(both)
      BY <1>7, <2>2, BodyPhaseStops, StopDecides DEF BodyEnds
    <3>2. ~decided
      BY <1>d, <2>2, <3>1, RunUndecided
    <3>3. "RequestBody" \in Phases
      BY DEF Phases, RequestPhases
    <3>4. Grown(both, store', R)
      BY <3>1, <3>3, EndGrows
    <3>5. Grown(store, viewed, V)
      BY <1>d, HeaderViewsGrow
    <3>6. viewed \in Stores /\ marks.query <= Len(viewed.values) /\ cfg \in Config
      BY <1>d, <3>5, InForce, StoreParts DEF Grown
    <3> HIDE DEF viewed
    <3>7. Grown(viewed, both, P)
      BY <1>d, <3>6, BodyViewsGrow
    <3>8. (\A v \in R : ~IsArg(v)) /\ (\A v \in V : ~IsArg(v)) /\ (\A v \in P : ~IsArg(v))
      BY SomeValues, KindsWithoutArgs DEF IsArg
    <3> HIDE DEF R, V, P
    <3>9. ASSUME "joined" \in cfg.views PROVE ~SplitAny(viewed.values)
      BY <2>1, <2>2, <3>1, <3>5, <3>6, <3>9, BodyJoins
    <3> HIDE DEF both
    <3>10. /\ Within(both) /\ (SplitLine(store'.values) => SplitLine(both.values))
           /\ SplitAny(store'.values) => SplitAny(both.values)
      BY <2>2, <3>1, <3>4, <3>8, SplitKept
    <3>11. /\ Within(viewed) /\ (SplitLine(both.values) => SplitLine(viewed.values))
           /\ SplitAny(both.values) => SplitAny(viewed.values)
      BY <3>6, <3>7, <3>8, <3>10, SplitKept
    <3>12. Within(store) /\ (SplitLine(viewed.values) => SplitLine(store.values))
      BY <1>d, <3>5, <3>8, <3>11, SplitKept
    <3> QED
      BY <1>c, <2>1, <2>2, <3>2, <3>9, <3>10, <3>11, <3>12
  <2> QED
    BY <1>a, <1>e, <2>1, <2>2 DEF SplitInv
<1>8. CASE \/ \E c \in Samples : SetResponseStatus(c) \/ AddResponseHeader(c)
           \/ ProcessResponseHeaders
           \/ \E c \in Chunks : WriteResponseBody(c)
           \/ ProcessResponseBody
  <2> DEFINE T == ValueOf(ResponseKinds \cup {"resolved"})
  <2>1. Grown(store, store', T) /\ (\A v \in T : ~IsArg(v))
    BY <1>8, ResponseBeside, BesideKinds
  <2>2. /\ stage \in {"response", "chunks"} /\ stage' \in {"response", "chunks", "done"}
        /\ ~decided' => ~decided \/ stage' = "done"
    BY <1>8, <1>a, ResponseStages
  <2> HIDE DEF T
  <2>3. /\ Within(store') => Within(store)
        /\ SplitLine(store'.values) => SplitLine(store.values)
        /\ SplitAny(store'.values) => SplitAny(store.values)
    BY <1>d, <2>1, SplitKept
  <2> QED
    BY <1>a, <1>c, <1>e, <2>2, <2>3 DEF SplitInv
<1>9. CASE Reset
  BY <1>1, <1>9 DEF Reset
<1>10. CASE UNCHANGED vars
  BY <1>10 DEF vars, SplitInv, NoTerminalExcepted, Within, Noted
<1> QED
  BY <1>2, <1>3, <1>4, <1>5, <1>6, <1>7, <1>8, <1>9, <1>10 DEF Next

\* joinDuplicateArgs and recordJoinedArgs: a payload split over two arguments of one name in
\* the query, or over any two arguments where a rule reads ARGS_JOINED, does not get past
\* the request phases of a blocking deployment unnoticed.
THEOREM SplitRefused == Spec => []SplitPayloadRefused
<1>1. Init => SplitInv
  BY DEF Init, SplitInv
<1>2. Init => ViewsInv /\ CoverInv
  BY DEF Init, ViewsInv, CoverInv, NewMarks, NewStore, Apart, Has
<1>3. Types /\ SplitInv => SplitPayloadRefused
  <2> SUFFICES ASSUME Types, SplitInv, Forwarded, ~decided, NoTerminalExcepted, Within(store),
                      NEW i \in 1..Len(store.values), NEW j \in 1..Len(store.values), i # j,
                      Half(store.values[i]), Half(store.values[j])
               PROVE  /\ "joined" \notin cfg.views
                      /\ ~(/\ store.values[i].name = store.values[j].name /\ store.values[i].name # ""
                           /\ store.values[i].from = "line" /\ store.values[j].from = "line")
    BY ZenonT(30), InForce, StoreParts DEF SplitPayloadRefused, Half, Within, NoTerminalExcepted
  <2>1. cfg.ordered /\ stage \in {"response", "chunks"}
    BY DEF Forwarded
  <2>2. ~SplitLine(store.values) /\ ("joined" \in cfg.views => ~SplitAny(store.values))
    BY <2>1 DEF SplitInv
  <2> QED
    BY <2>2 DEF SplitLine, SplitAny
<1> QED
  BY <1>1, <1>2, <1>3, Typed, ViewsStep, CoverStep, SplitStep, PTL DEF Spec
-----------------------------------------------------------------------------
(* An ambiguous boundary is never forwarded, in either fail mode.           *)

FramingKinds == {"none", "zero", "length", "badlength", "transfer", "badtransfer"}

FramingState == [bodyless : BOOLEAN, lengths : Nat, first : {"none", "zero", "length"},
                 transfer : BOOLEAN, conflict : BOOLEAN, heard : SUBSET FramingKinds]

\* What noteFraming keeps is enough to recognise every ambiguity among the headers
\* received, as long as none was past the limit; and past the header phase the
\* request was not ambiguous.
FramingInv ==
  /\ framing \in FramingState
  /\ counts.headers \in Nat
  /\ counts.headers <= MaxHeaders =>
       /\ {"badlength", "badtransfer"} \cap framing.heard # {} => framing.conflict
       /\ {"zero", "length"} \cap framing.heard # {} => framing.lengths > 0
       /\ "transfer" \in framing.heard => framing.transfer
       /\ framing.lengths > 0 /\ ~framing.conflict => framing.first \in {"zero", "length"}
       /\ \A k \in {"zero", "length"} :
            k \in framing.heard => framing.first = k \/ framing.conflict
  /\ cfg.ordered /\ Enforcing /\ counts.headers <= MaxHeaders
       /\ stage \in {"body", "response", "chunks"} => ~Ambiguous

LEMMA FramingRecognised ==
  ASSUME FramingInv, counts.headers <= MaxHeaders, TwoBoundaries
  PROVE  Ambiguous
BY DEF FramingInv, FramingState, TwoBoundaries, Ambiguous
\* The two updates a Content-Length makes.
Counted(f, n, c) == [f EXCEPT !.lengths = n, !.conflict = c]
First(f, k) == [f EXCEPT !.lengths = 1, !.first = k]

LEMMA CountedUpdate ==
  ASSUME NEW f \in FramingState, NEW n \in Nat, NEW c \in BOOLEAN
  PROVE  /\ Counted(f, n, c) \in FramingState
         /\ Counted(f, n, c).lengths = n /\ Counted(f, n, c).conflict = c
         /\ Counted(f, n, c).first = f.first /\ Counted(f, n, c).transfer = f.transfer
         /\ Counted(f, n, c).heard = f.heard
<1> DEFINE e == [f EXCEPT !.lengths = n]
<1>1. /\ e \in FramingState /\ e.lengths = n /\ e.first = f.first
      /\ e.conflict = f.conflict /\ e.transfer = f.transfer /\ e.heard = f.heard
  BY DEF FramingState
<1>2. Counted(f, n, c) = [e EXCEPT !.conflict = c]
  BY DEF Counted
<1> HIDE DEF e
<1> QED
  BY <1>1, <1>2 DEF FramingState

LEMMA FirstUpdate ==
  ASSUME NEW f \in FramingState, NEW k \in {"zero", "length"}
  PROVE  /\ First(f, k) \in FramingState
         /\ First(f, k).lengths = 1 /\ First(f, k).first = k
         /\ First(f, k).conflict = f.conflict /\ First(f, k).transfer = f.transfer
         /\ First(f, k).heard = f.heard
BY DEF First, FramingState

\* noteFraming, one kind of header at a time.
LEMMA NoteFramingCases ==
  ASSUME NEW n, n = framing.lengths + 1, framing.conflict \in BOOLEAN
  PROVE
  /\ NoteFraming("none") = framing
  /\ NoteFraming("transfer") = [framing EXCEPT !.transfer = TRUE]
  /\ NoteFraming("badtransfer") = [framing EXCEPT !.transfer = TRUE, !.conflict = TRUE]
  /\ \E c \in BOOLEAN : c /\ NoteFraming("badlength") = Counted(framing, n, c)
  /\ \A k \in {"zero", "length"} :
       IF framing.lengths = 0 THEN NoteFraming(k) = First(framing, k)
       ELSE \E c \in BOOLEAN : /\ c <=> framing.conflict \/ k # framing.first
                               /\ NoteFraming(k) = Counted(framing, n, c)
<1>1. NoteFraming("badlength") = Counted(framing, n, TRUE)
  BY DEF NoteFraming, Counted
<1>2. ASSUME NEW k \in {"zero", "length"}, framing.lengths # 0
      PROVE  NoteFraming(k) = Counted(framing, n, framing.conflict \/ k # framing.first)
  BY <1>2 DEF NoteFraming, Counted
<1>3. /\ NoteFraming("none") = framing
      /\ NoteFraming("transfer") = [framing EXCEPT !.transfer = TRUE]
      /\ NoteFraming("badtransfer") = [framing EXCEPT !.transfer = TRUE, !.conflict = TRUE]
      /\ \A k \in {"zero", "length"} :
           framing.lengths = 0 => NoteFraming(k) = First(framing, k)
  BY DEF NoteFraming, First
<1>4. \A k : (framing.conflict \/ k # framing.first) \in BOOLEAN
  OBVIOUS
<1> QED
  BY <1>1, <1>2, <1>3, <1>4, Zenon

LEMMA FramingStep == Types /\ FramingInv /\ [Next]_vars => FramingInv'
<1> SUFFICES ASSUME Types, FramingInv, [Next]_vars PROVE FramingInv'
  OBVIOUS
<1>1. CASE UNCHANGED <<framing, stage, cfg>> /\ counts'.headers = counts.headers
  BY <1>1 DEF FramingInv, Ambiguous, Enforcing
<1>2. CASE SetRemoteAddr \/ (\E c \in Samples : AddResolver(c))
           \/ (\E c \in Samples : SetResponseStatus(c) \/ AddResponseHeader(c))
  BY <1>1, <1>2 DEF SetRemoteAddr, AddResolver, SetResponseStatus, AddResponseHeader
<1>3. ASSUME NEW l \in Lines, SetRequestLine(l) PROVE FramingInv'
  <2>1. framing' = [framing EXCEPT !.bodyless = l.bodyless] /\ l.bodyless \in BOOLEAN
    BY <1>3, ConstantsAssumption DEF SetRequestLine, Line
  <2>2. counts' = [counts EXCEPT !.args = @ + Len(l.args)] /\ cfg' = cfg
    BY <1>3 DEF SetRequestLine
  <2>3. counts'.headers = counts.headers
    BY <2>2
  <2>4. cfg.ordered => stage' = "headers"
    BY <1>3 DEF SetRequestLine
  <2> QED
    BY <2>1, <2>2, <2>3, <2>4 DEF FramingInv, FramingState
<1>4. ASSUME NEW a \in Arguments, AddArgument(a) PROVE FramingInv'
  BY <1>1, <1>4 DEF AddArgument
<1>5. ASSUME NEW b \in Bodies, SetRequestBody(b) PROVE FramingInv'
  BY <1>1, <1>5 DEF SetRequestBody
<1>6. ASSUME NEW h \in Headers, AddRequestHeader(h) PROVE FramingInv'
  <2> DEFINE kind == h.framing
             noted == IF counts.headers >= MaxHeaders THEN framing ELSE NoteFraming(kind)
  <2>1. kind \in {"none", "zero", "length", "badlength", "transfer", "badtransfer"}
    BY ConstantsAssumption DEF Header
  <2>2. /\ framing' = [noted EXCEPT !.heard = @ \cup {kind}]
        /\ counts' = [counts EXCEPT !.headers = @ + 1]
        /\ cfg' = cfg /\ stage' = stage /\ (cfg.ordered => stage = "headers")
    BY <1>6 DEF AddRequestHeader, Supply, At
  <2>3. counts'.headers = counts.headers + 1 /\ MaxHeaders \in Nat /\ counts.headers \in Nat
    BY <2>2, StagesOf, ConstantsAssumption DEF Counters
  <2>4. PICK n \in Nat : n = framing.lengths + 1 /\ n > 0
    BY DEF FramingInv, FramingState
  <2>5. framing \in FramingState /\ framing.conflict \in BOOLEAN
    BY DEF FramingInv, FramingState
  <2> HIDE DEF kind
  <2>6. noted \in FramingState /\ noted.heard = framing.heard
    <3>1. CASE noted = framing
      BY <2>5, <3>1
    <3>2. CASE noted = [framing EXCEPT !.transfer = TRUE]
      BY <2>5, <3>2 DEF FramingState
    <3>3. CASE noted = [framing EXCEPT !.transfer = TRUE, !.conflict = TRUE]
      BY <2>5, <3>3 DEF FramingState
    <3>4. ASSUME NEW c \in BOOLEAN, noted = Counted(framing, n, c)
          PROVE  noted \in FramingState /\ noted.heard = framing.heard
      BY <2>5, <3>4, CountedUpdate
    <3>5. CASE noted = First(framing, kind) /\ kind \in {"zero", "length"}
      BY <2>5, <3>5, FirstUpdate
    <3> QED
      BY <2>1, <2>4, <2>5, <3>1, <3>2, <3>3, <3>4, <3>5, NoteFramingCases
  <2>7. ASSUME counts.headers < MaxHeaders
        PROVE  LET H == framing.heard \cup {kind} IN
               /\ {"badlength", "badtransfer"} \cap H # {} => noted.conflict
               /\ {"zero", "length"} \cap H # {} => noted.lengths > 0
               /\ "transfer" \in H => noted.transfer
               /\ noted.lengths > 0 /\ ~noted.conflict => noted.first \in {"zero", "length"}
               /\ \A k \in {"zero", "length"} : k \in H => noted.first = k \/ noted.conflict
    <3>1. noted = NoteFraming(kind) /\ counts.headers <= MaxHeaders
      BY <2>3, <2>7
    <3> HIDE DEF noted
    <3> USE DEF FramingInv
    <3>2. CASE kind = "none"
      BY <2>4, <2>5, <3>1, <3>2, NoteFramingCases
    <3>3. CASE kind = "transfer"
      <4>1. noted = [framing EXCEPT !.transfer = TRUE]
        BY <2>4, <2>5, <3>1, <3>3, NoteFramingCases
      <4> QED
        BY <3>1, <3>3, <4>1 DEF FramingState
    <3>4. CASE kind = "badtransfer"
      <4>1. noted = [framing EXCEPT !.transfer = TRUE, !.conflict = TRUE]
        BY <2>4, <2>5, <3>1, <3>4, NoteFramingCases
      <4> QED
        BY <3>1, <3>4, <4>1 DEF FramingState
    <3>5. CASE kind = "badlength"
      <4>1. PICK c \in BOOLEAN : c /\ noted = Counted(framing, n, c)
        BY <2>4, <2>5, <3>1, <3>5, NoteFramingCases
      <4>2. /\ noted.lengths = n /\ noted.first = framing.first
            /\ noted.transfer = framing.transfer /\ noted.conflict
        BY <2>5, <4>1, CountedUpdate
      <4> QED
        BY <2>4, <3>1, <3>5, <4>2
    <3>6. CASE kind \in {"zero", "length"} /\ framing.lengths = 0
      <4>1. noted = First(framing, kind)
        BY <2>4, <2>5, <3>1, <3>6, NoteFramingCases
      <4>2. /\ noted.lengths = 1 /\ noted.first = kind /\ noted.conflict = framing.conflict
            /\ noted.transfer = framing.transfer
        BY <2>5, <3>6, <4>1, FirstUpdate
      <4> QED
        BY <3>1, <3>6, <4>2
    <3>7. CASE kind \in {"zero", "length"} /\ framing.lengths # 0
      <4>1. PICK c \in BOOLEAN : /\ c <=> framing.conflict \/ kind # framing.first
                                 /\ noted = Counted(framing, n, c)
        BY <2>4, <2>5, <3>1, <3>7, NoteFramingCases
      <4>2. /\ noted.lengths = n /\ noted.first = framing.first
            /\ noted.transfer = framing.transfer /\ noted.conflict = c
        BY <2>5, <4>1, CountedUpdate
      <4>3. framing.lengths > 0
        BY <2>5, <3>7 DEF FramingState
      <4> QED
        BY <2>4, <3>1, <3>7, <4>1, <4>2, <4>3
    <3> QED
      BY <2>1, <3>2, <3>3, <3>4, <3>5, <3>6, <3>7
  <2>8. /\ framing'.heard = framing.heard \cup {kind}
        /\ framing'.bodyless = noted.bodyless /\ framing'.lengths = noted.lengths
        /\ framing'.first = noted.first /\ framing'.transfer = noted.transfer
        /\ framing'.conflict = noted.conflict
        /\ framing' \in FramingState
    BY <2>1, <2>2, <2>6 DEF FramingState, FramingKinds
  <2> HIDE DEF noted
  <2>9. counts'.headers \in Nat /\ (counts'.headers <= MaxHeaders => counts.headers < MaxHeaders)
    BY <2>3
  <2>10. ~(cfg'.ordered /\ stage' \in {"body", "response", "chunks"})
    BY <2>2
  <2> QED
    BY <2>7, <2>8, <2>9, <2>10 DEF FramingInv
<1>7. CASE ProcessRequestHeaders
  <2>1. /\ UNCHANGED <<cfg, counts>>
        /\ cfg.ordered => stage' = IF returned'.verdict = "block" THEN "done" ELSE "body"
    BY <1>7 DEF ProcessRequestHeaders, Ask
  <2>3. PICK c \in BOOLEAN : /\ c <=> framing.conflict \/ (counts.headers <= MaxHeaders /\ Ambiguous)
                            /\ framing' = [framing EXCEPT !.conflict = c]
    BY <1>7, Zenon DEF ProcessRequestHeaders
  <2>4. /\ framing' \in FramingState /\ framing'.conflict = c
        /\ framing'.bodyless = framing.bodyless /\ framing'.lengths = framing.lengths
        /\ framing'.first = framing.first /\ framing'.transfer = framing.transfer
        /\ framing'.heard = framing.heard
    BY <2>3 DEF FramingInv, FramingState
  <2>2. ASSUME Enforcing, counts.headers <= MaxHeaders, Ambiguous
        PROVE  returned'.verdict = "block"
    <3>1. ~(counts.headers > MaxHeaders)
      BY <2>2, ConstantsAssumption DEF FramingInv
    <3>2. Stop(Refuse("desync"), store)
      BY <1>7, <2>2, <3>1 DEF ProcessRequestHeaders
    <3> QED
      BY <2>2, <3>2 DEF Stop, Finish, Refuse, Enforcing
  <2> QED
    BY <2>1, <2>2, <2>3, <2>4 DEF FramingInv, Ambiguous, Enforcing
<1>9. CASE ProcessRequestBody \/ ProcessResponseHeaders \/ ProcessResponseBody
  BY <1>9 DEF FramingInv, Ambiguous, Enforcing, Ask, At, ProcessRequestBody,
     ProcessResponseHeaders, ProcessResponseBody
<1>10. ASSUME NEW c \in Chunks, WriteResponseBody(c) PROVE FramingInv'
  BY <1>10 DEF FramingInv, Ambiguous, Enforcing, WriteResponseBody, Supply, At
<1>11. CASE Reset
  BY <1>11, ConstantsAssumption DEF Reset, FramingInv, NewFraming, FramingState
<1>12. CASE UNCHANGED vars
  BY <1>1, <1>12 DEF vars
<1> QED
  BY <1>2, <1>3, <1>4, <1>5, <1>6, <1>7, <1>9, <1>10, <1>11, <1>12 DEF Next

\* The stages an ordered embedder goes through.
StageInv == stage \in {"line", "headers", "body", "response", "chunks", "done"}

LEMMA StageStep == StageInv /\ [Next]_vars => StageInv'
BY DEF StageInv, Next, vars, SetRemoteAddr, SetRequestLine, AddRequestHeader, AddArgument,
   AddResolver, ProcessRequestHeaders, SetRequestBody, ProcessRequestBody, SetResponseStatus,
   AddResponseHeader, ProcessResponseHeaders, WriteResponseBody, ProcessResponseBody, Reset, Ask

\* A request whose headers name two boundaries is refused before its body is read, in
\* either fail mode, as long as no header was past the limit.
THEOREM FramingRefused == Spec => []FramingNotSoftened
<1>1. Init => FramingInv /\ StageInv
  BY ConstantsAssumption DEF Init, FramingInv, StageInv, NewFraming, FramingState
<1>2. FramingInv /\ StageInv => FramingNotSoftened
  BY FramingRecognised DEF FramingInv, StageInv, FramingNotSoftened
<1> QED
  BY <1>1, <1>2, Typed, FramingStep, StageStep, PTL DEF Spec
-----------------------------------------------------------------------------
(* Detection only.                                                          *)

\* In detection-only mode every decision but one allows.
LEMMA DetectionVerdicts ==
  ASSUME cfg.mode = "detection_only"
  PROVE  \A r, t : /\ Undone(r).verdict = "allow" /\ Refuse(r).verdict = "allow"
                   /\ Outcome(r, t).verdict = "allow"
BY DEF Undone, Refuse, Outcome, NoMatch

\* A refusal ends the transaction at once, with what it was for still in place.
DetectionInv ==
  cfg.ordered /\ cfg.mode = "detection_only" /\ decision.verdict = "block" =>
    /\ stage = "done" /\ decision.reason = "schema"
    /\ counts.body > 0 /\ \E o \in route.op : o.noBody

LEMMA DetectionStep == DetectionInv /\ [Next]_vars => DetectionInv'
<1> SUFFICES ASSUME DetectionInv, [Next]_vars, cfg'.ordered, cfg'.mode = "detection_only",
                    decision'.verdict = "block"
             PROVE  /\ stage' = "done" /\ decision'.reason = "schema"
                    /\ counts'.body > 0 /\ \E o \in route'.op : o.noBody
  BY DEF DetectionInv
<1>1. cfg' = cfg
  BY DEF Next, vars, SetRemoteAddr, SetRequestLine, AddRequestHeader, AddArgument, AddResolver,
     ProcessRequestHeaders, SetRequestBody, ProcessRequestBody, SetResponseStatus,
     AddResponseHeader, ProcessResponseHeaders, WriteResponseBody, ProcessResponseBody, Reset
<1>2. cfg.ordered /\ cfg.mode = "detection_only"
  BY <1>1
<1>3. stage # "done" => decision.verdict # "block"
  BY <1>2 DEF DetectionInv
<1>4. ASSUME NEW r, NEW s, Stop(Undone(r), s) \/ Stop(Refuse(r), s) PROVE FALSE
  BY <1>2, <1>4, DetectionVerdicts DEF Stop, Finish
<1>5. ASSUME NEW p, NEW s, NEW n, RunPhase(p, s, n), stage # "done" PROVE FALSE
  <2>1. decision' = decision \/ \E r, t : decision' = Outcome(r, t)
    BY <1>5 DEF RunPhase, Finish
  <2> QED
    BY <1>2, <1>3, <1>5, <2>1, DetectionVerdicts
<1>6. CASE UNCHANGED decision /\ stage # "done"
  BY <1>3, <1>6
<1>7. ASSUME NEW l \in Lines, SetRequestLine(l) PROVE FALSE
  BY <1>2, <1>6, <1>7 DEF SetRequestLine, Supply, At, Judgement
<1>8. CASE SetRemoteAddr \/ (\E a \in Arguments : AddArgument(a))
           \/ (\E h \in Headers : AddRequestHeader(h)) \/ (\E c \in Samples : AddResolver(c))
           \/ (\E b \in Bodies : SetRequestBody(b))
           \/ (\E c \in Samples : SetResponseStatus(c) \/ AddResponseHeader(c))
  BY <1>2, <1>6, <1>8 DEF SetRemoteAddr, AddArgument, AddRequestHeader, AddResolver,
     SetRequestBody, SetResponseStatus, AddResponseHeader, Supply, At, Judgement
<1>9. CASE ProcessRequestHeaders
  <2>1. \/ \E r, s : Stop(Undone(r), s) \/ Stop(Refuse(r), s)
        \/ \E s : RunPhase("RequestHeaders", s, 0)
    BY <1>9 DEF ProcessRequestHeaders
  <2>2. stage # "done"
    BY <1>2, <1>9 DEF ProcessRequestHeaders, Ask, At
  <2> QED
    BY <1>4, <1>5, <2>1, <2>2
<1>10. CASE ProcessRequestBody
  <2>1. stage # "done" /\ counts' = counts
    BY <1>2, <1>10 DEF ProcessRequestBody, Ask, At
  <2>2. ~(\E r, s : Stop(Undone(r), s) \/ Stop(Refuse(r), s))
        /\ ~(\E s : RunPhase("RequestBody", s, 0))
    BY <1>4, <1>5, <2>1
  <2>3. /\ counts.body > 0 /\ \E o \in route.op : o.noBody
        /\ UNCHANGED route
        /\ Stop([verdict |-> "block", reason |-> "schema"], store)
    BY <1>10, <2>2, ZenonT(60) DEF ProcessRequestBody
  <2>4. decision'.reason = "schema" /\ returned'.verdict = "block"
    BY <2>3 DEF Stop, Finish
  <2>5. stage' = "done"
    BY <1>2, <1>10, <2>4 DEF ProcessRequestBody, Ask
  <2> QED
    BY <2>1, <2>3, <2>4, <2>5
<1>11. CASE ProcessResponseHeaders
  BY <1>2, <1>5, <1>11 DEF ProcessResponseHeaders, Ask, At
<1>12. ASSUME NEW c \in Chunks, WriteResponseBody(c) PROVE FALSE
  <2>1. stage # "done"
    BY <1>2, <1>12 DEF WriteResponseBody, Supply, At
  <2>2. decision' = decision \/ decision' = Undone("limit")
    BY <1>12 DEF WriteResponseBody, Finish
  <2> QED
    BY <1>2, <1>3, <2>1, <2>2, DetectionVerdicts
<1>13. CASE ProcessResponseBody
  <2>1. (\E s : Stop(Undone("limit"), s)) \/ \E s, n : RunPhase("ResponseBody", s, n)
    BY <1>13 DEF ProcessResponseBody
  <2>2. stage # "done"
    BY <1>2, <1>13 DEF ProcessResponseBody, Ask, At
  <2> QED
    BY <1>4, <1>5, <2>1, <2>2
<1>14. CASE Reset
  BY <1>14 DEF Reset, NoMatch
<1>15. CASE UNCHANGED vars
  BY <1>2, <1>15 DEF vars, DetectionInv
<1> QED
  BY <1>7, <1>8, <1>9, <1>10, <1>11, <1>12, <1>13, <1>14, <1>15 DEF Next

\* In detection-only mode nothing is refused but a body sent to an operation that
\* declares none.
THEOREM DetectionForwards == Spec => []DetectionOnlyForwards
<1>1. Init => DetectionInv
  BY DEF Init, DetectionInv, NoMatch
<1>2. DetectionInv => DetectionOnlyForwards
  BY DEF DetectionInv, DetectionOnlyForwards
<1> QED
  BY <1>1, <1>2, DetectionStep, PTL DEF Spec
=============================================================================
