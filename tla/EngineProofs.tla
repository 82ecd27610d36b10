---------------------------- MODULE EngineProofs ----------------------------
(***************************************************************************)
(* What Engine guarantees for every ruleset, transform, value and budget.  *)
(* The inductive invariant has four parts: the shapes of the state and     *)
(* where the evaluator stands in its input; what the kept intermediate     *)
(* results are; what the meter says of the work done; and which rules the  *)
(* evaluator is past, whose reports are the findings.                      *)
(***************************************************************************)
EXTENDS Engine, Middleware, SequenceTheorems, FiniteSetTheorems, WellFoundedInduction, TLAPS

Active == {"group", "chain", "scan", "rules"}

\* The evaluator stands at a value, a reading and a group that exist.
Typed ==
  /\ TypeOK
  /\ plan \in Seq(Group) /\ \A g \in DOMAIN plan : Len(plan[g].chain) <= Depth
  /\ values \in Seq(Value)
  /\ Len(stages.prev) <= Depth
  /\ pc \in {"build", "reading"} \cup Active => at.v \in DOMAIN values
  /\ pc \in Active => at.r \in DOMAIN readings.list
  /\ pc \in {"chain", "scan", "rules"} => at.g \in DOMAIN plan
  /\ pc = "chain" => chain.n <= Len(plan[at.g].chain)

\* A kept result lies in the buffer of its depth or of one before, so a later transform
\* does not write over it; the transform under way continues from the last of them.
Kept ==
  /\ StepsSound
  /\ pc \in Active => \A n \in Depths : stages.step[n].from <= n
  /\ pc = "chain" => chain.from = Before(chain.n + 1)

\* The meter and the work agree until the meter is exhausted, and then evaluation is over.
Metered ==
  /\ meter.exhausted => pc = "idle" /\ result.outcome = "exhausted"
  /\ meter.limit > 0 /\ ~meter.exhausted => work = meter.limit - meter.remaining
  /\ WorkBounded

-----------------------------------------------------------------------------
(* The initial state *)

LEMMA OrderTyped ==
  ASSUME NEW groups \in Rulesets, NEW order \in Orders(groups)
  PROVE  order \in Seq(Group) /\ \A g \in DOMAIN order : Len(order[g].chain) <= Depth
<1>1. Cardinality(groups) \in Nat
  BY RulesetAssumption, FS_CardinalityType
<1>2. order \in [1..Cardinality(groups) -> groups]
  BY DEF Orders
<1>3. groups \subseteq Group /\ \A g \in groups : Len(g.chain) <= Depth
  BY RulesetAssumption
<1> QED
  BY <1>1, <1>2, <1>3

LEMMA InitTyped == Init => Typed
<1> SUFFICES ASSUME Init PROVE Typed
  OBVIOUS
<1>1. plan \in Seq(Group) /\ \A g \in DOMAIN plan : Len(plan[g].chain) <= Depth
  BY OrderTyped DEF Init
<1>2. meter \in [limit : Nat, remaining : Nat, exhausted : BOOLEAN]
      /\ meter.remaining <= meter.limit /\ ~meter.exhausted
  BY EngineAssumption DEF Init
<1>3. stages \in [src : Data, prev : Seq(Transforms), buf : [1..Depth -> Data],
                  step : [1..Depth -> [from : 0..Depth, changed : BOOLEAN]]]
      /\ stages.prev = <<>>
  BY EngineAssumption DEF Init
<1>4. /\ readings \in [list : Seq(Data), truncated : BOOLEAN]
      /\ chain \in [n : 0..Depth, from : 0..Depth, changed : BOOLEAN]
      /\ at \in [v : Nat \ {0}, r : Nat \ {0}, g : Nat \ {0}]
      /\ values \in Seq(Value) /\ work \in Nat /\ pc = "idle"
      /\ result.outcome = "none"
  BY EngineAssumption DEF Init
<1>5. TypeOK
  BY <1>2, <1>3, <1>4 DEF TypeOK
<1>6. Len(stages.prev) <= Depth
  BY <1>3, EngineAssumption
<1> QED
  BY <1>1, <1>4, <1>5, <1>6 DEF Typed, Active

-----------------------------------------------------------------------------
(* The shapes are kept *)

LEMMA SpentTyped ==
  ASSUME NEW m \in [limit : Nat, remaining : Nat, exhausted : BOOLEAN], NEW n \in Nat,
         m.remaining <= m.limit, m.exhausted => m.remaining = 0
  PROVE  /\ Spent(m, n) \in [limit : Nat, remaining : Nat, exhausted : BOOLEAN]
         /\ Spent(m, n).limit = m.limit /\ Spent(m, n).remaining <= m.limit
         /\ Spent(m, n).exhausted => Spent(m, n).remaining = 0
         /\ ~Spent(m, n).exhausted /\ m.limit > 0 =>
              ~m.exhausted /\ Spent(m, n).remaining = m.remaining - n
         /\ m.exhausted => Spent(m, n).exhausted
         /\ Spent(m, n).exhausted => m.limit > 0 \/ m.exhausted
<1>1. CASE m.exhausted \/ m.limit = 0
  BY <1>1 DEF Spent
<1>2. CASE ~(m.exhausted \/ m.limit = 0) /\ m.remaining < n
  <2>1. Spent(m, n) = [limit |-> m.limit, remaining |-> 0, exhausted |-> TRUE]
    BY <1>2 DEF Spent
  <2>2. Spent(m, n) \in [limit : Nat, remaining : Nat, exhausted : BOOLEAN]
    BY <2>1
  <2>3. Spent(m, n).limit = m.limit
    BY <2>1
  <2>4. Spent(m, n).remaining = 0
    BY <2>1
  <2>5. Spent(m, n).exhausted = TRUE
    BY <2>1
  <2> QED
    BY <1>2, <2>2, <2>3, <2>4, <2>5
<1>3. CASE ~(m.exhausted \/ m.limit = 0) /\ ~(m.remaining < n)
  <2>1. Spent(m, n) = [m EXCEPT !.remaining = @ - n]
    BY <1>3 DEF Spent
  <2> QED
    BY <1>3, <2>1
<1> QED
  BY <1>1, <1>2, <1>3

LEMMA ValueTyped ==
  ASSUME Typed, at.v \in DOMAIN values
  PROVE  values[at.v] \in Value /\ values[at.v].data \in Data
         /\ Size[values[at.v].data] \in Nat /\ Decoded[values[at.v].data] \in Seq(Data)
<1>1. values[at.v] \in Value
  BY DEF Typed
<1>2. values[at.v].data \in Data
  BY <1>1 DEF Value
<1> QED
  BY <1>1, <1>2, EngineAssumption

LEMMA GroupTyped ==
  ASSUME Typed, at.g \in DOMAIN plan
  PROVE  /\ plan[at.g] \in Group
         /\ plan[at.g].chain \in Seq(Transforms) /\ Len(plan[at.g].chain) \in 0..Depth
         /\ plan[at.g].rules \in Seq(Rule)
<1>1. plan[at.g] \in Group
  BY DEF Typed
<1>2. plan[at.g].chain \in Seq(Transforms) /\ plan[at.g].rules \in Seq(Rule)
  BY <1>1 DEF Group
<1>3. Len(plan[at.g].chain) <= Depth
  BY DEF Typed
<1> QED
  BY <1>1, <1>2, <1>3, EngineAssumption

LEMMA HeldTyped ==
  ASSUME Typed, NEW from \in 0..Depth
  PROVE  Held(from) \in Data /\ Size[Held(from)] \in Nat
<1>1. stages.src \in Data /\ stages.buf \in [1..Depth -> Data]
  BY DEF Typed, TypeOK
<1>2. Held(from) \in Data
  BY <1>1, EngineAssumption DEF Held
<1> QED
  BY <1>2, EngineAssumption

LEMMA MeterTyped ==
  ASSUME Typed, NEW n \in Nat
  PROVE  /\ Spent(meter, n) \in [limit : Nat, remaining : Nat, exhausted : BOOLEAN]
         /\ Spent(meter, n).remaining <= Spent(meter, n).limit
         /\ Spent(meter, n).exhausted => Spent(meter, n).remaining = 0
         /\ Worked(n) \in Nat
<1>1. /\ meter \in [limit : Nat, remaining : Nat, exhausted : BOOLEAN] /\ work \in Nat
      /\ meter.remaining <= meter.limit /\ (meter.exhausted => meter.remaining = 0)
  BY DEF Typed, TypeOK
<1>2. Worked(n) \in Nat
  BY <1>1 DEF Worked
<1> QED
  BY <1>1, <1>2, SpentTyped

Places == [v : Nat \ {0}, r : Nat \ {0}, g : Nat \ {0}]

LEMMA AtTyped ==
  ASSUME Typed
  PROVE  /\ at \in Places
         /\ [at EXCEPT !.v = @ + 1] \in Places /\ [at EXCEPT !.g = @ + 1] \in Places
         /\ [at EXCEPT !.r = @ + 1] \in Places
         /\ [at EXCEPT !.r = 1] \in Places /\ [at EXCEPT !.g = 1] \in Places
<1>1. at \in Places
  BY DEF Typed, TypeOK, Places
<1> QED
  BY <1>1 DEF Places

LEMMA StopTyped ==
  ASSUME Typed, NEW why \in {"exhausted", "undecidable", "terminal"}, Stop(why)
  PROVE  pc' = "idle" /\ result'.outcome \in {"none", "exhausted", "undecidable", "terminal"}
BY DEF Stop, Typed, TypeOK

\* The shapes of what is set once a step names them.
LEMMA NewTransactionTyped == Typed /\ NewTransaction => Typed'
<1> SUFFICES ASSUME Typed, NewTransaction PROVE Typed'
  OBVIOUS
<1>1. PICK limit \in Limits :
        meter' = [limit |-> limit, remaining |-> limit, exhausted |-> FALSE]
  BY DEF NewTransaction
<1>2. limit \in Nat
  BY <1>1, EngineAssumption
<1>3. /\ meter' \in [limit : Nat, remaining : Nat, exhausted : BOOLEAN]
      /\ meter'.remaining <= meter'.limit /\ (meter'.exhausted => meter'.remaining = 0)
  BY <1>1, <1>2
<1>4. TypeOK'
  BY <1>3 DEF NewTransaction, Typed, TypeOK
<1> QED
  BY <1>4 DEF NewTransaction, Typed, Active

LEMMA EvalTyped == \A vs \in Values : Typed /\ Eval(vs) => Typed'
<1> SUFFICES ASSUME NEW vs \in Values, Typed, Eval(vs) PROVE Typed'
  OBVIOUS
<1>1. values' \in Seq(Value)
  BY EngineAssumption DEF Eval
<1>2. TypeOK'
  BY DEF Eval, Typed, TypeOK
<1> QED
  BY <1>1, <1>2 DEF Eval, Typed, Active

LEMMA OpenValueTyped == Typed /\ OpenValue => Typed'
<1> SUFFICES ASSUME Typed, OpenValue PROVE Typed'
  OBVIOUS
<1>1. CASE at.v > Len(values)
  <2>1. TypeOK'
    BY <1>1 DEF OpenValue, Typed, TypeOK
  <2> QED
    BY <1>1, <2>1 DEF OpenValue, Typed, Active
<1>2. CASE ~(at.v > Len(values))
  <2>1. at.v \in DOMAIN values
    BY <1>2 DEF Typed, TypeOK
  <2>2. values[at.v].data \in Data
    BY <2>1, ValueTyped
  <2>3. CASE values[at.v].inert
    <3>1. TypeOK'
      BY SMTT(30), <1>2, <2>3 DEF OpenValue, Typed, TypeOK
    <3> QED
      BY <1>2, <2>3, <3>1 DEF OpenValue, Typed, Active
  <2>4. CASE ~values[at.v].inert
    <3>0. readings' = [list |-> <<values[at.v].data>>, truncated |-> FALSE]
      BY <1>2, <2>4 DEF OpenValue
    <3>1. readings' \in [list : Seq(Data), truncated : BOOLEAN]
      BY <2>2, <3>0
    <3>2. at' = [at EXCEPT !.r = 1] /\ pc' = "build"
          /\ UNCHANGED <<plan, values, meter, stages, chain, result, work>>
      BY <1>2, <2>4 DEF OpenValue
    <3>3. at' \in Places /\ at'.v = at.v
      BY <3>2, AtTyped DEF Places
    <3>4. TypeOK'
      BY <3>1, <3>2, <3>3 DEF Typed, TypeOK, Places
    <3> QED
      BY <2>1, <3>2, <3>3, <3>4 DEF Typed, Active
  <2> QED
    BY <2>3, <2>4
<1> QED
  BY <1>1, <1>2

LEMMA WithReadingTyped ==
  ASSUME NEW rs \in [list : Seq(Data), truncated : BOOLEAN], NEW d \in Data
  PROVE  WithReading(rs, d) \in [list : Seq(Data), truncated : BOOLEAN]
<1>1. [rs EXCEPT !.truncated = TRUE] \in [list : Seq(Data), truncated : BOOLEAN]
  OBVIOUS
<1>2. [rs EXCEPT !.list = Append(@, d)] \in [list : Seq(Data), truncated : BOOLEAN]
  OBVIOUS
<1> QED
  BY <1>1, <1>2 DEF WithReading

LEMMA BuildTyped == Typed /\ Build => Typed'
<1> SUFFICES ASSUME Typed, Build PROVE Typed'
  OBVIOUS
<1>1. /\ at.v \in DOMAIN values /\ at.r \in Nat \ {0}
      /\ readings \in [list : Seq(Data), truncated : BOOLEAN]
  BY DEF Build, Typed, TypeOK
<1> DEFINE d == values[at.v].data
<1>2. d \in Data /\ Size[d] \in Nat /\ Decoded[d] \in Seq(Data)
  BY <1>1, ValueTyped
<1>3. CASE at.r <= Len(Decoded[d])
  <2>1. Decoded[d][at.r] \in Data
    BY <1>1, <1>2, <1>3
  <2>2. readings' = WithReading(readings, Decoded[d][at.r])
    BY <1>3 DEF Build
  <2>3. readings' \in [list : Seq(Data), truncated : BOOLEAN]
    BY <1>1, <2>1, <2>2, WithReadingTyped
  <2>4. at' = [at EXCEPT !.r = @ + 1]
        /\ UNCHANGED <<plan, values, pc, meter, stages, chain, result, work>>
    BY <1>3 DEF Build
  <2>5. at' \in Places /\ at'.v = at.v
    BY <2>4, AtTyped DEF Places
  <2>6. TypeOK'
    BY <2>3, <2>4, <2>5 DEF Typed, TypeOK, Places
  <2> QED
    BY <1>1, <2>4, <2>5, <2>6 DEF Build, Typed, Active
<1>4. CASE ~(at.r <= Len(Decoded[d]))
  <2>1. /\ meter' = Spent(meter, Size[d]) /\ work' = Worked(Size[d])
        /\ at' = [at EXCEPT !.r = 1] /\ UNCHANGED <<plan, values, readings, stages, chain>>
    BY <1>4 DEF Build
  <2>2. \/ Stop("exhausted")
        \/ Stop("undecidable")
        \/ pc' = "reading" /\ UNCHANGED result
    <3>1. CASE meter'.exhausted
      BY <1>4, <3>1 DEF Build, Stop
    <3>2. CASE ~meter'.exhausted /\ readings.truncated
      BY <1>4, <3>2 DEF Build, Stop
    <3>3. CASE ~meter'.exhausted /\ ~readings.truncated
      BY <1>4, <3>3 DEF Build, Stop
    <3> QED
      BY <3>1, <3>2, <3>3
  <2>3. /\ meter' \in [limit : Nat, remaining : Nat, exhausted : BOOLEAN]
        /\ meter'.remaining <= meter'.limit /\ (meter'.exhausted => meter'.remaining = 0)
        /\ work' \in Nat
    BY <1>2, <2>1, MeterTyped
  <2>4. at' \in Places /\ at'.v = at.v
    BY <2>1, AtTyped DEF Places
  <2>5. /\ pc' \in {"idle", "reading"}
        /\ result'.outcome \in {"none", "exhausted", "undecidable", "terminal"}
    <3>1. CASE Stop("exhausted")
      BY <3>1, StopTyped
    <3>2. CASE Stop("undecidable")
      BY <3>2, StopTyped
    <3>3. CASE pc' = "reading" /\ UNCHANGED result
      BY <3>3 DEF Typed, TypeOK
    <3> QED
      BY <2>2, <3>1, <3>2, <3>3
  <2>6. TypeOK'
    BY <2>1, <2>3, <2>4, <2>5 DEF Typed, TypeOK, Places
  <2> QED
    BY <1>1, <2>1, <2>4, <2>5, <2>6 DEF Typed, Active
<1> QED
  BY <1>3, <1>4

LEMMA OpenReadingTyped == Typed /\ OpenReading => Typed'
<1> SUFFICES ASSUME Typed, OpenReading PROVE Typed'
  OBVIOUS
<1>1. at.r \in Nat \ {0} /\ readings.list \in Seq(Data) /\ at.v \in DOMAIN values
  BY DEF OpenReading, Typed, TypeOK
<1>2. CASE at.r > Len(readings.list)
  <2>1. pc' = "value" /\ at' = [at EXCEPT !.v = @ + 1]
        /\ UNCHANGED <<plan, values, readings, meter, stages, chain, result, work>>
    BY <1>2 DEF OpenReading
  <2>2. at' \in Places
    BY <2>1, AtTyped
  <2>3. TypeOK'
    BY <2>1, <2>2 DEF Typed, TypeOK, Places
  <2> QED
    BY <2>1, <2>3 DEF Typed, Active
<1>3. CASE ~(at.r > Len(readings.list))
  <2>1. /\ pc' = "group" /\ at' = [at EXCEPT !.g = 1]
        /\ stages' = Fresh(readings.list[at.r])
        /\ UNCHANGED <<plan, values, readings, meter, chain, result, work>>
    BY <1>3 DEF OpenReading
  <2>2. at' \in Places /\ at'.v = at.v /\ at'.r = at.r
    BY <2>1, AtTyped DEF Places
  <2>3. at.r \in DOMAIN readings.list
    BY <1>1, <1>3
  <2>4. stages' \in [src : Data, prev : Seq(Transforms), buf : [1..Depth -> Data],
                     step : [1..Depth -> [from : 0..Depth, changed : BOOLEAN]]]
        /\ stages'.prev = <<>>
    <3>1. readings.list[at.r] \in Data
      BY <1>1, <2>3
    <3>2. stages \in [src : Data, prev : Seq(Transforms), buf : [1..Depth -> Data],
                      step : [1..Depth -> [from : 0..Depth, changed : BOOLEAN]]]
      BY DEF Typed, TypeOK
    <3>3. stages' = [src |-> readings.list[at.r], prev |-> <<>>, buf |-> stages.buf,
                     step |-> stages.step]
      BY <2>1 DEF Fresh
    <3> QED
      BY <3>1, <3>2, <3>3
  <2>5. TypeOK'
    BY <2>1, <2>2, <2>4 DEF Typed, TypeOK, Places
  <2>6. Len(stages'.prev) <= Depth
    BY <2>4, EngineAssumption
  <2> QED
    BY <1>1, <2>1, <2>2, <2>3, <2>5, <2>6 DEF Typed, Active
<1> QED
  BY <1>2, <1>3

LEMMA PassGroupTyped == Typed /\ PassGroup => Typed'
<1> SUFFICES ASSUME Typed, PassGroup PROVE Typed'
  OBVIOUS
<1>1. /\ \/ pc' = "reading" /\ at' = [at EXCEPT !.r = @ + 1]
         \/ pc' = "group" /\ at' = [at EXCEPT !.g = @ + 1]
      /\ UNCHANGED <<plan, values, readings, meter, stages, chain, result, work>>
  BY DEF PassGroup
<1>2. at' \in Places /\ at'.v = at.v /\ (pc' = "group" => at'.r = at.r)
  BY <1>1, AtTyped DEF Places
<1>3. at.v \in DOMAIN values /\ at.r \in DOMAIN readings.list
  BY DEF PassGroup, Typed, Active
<1>4. TypeOK'
  BY <1>1, <1>2 DEF Typed, TypeOK, Places
<1> QED
  BY <1>1, <1>2, <1>3, <1>4 DEF Typed, Active

LEMMA CloseGroupTyped == Typed /\ CloseGroup => Typed'
<1> SUFFICES ASSUME Typed, CloseGroup PROVE Typed'
  OBVIOUS
<1>1. /\ pc' = "group" /\ at' = [at EXCEPT !.g = @ + 1]
      /\ UNCHANGED <<plan, values, readings, meter, stages, chain, result, work>>
  BY DEF CloseGroup
<1>2. at' \in Places /\ at'.v = at.v /\ at'.r = at.r
  BY <1>1, AtTyped DEF Places
<1>3. at.v \in DOMAIN values /\ at.r \in DOMAIN readings.list
  BY DEF CloseGroup, Typed, Active
<1>4. TypeOK'
  BY <1>1, <1>2 DEF Typed, TypeOK, Places
<1> QED
  BY <1>1, <1>2, <1>3, <1>4 DEF Typed, Active

\* Where the evaluator stands in the middle of a group.
LEMMA InGroup ==
  ASSUME Typed, pc \in {"chain", "scan", "rules"}
  PROVE  /\ at.v \in DOMAIN values /\ at.r \in DOMAIN readings.list /\ at.g \in DOMAIN plan
         /\ plan[at.g].chain \in Seq(Transforms) /\ Len(plan[at.g].chain) \in 0..Depth
         /\ chain \in [n : 0..Depth, from : 0..Depth, changed : BOOLEAN]
<1>1. at.v \in DOMAIN values /\ at.r \in DOMAIN readings.list /\ at.g \in DOMAIN plan
  BY DEF Typed, Active
<1> QED
  BY <1>1, GroupTyped DEF Typed, TypeOK

LEMMA OpenGroupTyped == Typed /\ OpenGroup => Typed'
<1> SUFFICES ASSUME Typed, OpenGroup PROVE Typed'
  OBVIOUS
<1>1. at.v \in DOMAIN values /\ at.r \in DOMAIN readings.list /\ at.g \in DOMAIN plan
  BY DEF OpenGroup, Typed, TypeOK, Active
<1>2. UNCHANGED <<plan, values, at, readings, meter, stages, result, work>>
  BY DEF OpenGroup
<1>3. Depth \in Nat /\ stages.step \in [1..Depth -> [from : 0..Depth, changed : BOOLEAN]]
  BY EngineAssumption DEF Typed, TypeOK
<1>4. /\ pc' \in {"scan", "chain"}
      /\ chain' \in [n : 0..Depth, from : 0..Depth, changed : BOOLEAN]
      /\ pc' = "chain" => chain'.n <= Len(plan[at.g].chain)
  <2>1. CASE plan[at.g].chain = <<>>
    <3>1. pc' = "scan" /\ chain' = [n |-> 0, from |-> 0, changed |-> FALSE]
      BY <2>1 DEF OpenGroup
    <3> QED
      BY <1>3, <3>1
  <2>2. CASE plan[at.g].chain # <<>>
    <3>1. PICK n \in 0..Depth :
            /\ Shares(n, plan[at.g].chain) /\ pc' = "chain"
            /\ chain' = IF n = 0 THEN [n |-> 0, from |-> 0, changed |-> FALSE]
                        ELSE [n |-> n, from |-> stages.step[n].from,
                              changed |-> stages.step[n].changed]
      BY <2>2 DEF OpenGroup
    <3>2. n <= Len(plan[at.g].chain)
      BY <3>1 DEF Shares
    <3>3. CASE n = 0
      BY <1>3, <3>1, <3>2, <3>3
    <3>4. CASE n # 0
      <4>1. stages.step[n] \in [from : 0..Depth, changed : BOOLEAN]
        BY <1>3, <3>1, <3>4
      <4> QED
        BY <3>1, <3>2, <3>4, <4>1
    <3> QED
      BY <3>3, <3>4
  <2> QED
    BY <2>1, <2>2
<1>5. TypeOK'
  BY <1>2, <1>4 DEF Typed, TypeOK
<1> QED
  BY <1>1, <1>2, <1>4, <1>5 DEF Typed, Active

LEMMA CloseChainTyped == Typed /\ CloseChain => Typed'
<1> SUFFICES ASSUME Typed, CloseChain PROVE Typed'
  OBVIOUS
<1>1. /\ pc = "chain" /\ pc' = "scan"
      /\ stages' = [stages EXCEPT !.prev = plan[at.g].chain]
      /\ UNCHANGED <<plan, values, at, readings, meter, chain, result, work>>
  BY DEF CloseChain
<1>2. stages' \in [src : Data, prev : Seq(Transforms), buf : [1..Depth -> Data],
                   step : [1..Depth -> [from : 0..Depth, changed : BOOLEAN]]]
      /\ stages'.prev = plan[at.g].chain
  BY <1>1, InGroup DEF Typed, TypeOK
<1>3. TypeOK'
  BY <1>1, <1>2 DEF Typed, TypeOK
<1>4. Len(stages'.prev) <= Depth
  BY <1>1, <1>2, InGroup, EngineAssumption
<1> QED
  BY <1>1, <1>3, <1>4, InGroup DEF Typed, Active

LEMMA ScanTyped == Typed /\ Scan => Typed'
<1> SUFFICES ASSUME Typed, Scan PROVE Typed'
  OBVIOUS
<1>1. pc = "scan" /\ UNCHANGED <<plan, values, at, readings, stages, chain>>
  BY DEF Scan
<1>2. PICK n \in Nat : meter' = Spent(meter, n) /\ work' = Worked(n)
  <2>1. Size[Held(chain.from)] \in Nat
    BY <1>1, InGroup, HeldTyped
  <2> QED
    BY <2>1 DEF Scan
<1>3. /\ meter' \in [limit : Nat, remaining : Nat, exhausted : BOOLEAN]
      /\ meter'.remaining <= meter'.limit /\ (meter'.exhausted => meter'.remaining = 0)
      /\ work' \in Nat
  BY <1>2, MeterTyped
<1>4. \/ Stop("exhausted")
      \/ pc' = "rules" /\ result' = result
  BY DEF Scan, Stop
<1>5. /\ pc' \in {"idle", "rules"}
      /\ result'.outcome \in {"none", "exhausted", "undecidable", "terminal"}
  BY <1>4, StopTyped DEF Typed, TypeOK
<1>6. TypeOK'
  BY <1>1, <1>3, <1>5 DEF Typed, TypeOK
<1> QED
  BY <1>1, <1>5, <1>6, InGroup DEF Typed, Active

Cur == Held(chain.from)
Made == Image[plan[at.g].chain[chain.n + 1]][Cur]
Kept1(from, changed) ==
  [stages.step EXCEPT ![chain.n + 1] = [from |-> from, changed |-> changed]]

\* The three outcomes of a transform: nothing changed, no fuel, written.
LEMMA TransformCases ==
  ASSUME Typed, Transform
  PROVE  /\ pc = "chain" /\ chain.n + 1 \in 1..Depth
         /\ chain.n < Len(plan[at.g].chain) /\ Cur \in Data /\ Made \in Data
         /\ UNCHANGED <<plan, values, at, readings>>
         /\ stages'.src = stages.src /\ stages'.prev = stages.prev
         /\ \/ /\ Made = Cur
               /\ chain'.n = chain.n + 1 /\ chain'.from = chain.from
               /\ chain'.changed = chain.changed
               /\ stages'.buf = stages.buf /\ stages'.step = Kept1(chain.from, chain.changed)
               /\ UNCHANGED <<pc, meter, result, work>>
            \/ /\ meter' = Spent(meter, Size[Made]) /\ work' = Worked(Size[Made])
               /\ meter'.exhausted /\ Stop("exhausted") /\ UNCHANGED chain
               /\ stages'.buf = [stages.buf EXCEPT ![chain.n + 1] = Made]
               /\ stages'.step = stages.step
            \/ /\ meter' = Spent(meter, Size[Made]) /\ work' = Worked(Size[Made])
               /\ ~meter'.exhausted /\ UNCHANGED <<pc, result>>
               /\ chain' = [n |-> chain.n + 1, from |-> chain.n + 1, changed |-> TRUE]
               /\ stages'.buf = [stages.buf EXCEPT ![chain.n + 1] = Made]
               /\ stages'.step = Kept1(chain.n + 1, TRUE)
         /\ stages' \in [src : Data, prev : Seq(Transforms), buf : [1..Depth -> Data],
                         step : [1..Depth -> [from : 0..Depth, changed : BOOLEAN]]]
<1> DEFINE i == chain.n + 1
<1>1. pc = "chain" /\ chain.n < Len(plan[at.g].chain) /\ UNCHANGED <<plan, values, at, readings>>
  BY DEF Transform
<1>2. /\ plan[at.g].chain \in Seq(Transforms) /\ Len(plan[at.g].chain) \in 0..Depth
      /\ chain \in [n : 0..Depth, from : 0..Depth, changed : BOOLEAN]
  BY <1>1, InGroup
<1>3. i \in 1..Depth /\ plan[at.g].chain[i] \in Transforms
  BY <1>1, <1>2, EngineAssumption
<1>4. Cur \in Data
  BY <1>2, HeldTyped DEF Cur
<1>5. Made \in Data
  BY ZenonT(40), <1>3, <1>4, EngineAssumption DEF Made
<1>6. stages \in [src : Data, prev : Seq(Transforms), buf : [1..Depth -> Data],
                  step : [1..Depth -> [from : 0..Depth, changed : BOOLEAN]]]
  BY DEF Typed, TypeOK
<1> DEFINE Stages == [src : Data, prev : Seq(Transforms), buf : [1..Depth -> Data],
                      step : [1..Depth -> [from : 0..Depth, changed : BOOLEAN]]]
<1>7. CASE Made = Cur
  <2>1. /\ chain' = [chain EXCEPT !.n = i]
        /\ stages' = [stages EXCEPT !.step[i] =
                         [from |-> chain.from, changed |-> chain.changed]]
        /\ UNCHANGED <<pc, meter, result, work>>
    BY <1>7 DEF Transform, Made, Cur
  <2>2. [from |-> chain.from, changed |-> chain.changed] \in [from : 0..Depth, changed : BOOLEAN]
    BY <1>2
  <2>3. stages' \in Stages
    BY <1>3, <1>6, <2>1, <2>2
  <2>4. /\ stages'.src = stages.src /\ stages'.prev = stages.prev
        /\ stages'.buf = stages.buf /\ stages'.step = Kept1(chain.from, chain.changed)
    BY <1>6, <2>1 DEF Kept1
  <2>5. /\ chain'.n = chain.n + 1 /\ chain'.from = chain.from
        /\ chain'.changed = chain.changed
    BY <1>2, <2>1
  <2> QED
    BY <1>1, <1>3, <1>4, <1>5, <1>7, <2>1, <2>3, <2>4, <2>5
<1>8. CASE Made # Cur /\ meter'.exhausted
  <2>1. /\ meter' = Spent(meter, Size[Made]) /\ work' = Worked(Size[Made])
        /\ Stop("exhausted") /\ UNCHANGED chain
        /\ stages' = [stages EXCEPT !.buf[i] = Made]
    BY <1>8 DEF Transform, Made, Cur, Stop
  <2>2. stages' \in Stages
    BY <1>3, <1>5, <1>6, <2>1
  <2>3. /\ stages'.src = stages.src /\ stages'.prev = stages.prev
        /\ stages'.buf = [stages.buf EXCEPT ![i] = Made] /\ stages'.step = stages.step
    BY <1>6, <2>1
  <2> QED
    BY <1>1, <1>3, <1>4, <1>5, <1>8, <2>1, <2>2, <2>3
<1>9. CASE Made # Cur /\ ~meter'.exhausted
  <2>1. /\ meter' = Spent(meter, Size[Made]) /\ work' = Worked(Size[Made])
        /\ UNCHANGED <<pc, result>>
        /\ chain' = [n |-> i, from |-> i, changed |-> TRUE]
        /\ stages' = [stages EXCEPT !.buf[i] = Made,
                         !.step[i] = [from |-> i, changed |-> TRUE]]
    BY <1>9 DEF Transform, Made, Cur
  <2>2. [from |-> i, changed |-> TRUE] \in [from : 0..Depth, changed : BOOLEAN]
    BY <1>3
  <2>3. /\ stages'.src = stages.src /\ stages'.prev = stages.prev
        /\ stages'.buf = [stages.buf EXCEPT ![i] = Made]
        /\ stages'.step = Kept1(i, TRUE)
    BY <1>6, <2>1 DEF Kept1
  <2>4. stages' \in Stages
    BY <1>3, <1>5, <1>6, <2>1, <2>2
  <2> QED
    BY <1>1, <1>3, <1>4, <1>5, <1>9, <2>1, <2>3, <2>4
<1> QED
  BY <1>7, <1>8, <1>9

LEMMA TransformTyped == Typed /\ Transform => Typed'
<1> SUFFICES ASSUME Typed, Transform PROVE Typed'
  OBVIOUS
<1>1. /\ pc = "chain" /\ chain.n + 1 \in 1..Depth /\ chain.n < Len(plan[at.g].chain)
      /\ UNCHANGED <<plan, values, at, readings>> /\ stages'.prev = stages.prev
      /\ stages' \in [src : Data, prev : Seq(Transforms), buf : [1..Depth -> Data],
                      step : [1..Depth -> [from : 0..Depth, changed : BOOLEAN]]]
      /\ Made \in Data /\ Size[Made] \in Nat
  BY TransformCases, EngineAssumption
<1>2. /\ chain \in [n : 0..Depth, from : 0..Depth, changed : BOOLEAN]
      /\ plan[at.g].chain \in Seq(Transforms) /\ Len(plan[at.g].chain) \in 0..Depth
  BY <1>1, InGroup
<1>3. /\ meter' \in [limit : Nat, remaining : Nat, exhausted : BOOLEAN]
      /\ meter'.remaining <= meter'.limit /\ (meter'.exhausted => meter'.remaining = 0)
      /\ work' \in Nat
  <2>1. CASE meter' = Spent(meter, Size[Made]) /\ work' = Worked(Size[Made])
    BY <1>1, <2>1, MeterTyped
  <2>2. CASE UNCHANGED <<meter, work>>
    BY SMTT(30), <2>2 DEF Typed, TypeOK
  <2> QED
    BY <2>1, <2>2, TransformCases
<1>4. /\ chain' \in [n : 0..Depth, from : 0..Depth, changed : BOOLEAN]
      /\ chain'.n <= Len(plan[at.g].chain)
  <2>1. CASE UNCHANGED chain
    BY <1>1, <1>2, <2>1
  <2>2. CASE chain' = [n |-> chain.n + 1, from |-> chain.n + 1, changed |-> TRUE]
    BY <1>1, <1>2, <2>2
  <2>3. CASE chain' = [chain EXCEPT !.n = chain.n + 1]
    BY <1>1, <1>2, <2>3
  <2> QED
    BY <2>1, <2>2, <2>3 DEF Transform
<1>5. pc' \in {"chain", "idle"}
      /\ result'.outcome \in {"none", "exhausted", "undecidable", "terminal"}
  <2>1. CASE Stop("exhausted")
    BY <2>1, StopTyped
  <2>2. CASE UNCHANGED <<pc, result>>
    BY <1>1, <2>2 DEF Typed, TypeOK
  <2> QED
    BY <2>1, <2>2, TransformCases
<1>6. TypeOK'
  BY <1>1, <1>3, <1>4, <1>5 DEF Typed, TypeOK
<1> QED
  BY <1>1, <1>4, <1>5, <1>6, InGroup DEF Typed, Active

\* What a rule pays, and what its step leaves alone.
LEMMA EvalRuleCases ==
  ASSUME Typed, EvalRule
  PROVE  /\ pc = "rules" /\ UNCHANGED <<plan, values, at, readings, stages, chain>>
         /\ pc' \in {"idle", "rules"}
         /\ result'.outcome \in {"none", "exhausted", "undecidable", "terminal"}
         /\ \/ UNCHANGED <<pc, meter, result, work>>
            \/ \E cost \in Nat :
                 /\ meter' = Spent(Spent(meter, Dispatch), cost)
                 /\ \/ meter'.exhausted /\ Stop("exhausted") /\ UNCHANGED work
                    \/ ~meter'.exhausted /\ work' = Worked(Dispatch + cost)
<1> DEFINE rule == plan[at.g].rules[Head(todo)]
<1>1. pc = "rules" /\ UNCHANGED <<plan, values, at, readings, stages, chain>>
  BY DEF EvalRule
<1> DEFINE skipped == \/ Head(todo) \notin DOMAIN plan[at.g].rules
                      \/ values[at.v].kind \notin rule.targets
<1>2. CASE skipped
  BY <1>1, <1>2 DEF EvalRule, Typed, TypeOK
<1>3. CASE ~skipped
  <2>1. meter' = Spent(Spent(meter, Dispatch), rule.cost)
    BY <1>3 DEF EvalRule
  <2>2. rule.cost \in Nat
    <3>1. plan[at.g].rules \in Seq(Rule)
      BY <1>1, InGroup, GroupTyped
    <3>2. rule \in Rule
      BY <1>3, <3>1
    <3> QED
      BY <3>2 DEF Rule
  <2>3. CASE meter'.exhausted
    BY <1>1, <1>3, <2>1, <2>2, <2>3, StopTyped DEF EvalRule, Stop
  <2>4. CASE ~meter'.exhausted
    <3> DEFINE took  == Taken(rule)
               ends  == \E i \in took : rule.actions[i] = "block"
               hits  == result.hits \cup {Hit(rule, Head(todo), i) : i \in took}
               score == result.score + Cardinality({i \in took : rule.actions[i] = "score"})
    <3>1. /\ work' = Worked(Dispatch + rule.cost)
          /\ \/ UNCHANGED <<pc, result>>
             \/ /\ result' = [hits |-> hits, score |-> score,
                              outcome |-> IF ends THEN "terminal" ELSE "none"]
                /\ pc' = IF ends THEN "idle" ELSE pc
      BY <1>3, <2>1, <2>4 DEF EvalRule
    <3>2. result.outcome \in {"none", "exhausted", "undecidable", "terminal"}
      BY DEF Typed, TypeOK
    <3> HIDE DEF took, ends, hits, score
    <3>3. /\ pc' \in {"idle", "rules"}
          /\ result'.outcome \in {"none", "exhausted", "undecidable", "terminal"}
      <4>1. CASE UNCHANGED <<pc, result>>
        BY <1>1, <3>2, <4>1
      <4>2. CASE /\ result' = [hits |-> hits, score |-> score,
                               outcome |-> IF ends THEN "terminal" ELSE "none"]
                 /\ pc' = IF ends THEN "idle" ELSE pc
        BY <1>1, <4>2
      <4> QED
        BY <3>1, <4>1, <4>2
    <3> HIDE DEF rule
    <3>4. \E cost \in Nat : /\ meter' = Spent(Spent(meter, Dispatch), cost)
                            /\ ~meter'.exhausted /\ work' = Worked(Dispatch + cost)
      BY <2>1, <2>2, <2>4, <3>1
    <3> QED
      BY SMTT(30), <1>1, <3>3, <3>4
  <2> QED
    BY SMTT(30), <2>3, <2>4
<1> QED
  BY <1>2, <1>3

LEMMA EvalRuleTyped == Typed /\ EvalRule => Typed'
<1> SUFFICES ASSUME Typed, EvalRule PROVE Typed'
  OBVIOUS
<1>1. /\ pc = "rules" /\ UNCHANGED <<plan, values, at, readings, stages, chain>>
      /\ pc' \in {"idle", "rules"}
      /\ result'.outcome \in {"none", "exhausted", "undecidable", "terminal"}
  BY EvalRuleCases
<1>2. /\ meter' \in [limit : Nat, remaining : Nat, exhausted : BOOLEAN]
      /\ meter'.remaining <= meter'.limit /\ (meter'.exhausted => meter'.remaining = 0)
      /\ work' \in Nat
  <2>0. /\ meter \in [limit : Nat, remaining : Nat, exhausted : BOOLEAN]
        /\ meter.remaining <= meter.limit /\ (meter.exhausted => meter.remaining = 0)
        /\ work \in Nat
    BY DEF Typed, TypeOK
  <2>1. CASE UNCHANGED <<pc, meter, result, work>>
    BY <2>0, <2>1
  <2>2. ASSUME NEW cost \in Nat, meter' = Spent(Spent(meter, Dispatch), cost),
               work' = work \/ work' = Worked(Dispatch + cost)
        PROVE  /\ meter' \in [limit : Nat, remaining : Nat, exhausted : BOOLEAN]
               /\ meter'.remaining <= meter'.limit
               /\ meter'.exhausted => meter'.remaining = 0
               /\ work' \in Nat
    <3>1. Dispatch \in Nat /\ Dispatch + cost \in Nat
      BY EngineAssumption
    <3>2. /\ Spent(meter, Dispatch) \in [limit : Nat, remaining : Nat, exhausted : BOOLEAN]
          /\ Spent(meter, Dispatch).remaining <= Spent(meter, Dispatch).limit
          /\ Spent(meter, Dispatch).exhausted => Spent(meter, Dispatch).remaining = 0
      BY <3>1, MeterTyped
    <3>3. work' \in Nat
      BY <2>0, <2>2, <3>1 DEF Worked
    <3> QED
      BY <2>2, <3>2, <3>3, SpentTyped
  <2> QED
    BY <2>1, <2>2, EvalRuleCases
<1>3. TypeOK'
  BY <1>1, <1>2 DEF Typed, TypeOK
<1> QED
  BY <1>1, <1>3, InGroup DEF Typed, Active

LEMMA TypedStep == Typed /\ [Next]_vars => Typed'
<1>1. ASSUME Typed, UNCHANGED vars PROVE Typed'
  BY <1>1 DEF vars, Typed, TypeOK
<1> QED
  BY <1>1, NewTransactionTyped, EvalTyped, OpenValueTyped, BuildTyped, OpenReadingTyped,
     PassGroupTyped, OpenGroupTyped, TransformTyped, CloseChainTyped, ScanTyped,
     EvalRuleTyped, CloseGroupTyped DEF Next

\* The evaluator and its meter keep their shapes: the meter never goes below zero, and
\* a kept result names a buffer that exists.
THEOREM Types == Spec => []TypeOK
<1>1. Spec => []Typed
  BY InitTyped, TypedStep, PTL DEF Spec
<1>2. Typed => TypeOK
  BY DEF Typed
<1> QED
  BY <1>1, <1>2, PTL

-----------------------------------------------------------------------------
(* What is kept of a chain *)

\* Nothing is claimed outside a group, and nothing changes while the stages are left.
LEMMA KeptOutside == pc' \notin Active => Kept'
BY DEF Kept, StepsSound, Active

LEMMA KeptSame ==
  ASSUME Kept, UNCHANGED stages, pc \in Active \ {"chain"}, pc' \in Active \ {"chain"}
  PROVE  Kept'
BY DEF Kept, StepsSound, Active, Depths, Prefix, Before, Held

LEMMA KeptOpenReading == Typed /\ OpenReading => Kept'
<1> SUFFICES ASSUME Typed, OpenReading PROVE Kept'
  OBVIOUS
<1>1. CASE pc' = "value"
  BY <1>1, KeptOutside DEF Active
<1>2. CASE pc' = "group"
  <2>1. stages'.prev = <<>>
    BY <1>2 DEF OpenReading, Fresh
  <2>2. Depths' = {}
    BY <1>2, <2>1 DEF Depths
  <2> QED
    BY <1>2, <2>2 DEF Kept, StepsSound
<1> QED
  BY <1>1, <1>2 DEF OpenReading

LEMMA KeptOpenGroup == Typed /\ Kept /\ OpenGroup => Kept'
<1> SUFFICES ASSUME Typed, Kept, OpenGroup PROVE Kept'
  OBVIOUS
<1>1. pc = "group" /\ UNCHANGED <<plan, at, stages>>
  BY DEF OpenGroup
<1>2. CASE plan[at.g].chain = <<>>
  <2>1. pc' = "scan"
    BY <1>2 DEF OpenGroup
  <2> QED
    BY <1>1, <2>1, KeptSame DEF Active
<1>3. CASE plan[at.g].chain # <<>>
  <2>1. PICK n \in 0..Depth :
          /\ Shares(n, plan[at.g].chain) /\ pc' = "chain"
          /\ chain' = IF n = 0 THEN [n |-> 0, from |-> 0, changed |-> FALSE]
                      ELSE [n |-> n, from |-> stages.step[n].from,
                            changed |-> stages.step[n].changed]
    BY <1>3 DEF OpenGroup
  <2>2. n \in Nat /\ n <= Len(stages.prev)
        /\ \A i \in 1..n : plan[at.g].chain[i] = stages.prev[i]
    BY <2>1, EngineAssumption DEF Shares
  <2>3. chain'.n = n /\ chain'.from = (IF n = 0 THEN 0 ELSE stages.step[n].from)
    <3>1. CASE n = 0
      BY <2>1, <3>1
    <3>2. CASE n # 0
      BY <2>1, <3>2
    <3> QED
      BY <3>1, <3>2
  <2>4. Len(stages.prev) \in Nat
    BY DEF Typed, TypeOK
  <2>5. Depths' = 1..n /\ 1..n \subseteq Depths
    BY <1>1, <2>1, <2>2, <2>3, <2>4 DEF Depths
  <2>6. \A k \in Depths : Held(stages.step[k].from) = Image[stages.prev[k]][Held(Before(k))]
    BY <1>1 DEF Kept, StepsSound, Prefix
  <2>7. \A k \in Depths : stages.step[k].from <= k
    BY <1>1 DEF Kept, Active
  <2>8. \A k \in Depths' : Prefix(k)'[k] = stages.prev[k]
    BY <1>1, <2>1, <2>2, <2>3, <2>5 DEF Prefix
  <2>9. \A k : Before(k)' = Before(k)
    BY <1>1 DEF Before
  <2>10. \A f : Held(f)' = Held(f)
    BY <1>1 DEF Held
  <2>11. StepsSound'
    BY <1>1, <2>5, <2>6, <2>8, <2>9, <2>10 DEF StepsSound
  <2>12. (chain.from = Before(chain.n + 1))'
    BY <1>1, <2>2, <2>3 DEF Before
  <2> QED
    BY <1>1, <2>5, <2>7, <2>11, <2>12 DEF Kept
<1> QED
  BY <1>2, <1>3

LEMMA KeptCloseChain == Typed /\ Kept /\ CloseChain => Kept'
<1> SUFFICES ASSUME Typed, Kept, CloseChain PROVE Kept'
  OBVIOUS
<1> DEFINE c == plan[at.g].chain
<1>1. /\ pc = "chain" /\ pc' = "scan" /\ chain.n = Len(c)
      /\ stages' = [stages EXCEPT !.prev = c] /\ UNCHANGED <<plan, at>>
  BY DEF CloseChain
<1>2. stages'.prev = c /\ stages'.step = stages.step /\ stages'.buf = stages.buf
      /\ stages'.src = stages.src
  BY <1>1 DEF Typed, TypeOK
<1>3. Depths' = 1..Len(c) /\ Depths = 1..Len(c)
  BY <1>1, <1>2 DEF Depths
<1>4. \A k \in Depths : Prefix(k) = c /\ Prefix(k)' = c
  BY <1>1, <1>2, <1>3 DEF Prefix
<1>5. \A k : Before(k)' = Before(k)
  BY <1>2 DEF Before
<1>6. \A f : Held(f)' = Held(f)
  BY <1>2 DEF Held
<1>7. \A k \in Depths : Held(stages.step[k].from) = Image[c[k]][Held(Before(k))]
  BY <1>1, <1>4 DEF Kept, StepsSound
<1>8. StepsSound'
  BY <1>2, <1>3, <1>4, <1>5, <1>6, <1>7 DEF StepsSound
<1> QED
  BY <1>1, <1>2, <1>3, <1>8 DEF Kept, Active

LEMMA KeptTransform == Typed /\ Kept /\ Transform => Kept'
<1> SUFFICES ASSUME Typed, Kept, Transform PROVE Kept'
  OBVIOUS
<1>0. PICK i \in 1..Depth : i = chain.n + 1
  BY TransformCases
<1> DEFINE c == plan[at.g].chain
<1>1. /\ pc = "chain" /\ i \in 1..Depth /\ chain.n < Len(c) /\ UNCHANGED <<plan, at>>
      /\ stages'.src = stages.src /\ Made \in Data
  BY <1>0, TransformCases
<1>2. /\ chain \in [n : 0..Depth, from : 0..Depth, changed : BOOLEAN]
      /\ stages.buf \in [1..Depth -> Data]
      /\ stages.step \in [1..Depth -> [from : 0..Depth, changed : BOOLEAN]]
      /\ Depth \in Nat /\ chain.n \in 0..Depth /\ i = chain.n + 1
  BY <1>0, EngineAssumption DEF Typed, TypeOK
<1>3. Depths = 1..chain.n /\ \A k \in Depths : Prefix(k) = c
  BY <1>1, <1>2 DEF Depths, Prefix
<1>4. /\ \A k \in 1..chain.n : Held(stages.step[k].from) = Image[c[k]][Held(Before(k))]
      /\ \A k \in 1..chain.n : stages.step[k].from <= k
      /\ chain.from = Before(i)
  BY <1>0, <1>1, <1>3 DEF Kept, StepsSound, Active
<1>5. chain.from <= chain.n
  BY <1>2, <1>4 DEF Before
<1>6. CASE Stop("exhausted")
  BY <1>6, KeptOutside DEF Stop, Active
<1>7. ASSUME NEW from \in 0..i, NEW changed \in BOOLEAN, pc' = "chain",
             chain'.n = i, chain'.from = from, stages'.step = Kept1(from, changed),
             \A f \in 0..chain.n : Held(f)' = Held(f), Held(from)' = Made
      PROVE  Kept'
  <2>1. Depths' = 1..i /\ \A k \in 1..i : Prefix(k)' = c
    BY <1>1, <1>2, <1>7 DEF Depths, Prefix
  <2>2. /\ stages'.step[i].from = from
        /\ \A k \in 1..chain.n : stages'.step[k] = stages.step[k]
    BY <1>1, <1>2, <1>7 DEF Kept1
  <2>3. \A k \in 1..i : Before(k)' = Before(k) /\ Before(k) \in 0..chain.n
    <3> SUFFICES ASSUME NEW k \in 1..i
                 PROVE  Before(k)' = Before(k) /\ Before(k) \in 0..chain.n
      OBVIOUS
    <3>1. CASE k = 1
      BY <1>2, <3>1 DEF Before
    <3>2. CASE k # 1
      <4>1. k - 1 \in 1..chain.n /\ k - 1 \in 1..Depth
        BY <1>2, <3>2
      <4>2. stages.step[k - 1].from \in 0..Depth /\ stages.step[k - 1].from <= k - 1
        BY <1>2, <1>4, <4>1
      <4>3. stages'.step[k - 1] = stages.step[k - 1]
        BY <2>2, <4>1
      <4>4. stages.step[k - 1].from \in 0..chain.n
        BY SMTT(30), <1>2, <4>1, <4>2
      <4> QED
        BY <3>2, <4>3, <4>4 DEF Before
    <3> QED
      BY <3>1, <3>2
  <2>4. \A k \in 1..i : stages'.step[k].from <= k
    <3>1. \A k \in 1..i : k = i \/ k \in 1..chain.n
      BY <1>2
    <3>2. i \in Nat /\ from <= i
      BY <1>2, <1>7
    <3> QED
      BY <1>4, <2>2, <3>1, <3>2
  <2>5. \A k \in 1..chain.n :
          Held(stages.step[k].from)' = Image[c[k]][Held(Before(k))]
    <3>1. \A k \in 1..chain.n : Held(stages.step[k].from)' = Held(stages.step[k].from)
      BY <1>2, <1>4, <1>7, <2>2
    <3> QED
      BY <1>4, <3>1
  <2>6. Held(stages.step[i].from)' = Image[c[i]][Held(Before(i))]
    <3>1. Held(stages.step[i].from)' = Made
      BY <1>7, <2>2
    <3>2. Made = Image[c[i]][Held(Before(i))]
      BY <1>0, <1>4 DEF Made, Cur
    <3> QED
      BY <3>1, <3>2
  <2>7. StepsSound'
    <3>1. \A k \in 1..i : Held(stages.step[k].from)' = Image[c[k]][Held(Before(k))]
      <4>1. \A k \in 1..i : k = i \/ k \in 1..chain.n
        BY <1>2
      <4> QED
        BY <2>5, <2>6, <4>1
    <3>2. \A k \in 1..i : Held(Before(k))' = Held(Before(k))
      BY <1>7, <2>3
    <3>3. \A k \in 1..i :
            Held(stages.step[k].from)' = Image[Prefix(k)'[k]][Held(Before(k))']
      BY <2>1, <3>1, <3>2
    <3> QED
      BY <2>1, <3>3 DEF StepsSound
  <2>8. (chain.from = Before(chain.n + 1))'
    BY <1>2, <1>7, <2>2 DEF Before
  <2> QED
    BY <1>7, <2>1, <2>4, <2>7, <2>8 DEF Kept
<1>8. CASE Made = Cur /\ chain'.n = i /\ chain'.from = chain.from
           /\ stages'.buf = stages.buf
           /\ stages'.step = Kept1(chain.from, chain.changed) /\ UNCHANGED pc
  <2>1. \A f : Held(f)' = Held(f)
    BY <1>1, <1>8 DEF Held
  <2> QED
    BY <1>1, <1>2, <1>5, <1>7, <1>8, <2>1 DEF Cur
<1>9. CASE chain' = [n |-> i, from |-> i, changed |-> TRUE] /\ UNCHANGED pc
           /\ stages'.buf = [stages.buf EXCEPT ![i] = Made] /\ stages'.step = Kept1(i, TRUE)
  <2>1. \A f \in 0..chain.n : Held(f)' = Held(f)
    <3>1. \A f \in 0..chain.n : f # i /\ (f # 0 => f \in 1..Depth)
      BY <1>2
    <3>2. \A f \in 1..Depth : f # i => stages'.buf[f] = stages.buf[f]
      BY <1>1, <1>2, <1>9
    <3> QED
      BY <1>1, <3>1, <3>2 DEF Held
  <2>2. Held(i)' = Made
    <3>1. stages'.buf[i] = Made /\ i # 0
      BY <1>1, <1>2, <1>9
    <3> QED
      BY <3>1 DEF Held
  <2>3. i \in 0..i /\ chain'.n = i /\ chain'.from = i /\ pc' = "chain"
    BY <1>1, <1>2, <1>9
  <2> QED
    BY <1>7, <1>9, <2>1, <2>2, <2>3
<1> QED
  BY <1>0, <1>6, <1>8, <1>9, TransformCases

LEMMA KeptStep == Typed /\ Kept /\ [Next]_vars => Kept'
<1> SUFFICES ASSUME Typed, Kept, [Next]_vars PROVE Kept'
  OBVIOUS
<1>1. CASE NewTransaction
  BY <1>1, KeptOutside DEF NewTransaction, Active
<1>2. CASE \E vs \in Values : Eval(vs)
  BY <1>2, KeptOutside DEF Eval, Active
<1>3. CASE OpenValue
  BY <1>3, KeptOutside DEF OpenValue, Active
<1>4. CASE Build
  BY <1>4, KeptOutside DEF Build, Stop, Active
<1>5. CASE PassGroup
  <2>1. CASE pc' = "reading"
    BY <2>1, KeptOutside DEF Active
  <2>2. CASE pc' = "group"
    BY <1>5, <2>2, KeptSame DEF PassGroup, Active
  <2> QED
    BY <1>5, <2>1, <2>2 DEF PassGroup
<1>6. CASE Scan
  <2>1. CASE pc' = "idle"
    BY <2>1, KeptOutside DEF Active
  <2>2. CASE pc' = "rules"
    BY <1>6, <2>2, KeptSame DEF Scan, Active
  <2> QED
    BY <1>6, <2>1, <2>2 DEF Scan, Stop
<1>7. CASE EvalRule
  <2>1. CASE pc' = "idle"
    BY <2>1, KeptOutside DEF Active
  <2>2. CASE pc' = "rules"
    BY <1>7, <2>2, EvalRuleCases, KeptSame DEF Active
  <2> QED
    BY <1>7, <2>1, <2>2, EvalRuleCases
<1>8. CASE CloseGroup
  BY SMTT(30), <1>8, KeptSame DEF CloseGroup, Active
<1>9. CASE UNCHANGED vars
  BY <1>9 DEF vars, Kept, StepsSound, Active, Depths, Prefix, Before, Held
<1> QED
  BY <1>1, <1>2, <1>3, <1>4, <1>5, <1>6, <1>7, <1>8, <1>9, KeptOpenReading,
     KeptOpenGroup, KeptTransform, KeptCloseChain DEF Next

\* For every ruleset and every transform: whatever prefix of a chain is reused, by whichever
\* buffers it is held, resuming from it is applying the chain from its beginning.
THEOREM StepsSoundHolds == Spec => []StepsSound
<1>1. Init => Typed /\ Kept
  <2>1. Init => Kept
    BY DEF Init, Kept, StepsSound, Active
  <2> QED
    BY <2>1, InitTyped
<1>2. Typed /\ Kept /\ [Next]_vars => (Typed /\ Kept)'
  BY TypedStep, KeptStep
<1>3. Typed /\ Kept => StepsSound
  BY DEF Kept
<1> QED
  BY <1>1, <1>2, <1>3, PTL DEF Spec

-----------------------------------------------------------------------------
(* The meter *)

LEMMA MeterSame ==
  ASSUME Typed, Metered, UNCHANGED <<meter, work>>, ~meter.exhausted
  PROVE  Metered'
BY DEF Metered, WorkBounded

\* One charge for something already done.
LEMMA Charged ==
  ASSUME Typed, Metered, ~meter.exhausted, NEW d \in Data,
         meter' = Spent(meter, Size[d]), work' = Worked(Size[d]),
         meter'.exhausted => pc' = "idle" /\ result'.outcome = "exhausted"
  PROVE  Metered'
<1>1. /\ meter \in [limit : Nat, remaining : Nat, exhausted : BOOLEAN] /\ work \in Nat
      /\ meter.remaining <= meter.limit /\ Size[d] \in Nat
  BY EngineAssumption DEF Typed, TypeOK
<1>2. /\ meter'.limit = meter.limit
      /\ ~meter'.exhausted /\ meter.limit > 0 =>
           meter'.remaining = meter.remaining - Size[d]
      /\ meter' \in [limit : Nat, remaining : Nat, exhausted : BOOLEAN]
  BY <1>1, SpentTyped
<1>3. meter.limit > 0 => work = meter.limit - meter.remaining /\ work' = work + Size[d]
  BY <1>1 DEF Metered, Worked
<1>4. meter'.limit > 0 /\ ~meter'.exhausted => work' = meter'.limit - meter'.remaining
  BY <1>1, <1>2, <1>3
<1>5. meter'.limit > 0 => work' <= meter'.limit + Size[d]
  BY <1>1, <1>2, <1>3
<1> QED
  BY <1>4, <1>5 DEF Metered, WorkBounded

LEMMA MeteredEvalRule == Typed /\ Metered /\ EvalRule => Metered'
<1> SUFFICES ASSUME Typed, Metered, EvalRule PROVE Metered'
  OBVIOUS
<1>1. ~meter.exhausted
  BY DEF EvalRule, Metered
<1>2. CASE UNCHANGED <<meter, work>>
  BY <1>1, <1>2, MeterSame
<1>3. ASSUME NEW cost \in Nat, meter' = Spent(Spent(meter, Dispatch), cost),
             \/ meter'.exhausted /\ Stop("exhausted") /\ UNCHANGED work
             \/ ~meter'.exhausted /\ work' = Worked(Dispatch + cost)
      PROVE  Metered'
  <2>1. /\ meter \in [limit : Nat, remaining : Nat, exhausted : BOOLEAN] /\ work \in Nat
        /\ meter.remaining <= meter.limit /\ Dispatch \in Nat
        /\ (meter.exhausted => meter.remaining = 0)
    BY EngineAssumption DEF Typed, TypeOK
  <2> DEFINE m == Spent(meter, Dispatch)
  <2>2. /\ m \in [limit : Nat, remaining : Nat, exhausted : BOOLEAN]
        /\ m.limit = meter.limit /\ m.remaining <= m.limit
        /\ (m.exhausted => m.remaining = 0)
        /\ ~m.exhausted /\ meter.limit > 0 => m.remaining = meter.remaining - Dispatch
    BY <2>1, SpentTyped
  <2>3. /\ meter'.limit = m.limit
        /\ ~meter'.exhausted /\ m.limit > 0 =>
             ~m.exhausted /\ meter'.remaining = m.remaining - cost
        /\ meter' \in [limit : Nat, remaining : Nat, exhausted : BOOLEAN]
        /\ meter'.remaining <= m.limit
    <3> HIDE DEF m
    <3> QED
      BY <1>3, <2>2, SpentTyped DEF m
  <2>4. meter.limit > 0 => work = meter.limit - meter.remaining
    BY <1>1 DEF Metered
  <2>5. \E d \in Data : Size[d] \in Nat
    BY EngineAssumption DEF Typed, TypeOK
  <2>6. CASE meter'.exhausted /\ Stop("exhausted") /\ UNCHANGED work
    <3>1. meter'.limit > 0 => \E d \in Data : work' <= meter'.limit + Size[d]
      BY <2>1, <2>2, <2>3, <2>4, <2>5, <2>6
    <3> QED
      BY <2>6, <3>1 DEF Metered, WorkBounded, Stop
  <2>7. CASE ~meter'.exhausted /\ work' = Worked(Dispatch + cost)
    <3>1. meter'.limit > 0 => work' = meter'.limit - meter'.remaining
      BY <1>3, <2>1, <2>2, <2>3, <2>4, <2>7 DEF Worked
    <3>2. meter'.limit > 0 => \E d \in Data : work' <= meter'.limit + Size[d]
      BY <2>3, <2>5, <3>1
    <3> QED
      BY <2>7, <3>1, <3>2 DEF Metered, WorkBounded
  <2> QED
    BY <1>3, <2>6, <2>7
<1> QED
  BY SMTT(30), <1>2, <1>3, EvalRuleCases

LEMMA MeteredStep == Typed /\ Metered /\ [Next]_vars => Metered'
<1> SUFFICES ASSUME Typed, Metered, [Next]_vars PROVE Metered'
  OBVIOUS
<1>1. CASE NewTransaction
  <2>1. PICK limit \in Limits :
          meter' = [limit |-> limit, remaining |-> limit, exhausted |-> FALSE]
    BY <1>1 DEF NewTransaction
  <2>2. limit \in Nat /\ work' = 0 /\ \E d \in Data : Size[d] \in Nat
    BY <1>1, <2>1, EngineAssumption DEF NewTransaction, Typed, TypeOK
  <2> QED
    BY <2>1, <2>2 DEF Metered, WorkBounded
<1>2. CASE \E vs \in Values : Eval(vs)
  BY <1>2, MeterSame DEF Eval, Metered
<1>3. CASE OpenValue \/ OpenReading \/ PassGroup \/ OpenGroup \/ CloseChain \/ CloseGroup
  <2>1. UNCHANGED <<meter, work>> /\ pc # "idle"
    BY <1>3 DEF OpenValue, OpenReading, PassGroup, OpenGroup, CloseChain, CloseGroup
  <2> QED
    BY <2>1, MeterSame DEF Metered
<1>4. CASE Build
  <2>1. ~meter.exhausted
    BY <1>4 DEF Build, Metered
  <2>2. at.v \in DOMAIN values
    BY <1>4 DEF Build, Typed
  <2> DEFINE d == values[at.v].data
  <2>3. CASE at.r <= Len(Decoded[d])
    BY <1>4, <2>1, <2>3, MeterSame DEF Build
  <2>4. CASE ~(at.r <= Len(Decoded[d]))
    <3>1. meter' = Spent(meter, Size[d]) /\ work' = Worked(Size[d])
      BY <1>4, <2>4 DEF Build
    <3>2. meter'.exhausted => pc' = "idle" /\ result'.outcome = "exhausted"
      BY <1>4, <2>4 DEF Build, Stop
    <3> QED
      BY <2>1, <2>2, <3>1, <3>2, ValueTyped, Charged
  <2> QED
    BY <2>3, <2>4
<1>5. CASE Transform
  <2>1. ~meter.exhausted
    BY <1>5 DEF Transform, Metered
  <2>2. CASE UNCHANGED <<meter, work>>
    BY <2>1, <2>2, MeterSame
  <2>3. CASE meter' = Spent(meter, Size[Made]) /\ work' = Worked(Size[Made])
             /\ (meter'.exhausted => Stop("exhausted"))
    <3>1. Made \in Data
      BY <1>5, TransformCases
    <3>2. meter'.exhausted => pc' = "idle" /\ result'.outcome = "exhausted"
      BY <2>3 DEF Stop
    <3> QED
      BY <2>1, <2>3, <3>1, <3>2, Charged
  <2> QED
    BY <1>5, <2>2, <2>3, TransformCases
<1>6. CASE Scan
  <2>1. ~meter.exhausted /\ pc = "scan"
    BY <1>6 DEF Scan, Metered
  <2>2. Held(chain.from) \in Data
    BY <2>1, InGroup, HeldTyped
  <2> DEFINE d == Held(chain.from)
             none == \A k \in DOMAIN plan[at.g].rules : plan[at.g].rules[k].unconditional
  <2>3. CASE none
    <3>1. meter' = Spent(meter, 0) /\ work' = Worked(0)
      BY <1>6, <2>3 DEF Scan
    <3>2. meter' = meter /\ work' = work
      BY <2>1, <3>1 DEF Spent, Worked, Typed, TypeOK
    <3> QED
      BY SMTT(30), <2>1, <3>2, MeterSame
  <2>4. CASE ~none
    <3>1. meter' = Spent(meter, Size[d]) /\ work' = Worked(Size[d])
      BY <1>6, <2>4 DEF Scan
    <3>2. meter'.exhausted => pc' = "idle" /\ result'.outcome = "exhausted"
      <4>1. Size[d] = 0 => ~meter'.exhausted
        BY <2>1, <3>1 DEF Spent, Typed, TypeOK
      <4>2. Size[d] \in Nat
        BY <2>2, EngineAssumption
      <4> QED
        BY <1>6, <2>4, <4>1, <4>2 DEF Scan, Stop
    <3> QED
      BY <2>1, <2>2, <3>1, <3>2, Charged
  <2> QED
    BY <2>3, <2>4
<1>7. CASE UNCHANGED vars
  BY <1>7 DEF vars, Metered, WorkBounded
<1> QED
  BY <1>1, <1>2, <1>3, <1>4, <1>5, <1>6, <1>7, MeteredEvalRule DEF Next

\* For every ruleset, input and budget: the metered work of a transaction is within its
\* limit but for what one value, transform or scan is charged after it was done.
THEOREM WorkBoundedHolds == Spec => []WorkBounded
<1>1. Init => Typed /\ Metered
  <2>1. Init => Metered
    <3> SUFFICES ASSUME Init PROVE Metered
      OBVIOUS
    <3>1. PICK limit \in Limits :
            meter = [limit |-> limit, remaining |-> limit, exhausted |-> FALSE]
      BY DEF Init
    <3>2. limit \in Nat /\ work = 0 /\ \E d \in Data : Size[d] \in Nat
      BY EngineAssumption DEF Init
    <3> QED
      BY <3>1, <3>2 DEF Metered, WorkBounded
  <2> QED
    BY <2>1, InitTyped
<1>2. Typed /\ Metered /\ [Next]_vars => (Typed /\ Metered)'
  BY TypedStep, MeteredStep
<1>3. Typed /\ Metered => WorkBounded
  BY DEF Metered
<1> QED
  BY <1>1, <1>2, <1>3, PTL DEF Spec

-----------------------------------------------------------------------------
(* Induction, and functions by recursion over the places of a sequence       *)

\* Induction over the set of numbers for which something holds.
LEMMA Upwards ==
  ASSUME NEW S, 0 \in S, \A n \in Nat : n \in S => n + 1 \in S
  PROVE  Nat \subseteq S
<1> SUFFICES ASSUME Nat \ S # {} PROVE FALSE
  OBVIOUS
<1> DEFINE less == OpToRel(<, Nat)
<1>1. IsWellFoundedOn(less, Nat)
  BY NatLessThanWellFounded
<1>2. \A x, y \in Nat : <<x, y>> \in less <=> x < y
  BY DEF OpToRel
<1> HIDE DEF less
<1>3. Nat \ S \in SUBSET Nat /\ Nat \ S # {}
  OBVIOUS
<1>4. PICK n \in Nat \ S : \A k \in Nat \ S : ~(<<k, n>> \in less)
  BY <1>1, <1>3, WFMin
<1>5. CASE n = 0
  BY <1>5
<1>6. CASE n # 0
  <2>1. n - 1 \in Nat /\ n - 1 < n /\ (n - 1) + 1 = n
    BY <1>6
  <2>2. n - 1 \in S
    BY <1>2, <1>4, <2>1
  <2>3. QED
    BY <2>1, <2>2
<1>7. QED
  BY <1>5, <1>6

\* The same, as far as a bound.
LEMMA UpTo ==
  ASSUME NEW n \in Nat, NEW S, 0 \in S, \A k \in 1..n : k - 1 \in S => k \in S
  PROVE  0..n \subseteq S
<1> DEFINE T == {k \in Nat : k <= n => k \in S}
<1>1. 0 \in T
  OBVIOUS
<1>2. \A k \in Nat : k \in T => k + 1 \in T
  <2> SUFFICES ASSUME NEW k \in Nat, k \in T, k + 1 <= n PROVE k + 1 \in S
    OBVIOUS
  <2>1. k \in S /\ k + 1 \in 1..n /\ (k + 1) - 1 = k
    OBVIOUS
  <2> QED
    BY <2>1
<1> HIDE DEF T
<1>3. Nat \subseteq T
  BY <1>1, <1>2, Upwards
<1> QED
  BY <1>3 DEF T

\* f is what step makes of base, place by place.
Iterates(f, T, n, base, step) ==
  /\ f \in [0..n -> T] /\ f[0] = base
  /\ \A k \in 1..n : f[k] = step[<<f[k - 1], k>>]

\* A function over 0..n by recursion exists and keeps to the set of its values.
LEMMA IterationExists ==
  ASSUME NEW T, NEW n \in Nat, NEW base \in T, NEW step \in [T \X (1..n) -> T]
  PROVE  \E f : Iterates(f, T, n, base, step)
<1> DEFINE S == {m \in 0..n : \E f : Iterates(f, T, m, base, step)}
<1>1. 0 \in S
  <2> DEFINE f == [k \in 0..0 |-> base]
  <2>1. Iterates(f, T, 0, base, step)
    BY DEF Iterates
  <2> QED
    BY <2>1
<1>2. \A k \in 1..n : k - 1 \in S => k \in S
  <2> SUFFICES ASSUME NEW k \in 1..n, k - 1 \in S PROVE \E f : Iterates(f, T, k, base, step)
    OBVIOUS
  <2>1. PICK g : Iterates(g, T, k - 1, base, step)
    OBVIOUS
  <2>2. g \in [0..k - 1 -> T] /\ k - 1 \in 0..k - 1 /\ k \in Nat
    BY <2>1 DEF Iterates
  <2>3. step[<<g[k - 1], k>>] \in T
    <3>1. g[k - 1] \in T
      BY <2>2
    <3>2. <<g[k - 1], k>> \in T \X (1..n)
      BY <3>1
    <3> QED
      BY <3>2
  <2> DEFINE f == [j \in 0..k |-> IF j = k THEN step[<<g[k - 1], k>>] ELSE g[j]]
  <2>4. \A j \in 0..k - 1 : f[j] = g[j]
    BY <2>2
  <2>5. f[k] = step[<<g[k - 1], k>>]
    BY <2>2
  <2>6. f \in [0..k -> T]
    <3>1. \A j \in 0..k : j # k => j \in 0..k - 1
      BY <2>2
    <3> QED
      BY <2>2, <2>3, <3>1
  <2> HIDE DEF f
  <2>7. f[0] = base
    BY <2>1, <2>2, <2>4 DEF Iterates
  <2>8. \A j \in 1..k : f[j] = step[<<f[j - 1], j>>]
    <3> SUFFICES ASSUME NEW j \in 1..k PROVE f[j] = step[<<f[j - 1], j>>]
      OBVIOUS
    <3>1. j - 1 \in 0..k - 1 /\ (j = k \/ j \in 1..k - 1)
      BY <2>2
    <3>2. f[j - 1] = g[j - 1]
      BY <2>4, <3>1
    <3>3. CASE j = k
      BY <2>5, <3>2, <3>3
    <3>4. CASE j \in 1..k - 1
      <4>1. g[j] = step[<<g[j - 1], j>>] /\ j \in 0..k - 1
        BY <2>1, <2>2, <3>4 DEF Iterates
      <4> QED
        BY <2>4, <3>2, <4>1
    <3> QED
      BY <3>1, <3>3, <3>4
  <2> QED
    BY <2>6, <2>7, <2>8 DEF Iterates
<1> HIDE DEF S
<1>3. n \in S
  BY <1>1, <1>2, UpTo
<1> QED
  BY <1>3 DEF S

\* The rules of K among the first n, in the order of their index.
Lists(q, S) ==
  /\ q \in Seq(S) /\ \A i, j \in 1..Len(q) : i < j => q[i] < q[j]
  /\ \A k \in S : \E i \in 1..Len(q) : q[i] = k

\* The recursion of Ascending.
Ascends(f, n, K) ==
  /\ f[0] = <<>>
  /\ \A k \in 1..n : f[k] = IF k \in K THEN Append(f[k - 1], k) ELSE f[k - 1]

\* Ascending is the last place of its recursion.
LEMMA AscendingUnfolds ==
  ASSUME NEW g, NEW n \in Nat, Len(g.rules) = n, NEW K
  PROVE  \E f : Ascends(f, n, K) /\ Ascending(g, K) = f[n]
<1> DEFINE Is(f) == f = [k \in 0..n |-> IF k = 0 THEN <<>>
                           ELSE IF k \in K THEN Append(f[k - 1], k) ELSE f[k - 1]]
           f == CHOOSE f : Is(f)
<1>1. Ascending(g, K) = f[n]
  BY DEF Ascending
<1>2. \E h : Is(h)
  <2> DEFINE step == [p \in Seq(Nat) \X (1..n) |->
                        IF p[2] \in K THEN Append(p[1], p[2]) ELSE p[1]]
  <2>1. <<>> \in Seq(Nat)
    OBVIOUS
  <2>3. step \in [Seq(Nat) \X (1..n) -> Seq(Nat)]
    <3>1. \A q \in Seq(Nat), k \in 1..n : Append(q, k) \in Seq(Nat)
      OBVIOUS
    <3> QED
      BY <3>1
  <2>4. \A q \in Seq(Nat), k \in 1..n :
          step[<<q, k>>] = IF k \in K THEN Append(q, k) ELSE q
    OBVIOUS
  <2> HIDE DEF step
  <2>5. PICK h : Iterates(h, Seq(Nat), n, <<>>, step)
    BY <2>1, <2>3, IterationExists
  <2>6. \A k \in 1..n : h[k] = IF k \in K THEN Append(h[k - 1], k) ELSE h[k - 1]
    <3> TAKE k \in 1..n
    <3>1. k - 1 \in 0..n
      OBVIOUS
    <3>2. h[k - 1] \in Seq(Nat) /\ h[k] = step[<<h[k - 1], k>>]
      BY <2>5, <3>1 DEF Iterates
    <3> QED
      BY <2>4, <3>2
  <2>7. h \in [0..n -> Seq(Nat)] /\ h[0] = <<>>
    BY <2>5 DEF Iterates
  <2>8. \A k \in 0..n : k = 0 \/ k \in 1..n
    OBVIOUS
  <2>9. h = [k \in 0..n |-> IF k = 0 THEN <<>>
                           ELSE IF k \in K THEN Append(h[k - 1], k) ELSE h[k - 1]]
    BY <2>6, <2>7, <2>8
  <2> QED
    BY <2>9
<1> HIDE DEF Is
<1>3. Is(f)
  BY <1>2
<1> HIDE DEF f
<1>4. Ascends(f, n, K)
  <2>1. \A k \in 0..n : f[k] = IF k = 0 THEN <<>>
                           ELSE IF k \in K THEN Append(f[k - 1], k) ELSE f[k - 1]
    BY <1>3 DEF Is
  <2>2. 0 \in 0..n /\ \A k \in 1..n : k \in 0..n /\ k # 0
    OBVIOUS
  <2> QED
    BY <2>1, <2>2 DEF Ascends
<1> QED
  BY <1>1, <1>4

\* Ascending lists the rules of K once each.
LEMMA AscendingLists ==
  ASSUME NEW g, NEW n \in Nat, Len(g.rules) = n, NEW K \in SUBSET (1..n)
  PROVE  Lists(Ascending(g, K), K)
<1>1. PICK f : Ascends(f, n, K) /\ Ascending(g, K) = f[n]
  BY ZenonT(30), AscendingUnfolds
<1> DEFINE T == {k \in 0..n : Lists(f[k], K \cap 1..k)}
<1>2. 0 \in T
  <2>1. f[0] = <<>> /\ K \cap 1..0 = {}
    BY <1>1 DEF Ascends
  <2>2. Lists(<<>>, {})
    BY DEF Lists
  <2>3. Lists(f[0], K \cap 1..0)
    BY <2>1, <2>2
  <2> QED
    BY <2>3
<1>3. ASSUME NEW k \in 1..n, k - 1 \in T PROVE k \in T
  <2> DEFINE q == f[k - 1]
             U == K \cap 1..k - 1
             W == K \cap 1..k
  <2>1. Lists(q, U) /\ f[k] = IF k \in K THEN Append(q, k) ELSE q
    BY <1>1, <1>3 DEF Ascends
  <2>2. CASE k \notin K
    <3>1. U = W
      BY <1>3, <2>2
    <3> QED
      BY SMTT(30), <2>1, <2>2, <3>1
  <2>3. CASE k \in K
    <3> DEFINE r == Append(q, k)
    <3>1. /\ W = U \cup {k} /\ f[k] = r /\ k \in Nat
          /\ \A j \in U : j \in Nat /\ j < k /\ j \in W
      BY <1>3, <2>1, <2>3
    <3> HIDE DEF q, U, W
    <3>2. q \in Seq(U) /\ Len(q) \in Nat /\ \A i \in 1..Len(q) : q[i] \in U
      BY <2>1 DEF Lists
    <3>3. q \in Seq(W) /\ k \in W
      BY <3>1, <3>2
    <3>4. /\ r \in Seq(W) /\ Len(r) = Len(q) + 1 /\ r[Len(q) + 1] = k
          /\ \A i \in 1..Len(q) : r[i] = q[i]
      BY <3>3
    <3> HIDE DEF r
    <3>5. \A i \in 1..Len(r) : i \in 1..Len(q) \/ i = Len(q) + 1
      BY <3>2, <3>4
    <3>6. \A i, j \in 1..Len(r) : i < j => r[i] < r[j]
      <4> SUFFICES ASSUME NEW i \in 1..Len(r), NEW j \in 1..Len(r), i < j PROVE r[i] < r[j]
        OBVIOUS
      <4>1. i \in 1..Len(q)
        BY <3>2, <3>4
      <4>2. CASE j \in 1..Len(q)
        BY <2>1, <3>4, <4>1, <4>2 DEF Lists
      <4>3. CASE j = Len(q) + 1
        BY <3>1, <3>2, <3>4, <4>1, <4>3
      <4> QED
        BY <3>5, <4>2, <4>3
    <3>7. \A j \in W : \E i \in 1..Len(r) : r[i] = j
      <4> SUFFICES ASSUME NEW j \in W PROVE \E i \in 1..Len(r) : r[i] = j
        OBVIOUS
      <4>1. CASE j = k
        <5>1. Len(q) + 1 \in 1..Len(r)
          BY <3>2, <3>4
        <5> QED
          BY <3>4, <4>1, <5>1
      <4>2. CASE j \in U
        <5>1. PICK i \in 1..Len(q) : q[i] = j
          BY <2>1, <4>2 DEF Lists
        <5>2. i \in 1..Len(r)
          BY <3>2, <3>4
        <5> QED
          BY <3>4, <5>1, <5>2
      <4> QED
        BY <3>1, <4>1, <4>2
    <3>8. Lists(r, W)
      BY <3>4, <3>6, <3>7 DEF Lists
    <3> QED
      BY <3>1, <3>8 DEF W
  <2> QED
    BY <2>2, <2>3
<1> HIDE DEF T
<1>4. n \in T
  <2>1. 0..n \subseteq T
    BY <1>2, <1>3, UpTo
  <2> QED
    BY <2>1
<1>5. K \cap 1..n = K
  OBVIOUS
<1> QED
  BY <1>1, <1>4, <1>5 DEF T

\* The recursion of Chained.
Chains(f, c, d) == f[0] = d /\ \A k \in 1..Len(c) : f[k] = Image[c[k]][f[k - 1]]

\* Whatever was computed one transform after the other is the result of the chain.
LEMMA ChainedBy ==
  ASSUME NEW c \in Seq(Transforms), NEW d \in Data, NEW h, Chains(h, c, d)
  PROVE  Chained(c, d) = h[Len(c)]
<1> DEFINE n == Len(c)
           Is(f) == f = [k \in 0..n |-> IF k = 0 THEN d ELSE Image[c[k]][f[k - 1]]]
           f == CHOOSE f : Is(f)
<1>0. n \in Nat /\ \A k \in 1..n : c[k] \in Transforms
  OBVIOUS
<1>1. Chained(c, d) = f[n]
  BY DEF Chained
<1> HIDE DEF n
<1>2. \E g : Is(g)
  <2> DEFINE step == [p \in Data \X (1..n) |-> Image[c[p[2]]][p[1]]]
  <2>1. step \in [Data \X (1..n) -> Data]
    <3>1. \A x \in Data, k \in 1..n : Image[c[k]][x] \in Data
      BY ZenonT(30), <1>0, EngineAssumption
    <3> QED
      BY <3>1
  <2>2. \A x \in Data, k \in 1..n : step[<<x, k>>] = Image[c[k]][x]
    OBVIOUS
  <2> HIDE DEF step
  <2>3. PICK g : Iterates(g, Data, n, d, step)
    BY <1>0, <2>1, IterationExists
  <2>4. \A k \in 1..n : g[k] = Image[c[k]][g[k - 1]]
    <3> TAKE k \in 1..n
    <3>1. k - 1 \in 0..n
      BY <1>0
    <3>2. g[k - 1] \in Data /\ g[k] = step[<<g[k - 1], k>>]
      BY <2>3, <3>1 DEF Iterates
    <3> QED
      BY <2>2, <3>2
  <2>5. g \in [0..n -> Data] /\ g[0] = d
    BY <2>3 DEF Iterates
  <2>6. \A k \in 0..n : k = 0 \/ k \in 1..n
    BY <1>0
  <2>7. g = [k \in 0..n |-> IF k = 0 THEN d ELSE Image[c[k]][g[k - 1]]]
    BY <2>4, <2>5, <2>6
  <2> QED
    BY <2>7
<1> HIDE DEF Is
<1>3. Is(f)
  BY <1>2
<1> HIDE DEF f
<1>4. \A k \in 0..n : f[k] = IF k = 0 THEN d ELSE Image[c[k]][f[k - 1]]
  BY <1>3 DEF Is
<1> DEFINE S == {k \in 0..n : f[k] = h[k]}
<1>5. 0 \in S
  BY <1>0, <1>4 DEF Chains
<1>6. ASSUME NEW k \in 1..n, k - 1 \in S PROVE k \in S
  <2>1. k \in 0..n /\ k # 0 /\ f[k - 1] = h[k - 1]
    BY <1>0, <1>6
  <2>2. f[k] = Image[c[k]][f[k - 1]]
    BY <1>4, <2>1
  <2>3. h[k] = Image[c[k]][h[k - 1]]
    BY <1>6 DEF Chains, n
  <2> QED
    BY <2>1, <2>2, <2>3
<1> HIDE DEF S
<1>7. n \in S
  <2>1. 0..n \subseteq S
    BY <1>0, <1>5, <1>6, UpTo
  <2> QED
    BY <1>0, <2>1
<1> QED
  BY <1>1, <1>7 DEF S, n

-----------------------------------------------------------------------------
(* The findings                                                              *)

\* No two groups of the plan share a chain, and a literal is found where its rule matches.
PlanInv ==
  /\ \A g, h \in DOMAIN plan : plan[g].chain = plan[h].chain => g = h
  /\ \A g \in DOMAIN plan : \A k \in DOMAIN plan[g].rules :
       plan[g].rules[k].unconditional \/ plan[g].rules[k].matches \subseteq plan[g].rules[k].found

\* The readings of a value, and what of them its first n ambiguities give.
Readings(d) == {d} \cup ToSet(Decoded[d])
ReadingsTo(d, n) == {d} \cup {Decoded[d][i] : i \in 1..n}

\* While a value is evaluated its readings are distinct and start with the value as sent;
\* once they are paid for they are all of them.
ReadingsInv ==
  pc \in {"build", "reading"} \cup Active =>
    LET d == values[at.v].data
        list == readings.list
    IN  /\ ~values[at.v].inert
        /\ Len(list) > 0 /\ list[1] = d
        /\ \A i, j \in 1..Len(list) : list[i] = list[j] => i = j
        /\ pc = "build" =>
             /\ at.r - 1 <= Len(Decoded[d])
             /\ ~readings.truncated => ToSet(list) = ReadingsTo(d, at.r - 1)
        /\ pc # "build" => ToSet(list) = Readings(d)

\* The source of the stages is the reading under way, and what the rules of a group are
\* given is its whole chain applied to it.
ChainInv ==
  /\ pc \in Active => stages.src = readings.list[at.r]
  /\ pc \in {"scan", "rules"} => Held(chain.from) = Chained(plan[at.g].chain, stages.src)

\* Rule k of group g has something to report for reading d of value v, and what.
Finds(v, d, g, k) ==
  /\ k \in DOMAIN plan[g].rules
  /\ values[v].kind \in plan[g].rules[k].targets
  /\ Chained(plan[g].chain, d) \in plan[g].rules[k].matches
  /\ plan[g].rules[k].unconditional => d = values[v].data

Reports(v, d, g, k) ==
  {[value |-> v, reading |-> d, chain |-> plan[g].chain, rule |-> k, nth |-> i,
    action |-> plan[g].rules[k].actions[i]] : i \in Taken(plan[g].rules[k])}

\* What is left to do of a group is rules of it, each once, and an unconditional one only
\* on the value as sent.
TodoInv ==
  pc = "rules" =>
    /\ todo \in Seq(DOMAIN plan[at.g].rules)
    /\ \A i, j \in 1..Len(todo) : todo[i] = todo[j] => i = j
    /\ \A i \in 1..Len(todo) : plan[at.g].rules[todo[i]].unconditional => at.r = 1

Live == {v \in DOMAIN values : ~values[v].inert}

\* A rule that has something to report.
Due(v, d, g, k) ==
  v \in Live /\ d \in Readings(values[v].data) /\ g \in DOMAIN plan /\ Finds(v, d, g, k)

\* The evaluator is past rule k of group g on reading d of value v.
PastRule(g, k) == g < at.g \/ (g = at.g /\ pc = "rules" /\ k \notin ToSet(todo))
PastReading(d, g, k) ==
  \E r \in 1..Len(readings.list) :
    d = readings.list[r] /\ (r < at.r \/ (r = at.r /\ pc \in Active /\ PastRule(g, k)))
Past(v, d, g, k) ==
  v < at.v \/ (v = at.v /\ pc \in {"reading"} \cup Active /\ PastReading(d, g, k))

Scored(hits) == {h \in hits : h.action = "score"}

\* While an evaluation goes on, its findings are those of the rules it is past, and nothing
\* else; what it stopped with is nothing else either.
HitsInv ==
  /\ pc # "idle" => result.outcome = "none"
  /\ pc = "idle" /\ result.outcome = "none" => at.v > Len(values)
  /\ \A h \in result.hits : \E v, d, g, k :
       Due(v, d, g, k) /\ h \in Reports(v, d, g, k) /\ (pc # "idle" => Past(v, d, g, k))
  /\ result.outcome = "none" =>
       \A v, d, g, k : Due(v, d, g, k) /\ Past(v, d, g, k) => Reports(v, d, g, k) \subseteq result.hits
  /\ IsFiniteSet(result.hits) /\ result.score = Cardinality(Scored(result.hits))

-----------------------------------------------------------------------------
(* The plan, the readings and the chain                                      *)

\* Sorting the groups repeats none.
LEMMA PlanMade == Init => PlanInv
<1> SUFFICES ASSUME Init PROVE PlanInv
  OBVIOUS
<1>1. PICK groups \in Rulesets : plan \in Orders(groups)
  BY DEF Init
<1>2. /\ plan \in [1..Cardinality(groups) -> groups]
      /\ \A g, h \in DOMAIN plan : plan[g] = plan[h] => g = h
  BY <1>1 DEF Orders, IsInjective
<1>3. \A g \in DOMAIN plan : plan[g] \in groups
  BY <1>2
<1>4. /\ \A g, h \in groups : g.chain = h.chain => g = h
      /\ \A g \in groups : \A k \in DOMAIN g.rules :
           g.rules[k].unconditional \/ g.rules[k].matches \subseteq g.rules[k].found
  BY RulesetAssumption
<1>5. \A g, h \in DOMAIN plan : plan[g].chain = plan[h].chain => g = h
  BY <1>2, <1>3, <1>4
<1>6. \A g \in DOMAIN plan : \A k \in DOMAIN plan[g].rules :
       plan[g].rules[k].unconditional \/ plan[g].rules[k].matches \subseteq plan[g].rules[k].found
  BY SMTT(30), <1>3, <1>4
<1> QED
  BY <1>5, <1>6 DEF PlanInv

\* The plan of a ruleset never changes.
LEMMA PlanStays == [Next]_vars => plan' = plan
BY DEF Next, vars, NewTransaction, Eval, OpenValue, Build, OpenReading, PassGroup, OpenGroup,
   Transform, CloseChain, Scan, EvalRule, CloseGroup

\* addDecoded: a decoding is added once, or noted as one too many.
LEMMA ReadingAdded ==
  ASSUME NEW rs \in [list : Seq(Data), truncated : BOOLEAN], NEW d \in Data,
         \A i, j \in 1..Len(rs.list) : rs.list[i] = rs.list[j] => i = j, Len(rs.list) > 0
  PROVE  LET new == WithReading(rs, d) IN
         /\ Len(new.list) > 0 /\ new.list[1] = rs.list[1]
         /\ \A i, j \in 1..Len(new.list) : new.list[i] = new.list[j] => i = j
         /\ ~new.truncated => ~rs.truncated /\ ToSet(new.list) = ToSet(rs.list) \cup {d}
<1> DEFINE new == WithReading(rs, d)
           q == Append(rs.list, d)
<1>1. rs.list \in Seq(Data) /\ Len(rs.list) \in Nat /\ DOMAIN rs.list = 1..Len(rs.list)
  OBVIOUS
<1>2. CASE Len(rs.list) >= MaxReadings
  <2>1. new = [rs EXCEPT !.truncated = TRUE]
    BY <1>2 DEF WithReading
  <2> QED
    BY <2>1
<1>3. CASE ~(Len(rs.list) >= MaxReadings) /\ d \in Range(rs.list)
  <2>1. new = rs
    BY <1>3 DEF WithReading
  <2>2. d \in ToSet(rs.list)
    BY <1>3 DEF Range, ToSet
  <2> QED
    BY <2>1, <2>2
<1>4. CASE ~(Len(rs.list) >= MaxReadings) /\ d \notin Range(rs.list)
  <2>1. new = [rs EXCEPT !.list = q]
    BY <1>4 DEF WithReading
  <2>2. new.list = q /\ new.truncated = rs.truncated
    BY <2>1
  <2>3. /\ q \in Seq(Data) /\ Len(q) = Len(rs.list) + 1 /\ q[Len(rs.list) + 1] = d
        /\ \A i \in 1..Len(rs.list) : q[i] = rs.list[i]
    BY <1>1
  <2> HIDE DEF q, new
  <2>4. \A i \in 1..Len(rs.list) : rs.list[i] # d
    BY <1>1, <1>4 DEF Range
  <2>5. \A i \in 1..Len(q) : i \in 1..Len(rs.list) \/ i = Len(rs.list) + 1
    BY <1>1, <2>3
  <2>6. \A i, j \in 1..Len(q) : q[i] = q[j] => i = j
    BY <2>3, <2>4, <2>5
  <2>7. ToSet(q) = ToSet(rs.list) \cup {d}
    <3>1. DOMAIN q = 1..Len(q) /\ Len(rs.list) + 1 \in 1..Len(q) /\ 1..Len(rs.list) \subseteq 1..Len(q)
      BY <1>1, <2>3
    <3>2. ToSet(q) \subseteq ToSet(rs.list) \cup {d}
      BY <1>1, <2>3, <2>5, <3>1 DEF ToSet
    <3>3. ToSet(rs.list) \cup {d} \subseteq ToSet(q)
      BY <1>1, <2>3, <3>1 DEF ToSet
    <3> QED
      BY <3>2, <3>3
  <2> QED
    BY <1>1, <2>2, <2>3, <2>6, <2>7 DEF new
<1> QED
  BY <1>2, <1>3, <1>4

\* A step among the readings of one value.
LEMMA ReadingsSame ==
  ASSUME ReadingsInv, UNCHANGED <<readings, values>>, at'.v = at.v,
         pc \in {"reading"} \cup Active, pc' \in {"reading"} \cup Active
  PROVE  ReadingsInv'
BY DEF ReadingsInv, Active

\* Every step keeps ReadingsInv.
LEMMA ReadingsStep == Typed /\ ReadingsInv /\ [Next]_vars => ReadingsInv'
<1> SUFFICES ASSUME Typed, ReadingsInv, [Next]_vars PROVE ReadingsInv'
  OBVIOUS
<1>0. /\ at \in Places /\ values \in Seq(Value)
      /\ readings \in [list : Seq(Data), truncated : BOOLEAN]
  BY DEF Typed, TypeOK, Places
<1>1. CASE pc' \notin {"build", "reading"} \cup Active
  BY <1>1 DEF ReadingsInv
<1>2. CASE OpenValue /\ pc' = "build"
  <2> DEFINE d == values[at.v].data
  <2>1. at' = [at EXCEPT !.r = 1] /\ ~values[at.v].inert /\ values' = values
        /\ readings' = [list |-> <<d>>, truncated |-> FALSE]
    BY <1>2 DEF OpenValue
  <2>2. at'.v = at.v /\ at'.r = 1
    BY <1>0, <2>1 DEF Places
  <2>3. readings'.list = <<d>> /\ ~readings'.truncated
    BY <2>1
  <2>4. at.v \in DOMAIN values
    BY <1>0, <1>2 DEF OpenValue, Places
  <2>5. Len(Decoded[d]) \in Nat
    BY <2>4, ValueTyped
  <2> HIDE DEF d
  <2> DEFINE list == <<d>>
  <2>6. /\ ToSet(list) = {d} /\ ReadingsTo(d, 0) = {d} /\ Len(list) = 1 /\ list[1] = d
    BY DEF ToSet, ReadingsTo
  <2>7. \A i, j \in 1..Len(list) : list[i] = list[j] => i = j
    BY <2>6
  <2>8. at'.r - 1 = 0 /\ at'.r - 1 <= Len(Decoded[d])
    BY <2>2, <2>5
  <2> HIDE DEF list
  <2>9. /\ readings'.list = list /\ values'[at'.v] = values[at.v] /\ values[at.v].data = d
        /\ ToSet(list) = ReadingsTo(d, at'.r - 1)
    BY <2>1, <2>2, <2>3, <2>6, <2>8 DEF list, d
  <2> QED
    BY <1>2, <2>1, <2>6, <2>7, <2>8, <2>9 DEF ReadingsInv
<1>3. CASE Build
  <2> DEFINE d == values[at.v].data
  <2>1. /\ ~values[at.v].inert /\ Len(readings.list) > 0 /\ readings.list[1] = d
        /\ \A i, j \in 1..Len(readings.list) : readings.list[i] = readings.list[j] => i = j
        /\ at.r - 1 <= Len(Decoded[d])
        /\ ~readings.truncated => ToSet(readings.list) = ReadingsTo(d, at.r - 1)
        /\ pc = "build"
    BY <1>3 DEF ReadingsInv, Build
  <2>2. at.v \in DOMAIN values
    BY <2>1 DEF Typed
  <2>3. d \in Data /\ Decoded[d] \in Seq(Data) /\ Len(Decoded[d]) \in Nat
    BY <2>2, ValueTyped
  <2>4. at.r \in Nat \ {0} /\ values' = values
    BY <1>0, <1>3 DEF Places, Build
  <2>5. CASE at.r <= Len(Decoded[d])
    <3> DEFINE e == Decoded[d][at.r]
    <3>1. readings' = WithReading(readings, e) /\ at' = [at EXCEPT !.r = @ + 1] /\ pc' = pc
      BY <1>3, <2>5 DEF Build
    <3>2. at'.v = at.v /\ at'.r = at.r + 1
      BY <1>0, <3>1 DEF Places
    <3>3. e \in Data
      BY <2>3, <2>4, <2>5
    <3>4. ReadingsTo(d, at.r - 1) \cup {e} = ReadingsTo(d, at.r)
      <4>1. 1..at.r = 1..at.r - 1 \cup {at.r}
        BY <2>4
      <4> QED
        BY <4>1 DEF ReadingsTo
    <3> HIDE DEF e, d
    <3>5. /\ Len(readings'.list) > 0 /\ readings'.list[1] = readings.list[1]
          /\ \A i, j \in 1..Len(readings'.list) : readings'.list[i] = readings'.list[j] => i = j
          /\ ~readings'.truncated =>
               ~readings.truncated /\ ToSet(readings'.list) = ToSet(readings.list) \cup {e}
      BY <1>0, <2>1, <3>1, <3>3, ReadingAdded
    <3>6. at'.r - 1 = at.r /\ at'.r - 1 <= Len(Decoded[d])
      BY <2>3, <2>4, <2>5, <3>2
    <3> QED
      BY <2>1, <2>4, <3>1, <3>2, <3>4, <3>5, <3>6 DEF ReadingsInv, d
  <2>6. CASE ~(at.r <= Len(Decoded[d])) /\ pc' # "idle"
    <3>1. /\ at' = [at EXCEPT !.r = 1] /\ UNCHANGED readings /\ pc' = "reading"
          /\ ~readings.truncated
      BY <1>3, <2>6 DEF Build, Stop
    <3>2. at'.v = at.v
      BY <1>0, <3>1 DEF Places
    <3>3. at.r - 1 = Len(Decoded[d])
      BY <2>1, <2>3, <2>4, <2>6
    <3>4. DOMAIN Decoded[d] = 1..Len(Decoded[d])
      BY <2>3
    <3>5. ReadingsTo(d, Len(Decoded[d])) = Readings(d)
      BY <3>4 DEF ReadingsTo, Readings, ToSet
    <3> QED
      BY <2>1, <2>4, <3>1, <3>2, <3>3, <3>5 DEF ReadingsInv
  <2>7. CASE pc' = "idle"
    BY <1>1, <2>7 DEF Active
  <2> QED
    BY <2>5, <2>6, <2>7
<1>4. CASE OpenReading \/ PassGroup \/ OpenGroup \/ CloseGroup
  <2>1. /\ pc \in {"reading"} \cup Active /\ UNCHANGED <<readings, values>>
        /\ pc' = "value" \/ (pc' \in {"reading"} \cup Active /\ at'.v = at.v)
    BY <1>0, <1>4 DEF OpenReading, PassGroup, OpenGroup, CloseGroup, Places, Active
  <2> QED
    BY <1>1, <2>1, ReadingsSame DEF Active
<1>5. CASE Transform \/ CloseChain \/ Scan \/ EvalRule
  <2>1. /\ pc \in Active /\ UNCHANGED <<readings, values, at>> /\ pc' \in {"idle"} \cup Active
    BY <1>5, TransformCases, EvalRuleCases DEF Transform, CloseChain, Scan, EvalRule, Active, Stop
  <2> QED
    BY SMTT(30), <1>1, <2>1, ReadingsSame DEF Active
<1>6. CASE UNCHANGED vars
  BY <1>6 DEF vars, ReadingsInv
<1>7. CASE NewTransaction \/ \E vs \in Values : Eval(vs)
  BY <1>1, <1>7 DEF NewTransaction, Eval, Active
<1>8. CASE OpenValue
  <2>1. pc' \in {"idle", "value", "build"}
    BY <1>8 DEF OpenValue
  <2> QED
    BY <1>1, <1>2, <1>8, <2>1 DEF Active
<1> QED
  BY <1>3, <1>4, <1>5, <1>6, <1>7, <1>8 DEF Next

\* What a chain that was applied to its end is left with.
LEMMA WholeChain ==
  ASSUME Typed, Kept, pc = "chain", chain.n = Len(plan[at.g].chain)
  PROVE  Held(chain.from) = Chained(plan[at.g].chain, stages.src)
<1> DEFINE c == plan[at.g].chain
           h == [k \in 0..Len(c) |-> Held(Before(k + 1))]
<1>1. c \in Seq(Transforms) /\ Len(c) \in Nat /\ stages.src \in Data
  BY InGroup DEF Typed, TypeOK
<1>2. /\ Depths = 1..Len(c) /\ \A k \in 1..Len(c) : Prefix(k) = c
      /\ \A k \in 1..Len(c) : Held(stages.step[k].from) = Image[Prefix(k)[k]][Held(Before(k))]
      /\ chain.from = Before(Len(c) + 1)
  <2>1. Depths = 1..Len(c) /\ \A k \in 1..Len(c) : Prefix(k) = c
    BY DEF Depths, Prefix
  <2>2. \A k \in Depths : Held(stages.step[k].from) = Image[Prefix(k)[k]][Held(Before(k))]
    BY DEF Kept, StepsSound
  <2>3. chain.from = Before(Len(c) + 1)
    BY DEF Kept
  <2> QED
    BY <2>1, <2>2, <2>3
<1> HIDE DEF c
<1>3. h[0] = stages.src /\ h[Len(c)] = Held(chain.from)
  <2>1. h[0] = Held(Before(1)) /\ h[Len(c)] = Held(Before(Len(c) + 1))
    BY <1>1
  <2>2. Held(Before(1)) = stages.src
    BY DEF Held, Before
  <2> QED
    BY <1>2, <2>1, <2>2
<1>4. \A k \in 1..Len(c) : h[k] = Image[c[k]][h[k - 1]]
  <2> TAKE k \in 1..Len(c)
  <2>1. /\ k \in 0..Len(c) /\ k - 1 \in 0..Len(c) /\ (k - 1) + 1 = k /\ k + 1 # 1 /\ (k + 1) - 1 = k
    BY <1>1
  <2>2. h[k] = Held(Before(k + 1)) /\ h[k - 1] = Held(Before(k))
    BY <2>1
  <2>3. Before(k + 1) = stages.step[k].from
    BY <2>1 DEF Before
  <2> QED
    BY <1>2, <2>2, <2>3
<1> HIDE DEF h
<1>5. Chains(h, c, stages.src)
  BY <1>3, <1>4 DEF Chains
<1> QED
  BY <1>1, <1>3, <1>5, ChainedBy DEF c

\* Every step keeps ChainInv.
LEMMA ChainStep == Typed /\ Kept /\ ChainInv /\ [Next]_vars => ChainInv'
<1> SUFFICES ASSUME Typed, Kept, ChainInv, [Next]_vars PROVE ChainInv'
  OBVIOUS
<1>0. at \in Places
  BY DEF Typed, TypeOK, Places
<1>1. CASE pc' \notin Active
  BY <1>1 DEF ChainInv, Active
<1>2. CASE pc \in Active /\ pc' \in {"group", "chain"}
           /\ at'.r = at.r /\ UNCHANGED readings /\ stages'.src = stages.src
  BY <1>2 DEF ChainInv, Active
<1>3. CASE pc \in {"scan", "rules"} /\ pc' \in {"scan", "rules"}
           /\ UNCHANGED <<plan, at, readings, stages, chain>>
  BY <1>3 DEF ChainInv, Active, Held
<1>4. CASE OpenReading
  <2>1. CASE pc' = "value"
    BY <1>1, <2>1 DEF Active
  <2>2. CASE pc' = "group"
    <3>1. stages' = Fresh(readings.list[at.r]) /\ at' = [at EXCEPT !.g = 1] /\ UNCHANGED readings
      BY <1>4, <2>2 DEF OpenReading
    <3>2. stages'.src = readings.list[at.r] /\ at'.r = at.r
      BY <1>0, <3>1 DEF Fresh, Places
    <3> QED
      BY <2>2, <3>1, <3>2 DEF ChainInv
  <2> QED
    BY <1>4, <2>1, <2>2 DEF OpenReading
<1>5. CASE PassGroup
  <2>1. CASE pc' = "reading"
    BY <1>1, <2>1 DEF Active
  <2>2. CASE pc' = "group"
    BY <1>0, <1>2, <1>5, <2>2 DEF PassGroup, Active, Places
  <2> QED
    BY <1>5, <2>1, <2>2 DEF PassGroup
<1>6. CASE OpenGroup
  <2>1. pc = "group" /\ UNCHANGED <<plan, at, readings, stages>> /\ at.g \in DOMAIN plan
    BY <1>0, <1>6 DEF OpenGroup, Places, Typed
  <2>2. CASE plan[at.g].chain = <<>>
    <3>1. pc' = "scan" /\ chain' = [n |-> 0, from |-> 0, changed |-> FALSE]
      BY <1>6, <2>2 DEF OpenGroup
    <3>2. stages.src \in Data
      BY DEF Typed, TypeOK
    <3> DEFINE h == [k \in 0..0 |-> stages.src]
               c == plan[at.g].chain
    <3>3. /\ c \in Seq(Transforms) /\ Len(c) = 0
          /\ h[0] = stages.src /\ Chains(h, c, stages.src)
      BY <2>2 DEF Chains
    <3> HIDE DEF h, c
    <3>4. Chained(c, stages.src) = stages.src
      <4>1. Chained(c, stages.src) = h[Len(c)]
        BY <3>2, <3>3, ChainedBy
      <4> QED
        BY <3>3, <4>1
    <3>5. Held(chain.from)' = stages.src
      BY <2>1, <3>1 DEF Held
    <3>6. UNCHANGED stages.src
      BY <2>1
    <3> QED
      BY <2>1, <3>1, <3>4, <3>5, <3>6 DEF ChainInv, Active, c
  <2>3. CASE plan[at.g].chain # <<>>
    <3>1. pc' = "chain"
      BY <1>6, <2>3 DEF OpenGroup
    <3> QED
      BY <1>2, <2>1, <3>1 DEF Active
  <2> QED
    BY <2>2, <2>3
<1>7. CASE Transform
  BY <1>1, <1>2, <1>7, TransformCases DEF Active, Stop
<1>8. CASE CloseChain
  <2>1. /\ pc = "chain" /\ chain.n = Len(plan[at.g].chain) /\ pc' = "scan"
        /\ stages' = [stages EXCEPT !.prev = plan[at.g].chain]
        /\ UNCHANGED <<plan, at, readings, chain>>
    BY <1>8 DEF CloseChain
  <2>2. stages'.src = stages.src /\ stages'.buf = stages.buf
    BY <2>1 DEF Typed, TypeOK
  <2>3. Held(chain.from)' = Held(chain.from)
    BY <2>1, <2>2 DEF Held
  <2> QED
    BY <2>1, <2>2, <2>3, WholeChain DEF ChainInv, Active
<1>9. CASE Scan \/ EvalRule
  <2>1. /\ pc \in {"scan", "rules"} /\ UNCHANGED <<plan, at, readings, stages, chain>>
        /\ pc' \in {"idle", "rules"}
    BY <1>9, EvalRuleCases DEF Scan, Stop
  <2> QED
    BY <1>1, <1>3, <2>1 DEF Active
<1>10. CASE CloseGroup
  BY <1>0, <1>2, <1>10 DEF CloseGroup, Active, Places
<1>11. CASE NewTransaction \/ (\E vs \in Values : Eval(vs)) \/ OpenValue \/ Build
  BY <1>1, <1>11 DEF NewTransaction, Eval, OpenValue, Build, Stop, Active
<1>12. CASE UNCHANGED vars
  BY <1>12 DEF vars, ChainInv, Held
<1> QED
  BY <1>4, <1>5, <1>6, <1>7, <1>8, <1>9, <1>10, <1>11, <1>12 DEF Next

-----------------------------------------------------------------------------
(* What is left to do of a group                                             *)

\* The rules Eval goes through: each once, an unconditional one on the value as sent only,
\* and every other one the automaton found something for.
LEMMA TodoLists ==
  ASSUME NEW g \in Group, NEW d
  PROVE  LET t == Todo(g, d) IN
         /\ t \in Seq(DOMAIN g.rules)
         /\ \A i, j \in 1..Len(t) : t[i] = t[j] => i = j
         /\ \A i \in 1..Len(t) : g.rules[t[i]].unconditional => at.r = 1
         /\ at.r = 1 => Unconditional(g) \subseteq ToSet(t)
         /\ Candidates(g, d) \subseteq ToSet(t)
<1> DEFINE n == Len(g.rules)
           U == IF at.r = 1 THEN Unconditional(g) ELSE {}
           C == Candidates(g, d)
           a == IF at.r = 1 THEN Ascending(g, Unconditional(g)) ELSE <<>>
           b == Ascending(g, C)
           t == a \o b
<1>1. g.rules \in Seq(Rule) /\ n \in Nat /\ DOMAIN g.rules = 1..n
  BY DEF Group
<1>2. /\ Unconditional(g) \in SUBSET (1..n) /\ C \in SUBSET (1..n) /\ U \cap C = {}
      /\ \A k \in U : k \in 1..n /\ at.r = 1
      /\ \A k \in C : k \in 1..n /\ ~g.rules[k].unconditional
  BY <1>1 DEF Unconditional, Candidates
<1>3. Todo(g, d) = t
  BY DEF Todo
<1>4. Lists(a, U)
  <2>1. Lists(Ascending(g, Unconditional(g)), Unconditional(g))
    BY <1>1, <1>2, AscendingLists
  <2>2. Lists(<<>>, {})
    BY DEF Lists
  <2> QED
    BY <2>1, <2>2
<1>5. Lists(b, C)
  BY <1>1, <1>2, AscendingLists
<1>6. U = IF at.r = 1 THEN Unconditional(g) ELSE {}
  OBVIOUS
<1> HIDE DEF U, C, a, b, n
<1>7. /\ a \in Seq(U) /\ b \in Seq(C) /\ Len(a) \in Nat /\ Len(b) \in Nat
      /\ \A i \in 1..Len(a) : a[i] \in U
      /\ \A i \in 1..Len(b) : b[i] \in C
  BY <1>4, <1>5 DEF Lists
<1>8. a \in Seq(U \cup C) /\ b \in Seq(U \cup C)
  BY <1>7
<1>9. /\ t \in Seq(U \cup C) /\ Len(t) = Len(a) + Len(b)
      /\ \A i \in 1..Len(a) : t[i] = a[i]
      /\ \A i \in 1..Len(b) : t[Len(a) + i] = b[i]
  BY <1>8
<1> HIDE DEF t
<1>10. \A i \in 1..Len(t) : \/ i \in 1..Len(a) /\ t[i] = a[i] /\ t[i] \in U
                            \/ /\ i - Len(a) \in 1..Len(b) /\ t[i] = b[i - Len(a)]
                               /\ t[i] \in C /\ i > Len(a)
  <2> TAKE i \in 1..Len(t)
  <2>1. CASE i <= Len(a)
    BY <1>7, <1>9, <2>1
  <2>2. CASE ~(i <= Len(a))
    <3>1. i - Len(a) \in 1..Len(b) /\ Len(a) + (i - Len(a)) = i /\ i > Len(a)
      BY <1>7, <1>9, <2>2
    <3>2. t[Len(a) + (i - Len(a))] = b[i - Len(a)] /\ b[i - Len(a)] \in C
      BY <1>7, <1>9, <3>1
    <3> QED
      BY <3>1, <3>2
  <2> QED
    BY <2>1, <2>2
<1>11. /\ \A i, j \in 1..Len(a) : a[i] = a[j] => i = j
       /\ \A i, j \in 1..Len(b) : b[i] = b[j] => i = j
  <2>1. ASSUME NEW q, NEW S \in SUBSET Nat, Lists(q, S), Len(q) \in Nat
        PROVE  \A i, j \in 1..Len(q) : q[i] = q[j] => i = j
    <3> SUFFICES ASSUME NEW i \in 1..Len(q), NEW j \in 1..Len(q), q[i] = q[j], i # j PROVE FALSE
      OBVIOUS
    <3>1. q \in Seq(S)
      BY <2>1 DEF Lists
    <3>3. q[i] \in S /\ q[j] \in S
      BY <2>1, <3>1
    <3>2. i < j \/ j < i
      BY <2>1
    <3>4. \A x, y \in 1..Len(q) : x < y => q[x] < q[y]
      BY <2>1 DEF Lists
    <3>5. q[i] < q[j] \/ q[j] < q[i]
      BY <3>2, <3>4
    <3>6. q[i] \in Nat /\ q[j] \in Nat
      BY <2>1, <3>3
    <3> QED
      BY <3>5, <3>6
  <2>2. U \in SUBSET Nat /\ C \in SUBSET Nat
    BY <1>1, <1>2
  <2> QED
    BY <1>4, <1>5, <1>7, <2>1, <2>2
<1>12. \A i, j \in 1..Len(t) : t[i] = t[j] => i = j
  <2> SUFFICES ASSUME NEW i \in 1..Len(t), NEW j \in 1..Len(t), t[i] = t[j] PROVE i = j
    OBVIOUS
  <2>1. CASE t[i] \in U
    <3>1. t[i] \notin C
      BY <1>2, <2>1
    <3>2. i \in 1..Len(a) /\ j \in 1..Len(a) /\ a[i] = a[j]
      BY <1>10, <2>1, <3>1
    <3> QED
      BY <1>11, <3>2
  <2>2. CASE t[i] \notin U
    <3>1. /\ i - Len(a) \in 1..Len(b) /\ j - Len(a) \in 1..Len(b)
          /\ b[i - Len(a)] = b[j - Len(a)]
      BY <1>10, <2>2
    <3>2. i - Len(a) = j - Len(a)
      BY <1>11, <3>1
    <3> QED
      BY <1>7, <3>2
  <2> QED
    BY <2>1, <2>2
<1>13. DOMAIN t = 1..Len(t) /\ Len(t) \in Nat
  BY <1>9
<1>14. U \subseteq ToSet(t)
  <2> SUFFICES ASSUME NEW k \in U PROVE k \in ToSet(t)
    OBVIOUS
  <2>1. PICK i \in 1..Len(a) : a[i] = k
    BY <1>4 DEF Lists
  <2>2. i \in 1..Len(t) /\ t[i] = k
    BY <1>7, <1>9, <2>1
  <2> QED
    BY <1>13, <2>2 DEF ToSet
<1>15. C \subseteq ToSet(t)
  <2> SUFFICES ASSUME NEW k \in C PROVE k \in ToSet(t)
    OBVIOUS
  <2>1. PICK i \in 1..Len(b) : b[i] = k
    BY <1>5 DEF Lists
  <2>2. Len(a) + i \in 1..Len(t) /\ t[Len(a) + i] = k
    BY <1>7, <1>9, <2>1
  <2> QED
    BY <1>13, <2>2 DEF ToSet
<1>16. t \in Seq(DOMAIN g.rules)
  <2>1. U \cup C \subseteq DOMAIN g.rules
    BY <1>1, <1>2
  <2> QED
    BY <1>9, <2>1
<1>17. \A i \in 1..Len(t) : g.rules[t[i]].unconditional => at.r = 1
  <2> TAKE i \in 1..Len(t)
  <2>1. t[i] \in U \/ t[i] \in C
    BY <1>10
  <2> QED
    BY <1>2, <2>1
<1>18. at.r = 1 => Unconditional(g) \subseteq ToSet(t)
  BY <1>6, <1>14
<1> QED
  BY <1>3, <1>12, <1>15, <1>16, <1>17, <1>18 DEF C

\* Every step keeps TodoInv.
LEMMA TodoStep == Typed /\ TodoInv /\ [Next]_vars => TodoInv'
<1> SUFFICES ASSUME Typed, TodoInv, [Next]_vars PROVE TodoInv'
  OBVIOUS
<1>1. CASE pc' # "rules"
  BY <1>1 DEF TodoInv
<1>2. CASE Scan /\ pc' = "rules"
  <2>1. /\ todo' = Todo(plan[at.g], Held(chain.from)) /\ UNCHANGED <<plan, at>> /\ pc = "scan"
    BY <1>2 DEF Scan, Stop
  <2>2. plan[at.g] \in Group
    BY <2>1, InGroup, GroupTyped
  <2> QED
    BY <2>1, <2>2, TodoLists DEF TodoInv
<1>3. CASE EvalRule
  <2>1. /\ todo' = Tail(todo) /\ todo # <<>> /\ pc = "rules" /\ UNCHANGED <<plan, at>>
    BY <1>3 DEF EvalRule
  <2>2. /\ todo \in Seq(DOMAIN plan[at.g].rules)
        /\ \A i, j \in 1..Len(todo) : todo[i] = todo[j] => i = j
        /\ \A i \in 1..Len(todo) : plan[at.g].rules[todo[i]].unconditional => at.r = 1
    BY <2>1 DEF TodoInv
  <2>3. /\ Len(todo) \in Nat /\ todo' \in Seq(DOMAIN plan[at.g].rules)
        /\ Len(todo') = Len(todo) - 1 /\ \A i \in 1..Len(todo') : todo'[i] = todo[i + 1]
    BY <2>1, <2>2
  <2>4. \A i \in 1..Len(todo') : i + 1 \in 1..Len(todo)
    BY <2>3
  <2>5. \A i, j \in 1..Len(todo') : todo'[i] = todo'[j] => i = j
    BY <2>2, <2>3, <2>4
  <2>6. \A i \in 1..Len(todo') : plan[at.g].rules[todo'[i]].unconditional => at.r = 1
    BY <2>2, <2>3, <2>4
  <2> QED
    BY SMTT(30), <2>1, <2>3, <2>5, <2>6 DEF TodoInv
<1>4. CASE UNCHANGED vars
  BY <1>4 DEF vars, TodoInv
<1>5. CASE \/ NewTransaction \/ (\E vs \in Values : Eval(vs)) \/ OpenValue \/ Build \/ OpenReading
           \/ PassGroup \/ OpenGroup \/ CloseChain \/ CloseGroup
  BY <1>1, <1>5 DEF NewTransaction, Eval, OpenValue, Build, OpenReading, PassGroup, OpenGroup,
     CloseChain, CloseGroup, Stop
<1>6. CASE Transform
  BY <1>1, <1>6, TransformCases DEF Stop
<1> QED
  BY <1>1, <1>2, <1>3, <1>4, <1>5, <1>6 DEF Next

-----------------------------------------------------------------------------
(* The findings are those of the rules the evaluator is past                 *)

\* A step that finds nothing: no rule that has something to report is newly past.
LEMMA HitsSame ==
  ASSUME HitsInv, UNCHANGED <<plan, values, result>>, pc # "idle",
         pc' = "idle" => at'.v > Len(values),
         \A v, d, g, k : Due(v, d, g, k) => (Past(v, d, g, k)' <=> Past(v, d, g, k))
  PROVE  HitsInv'
<1>1. \A v, d, g, k : /\ Due(v, d, g, k)' <=> Due(v, d, g, k)
                      /\ Reports(v, d, g, k)' = Reports(v, d, g, k)
  BY DEF Due, Live, Finds, Reports
<1>2. /\ result.outcome = "none"
      /\ \A h \in result.hits : \E v, d, g, k :
           Due(v, d, g, k) /\ h \in Reports(v, d, g, k) /\ Past(v, d, g, k)
      /\ \A v, d, g, k : Due(v, d, g, k) /\ Past(v, d, g, k) => Reports(v, d, g, k) \subseteq result.hits
      /\ IsFiniteSet(result.hits) /\ result.score = Cardinality(Scored(result.hits))
  BY DEF HitsInv
<1>3. \A h \in result'.hits : \E v, d, g, k :
        Due(v, d, g, k)' /\ h \in Reports(v, d, g, k)' /\ Past(v, d, g, k)'
  <2> TAKE h \in result'.hits
  <2>1. PICK v, d, g, k : Due(v, d, g, k) /\ h \in Reports(v, d, g, k) /\ Past(v, d, g, k)
    BY <1>2
  <2>2. Due(v, d, g, k)' /\ h \in Reports(v, d, g, k)' /\ Past(v, d, g, k)'
    BY <1>1, <2>1
  <2> QED
    BY <2>2
<1>4. \A v, d, g, k : Due(v, d, g, k)' /\ Past(v, d, g, k)' =>
                        Reports(v, d, g, k)' \subseteq result'.hits
  BY <1>1, <1>2
<1>5. IsFiniteSet(result'.hits) /\ result'.score = Cardinality(Scored(result'.hits))
  BY <1>2
<1>6. result'.outcome = "none" /\ (pc' = "idle" => at'.v > Len(values'))
  BY <1>2
<1> QED
  BY <1>3, <1>4, <1>5, <1>6 DEF HitsInv

\* A step that ends the evaluation early keeps what was found.
LEMMA HitsStop ==
  ASSUME HitsInv, UNCHANGED <<plan, values>>, NEW why \in {"exhausted", "undecidable", "terminal"},
         Stop(why)
  PROVE  HitsInv'
<1>1. \A v, d, g, k : /\ Due(v, d, g, k)' <=> Due(v, d, g, k)
                      /\ Reports(v, d, g, k)' = Reports(v, d, g, k)
  BY DEF Due, Live, Finds, Reports
<1>2. pc' = "idle" /\ result'.hits = result.hits /\ result'.score = result.score
      /\ result'.outcome # "none"
  BY DEF Stop
<1>3. /\ \A h \in result.hits : \E v, d, g, k : Due(v, d, g, k) /\ h \in Reports(v, d, g, k)
      /\ IsFiniteSet(result.hits) /\ result.score = Cardinality(Scored(result.hits))
  BY DEF HitsInv
<1>4. \A h \in result'.hits : \E v, d, g, k : Due(v, d, g, k)' /\ h \in Reports(v, d, g, k)'
  <2> TAKE h \in result'.hits
  <2>1. PICK v, d, g, k : Due(v, d, g, k) /\ h \in Reports(v, d, g, k)
    BY <1>2, <1>3
  <2>2. Due(v, d, g, k)' /\ h \in Reports(v, d, g, k)'
    BY <1>1, <2>1
  <2> QED
    BY <2>2
<1>5. IsFiniteSet(result'.hits) /\ result'.score = Cardinality(Scored(result'.hits))
  BY <1>2, <1>3
<1> QED
  BY <1>2, <1>4, <1>5 DEF HitsInv

\* Where the evaluator stands, as numbers.
LEMMA Standing ==
  ASSUME Typed
  PROVE  /\ at.v \in Nat \ {0} /\ at.r \in Nat \ {0} /\ at.g \in Nat \ {0}
         /\ Len(values) \in Nat /\ DOMAIN values = 1..Len(values)
         /\ Len(plan) \in Nat /\ DOMAIN plan = 1..Len(plan)
         /\ Len(readings.list) \in Nat /\ DOMAIN readings.list = 1..Len(readings.list)
         /\ \A n \in {"v", "r", "g"} : [at EXCEPT ![n] = @ + 1] \in Places
         /\ [at EXCEPT !.v = @ + 1].v = at.v + 1
         /\ [at EXCEPT !.r = @ + 1].v = at.v /\ [at EXCEPT !.r = @ + 1].r = at.r + 1
         /\ [at EXCEPT !.g = @ + 1].v = at.v /\ [at EXCEPT !.g = @ + 1].r = at.r
         /\ [at EXCEPT !.g = @ + 1].g = at.g + 1
         /\ [at EXCEPT !.r = 1].v = at.v /\ [at EXCEPT !.r = 1].r = 1
         /\ [at EXCEPT !.g = 1].v = at.v /\ [at EXCEPT !.g = 1].r = at.r /\ [at EXCEPT !.g = 1].g = 1
BY SMTT(30) DEF Typed, TypeOK, Places

\* The numbers of what is due.
LEMMA DueNumbers ==
  ASSUME Typed, NEW v, NEW d, NEW g, NEW k, Due(v, d, g, k)
  PROVE  /\ v \in Nat /\ g \in Nat /\ 1 <= v /\ v <= Len(values) /\ 1 <= g /\ g <= Len(plan)
         /\ ~values[v].inert /\ d \in Readings(values[v].data)
BY Standing DEF Due, Live

\* A new transaction has no values and no findings.
LEMMA HitsNew == Typed /\ NewTransaction => HitsInv'
<1> SUFFICES ASSUME Typed, NewTransaction PROVE HitsInv'
  OBVIOUS
<1>1. /\ result' = [hits |-> {}, score |-> 0, outcome |-> "none"] /\ values' = <<>>
      /\ pc' = "idle" /\ at' = at
  BY DEF NewTransaction
<1>2. Len(values') = 0 /\ at'.v > Len(values')
  BY <1>1, Standing
<1>3. \A v, d, g, k : ~Due(v, d, g, k)'
  BY <1>1 DEF Due, Live
<1>4. Scored({}) = {} /\ IsFiniteSet({}) /\ Cardinality({}) = 0
  BY FS_EmptySet DEF Scored
<1> QED
  BY <1>1, <1>2, <1>3, <1>4 DEF HitsInv

\* A phase starts with nothing behind it.
LEMMA HitsEval == Typed /\ (\E vs \in Values : Eval(vs)) => HitsInv'
<1> SUFFICES ASSUME Typed, NEW vs \in Values, Eval(vs) PROVE HitsInv'
  OBVIOUS
<1>1. /\ result' = [hits |-> {}, score |-> 0, outcome |-> "none"] /\ values' = vs
      /\ pc' = "value" /\ at' = [v |-> 1, r |-> 1, g |-> 1]
  BY DEF Eval
<1>2. vs \in Seq(Value)
  BY EngineAssumption
<1>3. \A v, d, g, k : Due(v, d, g, k)' => ~Past(v, d, g, k)'
  BY <1>1, <1>2 DEF Due, Live, Past, Active
<1>4. Scored({}) = {} /\ IsFiniteSet({}) /\ Cardinality({}) = 0
  BY FS_EmptySet DEF Scored
<1> QED
  BY <1>1, <1>3, <1>4 DEF HitsInv

\* Between two values.
LEMMA HitsOpenValue == Typed /\ HitsInv /\ OpenValue => HitsInv'
<1> SUFFICES ASSUME Typed, HitsInv, OpenValue PROVE HitsInv'
  OBVIOUS
<1>1. pc = "value" /\ UNCHANGED <<plan, values, result>>
  BY DEF OpenValue
<1>2. \A v, d, g, k : Past(v, d, g, k) <=> v < at.v
  BY <1>1 DEF Past, Active
<1>3. CASE at.v > Len(values)
  <2>1. pc' = "idle" /\ at' = at
    BY <1>3 DEF OpenValue
  <2>2. \A v, d, g, k : Past(v, d, g, k)' <=> v < at.v
    BY <2>1 DEF Past, Active
  <2> QED
    BY <1>1, <1>2, <1>3, <2>1, <2>2, HitsSame
<1>4. CASE ~(at.v > Len(values)) /\ values[at.v].inert
  <2>1. pc' = "value" /\ at'.v = at.v + 1
    BY <1>1, <1>4, Standing DEF OpenValue
  <2>2. \A v, d, g, k : Past(v, d, g, k)' <=> v < at.v + 1
    BY <2>1 DEF Past, Active
  <2>3. \A v, d, g, k : Due(v, d, g, k) => (v < at.v + 1 <=> v < at.v)
    <3> SUFFICES ASSUME NEW v, NEW d, NEW g, NEW k, Due(v, d, g, k) PROVE v < at.v + 1 <=> v < at.v
      OBVIOUS
    <3>1. v \in Nat /\ v # at.v
      BY <1>4, DueNumbers
    <3> QED
      BY <3>1, Standing
  <2> QED
    BY <1>1, <1>2, <2>1, <2>2, <2>3, HitsSame
<1>5. CASE ~(at.v > Len(values)) /\ ~values[at.v].inert
  <2>1. pc' = "build" /\ at'.v = at.v
    BY <1>1, <1>5, Standing DEF OpenValue
  <2>2. \A v, d, g, k : Past(v, d, g, k)' <=> v < at.v
    BY <2>1 DEF Past, Active
  <2> QED
    BY <1>1, <1>2, <2>1, <2>2, HitsSame
<1> QED
  BY <1>3, <1>4, <1>5

\* While the readings are found nothing of the value is behind.
LEMMA HitsBuild == Typed /\ HitsInv /\ Build => HitsInv'
<1> SUFFICES ASSUME Typed, HitsInv, Build PROVE HitsInv'
  OBVIOUS
<1> DEFINE d0 == values[at.v].data
<1>1. pc = "build" /\ UNCHANGED <<plan, values>>
  BY DEF Build
<1>2. \A v, d, g, k : Past(v, d, g, k) <=> v < at.v
  BY <1>1 DEF Past, Active
<1>3. CASE at.r <= Len(Decoded[d0])
  <2>1. pc' = "build" /\ at'.v = at.v /\ result' = result
    BY <1>1, <1>3, Standing DEF Build
  <2>2. \A v, d, g, k : Past(v, d, g, k)' <=> v < at.v
    BY <2>1 DEF Past, Active
  <2> QED
    BY <1>1, <1>2, <2>1, <2>2, HitsSame
<1>4. CASE ~(at.r <= Len(Decoded[d0]))
  <2>1. CASE Stop("exhausted") \/ Stop("undecidable")
    BY <1>1, <2>1, HitsStop
  <2>2. CASE pc' = "reading" /\ UNCHANGED result
    <3>1. at'.v = at.v /\ at'.r = 1
      BY <1>4, Standing DEF Build
    <3>2. \A v, d, g, k : Past(v, d, g, k)' <=> v < at.v
      BY <2>2, <3>1 DEF Past, PastReading, Active
    <3> QED
      BY <1>1, <1>2, <2>2, <3>1, <3>2, HitsSame
  <2>3. Stop("exhausted") \/ Stop("undecidable") \/ (pc' = "reading" /\ UNCHANGED result)
    <3>1. CASE meter'.exhausted
      BY <1>4, <3>1 DEF Build, Stop
    <3>2. CASE ~meter'.exhausted /\ readings.truncated
      BY <1>4, <3>2 DEF Build, Stop
    <3>3. CASE ~meter'.exhausted /\ ~readings.truncated
      BY <1>4, <3>3 DEF Build, Stop
    <3> QED
      BY <3>1, <3>2, <3>3
  <2> QED
    BY <2>1, <2>2, <2>3
<1> QED
  BY <1>3, <1>4

\* Between two readings: past the last one, all of the value is behind.
LEMMA HitsOpenReading == Typed /\ ReadingsInv /\ HitsInv /\ OpenReading => HitsInv'
<1> SUFFICES ASSUME Typed, ReadingsInv, HitsInv, OpenReading PROVE HitsInv'
  OBVIOUS
<1>1. pc = "reading" /\ UNCHANGED <<plan, values, result, readings>>
  BY DEF OpenReading
<1>2. \A v, d, g, k : Past(v, d, g, k) <=>
        \/ v < at.v
        \/ v = at.v /\ \E r \in 1..Len(readings.list) : d = readings.list[r] /\ r < at.r
  BY <1>1 DEF Past, PastReading, Active
<1>3. CASE at.r > Len(readings.list)
  <2>1. pc' = "value" /\ at'.v = at.v + 1
    BY <1>3, Standing DEF OpenReading
  <2>2. \A v, d, g, k : Past(v, d, g, k)' <=> v < at.v + 1
    BY <2>1 DEF Past, Active
  <2>3. \A v, d, g, k : Due(v, d, g, k) => (v < at.v + 1 <=> Past(v, d, g, k))
    <3> SUFFICES ASSUME NEW v, NEW d, NEW g, NEW k, Due(v, d, g, k)
                 PROVE  v < at.v + 1 <=> Past(v, d, g, k)
      OBVIOUS
    <3>1. v \in Nat /\ d \in Readings(values[v].data)
      BY DueNumbers
    <3>2. ASSUME v = at.v
          PROVE  \E r \in 1..Len(readings.list) : d = readings.list[r] /\ r < at.r
      <4>1. ToSet(readings.list) = Readings(values[at.v].data)
        BY <1>1 DEF ReadingsInv
      <4>2. PICK r \in DOMAIN readings.list : d = readings.list[r]
        BY <3>1, <3>2, <4>1 DEF ToSet
      <4>3. r \in 1..Len(readings.list) /\ r < at.r
        BY <1>3, <4>2, Standing
      <4> QED
        BY <4>2, <4>3
    <3>3. v < at.v + 1 <=> v < at.v \/ v = at.v
      BY <3>1, Standing
    <3> QED
      BY <1>2, <3>2, <3>3
  <2> QED
    BY <1>1, <2>1, <2>2, <2>3, HitsSame
<1>4. CASE ~(at.r > Len(readings.list))
  <2>1. pc' = "group" /\ at'.v = at.v /\ at'.r = at.r /\ at'.g = 1
    BY <1>4, Standing DEF OpenReading
  <2>2. \A v, d, g, k : Due(v, d, g, k) => (Past(v, d, g, k)' <=> Past(v, d, g, k))
    <3> SUFFICES ASSUME NEW v, NEW d, NEW g, NEW k, Due(v, d, g, k)
                 PROVE  Past(v, d, g, k)' <=> Past(v, d, g, k)
      OBVIOUS
    <3>1. ~(g < 1)
      BY DueNumbers
    <3>2. ~PastRule(g, k)'
      BY <2>1, <3>1 DEF PastRule
    <3>3. PastReading(d, g, k)' <=> \E r \in 1..Len(readings.list) : d = readings.list[r] /\ r < at.r
      BY <1>1, <2>1, <3>2 DEF PastReading
    <3> QED
      BY <1>2, <2>1, <3>3 DEF Past, Active
  <2> QED
    BY <1>1, <2>1, <2>2, HitsSame
<1> QED
  BY <1>3, <1>4

\* In a step within a reading only the rules behind matter.
LEMMA PastWithin ==
  ASSUME NEW v, NEW d, NEW g, NEW k, pc \in Active, pc' \in Active,
         UNCHANGED readings, at'.v = at.v, at'.r = at.r,
         v = at.v /\ d = readings.list[at.r] => (PastRule(g, k)' <=> PastRule(g, k))
  PROVE  Past(v, d, g, k)' <=> Past(v, d, g, k)
<1>1. CASE v = at.v
  <2>1. PastReading(d, g, k)' <=> PastReading(d, g, k)
    BY <1>1 DEF PastReading
  <2> QED
    BY <1>1, <2>1 DEF Past, Active
<1>2. CASE v # at.v
  BY <1>2 DEF Past
<1> QED
  BY <1>1, <1>2

\* A group that does not read the value has nothing to report, and past the last group the
\* reading is behind.
LEMMA HitsPassGroup == Typed /\ HitsInv /\ PassGroup => HitsInv'
<1> SUFFICES ASSUME Typed, HitsInv, PassGroup PROVE HitsInv'
  OBVIOUS
<1>1. pc = "group" /\ UNCHANGED <<plan, values, result, readings>>
  BY DEF PassGroup
<1>2. CASE at.g > Len(plan)
  <2>1. pc' = "reading" /\ at'.v = at.v /\ at'.r = at.r + 1
    BY <1>2, Standing DEF PassGroup
  <2>2. \A v, d, g, k : Due(v, d, g, k) => (Past(v, d, g, k)' <=> Past(v, d, g, k))
    <3> SUFFICES ASSUME NEW v, NEW d, NEW g, NEW k, Due(v, d, g, k)
                 PROVE  Past(v, d, g, k)' <=> Past(v, d, g, k)
      OBVIOUS
    <3>1. g < at.g
      BY <1>2, DueNumbers, Standing
    <3>2. PastRule(g, k)
      BY <3>1 DEF PastRule
    <3>3. \A r \in 1..Len(readings.list) : r < at.r + 1 <=> r < at.r \/ r = at.r
      BY Standing
    <3>4. PastReading(d, g, k)' <=> \E r \in 1..Len(readings.list) : d = readings.list[r] /\ r < at.r + 1
      BY <1>1, <2>1 DEF PastReading, Active
    <3>5. PastReading(d, g, k) <=> \E r \in 1..Len(readings.list) : d = readings.list[r] /\ r < at.r + 1
      BY <1>1, <3>2, <3>3 DEF PastReading, Active
    <3> QED
      BY <1>1, <2>1, <3>4, <3>5 DEF Past, Active
  <2> QED
    BY <1>1, <2>1, <2>2, HitsSame
<1>3. CASE ~(at.g > Len(plan))
  <2>1. /\ pc' = "group" /\ at'.v = at.v /\ at'.r = at.r /\ at'.g = at.g + 1
        /\ ~Reads(plan[at.g], values[at.v].kind)
    BY <1>1, <1>3, Standing DEF PassGroup
  <2>2. \A v, d, g, k : Due(v, d, g, k) => (Past(v, d, g, k)' <=> Past(v, d, g, k))
    <3> SUFFICES ASSUME NEW v, NEW d, NEW g, NEW k, Due(v, d, g, k)
                 PROVE  Past(v, d, g, k)' <=> Past(v, d, g, k)
      OBVIOUS
    <3>1. v = at.v => g # at.g
      BY <2>1 DEF Due, Finds, Reads
    <3>2. v = at.v => (PastRule(g, k)' <=> PastRule(g, k))
      <4>1. PastRule(g, k) <=> g < at.g
        BY <1>1 DEF PastRule
      <4>2. PastRule(g, k)' <=> g < at.g + 1
        BY <2>1 DEF PastRule
      <4>3. g \in Nat /\ at.g \in Nat
        BY DueNumbers, Standing
      <4> QED
        BY <3>1, <4>1, <4>2, <4>3
    <3> QED
      BY <1>1, <2>1, <3>2, PastWithin DEF Active
  <2> QED
    BY <1>1, <2>1, <2>2, HitsSame
<1> QED
  BY <1>2, <1>3

\* The transforms find nothing, and a group whose rules are all done is behind.
LEMMA HitsChain ==
  Typed /\ HitsInv /\ (OpenGroup \/ Transform \/ CloseChain \/ CloseGroup) => HitsInv'
<1> SUFFICES ASSUME Typed, HitsInv, OpenGroup \/ Transform \/ CloseChain \/ CloseGroup PROVE HitsInv'
  OBVIOUS
<1>1. CASE Stop("exhausted") /\ UNCHANGED <<plan, values>>
  BY <1>1, HitsStop
<1>2. CASE /\ pc \in {"group", "chain"} /\ pc' \in {"group", "chain", "scan"}
           /\ UNCHANGED <<plan, values, result, readings, at>>
  <2>1. \A v, d, g, k : Past(v, d, g, k)' <=> Past(v, d, g, k)
    BY <1>2, PastWithin DEF PastRule, Active
  <2> QED
    BY <1>2, <2>1, HitsSame
<1>3. CASE CloseGroup
  <2>1. /\ pc = "rules" /\ todo = <<>> /\ pc' = "group" /\ UNCHANGED <<plan, values, readings, result>>
        /\ at'.v = at.v /\ at'.r = at.r /\ at'.g = at.g + 1
    BY <1>3, Standing DEF CloseGroup
  <2>2. ToSet(todo) = {}
    BY <2>1 DEF ToSet
  <2>3. \A v, d, g, k : Due(v, d, g, k) => (Past(v, d, g, k)' <=> Past(v, d, g, k))
    <3> SUFFICES ASSUME NEW v, NEW d, NEW g, NEW k, Due(v, d, g, k)
                 PROVE  Past(v, d, g, k)' <=> Past(v, d, g, k)
      OBVIOUS
    <3>1. g \in Nat /\ at.g \in Nat
      BY DueNumbers, Standing
    <3>2. PastRule(g, k)' <=> PastRule(g, k)
      BY <2>1, <2>2, <3>1 DEF PastRule
    <3> QED
      BY <2>1, <3>2, PastWithin DEF Active
  <2> QED
    BY <2>1, <2>3, HitsSame
<1>4. CASE OpenGroup
  BY <1>2, <1>4 DEF OpenGroup
<1>5. CASE CloseChain
  BY <1>2, <1>5 DEF CloseChain
<1>6. CASE Transform
  BY <1>1, <1>2, <1>6, TransformCases
<1> QED
  BY <1>3, <1>4, <1>5, <1>6

\* The prefilter passes over no rule that has something to report.
LEMMA HitsScan == Typed /\ PlanInv /\ ReadingsInv /\ ChainInv /\ HitsInv /\ Scan => HitsInv'
<1> SUFFICES ASSUME Typed, PlanInv, ReadingsInv, ChainInv, HitsInv, Scan PROVE HitsInv'
  OBVIOUS
<1> DEFINE x == Held(chain.from)
           todone == Todo(plan[at.g], x)
<1>1. CASE Stop("exhausted")
  BY <1>1, HitsStop DEF Scan
<1>2. CASE ~Stop("exhausted")
  <2>1. /\ pc = "scan" /\ pc' = "rules" /\ todo' = todone
        /\ UNCHANGED <<plan, values, at, readings, result>>
    BY <1>2 DEF Scan
  <2>2. /\ stages.src = readings.list[at.r] /\ x = Chained(plan[at.g].chain, stages.src)
        /\ readings.list[1] = values[at.v].data
        /\ \A i, j \in 1..Len(readings.list) : readings.list[i] = readings.list[j] => i = j
        /\ Len(readings.list) > 0
    BY <2>1 DEF ChainInv, ReadingsInv, Active
  <2>3. at.g \in DOMAIN plan /\ plan[at.g] \in Group /\ at.r \in 1..Len(readings.list)
    BY <2>1, InGroup, GroupTyped, Standing
  <2>4. /\ at.r = 1 => Unconditional(plan[at.g]) \subseteq ToSet(todone)
        /\ Candidates(plan[at.g], x) \subseteq ToSet(todone)
    BY <2>3, TodoLists
  <2> HIDE DEF todone
  <2>5. ASSUME NEW k, Due(at.v, readings.list[at.r], at.g, k) PROVE k \in ToSet(todone)
    <3> DEFINE rule == plan[at.g].rules[k]
    <3>1. /\ k \in DOMAIN plan[at.g].rules /\ x \in rule.matches
          /\ rule.unconditional => readings.list[at.r] = values[at.v].data
      BY <2>2, <2>5 DEF Due, Finds
    <3>2. CASE rule.unconditional
      <4>1. readings.list[at.r] = readings.list[1] /\ 1 \in 1..Len(readings.list)
        BY <2>2, <2>3, <3>1, <3>2, Standing
      <4>2. at.r = 1
        BY <2>2, <2>3, <4>1
      <4> QED
        BY <2>4, <3>1, <3>2, <4>2 DEF Unconditional
    <3>3. CASE ~rule.unconditional
      <4>1. x \in rule.found
        BY <2>3, <3>1, <3>3 DEF PlanInv
      <4> QED
        BY <2>4, <3>1, <3>3, <4>1 DEF Candidates, Unconditional
    <3> QED
      BY <3>2, <3>3
  <2>6. \A v, d, g, k : Due(v, d, g, k) => (Past(v, d, g, k)' <=> Past(v, d, g, k))
    <3> SUFFICES ASSUME NEW v, NEW d, NEW g, NEW k, Due(v, d, g, k)
                 PROVE  Past(v, d, g, k)' <=> Past(v, d, g, k)
      OBVIOUS
    <3>1. v = at.v /\ d = readings.list[at.r] => (PastRule(g, k)' <=> PastRule(g, k))
      BY <2>1, <2>5 DEF PastRule
    <3> QED
      BY <2>1, <3>1, PastWithin DEF Active
  <2> QED
    BY <2>1, <2>6, HitsSame
<1> QED
  BY <1>1, <1>2

\* The actions of a rule that score.
Counted(g, k) == LET rule == plan[g].rules[k] IN Cardinality({i \in Taken(rule) : rule.actions[i] = "score"})

\* The hits a rule reports are as many as the actions it takes, and its score counts those
\* that score.
LEMMA ReportsCounted ==
  ASSUME NEW v, NEW d, NEW g, NEW k, NEW n \in Nat, DOMAIN plan[g].rules[k].actions = 1..n
  PROVE  IsFiniteSet(Reports(v, d, g, k)) /\ Cardinality(Scored(Reports(v, d, g, k))) = Counted(g, k)
<1> DEFINE rule == plan[g].rules[k]
           H(i) == [value |-> v, reading |-> d, chain |-> plan[g].chain, rule |-> k, nth |-> i,
                    action |-> rule.actions[i]]
           R == Reports(v, d, g, k)
           T == Taken(rule)
           S == {i \in T : rule.actions[i] = "score"}
           G == Scored(R)
           all == [i \in T |-> H(i)]
           some == [i \in S |-> H(i)]
<1>1. R = {H(i) : i \in T} /\ T \subseteq 1..n
  BY DEF Reports, Taken
<1>2. IsFiniteSet(T) /\ IsFiniteSet(S)
  <2>1. IsFiniteSet(1..n)
    BY FS_Interval
  <2> QED
    BY <1>1, <2>1, FS_Subset
<1>3. G = {H(i) : i \in S}
  <2>1. \A i : H(i).action = rule.actions[i]
    OBVIOUS
  <2> HIDE DEF H, R, T
  <2>2. G = {h \in {H(i) : i \in T} : h.action = "score"}
    BY <1>1 DEF Scored
  <2> QED
    BY <2>1, <2>2
<1>4. \A i, j : H(i) = H(j) => i = j
  <2>1. \A i : H(i).nth = i
    OBVIOUS
  <2> HIDE DEF H
  <2> QED
    BY <2>1
<1> HIDE DEF H, R, T, S, G
<1>5. all \in Surjection(T, R)
  BY <1>1 DEF Surjection
<1>6. some \in Surjection(S, G) /\ some \in Injection(S, G)
  BY <1>3, <1>4 DEF Surjection, Injection, IsInjective
<1> HIDE DEF all, some
<1>7. IsFiniteSet(R)
  BY <1>2, <1>5, FS_Surjection
<1>8. Cardinality(G) = Cardinality(S)
  BY <1>2, <1>6, FS_Surjection
<1> QED
  BY <1>7, <1>8 DEF R, G, S, T, Counted

\* In a step that takes the next rule off the list, the rules newly behind are that one.
LEMMA PastNext ==
  ASSUME Typed, ReadingsInv, TodoInv, pc = "rules", pc' = "rules", todo # <<>>,
         todo' = Tail(todo), UNCHANGED <<readings, at>>,
         NEW v, NEW d, NEW g, NEW k
  PROVE  Past(v, d, g, k)' <=>
           \/ Past(v, d, g, k)
           \/ v = at.v /\ d = readings.list[at.r] /\ g = at.g /\ k = Head(todo)
<1>1. /\ todo \in Seq(DOMAIN plan[at.g].rules)
      /\ \A i, j \in 1..Len(todo) : todo[i] = todo[j] => i = j
  BY DEF TodoInv
<1>2. k \in ToSet(todo) <=> k = Head(todo) \/ k \in ToSet(todo')
  <2> DEFINE q == todo'
  <2>1. /\ Len(todo) \in Nat /\ Len(todo) > 0 /\ Len(q) = Len(todo) - 1 /\ Head(todo) = todo[1]
        /\ DOMAIN todo = 1..Len(todo) /\ DOMAIN q = 1..Len(q)
        /\ \A i \in 1..Len(q) : q[i] = todo[i + 1]
    BY <1>1
  <2> HIDE DEF q
  <2>2. \A i \in 1..Len(todo) : i = 1 \/ i - 1 \in 1..Len(q)
    BY <2>1
  <2>3. \A i \in 1..Len(q) : i + 1 \in 1..Len(todo)
    BY <2>1
  <2>4. 1 \in 1..Len(todo)
    BY <2>1
  <2>5. ASSUME k \in ToSet(todo) PROVE k = Head(todo) \/ k \in ToSet(q)
    <3>1. PICK i \in 1..Len(todo) : k = todo[i]
      BY <2>1, <2>5 DEF ToSet
    <3>2. CASE i = 1
      BY <2>1, <3>1, <3>2
    <3>3. CASE i - 1 \in 1..Len(q)
      <4>1. q[i - 1] = todo[(i - 1) + 1] /\ (i - 1) + 1 = i
        BY <2>1, <3>3
      <4>2. k = q[i - 1]
        BY <3>1, <4>1
      <4> QED
        BY <2>1, <3>3, <4>2 DEF ToSet
    <3> QED
      BY <2>2, <3>2, <3>3
  <2>6. ASSUME k = Head(todo) PROVE k \in ToSet(todo)
    BY <2>1, <2>4, <2>6 DEF ToSet
  <2>7. ASSUME k \in ToSet(q) PROVE k \in ToSet(todo)
    <3>1. PICK i \in 1..Len(q) : k = q[i]
      BY <2>1, <2>7 DEF ToSet
    <3> QED
      BY <2>1, <2>3, <3>1 DEF ToSet
  <2> QED
    BY <2>5, <2>6, <2>7 DEF q
<1>3. Head(todo) \notin ToSet(todo')
  <2> DEFINE q == todo'
  <2>1. /\ Len(todo) \in Nat /\ Len(todo) > 0 /\ Len(q) = Len(todo) - 1 /\ Head(todo) = todo[1]
        /\ DOMAIN q = 1..Len(q)
        /\ \A i \in 1..Len(q) : q[i] = todo[i + 1]
    BY <1>1
  <2> HIDE DEF q
  <2>2. SUFFICES ASSUME NEW i \in 1..Len(q), Head(todo) = q[i] PROVE FALSE
    BY <2>1 DEF ToSet, q
  <2>3. i + 1 \in 1..Len(todo) /\ 1 \in 1..Len(todo) /\ i + 1 # 1
    BY <2>1
  <2>4. todo[i + 1] = todo[1]
    BY <2>1, <2>2
  <2> QED
    BY <1>1, <2>3, <2>4
<1>4. PastRule(g, k)' <=> PastRule(g, k) \/ (g = at.g /\ k = Head(todo))
  BY <1>2, <1>3 DEF PastRule
<1>5. /\ \A i, j \in 1..Len(readings.list) : readings.list[i] = readings.list[j] => i = j
      /\ at.r \in 1..Len(readings.list)
  BY Standing DEF ReadingsInv, Active, Typed
<1>6. PastReading(d, g, k)' <=>
        PastReading(d, g, k) \/ (d = readings.list[at.r] /\ g = at.g /\ k = Head(todo))
  BY <1>4, <1>5 DEF PastReading, Active
<1> QED
  BY <1>6 DEF Past, Active

\* A rule finds what it reports or is not due; what it finds was not found before.
LEMMA HitsEvalRule ==
  Typed /\ PlanInv /\ ReadingsInv /\ ChainInv /\ TodoInv /\ HitsInv /\ EvalRule => HitsInv'
<1> SUFFICES ASSUME Typed, PlanInv, ReadingsInv, ChainInv, TodoInv, HitsInv, EvalRule
             PROVE  HitsInv'
  BY SMTT(30)
<1> DEFINE k0 == Head(todo)
           rule == plan[at.g].rules[k0]
           d0 == readings.list[at.r]
           x == Held(chain.from)
           took == Taken(rule)
           skipped == k0 \notin DOMAIN plan[at.g].rules \/ values[at.v].kind \notin rule.targets
           ends == \E i \in took : rule.actions[i] = "block"
           new == {Hit(rule, k0, i) : i \in took}
           scored == {i \in took : rule.actions[i] = "score"}
<1>1. /\ pc = "rules" /\ todo # <<>> /\ todo' = Tail(todo)
      /\ UNCHANGED <<plan, values, at, readings, stages, chain>>
  BY DEF EvalRule
<1>2. /\ result.outcome = "none"
      /\ \A h \in result.hits : \E v, d, g, k :
           Due(v, d, g, k) /\ h \in Reports(v, d, g, k) /\ Past(v, d, g, k)
      /\ \A v, d, g, k : Due(v, d, g, k) /\ Past(v, d, g, k) => Reports(v, d, g, k) \subseteq result.hits
      /\ IsFiniteSet(result.hits) /\ result.score = Cardinality(Scored(result.hits))
  BY <1>1 DEF HitsInv
<1>3. /\ stages.src = d0 /\ x = Chained(plan[at.g].chain, d0)
      /\ ~values[at.v].inert /\ readings.list[1] = values[at.v].data
      /\ \A i, j \in 1..Len(readings.list) : readings.list[i] = readings.list[j] => i = j
      /\ ToSet(readings.list) = Readings(values[at.v].data)
  BY <1>1 DEF ChainInv, ReadingsInv, Active
<1>4. /\ at.v \in DOMAIN values /\ at.g \in DOMAIN plan /\ at.r \in 1..Len(readings.list)
      /\ DOMAIN readings.list = 1..Len(readings.list)
  BY <1>1, Standing DEF Typed, Active
<1>5. ASSUME UNCHANGED <<pc, result>>, ~Due(at.v, d0, at.g, k0)
      PROVE  HitsInv'
  <2>1. \A v, d, g, k : Due(v, d, g, k) => (Past(v, d, g, k)' <=> Past(v, d, g, k))
    BY <1>1, <1>5, PastNext
  <2> QED
    BY <1>1, <1>5, <2>1, HitsSame
<1>6. CASE skipped
  <2>1. UNCHANGED <<pc, result>>
    BY <1>6 DEF EvalRule
  <2>2. ~Due(at.v, d0, at.g, k0)
    BY <1>6 DEF Due, Finds
  <2> QED
    BY SMTT(30), <1>5, <2>1, <2>2
<1>7. CASE ~skipped /\ meter'.exhausted
  <2>1. Stop("exhausted")
    BY ZenonT(40), <1>7 DEF EvalRule
  <2> QED
    BY SMTT(30), <1>1, <2>1, HitsStop
<1>8. CASE ~skipped /\ ~meter'.exhausted /\ x \notin rule.matches
  <2>1. UNCHANGED <<pc, result>>
    BY <1>8 DEF EvalRule
  <2>2. ~Due(at.v, d0, at.g, k0)
    BY <1>3, <1>8 DEF Due, Finds
  <2> QED
    BY <1>5, <2>1, <2>2
<1>9. CASE ~skipped /\ ~meter'.exhausted /\ x \in rule.matches
  <2>1. /\ result' = [hits |-> result.hits \cup new, score |-> result.score + Cardinality(scored),
                      outcome |-> IF ends THEN "terminal" ELSE "none"]
        /\ pc' = IF ends THEN "idle" ELSE pc
    BY <1>9 DEF EvalRule
  <2>2. new = Reports(at.v, d0, at.g, k0)
    BY DEF Reports, Hit
  <2>3. Due(at.v, d0, at.g, k0)
    <3>1. d0 \in Readings(values[at.v].data)
      BY <1>3, <1>4 DEF ToSet
    <3>2. rule.unconditional => d0 = values[at.v].data
      <4>1. /\ todo \in Seq(DOMAIN plan[at.g].rules)
            /\ \A i \in 1..Len(todo) : plan[at.g].rules[todo[i]].unconditional => at.r = 1
        BY <1>1 DEF TodoInv
      <4>2. 1 \in 1..Len(todo) /\ todo[1] = k0
        BY <1>1, <4>1
      <4>3. rule.unconditional => at.r = 1
        BY <4>1, <4>2
      <4> QED
        BY <1>3, <4>3
    <3>3. Finds(at.v, d0, at.g, k0)
      BY <1>3, <1>9, <3>2 DEF Finds
    <3>4. at.v \in Live
      BY <1>3, <1>4 DEF Live
    <3> QED
      BY <1>4, <3>1, <3>3, <3>4 DEF Due
  <2>4. PICK n \in Nat : DOMAIN rule.actions = 1..n
    <3>1. plan[at.g].rules \in Seq(Rule)
      BY <1>4, GroupTyped
    <3>2. rule \in Rule
      BY <1>9, <3>1
    <3>3. rule.actions \in Seq(Action)
      BY <3>2 DEF Rule
    <3> QED
      BY <3>3
  <2>5. ~Past(at.v, d0, at.g, k0)
    <3>1. k0 \in ToSet(todo)
      <4>1. todo \in Seq(DOMAIN plan[at.g].rules)
        BY <1>1 DEF TodoInv
      <4>2. 1 \in DOMAIN todo /\ todo[1] = k0
        BY <1>1, <4>1
      <4> QED
        BY <4>2 DEF ToSet
    <3>2. ~PastRule(at.g, k0)
      BY <3>1, Standing DEF PastRule
    <3>3. ~PastReading(d0, at.g, k0)
      BY <1>3, <1>4, <3>2, Standing DEF PastReading
    <3> QED
      BY <3>3, Standing DEF Past
  <2>6. IsFiniteSet(new) /\ Cardinality(Scored(new)) = Cardinality(scored)
    <3> DEFINE R == Reports(at.v, d0, at.g, k0)
    <3>1. DOMAIN plan[at.g].rules[k0].actions = 1..n
      BY <2>4
    <3>2. PICK v1, d1, g1, k1 : v1 = at.v /\ d1 = d0 /\ g1 = at.g /\ k1 = k0
      OBVIOUS
    <3>3. DOMAIN plan[g1].rules[k1].actions = 1..n
      BY ONLY <3>1, <3>2, Zenon
    <3>4. IsFiniteSet(Reports(v1, d1, g1, k1)) /\ Cardinality(Scored(Reports(v1, d1, g1, k1))) = Counted(g1, k1)
      BY ONLY <2>4, <3>3, ReportsCounted, Zenon
    <3>5. IsFiniteSet(R) /\ Cardinality(Scored(R)) = Counted(at.g, k0)
      BY ONLY <3>2, <3>4, Zenon
    <3> QED
      BY <2>2, <3>5 DEF Counted
  <2> HIDE DEF d0, x, k0
  <2>7. result.hits \cap new = {}
    <3> SUFFICES ASSUME NEW h \in result.hits, h \in new PROVE FALSE
      OBVIOUS
    <3>1. PICK v, d, g, k : Due(v, d, g, k) /\ h \in Reports(v, d, g, k) /\ Past(v, d, g, k)
      BY <1>2
    <3>2. /\ h.value = v /\ h.reading = d /\ h.chain = plan[g].chain /\ h.rule = k
      BY <3>1 DEF Reports
    <3>3. /\ h.value = at.v /\ h.reading = d0 /\ h.chain = plan[at.g].chain /\ h.rule = k0
      BY <2>2 DEF Reports
    <3>4. g = at.g
      <4>1. g \in DOMAIN plan
        BY <3>1 DEF Due
      <4> QED
        BY <1>4, <3>2, <3>3, <4>1 DEF PlanInv
    <3> QED
      BY <2>5, <3>1, <3>2, <3>3, <3>4
  <2> HIDE DEF new, scored, took, ends, rule
  <2>8. IsFiniteSet(result'.hits) /\ result'.score = Cardinality(Scored(result'.hits))
    <3>1. result'.hits = result.hits \cup new /\ result'.score = result.score + Cardinality(scored)
      BY <2>1
    <3>2. /\ Scored(result'.hits) = Scored(result.hits) \cup Scored(new)
          /\ Scored(result.hits) \in SUBSET result.hits /\ Scored(new) \in SUBSET new
          /\ Scored(result.hits) \cap Scored(new) = {}
      BY <2>7, <3>1 DEF Scored
    <3>3. IsFiniteSet(Scored(result.hits)) /\ IsFiniteSet(Scored(new))
      BY <1>2, <2>6, <3>2, FS_Subset
    <3>4. Cardinality(Scored(result.hits) \cup Scored(new)) =
            Cardinality(Scored(result.hits)) + Cardinality(Scored(new)) - Cardinality({})
      BY <3>2, <3>3, FS_Union
    <3>5. /\ Cardinality({}) = 0 /\ Cardinality(Scored(result.hits)) \in Nat
          /\ Cardinality(Scored(new)) \in Nat
      BY <3>3, FS_EmptySet, FS_CardinalityType
    <3>6. IsFiniteSet(result.hits \cup new)
      BY <1>2, <2>6, FS_Union
    <3>7. Cardinality(Scored(result'.hits)) = Cardinality(Scored(result.hits)) + Cardinality(Scored(new))
      BY <3>2, <3>4, <3>5
    <3>8. result'.score = Cardinality(Scored(result'.hits))
      BY <1>2, <2>6, <3>1, <3>7
    <3> QED
      BY <3>1, <3>6, <3>8
  <2>9. \A v, d, g, k : /\ Due(v, d, g, k)' <=> Due(v, d, g, k)
                        /\ Reports(v, d, g, k)' = Reports(v, d, g, k)
    BY <1>1 DEF Due, Live, Finds, Reports
  <2>10. ASSUME pc' = "rules", NEW v, NEW d, NEW g, NEW k
         PROVE  Past(v, d, g, k)' <=>
                  \/ Past(v, d, g, k)
                  \/ v = at.v /\ d = d0 /\ g = at.g /\ k = k0
    BY <1>1, <2>10, PastNext DEF d0, k0
  <2>11. \A h \in result'.hits : \E v, d, g, k :
           Due(v, d, g, k)' /\ h \in Reports(v, d, g, k)' /\ (pc' = "rules" => Past(v, d, g, k)')
    <3> SUFFICES ASSUME NEW h \in result'.hits
                 PROVE  \E v, d, g, k : /\ Due(v, d, g, k)' /\ h \in Reports(v, d, g, k)'
                                        /\ pc' = "rules" => Past(v, d, g, k)'
      OBVIOUS
    <3>1. CASE h \in result.hits
      <4>1. PICK v, d, g, k : Due(v, d, g, k) /\ h \in Reports(v, d, g, k) /\ Past(v, d, g, k)
        BY <1>2, <3>1
      <4>2. Due(v, d, g, k)' /\ h \in Reports(v, d, g, k)' /\ (pc' = "rules" => Past(v, d, g, k)')
        BY <2>9, <2>10, <4>1
      <4> QED
        BY <4>2
    <3>2. CASE h \in new
      <4>1. PICK v, d, g, k : v = at.v /\ d = d0 /\ g = at.g /\ k = k0
        OBVIOUS
      <4>2. Due(v, d, g, k) /\ h \in Reports(v, d, g, k)
        BY <2>2, <2>3, <3>2, <4>1
      <4>3. Due(v, d, g, k)' /\ h \in Reports(v, d, g, k)' /\ (pc' = "rules" => Past(v, d, g, k)')
        BY <2>9, <2>10, <4>1, <4>2
      <4> QED
        BY <4>3
    <3> QED
      BY <2>1, <3>1, <3>2
  <2>12. pc' = "rules" \/ (pc' = "idle" /\ result'.outcome # "none")
    BY <1>1, <2>1
  <2>13. result'.outcome = "none" =>
           \A v, d, g, k : Due(v, d, g, k)' /\ Past(v, d, g, k)' => Reports(v, d, g, k)' \subseteq result'.hits
    <3> SUFFICES ASSUME result'.outcome = "none", NEW v, NEW d, NEW g, NEW k,
                        Due(v, d, g, k)', Past(v, d, g, k)'
                 PROVE  Reports(v, d, g, k)' \subseteq result'.hits
      OBVIOUS
    <3>1. Due(v, d, g, k) /\ Reports(v, d, g, k)' = Reports(v, d, g, k)
      BY <2>9
    <3>2. Past(v, d, g, k) \/ (v = at.v /\ d = d0 /\ g = at.g /\ k = k0)
      BY <2>10, <2>12
    <3>3. result'.hits = result.hits \cup new
      BY <2>1
    <3> QED
      BY <1>2, <2>2, <3>1, <3>2, <3>3
  <2>14. pc' = "rules" => result'.outcome = "none"
    BY <1>1, <2>1
  <2> QED
    BY SMTT(30), <2>8, <2>11, <2>12, <2>13, <2>14 DEF HitsInv
<1> QED
  BY <1>6, <1>7, <1>8, <1>9

\* Every step keeps HitsInv.
LEMMA HitsStep ==
  Typed /\ PlanInv /\ ReadingsInv /\ ChainInv /\ TodoInv /\ HitsInv /\ [Next]_vars => HitsInv'
<1>1. ASSUME HitsInv, UNCHANGED vars PROVE HitsInv'
  <2>1. UNCHANGED <<plan, values, pc, at, readings, todo, result>>
    BY <1>1 DEF vars
  <2>2. \A v, d, g, k : /\ Due(v, d, g, k)' <=> Due(v, d, g, k)
                        /\ Reports(v, d, g, k)' = Reports(v, d, g, k)
                        /\ Past(v, d, g, k)' <=> Past(v, d, g, k)
    BY <2>1 DEF Due, Live, Finds, Reports, Past, PastReading, PastRule
  <2> QED
    BY <1>1, <2>1, <2>2 DEF HitsInv
<1> QED
  BY <1>1, HitsNew, HitsEval, HitsOpenValue, HitsBuild, HitsOpenReading, HitsPassGroup,
     HitsChain, HitsScan, HitsEvalRule DEF Next

\* What there is to find is what the rules that are due report.
LEMMA ExpectedDue ==
  \A h : h \in Expected <=> \E v, d, g, k : Due(v, d, g, k) /\ h \in Reports(v, d, g, k)
<1> DEFINE Found(v, d, g) == {k \in DOMAIN plan[g].rules : Finds(v, d, g, k)}
<1>1. Expected = UNION { UNION { UNION { UNION {
                   Reports(v, d, g, k) : k \in Found(v, d, g) } : g \in DOMAIN plan }
                   : d \in Readings(values[v].data) } : v \in Live }
  BY DEF Expected, Found, Finds, Reports, Readings, Live
<1>2. TAKE h
<1>3. h \in Expected <=>
        \E v \in Live : \E d \in Readings(values[v].data) : \E g \in DOMAIN plan :
          \E k \in Found(v, d, g) : h \in Reports(v, d, g, k)
  <2> HIDE DEF Found
  <2> QED
    BY <1>1
<1>4. \A v, d, g, k : k \in Found(v, d, g) <=> Finds(v, d, g, k)
  BY DEF Finds
<1> HIDE DEF Found
<1> QED
  BY <1>3, <1>4 DEF Due

\* An evaluation that reports nothing wrong has found everything there was to find and
\* counted it once, whatever was left of the phase and the transaction before, and one
\* that stopped early found nothing that is not there: sharing the transforms of a chain,
\* the prefilter, the dispatch by kind and the budget change no finding.
THEOREM FindingsExactHolds == Spec => []FindingsExact
<1> DEFINE Inv == Typed /\ Kept /\ PlanInv /\ ReadingsInv /\ ChainInv /\ TodoInv /\ HitsInv
<1>1. Init => Inv
  <2> SUFFICES ASSUME Init PROVE Inv
    OBVIOUS
  <2>1. Typed /\ PlanInv
    BY InitTyped, PlanMade
  <2>2. /\ pc = "idle" /\ values = <<>> /\ at.v = 1
        /\ result = [hits |-> {}, score |-> 0, outcome |-> "none"]
    BY DEF Init
  <2>3. Kept /\ ReadingsInv /\ ChainInv /\ TodoInv
    BY <2>2 DEF Kept, StepsSound, ReadingsInv, ChainInv, TodoInv, Active
  <2>4. /\ \A v, d, g, k : ~Due(v, d, g, k)
        /\ Scored({}) = {} /\ IsFiniteSet({}) /\ Cardinality({}) = 0
    BY <2>2, FS_EmptySet DEF Due, Live, Scored
  <2>5. HitsInv
    <3>1. /\ result.hits = {} /\ result.score = 0 /\ Len(values) = 0
      BY <2>2
    <3>2. at.v > Len(values)
      BY <2>2, <3>1
    <3> QED
      BY <2>2, <2>4, <3>1, <3>2 DEF HitsInv
  <2> QED
    BY <2>1, <2>3, <2>5
<1>2. Inv /\ [Next]_vars => Inv'
  <2>1. PlanInv /\ [Next]_vars => PlanInv'
    BY PlanStays DEF PlanInv
  <2> QED
    BY <2>1, TypedStep, KeptStep, ReadingsStep, ChainStep, TodoStep, HitsStep
<1>3. Inv => FindingsExact
  <2> SUFFICES ASSUME Inv PROVE FindingsExact
    OBVIOUS
  <2>1. \A h \in result.hits : \E v, d, g, k : Due(v, d, g, k) /\ h \in Reports(v, d, g, k)
    BY DEF HitsInv
  <2>2. result.hits \subseteq Expected
    BY <2>1, ExpectedDue
  <2>3. result.score = Cardinality({h \in result.hits : h.action = "score"})
    BY DEF HitsInv, Scored
  <2>4. ASSUME pc = "idle", result.outcome = "none" PROVE Expected \subseteq result.hits
    <3> SUFFICES ASSUME NEW h \in Expected PROVE h \in result.hits
      OBVIOUS
    <3>1. PICK v, d, g, k : Due(v, d, g, k) /\ h \in Reports(v, d, g, k)
      BY ExpectedDue
    <3>2. at.v > Len(values)
      BY <2>4 DEF HitsInv
    <3>3. v < at.v
      BY <3>1, <3>2, DueNumbers, Standing
    <3> QED
      BY <2>4, <3>1, <3>3 DEF HitsInv, Past
  <2> QED
    BY <2>2, <2>3, <2>4 DEF FindingsExact
<1> QED
  BY <1>1, <1>2, <1>3, PTL DEF Spec

-----------------------------------------------------------------------------
(***************************************************************************)
(* The exchanges of Middleware, for every limit and every handler: the     *)
(* handler reads the body the client sent, it reads none the transaction   *)
(* did not get, the client gets the response or the block page, and        *)
(* nothing of the response before it was inspected.                        *)
(***************************************************************************)

Chunks == [id : Nat, size : Nat]
Tx == [decided : Verdicts, fed : Int, headersRead : BOOLEAN, bodyRead : Seq(Chunks)]
Rw == [buf : Seq(Chunks), wroteHeader : BOOLEAN, blocked : BOOLEAN, passthrough : BOOLEAN]
Wire == [head : {"none", "origin", "block"}, bytes : Seq(Chunks), hijacked : BOOLEAN]
States == [tx : Tx, rw : Rw, wire : Wire, reports : Seq({"allow", "block"})]

NoWire == [head |-> "none", bytes |-> <<>>, hijacked |-> FALSE]

-----------------------------------------------------------------------------
(* Records and sequences *)

\* What the parts of a state are.
LEMMA PartsTyped ==
  ASSUME NEW s \in States
  PROVE  /\ s.tx \in Tx /\ s.rw \in Rw /\ s.wire \in Wire /\ s.reports \in Seq({"allow", "block"})
         /\ s.rw.buf \in Seq(Chunks) /\ s.wire.bytes \in Seq(Chunks) /\ s.tx.decided \in Verdicts
         /\ s.rw.blocked \in BOOLEAN /\ s.rw.passthrough \in BOOLEAN /\ s.rw.wroteHeader \in BOOLEAN
         /\ s.wire.hijacked \in BOOLEAN
BY DEF States, Tx, Rw, Wire

LEMMA NothingBehind == \A a \in Seq(Chunks) : <<>> \in Seq(Chunks) /\ a \o <<>> = a
BY ConcatEmptySeq

LEMMA AppendBehind ==
  ASSUME NEW a \in Seq(Chunks), NEW b \in Seq(Chunks), NEW chunk \in Chunks
  PROVE  /\ Append(b, chunk) \in Seq(Chunks) /\ Append(b, chunk) # <<>>
         /\ a \o Append(b, chunk) = Append(a \o b, chunk)
<1>1. <<chunk>> \in Seq(Chunks) /\ a \o b \in Seq(Chunks) /\ Append(b, chunk) \in Seq(Chunks)
  OBVIOUS
<1>2. Append(b, chunk) = b \o <<chunk>> /\ Append(a \o b, chunk) = (a \o b) \o <<chunk>>
  BY <1>1, AppendIsConcat
<1>3. (a \o b) \o <<chunk>> = a \o (b \o <<chunk>>)
  BY <1>1, ConcatAssociative
<1>4. Append(b, chunk) # <<>>
  OBVIOUS
<1>5. QED
  BY <1>1, <1>2, <1>3, <1>4

(* What an assignment to a field of a record of the state makes of it. *)

LEMMA WireSet ==
  ASSUME NEW s \in States, NEW w \in Wire
  PROVE  /\ [s EXCEPT !.wire = w] \in States
         /\ [s EXCEPT !.wire = w].tx = s.tx /\ [s EXCEPT !.wire = w].rw = s.rw
         /\ [s EXCEPT !.wire = w].wire = w /\ [s EXCEPT !.wire = w].reports = s.reports
BY DEF States

LEMMA BufSet ==
  ASSUME NEW s \in States, NEW chunks \in Seq(Chunks)
  PROVE  LET b == [s EXCEPT !.rw.buf = chunks]
         IN  /\ b \in States /\ b.tx = s.tx /\ b.wire = s.wire /\ b.reports = s.reports
             /\ b.rw.buf = chunks /\ b.rw.wroteHeader = s.rw.wroteHeader
             /\ b.rw.blocked = s.rw.blocked /\ b.rw.passthrough = s.rw.passthrough
BY DEF States, Rw

LEMMA HeaderSet ==
  ASSUME NEW s \in States, NEW v \in Verdicts
  PROVE  LET h == [s EXCEPT !.rw.wroteHeader = TRUE, !.tx.headersRead = TRUE, !.tx.decided = v]
         IN  /\ h \in States /\ h.wire = s.wire /\ h.reports = s.reports
             /\ h.tx.decided = v /\ h.tx.fed = s.tx.fed /\ h.tx.bodyRead = s.tx.bodyRead /\ h.tx.headersRead
             /\ h.rw.wroteHeader /\ h.rw.buf = s.rw.buf
             /\ h.rw.blocked = s.rw.blocked /\ h.rw.passthrough = s.rw.passthrough
BY DEF States, Rw, Tx

LEMMA DecidedSet ==
  ASSUME NEW s \in States, NEW v \in Verdicts
  PROVE  LET h == [s EXCEPT !.tx.decided = v]
         IN  /\ h \in States /\ h.wire = s.wire /\ h.reports = s.reports /\ h.rw = s.rw
             /\ h.tx.decided = v /\ h.tx.fed = s.tx.fed
BY DEF States, Tx

-----------------------------------------------------------------------------
(* The response writer *)

(* What the writer keeps, of a record of its state, what the handler wrote and *)
(* whether it asked to stream: the buffer is empty once nothing is buffered;   *)
(* a refusal is the transaction's and, unless it came too late, the client's;  *)
(* nothing is lost between the client and the buffer.                          *)
Sound(s, written, streams) ==
  /\ s.rw.blocked \/ s.rw.passthrough => s.rw.buf = <<>>
  /\ s.rw.buf # <<>> => s.rw.wroteHeader
  /\ ~s.rw.blocked => s.wire.head # "block" /\ s.tx.decided # "block"
  /\ s.rw.blocked => s.tx.decided = "block"
  /\ s.rw.blocked /\ ~streams => s.wire.head = "block"
  /\ ~streams => ~s.wire.hijacked
  /\ ~streams /\ s.rw.passthrough => s.rw.wroteHeader
  /\ ~streams /\ ~s.rw.passthrough /\ ~s.rw.blocked => s.wire.head = "none"
  /\ ~s.rw.blocked /\ ~s.wire.hijacked => s.wire.bytes \o s.rw.buf = written

\* The writer underneath keeps its types, its bytes and a head it has.
LEMMA HeadedOK ==
  ASSUME NEW w \in Wire, NEW by \in {"origin", "block"}
  PROVE  /\ Headed(w, by) \in Wire
         /\ Headed(w, by).bytes = w.bytes /\ Headed(w, by).hijacked = w.hijacked
         /\ Headed(w, by).head = IF w.head = "none" /\ ~w.hijacked THEN by ELSE w.head
BY DEF Headed, Wire

LEMMA EmitOK ==
  ASSUME NEW w \in Wire, NEW by \in {"origin", "block"}, NEW chunks \in Seq(Chunks)
  PROVE  /\ Emit(w, by, chunks) \in Wire
         /\ Emit(w, by, chunks).hijacked = w.hijacked
         /\ Emit(w, by, chunks).head = IF w.head = "none" /\ ~w.hijacked THEN by ELSE w.head
         /\ ~w.hijacked => Emit(w, by, chunks).bytes = w.bytes \o chunks
<1>1. Headed(w, by) \in Wire /\ Headed(w, by).bytes = w.bytes /\ Headed(w, by).hijacked = w.hijacked
  BY HeadedOK
<1>2. w.bytes \o chunks \in Seq(Chunks)
  BY DEF Wire
<1>3. CASE w.hijacked
  BY <1>3 DEF Emit
<1>4. CASE ~w.hijacked
  <2>1. Emit(w, by, chunks) = [Headed(w, by) EXCEPT !.bytes = w.bytes \o chunks]
    BY <1>1, <1>4 DEF Emit
  <2>2. QED
    BY <1>1, <1>2, <1>4, <2>1, HeadedOK DEF Wire
<1>5. QED
  BY <1>3, <1>4

LEMMA BlockPageOK == BlockPage \in Chunks /\ <<BlockPage>> \in Seq(Chunks)
BY DEF BlockPage, Chunks

\* block, where nothing was sent yet or the handler asked to stream.
LEMMA StoppedOK ==
  ASSUME NEW s \in States, NEW written \in Seq(Chunks), NEW streams \in BOOLEAN,
         s.tx.decided = "block",
         ~streams => s.wire.head = "none" /\ ~s.wire.hijacked /\ (s.rw.passthrough => s.rw.wroteHeader)
  PROVE  /\ Stopped(s) \in States /\ Sound(Stopped(s), written, streams)
         /\ Stopped(s).tx = s.tx /\ Stopped(s).rw.blocked
         /\ Stopped(s).reports = Append(s.reports, "block")
<1> DEFINE w == Emit(s.wire, "block", <<BlockPage>>)
           p == Append(s.reports, "block")
           e == <<>>
<1>1. /\ w \in Wire /\ w.hijacked = s.wire.hijacked
      /\ w.head = IF s.wire.head = "none" /\ ~s.wire.hijacked THEN "block" ELSE s.wire.head
  BY PartsTyped, EmitOK, BlockPageOK
<1>2. p \in Seq({"allow", "block"}) /\ e \in Seq(Chunks)
  BY PartsTyped
<1> DEFINE x == [s EXCEPT !.rw.blocked = TRUE, !.rw.buf = e, !.reports = p, !.wire = w]
<1>3. Stopped(s) = x
  BY DEF Stopped
<1> HIDE DEF w, p, e
<1>31. /\ x \in States /\ x.wire = w /\ x.reports = p /\ x.tx = s.tx
       /\ x.rw.blocked /\ x.rw.buf = e
       /\ x.rw.wroteHeader = s.rw.wroteHeader /\ x.rw.passthrough = s.rw.passthrough
  BY <1>1, <1>2 DEF States, Rw
<1> HIDE DEF x
<1>4. /\ Stopped(s) \in States /\ Stopped(s).wire = w /\ Stopped(s).reports = p /\ Stopped(s).tx = s.tx
      /\ Stopped(s).rw.blocked /\ Stopped(s).rw.buf = e
      /\ Stopped(s).rw.wroteHeader = s.rw.wroteHeader /\ Stopped(s).rw.passthrough = s.rw.passthrough
  BY <1>3, <1>31
<1>5. Stopped(s).rw.buf = <<>>
  BY <1>4 DEF e
<1>6. Sound(Stopped(s), written, streams)
  BY <1>1, <1>4, <1>5 DEF Sound
<1>7. QED
  BY <1>4, <1>6 DEF p

\* WriteHeader.
LEMMA HeaderDoneOK ==
  ASSUME NEW s \in States, NEW written \in Seq(Chunks), NEW streams \in BOOLEAN, NEW v \in Verdicts,
         Sound(s, written, streams)
  PROVE  /\ HeaderDone(s, v) \in States /\ Sound(HeaderDone(s, v), written, streams)
         /\ HeaderDone(s, v).tx.fed = s.tx.fed
         /\ HeaderDone(s, v).rw.wroteHeader \/ HeaderDone(s, v).rw.blocked
<1> DEFINE h == [s EXCEPT !.rw.wroteHeader = TRUE, !.tx.headersRead = TRUE, !.tx.decided = v]
<1>1. /\ h \in States /\ h.wire = s.wire /\ h.reports = s.reports
      /\ h.tx.decided = v /\ h.tx.fed = s.tx.fed
      /\ h.rw.wroteHeader /\ h.rw.buf = s.rw.buf
      /\ h.rw.blocked = s.rw.blocked /\ h.rw.passthrough = s.rw.passthrough
  BY HeaderSet
<1>2. HeaderDone(s, v) = IF s.rw.wroteHeader \/ s.rw.blocked THEN s
                         ELSE IF v = "block" THEN Stopped(h)
                         ELSE IF h.rw.passthrough THEN [h EXCEPT !.wire = Headed(h.wire, "origin")] ELSE h
  BY DEF HeaderDone, Blocked
<1> HIDE DEF h
<1>3. CASE s.rw.wroteHeader \/ s.rw.blocked
  BY <1>2, <1>3
<1>4. CASE ~(s.rw.wroteHeader \/ s.rw.blocked) /\ v = "block"
  <2>1. ~streams => h.wire.head = "none" /\ ~h.wire.hijacked /\ (h.rw.passthrough => h.rw.wroteHeader)
    BY <1>1, <1>4 DEF Sound
  <2>2. Stopped(h) \in States /\ Sound(Stopped(h), written, streams) /\ Stopped(h).tx = h.tx /\ Stopped(h).rw.blocked
    BY <1>1, <1>4, <2>1, StoppedOK
  <2>3. QED
    BY <1>1, <1>2, <1>4, <2>2
<1>5. CASE ~(s.rw.wroteHeader \/ s.rw.blocked) /\ v # "block" /\ ~s.rw.passthrough
  <2>1. HeaderDone(s, v) = h
    BY <1>1, <1>2, <1>5
  <2>2. Sound(h, written, streams)
    BY <1>1, <1>5 DEF Sound
  <2>3. QED
    BY <1>1, <2>1, <2>2
<1>6. CASE ~(s.rw.wroteHeader \/ s.rw.blocked) /\ v # "block" /\ s.rw.passthrough
  <2> DEFINE w == Headed(h.wire, "origin")
             g == [h EXCEPT !.wire = w]
  <2>1. w \in Wire /\ w.bytes = s.wire.bytes /\ w.hijacked = s.wire.hijacked
        /\ w.head = IF s.wire.head = "none" /\ ~s.wire.hijacked THEN "origin" ELSE s.wire.head
    BY <1>1, PartsTyped, HeadedOK
  <2>2. HeaderDone(s, v) = g
    BY <1>1, <1>2, <1>6
  <2> HIDE DEF w
  <2>3. g \in States /\ g.tx = h.tx /\ g.rw = h.rw /\ g.wire = w
    BY <1>1, <2>1, WireSet
  <2> HIDE DEF g
  <2>4. Sound(g, written, streams)
    BY <1>1, <1>6, <2>1, <2>3 DEF Sound
  <2>5. QED
    BY <1>1, <2>2, <2>3, <2>4
<1>7. QED
  BY SMTT(30), <1>3, <1>4, <1>5, <1>6

\* startPassthrough, where the header was written or the handler asked to stream.
LEMMA PassedOK ==
  ASSUME NEW s \in States, NEW written \in Seq(Chunks), NEW streams \in BOOLEAN,
         Sound(s, written, streams), streams \/ s.rw.wroteHeader \/ s.rw.blocked
  PROVE  /\ Passed(s) \in States /\ Sound(Passed(s), written, streams)
         /\ Passed(s).tx = s.tx
         /\ Passed(s).rw.passthrough \/ Passed(s).rw.blocked
         /\ Passed(s).wire.hijacked = s.wire.hijacked
         /\ Passed(s).rw.blocked = s.rw.blocked
         /\ Passed(s).reports = s.reports
<1> DEFINE onWire == IF s.rw.wroteHeader THEN Headed(s.wire, "origin") ELSE s.wire
           w == IF s.rw.buf = <<>> THEN onWire ELSE Emit(onWire, "origin", s.rw.buf)
           e == <<>>
<1>1. CASE s.rw.passthrough \/ s.rw.blocked
  BY <1>1 DEF Passed
<1>2. CASE ~(s.rw.passthrough \/ s.rw.blocked)
  <2>1. Passed(s) = [s EXCEPT !.rw.passthrough = TRUE, !.rw.buf = e, !.wire = w]
    BY <1>2 DEF Passed
  <2>2. /\ onWire \in Wire /\ onWire.bytes = s.wire.bytes /\ onWire.hijacked = s.wire.hijacked
        /\ onWire.head \in {"origin", s.wire.head}
    BY PartsTyped, HeadedOK
  <2>3. s.rw.buf \in Seq(Chunks) /\ s.wire.bytes \in Seq(Chunks)
    BY PartsTyped
  <2> HIDE DEF onWire
  <2>4. /\ w \in Wire /\ w.hijacked = s.wire.hijacked /\ w.head \in {"origin", s.wire.head}
        /\ ~s.wire.hijacked => w.bytes = s.wire.bytes \o s.rw.buf
    <3>1. CASE s.rw.buf = <<>>
      <4>1. w = onWire /\ s.wire.bytes \o s.rw.buf = s.wire.bytes
        BY <2>3, <3>1, NothingBehind
      <4>2. QED
        BY <2>2, <4>1
    <3>2. CASE s.rw.buf # <<>>
      <4>1. w = Emit(onWire, "origin", s.rw.buf)
        BY <3>2
      <4>2. /\ Emit(onWire, "origin", s.rw.buf) \in Wire
            /\ Emit(onWire, "origin", s.rw.buf).hijacked = onWire.hijacked
            /\ Emit(onWire, "origin", s.rw.buf).head \in {"origin", onWire.head}
            /\ ~onWire.hijacked => Emit(onWire, "origin", s.rw.buf).bytes = onWire.bytes \o s.rw.buf
        BY ZenonT(30), <2>2, <2>3, EmitOK
      <4>3. QED
        BY <2>2, <4>1, <4>2
    <3>3. QED
      BY <3>1, <3>2
  <2>5. e \in Seq(Chunks) /\ w.bytes \in Seq(Chunks) /\ w.bytes \o e = w.bytes
    BY <2>4, NothingBehind DEF Wire
  <2> HIDE DEF w, e
  <2> DEFINE x == [s EXCEPT !.rw.passthrough = TRUE, !.rw.buf = e, !.wire = w]
  <2>51. /\ x \in States /\ x.wire = w /\ x.reports = s.reports /\ x.tx = s.tx
         /\ x.rw.passthrough /\ x.rw.buf = e
         /\ x.rw.wroteHeader = s.rw.wroteHeader /\ x.rw.blocked = s.rw.blocked
    BY <2>4, <2>5 DEF States, Rw
  <2>52. Passed(s) = x
    BY <2>1
  <2> HIDE DEF x
  <2>6. /\ Passed(s) \in States /\ Passed(s).wire = w /\ Passed(s).reports = s.reports /\ Passed(s).tx = s.tx
        /\ Passed(s).rw.passthrough /\ Passed(s).rw.buf = e
        /\ Passed(s).rw.wroteHeader = s.rw.wroteHeader /\ Passed(s).rw.blocked = s.rw.blocked
    BY <2>51, <2>52
  <2>7. Passed(s).rw.buf = <<>>
    BY <2>6 DEF e
  <2>8. Passed(s).wire.bytes \o Passed(s).rw.buf = w.bytes
    BY <2>5, <2>6
  <2>9. Sound(Passed(s), written, streams)
    BY <1>2, <2>4, <2>6, <2>7, <2>8 DEF Sound
  <2>10. QED
    BY <1>2, <2>4, <2>6, <2>9
<1>3. QED
  BY <1>1, <1>2

\* A chunk that is not buffered.
LEMMA ToClientOK ==
  ASSUME NEW s \in States, NEW written \in Seq(Chunks), NEW streams \in BOOLEAN, NEW chunk \in Chunks,
         Sound(s, written, streams), s.rw.passthrough \/ (s.rw.blocked /\ streams)
  PROVE  /\ ToClient(s, chunk) \in States /\ Sound(ToClient(s, chunk), Append(written, chunk), streams)
         /\ ToClient(s, chunk).tx = s.tx /\ ToClient(s, chunk).reports = s.reports
<1> DEFINE w == Emit(s.wire, "origin", <<chunk>>)
           more == Append(written, chunk)
<1>1. <<chunk>> \in Seq(Chunks) /\ s.wire \in Wire /\ s.wire.bytes \in Seq(Chunks)
  BY PartsTyped
<1>2. more = written \o <<chunk>>
  BY AppendIsConcat
<1> HIDE DEF more
<1>3. /\ w \in Wire /\ w.hijacked = s.wire.hijacked
      /\ w.head = IF s.wire.head = "none" /\ ~s.wire.hijacked THEN "origin" ELSE s.wire.head
      /\ ~s.wire.hijacked => w.bytes = s.wire.bytes \o <<chunk>>
  BY <1>1, EmitOK
<1>4. ToClient(s, chunk) = [s EXCEPT !.wire = w]
  BY DEF ToClient
<1> HIDE DEF w
<1>5. /\ ToClient(s, chunk) \in States /\ ToClient(s, chunk).tx = s.tx /\ ToClient(s, chunk).rw = s.rw
      /\ ToClient(s, chunk).wire = w /\ ToClient(s, chunk).reports = s.reports
  BY <1>3, <1>4, WireSet
<1>6. ~s.rw.blocked /\ ~s.wire.hijacked => w.bytes \o s.rw.buf = more
  <2>1. HAVE ~s.rw.blocked /\ ~s.wire.hijacked
  <2>2. s.rw.buf = <<>> /\ s.wire.bytes \o s.rw.buf = written
    BY <2>1 DEF Sound
  <2>3. s.wire.bytes = written
    BY <1>1, <2>2, NothingBehind
  <2>4. w.bytes \in Seq(Chunks) /\ w.bytes = more
    BY <1>2, <1>3, <2>1, <2>3 DEF Wire
  <2>5. QED
    BY <2>2, <2>4, NothingBehind
<1>7. Sound(ToClient(s, chunk), more, streams)
  BY <1>3, <1>5, <1>6 DEF Sound
<1>8. QED
  BY <1>5, <1>7 DEF more

\* Write.
LEMMA WrittenOK ==
  ASSUME NEW s \in States, NEW written \in Seq(Chunks), NEW streams \in BOOLEAN, NEW chunk \in Chunks,
         NEW v \in Verdicts, Sound(s, written, streams)
  PROVE  /\ Written(s, chunk, v) \in States /\ Sound(Written(s, chunk, v), Append(written, chunk), streams)
         /\ Written(s, chunk, v).tx.fed = s.tx.fed
<1> DEFINE h == HeaderDone(s, v)
           more == Append(written, chunk)
           longer == Append(h.rw.buf, chunk)
           b == [h EXCEPT !.rw.buf = longer]
<1>1. /\ h \in States /\ Sound(h, written, streams) /\ h.tx.fed = s.tx.fed
      /\ h.rw.wroteHeader \/ h.rw.blocked
  BY HeaderDoneOK
<1>2. Written(s, chunk, v) = IF h.rw.blocked THEN h
                             ELSE IF h.rw.passthrough THEN ToClient(h, chunk)
                             ELSE IF SizeOf(h.rw.buf) + chunk.size > RespLimit THEN ToClient(Passed(h), chunk)
                             ELSE b
  BY DEF Written
<1> HIDE DEF h
<1>3. h.rw.buf \in Seq(Chunks) /\ h.wire.bytes \in Seq(Chunks)
  BY <1>1, PartsTyped
<1>4. CASE h.rw.blocked
  <2>1. Sound(h, more, streams)
    BY <1>1, <1>4 DEF Sound
  <2>2. QED
    BY <1>1, <1>2, <1>4, <2>1
<1>5. CASE ~h.rw.blocked /\ h.rw.passthrough
  BY <1>1, <1>2, <1>5, ToClientOK
<1>6. CASE ~h.rw.blocked /\ ~h.rw.passthrough /\ SizeOf(h.rw.buf) + chunk.size > RespLimit
  <2>1. /\ Passed(h) \in States /\ Sound(Passed(h), written, streams) /\ Passed(h).tx = h.tx
        /\ Passed(h).rw.passthrough
    BY <1>1, <1>6, PassedOK
  <2>2. QED
    BY <1>1, <1>2, <1>6, <2>1, ToClientOK
<1>7. CASE ~h.rw.blocked /\ ~h.rw.passthrough /\ ~(SizeOf(h.rw.buf) + chunk.size > RespLimit)
  <2>1. Written(s, chunk, v) = b
    BY <1>2, <1>7
  <2>2. /\ longer \in Seq(Chunks) /\ longer # <<>>
        /\ h.wire.bytes \o longer = Append(h.wire.bytes \o h.rw.buf, chunk)
    BY <1>3, AppendBehind
  <2> HIDE DEF longer
  <2>3. /\ b \in States /\ b.tx = h.tx /\ b.wire = h.wire /\ b.rw.buf = longer
        /\ b.rw.wroteHeader = h.rw.wroteHeader /\ b.rw.blocked = h.rw.blocked
        /\ b.rw.passthrough = h.rw.passthrough
    BY <1>1, <2>2, BufSet
  <2> HIDE DEF b
  <2>4. ~h.wire.hijacked => b.wire.bytes \o b.rw.buf = more
    BY <1>1, <1>7, <2>2, <2>3 DEF Sound
  <2>5. Sound(b, more, streams)
    BY <1>1, <1>7, <2>3, <2>4 DEF Sound
  <2>6. QED
    BY <1>1, <2>1, <2>3, <2>5
<1>8. QED
  BY <1>4, <1>5, <1>6, <1>7

\* finish: nothing is left in the buffer.
LEMMA FinishedOK ==
  ASSUME NEW s \in States, NEW written \in Seq(Chunks), NEW streams \in BOOLEAN,
         NEW w \in Verdicts, NEW b \in Verdicts, NEW v \in Verdicts, Sound(s, written, streams)
  PROVE  /\ Finished(s, w, b, v) \in States /\ Sound(Finished(s, w, b, v), written, streams)
         /\ Finished(s, w, b, v).tx.fed = s.tx.fed
         /\ Finished(s, w, b, v).rw.passthrough \/ Finished(s, w, b, v).rw.blocked
<1> DEFINE given == [s EXCEPT !.tx.decided = w]
           read  == [s EXCEPT !.tx.decided = b, !.tx.bodyRead = s.rw.buf]
           held  == ~s.rw.passthrough /\ s.rw.buf # <<>>
           last  == IF held THEN read ELSE s
           head  == HeaderDone(last, v)
<1>1. Finished(s, w, b, v) = IF s.rw.blocked THEN s
                             ELSE IF held /\ w = "block" THEN Stopped(given)
                             ELSE IF held /\ b = "block" THEN Stopped(read)
                             ELSE Passed(head)
  <2>1. [given EXCEPT !.tx.decided = b, !.tx.bodyRead = s.rw.buf] = read
    BY DEF States, Tx
  <2>2. QED
    BY <2>1 DEF Finished, Blocked
<1>2. /\ given \in States /\ given.wire = s.wire /\ given.rw = s.rw
      /\ given.tx.decided = w /\ given.tx.fed = s.tx.fed
  BY DecidedSet
<1>3. /\ read \in States /\ read.wire = s.wire /\ read.rw = s.rw
      /\ read.tx.decided = b /\ read.tx.fed = s.tx.fed
  <2> DEFINE chunks == s.rw.buf
             x == [s EXCEPT !.tx.decided = b, !.tx.bodyRead = chunks]
  <2>1. chunks \in Seq(Chunks)
    BY PartsTyped
  <2> HIDE DEF chunks
  <2>2. x \in States /\ x.wire = s.wire /\ x.rw = s.rw /\ x.tx.decided = b /\ x.tx.fed = s.tx.fed
    BY <2>1 DEF States, Tx
  <2>3. x = read
    BY DEF chunks
  <2>4. QED
    BY <2>2, <2>3
<1> HIDE DEF given, read
<1>4. ASSUME ~s.rw.blocked, held
      PROVE  ~streams => s.wire.head = "none" /\ ~s.wire.hijacked /\ (s.rw.passthrough => s.rw.wroteHeader)
  BY <1>4 DEF Sound
<1>5. CASE s.rw.blocked
  BY <1>1, <1>5
<1>6. CASE ~s.rw.blocked /\ held /\ w = "block"
  BY <1>1, <1>2, <1>4, <1>6, StoppedOK
<1>7. CASE ~s.rw.blocked /\ held /\ w # "block" /\ b = "block"
  BY <1>1, <1>3, <1>4, <1>7, StoppedOK
<1>8. CASE ~s.rw.blocked /\ ~(held /\ w = "block") /\ ~(held /\ b = "block")
  <2>1. last \in States /\ Sound(last, written, streams) /\ last.tx.fed = s.tx.fed
    <3>1. CASE held
      <4>1. last = read /\ b # "block"
        BY <1>8, <3>1
      <4>2. Sound(read, written, streams)
        BY <1>3, <1>8, <4>1 DEF Sound
      <4>3. QED
        BY <1>3, <4>1, <4>2
    <3>2. CASE ~held
      BY <3>2
    <3>3. QED
      BY <3>1, <3>2
  <2> HIDE DEF last
  <2>2. /\ head \in States /\ Sound(head, written, streams) /\ head.tx.fed = last.tx.fed
        /\ head.rw.wroteHeader \/ head.rw.blocked
    BY <2>1, HeaderDoneOK
  <2> HIDE DEF head
  <2>3. /\ Passed(head) \in States /\ Sound(Passed(head), written, streams) /\ Passed(head).tx = head.tx
        /\ Passed(head).rw.passthrough \/ Passed(head).rw.blocked
    BY <2>2, PassedOK
  <2>4. Finished(s, w, b, v) = Passed(head)
    BY <1>1, <1>8
  <2>5. QED
    BY <2>1, <2>2, <2>3, <2>4
<1>9. QED
  BY <1>5, <1>6, <1>7, <1>8

-----------------------------------------------------------------------------
(* The exchange *)

TypeInv ==
  /\ opts \in [inspect : BOOLEAN, failOpen : BOOLEAN] /\ req \in Requests
  /\ stage \in {"headers", "capture", "reading", "body", "handler", "done"}
  /\ State \in States
  /\ sent \in Seq(Chunks) /\ streamed \in BOOLEAN

\* Before the handler runs, nobody wrote anything.
Untouched ==
  stage \in {"headers", "capture", "reading", "body"} =>
    /\ wire = NoWire /\ sent = <<>> /\ ~streamed
    /\ rw.buf = <<>> /\ ~rw.blocked /\ ~rw.passthrough /\ ~rw.wroteHeader

Conn == [read : Nat, closed : BOOLEAN, failed : BOOLEAN]
Bodies == [held : Seq(Nat), live : BOOLEAN, length : Int]

\* What the handler has read and what is held are the bytes that arrived, in order.
InOrder(read, held) ==
  /\ \A i \in 1..Len(read) : read[i] = i
  /\ \A i \in 1..Len(held) : held[i] = Len(read) + i

\* What captureBody has read is all that was.  Then, with the connection behind it, the
\* body goes on where its own bytes end; without it they are the whole body.  Of a body
\* that broke off nothing is said.
Joined ==
  IF stage \in {"headers", "capture", "reading"} THEN conn.read = Len(buf)
  ELSE IF conn.failed THEN TRUE
  ELSE IF body.live THEN conn.read = Len(got) + Len(body.held)
  ELSE Len(got) + Len(body.held) = req.size

\* Nothing is read before there is a handler, and only captureBody closes the connection.
Unread ==
  /\ stage \in {"headers", "capture", "reading", "body"} => got = <<>>
  /\ stage \in {"headers", "capture", "reading"} =>
       body.live /\ body.held = <<>> /\ ~conn.closed
  /\ stage \in {"headers", "capture"} => buf = <<>>
  /\ conn.closed /\ body.live => conn.failed
  /\ conn.failed => stage = "done" /\ wire.head = "block"

BodyKept ==
  /\ conn \in Conn /\ body \in Bodies /\ got \in Seq(Nat) /\ buf \in Seq(Nat)
  /\ conn.read <= req.size /\ Len(buf) <= Limit + 1 /\ InOrder(<<>>, buf)
  /\ ~req.fails => body.length \in {-1, req.size}
  /\ InOrder(got, body.held) /\ Joined /\ Unread

\* What the transaction was given is what the handler goes on with.
Shown ==
  /\ stage = "body" /\ req.size > 0 => tx.fed = req.size \/ tx.fed > Limit
  /\ Served /\ req.size > 0 => tx.fed = req.size \/ (tx.fed > Limit /\ opts.failOpen)

Writing == stage = "handler" => opts.inspect /\ Sound(State, sent, streamed)

WriterInv == TypeInv /\ Untouched /\ Shown /\ Writing /\ ResponseInOrder /\ OutcomeReported

ExchangeInv == WriterInv /\ BodyKept

LEMMA StateIs == State.tx = tx /\ State.rw = rw /\ State.wire = wire /\ State.reports = reports
BY DEF State

LEMMA StateOK ==
  State \in States <=> tx \in Tx /\ rw \in Rw /\ wire \in Wire /\ reports \in Seq({"allow", "block"})
BY DEF State, States

LEMMA NextStateOK ==
  State' \in States <=> tx' \in Tx /\ rw' \in Rw /\ wire' \in Wire /\ reports' \in Seq({"allow", "block"})
BY DEF State, States

LEMMA BecomeIs == ASSUME NEW s \in States, Become(s) PROVE State' = s
BY DEF Become, State, States

LEMMA LastReport ==
  ASSUME NEW p \in Seq({"allow", "block"}), NEW r \in {"allow", "block"}
  PROVE  Append(p, r) \in Seq({"allow", "block"}) /\ Append(p, r) # <<>> /\ Last(Append(p, r)) = r
BY DEF Last

LEMMA RequestOK ==
  ASSUME NEW r \in Requests
  PROVE  /\ r.size \in Nat /\ r.length \in Int /\ r.fails \in BOOLEAN
         /\ r.length = 0 => r.size = 0
         /\ ~r.fails => r.length \in {-1, r.size}
BY MiddlewareAssumption DEF Request

\* Only a body that captureBody could not read has failed, and its exchange is over.
LEMMA NotFailed ==
  ASSUME ExchangeInv, stage # "done", conn' = conn
  PROVE  ~conn'.failed
BY DEF ExchangeInv, BodyKept, Unread

\* A request turned away: the client has the block page, and nothing else.
LEMMA RejectOK ==
  ASSUME ExchangeInv, stage \in {"headers", "capture", "reading", "body"}, NEW told \in {"allow", "block"}, Reject(told)
  PROVE  /\ wire' \in Wire /\ wire'.head = "block"
         /\ reports' \in Seq({"allow", "block"}) /\ reports' # <<>> /\ Last(reports') = told
         /\ stage' = "done"
<1>1. wire \in Wire /\ reports \in Seq({"allow", "block"}) /\ wire.head = "none" /\ ~wire.hijacked
  BY StateOK DEF ExchangeInv, WriterInv, TypeInv, Untouched, NoWire
<1>2. wire' = Emit(wire, "block", <<BlockPage>>) /\ reports' = Append(reports, told) /\ stage' = "done"
  BY DEF Reject
<1>3. wire' \in Wire /\ wire'.head = "block"
  BY <1>1, <1>2, EmitOK, BlockPageOK
<1>4. QED
  BY <1>1, <1>2, <1>3, LastReport

LEMMA InitOK == ExchangeInit => ExchangeInv
<1> SUFFICES ASSUME ExchangeInit PROVE ExchangeInv
  OBVIOUS
<1>1. <<>> \in Seq(Chunks) /\ <<>> \in Seq({"allow", "block"})
  OBVIOUS
<1>2. tx \in Tx /\ rw \in Rw /\ wire \in Wire /\ reports \in Seq({"allow", "block"})
  BY <1>1 DEF ExchangeInit, Tx, Rw, Wire, Verdicts
<1>3. req.size \in Nat /\ Limit \in Nat
  BY RequestOK, MiddlewareAssumption DEF ExchangeInit
<1>4. TypeInv
  <2>2. State \in States
    BY <1>2, StateOK
  <2>3. QED
    BY <1>1, <2>2 DEF ExchangeInit, TypeInv
<1>5. Untouched /\ Shown /\ Writing /\ ResponseInOrder /\ OutcomeReported
  BY <1>3 DEF ExchangeInit, Untouched, NoWire, Shown, Served, Writing, ResponseInOrder, OutcomeReported
<1>6. BodyKept
  <2>1. req.length \in Int /\ (~req.fails => req.length \in {-1, req.size})
    BY RequestOK DEF ExchangeInit
  <2>2. /\ conn = [read |-> 0, closed |-> FALSE, failed |-> FALSE] /\ got = <<>> /\ buf = <<>>
        /\ body = [held |-> <<>>, live |-> TRUE, length |-> req.length]
    BY DEF ExchangeInit
  <2>3. <<>> \in Seq(Nat) /\ Len(<<>>) = 0
    OBVIOUS
  <2>4. conn \in Conn /\ body \in Bodies /\ got \in Seq(Nat)
    BY <2>1, <2>2, <2>3 DEF Conn, Bodies
  <2>5. InOrder(<<>>, buf) /\ InOrder(got, body.held) /\ Joined /\ Unread
    BY <2>2, <2>3 DEF InOrder, Joined, Unread
  <2> QED
    BY <1>3, <2>1, <2>2, <2>3, <2>4, <2>5 DEF BodyKept
<1>7. QED
  BY <1>4, <1>5, <1>6 DEF ExchangeInv, WriterInv

LEMMA HeadersOK == ASSUME ExchangeInv, NEW v \in Verdicts, Headers(v) PROVE WriterInv'
<1>1. /\ tx \in Tx /\ rw \in Rw /\ wire \in Wire /\ reports \in Seq({"allow", "block"})
      /\ stage = "headers" /\ req \in Requests
  BY StateOK DEF ExchangeInv, WriterInv, TypeInv, Headers
<1>2. tx' \in Tx
  BY <1>1 DEF Headers, Tx
<1>20. ~conn'.failed
  BY <1>1, NotFailed DEF Headers
<1>3. CASE v = "block"
  <2>1. /\ wire' \in Wire /\ wire'.head = "block" /\ reports' \in Seq({"allow", "block"})
        /\ reports' # <<>> /\ Last(reports') = "block" /\ stage' = "done"
    BY <1>1, <1>3, RejectOK DEF Headers, Blocked
  <2>2. State' \in States
    BY <1>1, <1>2, <2>1, NextStateOK DEF Headers
  <2>3. QED
    BY <1>20, <2>1, <2>2 DEF Headers, ExchangeInv, WriterInv, TypeInv, Untouched, Shown, Served, Writing, ResponseInOrder, OutcomeReported
<1>4. CASE v # "block"
  <2>1. stage' = "capture" /\ wire' = wire /\ reports' = reports
    BY <1>4 DEF Headers, Blocked
  <2>2. State' \in States
    BY <1>1, <1>2, <2>1, NextStateOK DEF Headers
  <2>3. QED
    BY <1>1, <1>20, <2>1, <2>2 DEF Headers, ExchangeInv, WriterInv, TypeInv, Untouched, Shown, Served, Writing, ResponseInOrder, OutcomeReported
<1>5. QED
  BY <1>3, <1>4

LEMMA CaptureOK == ASSUME ExchangeInv, Capture PROVE WriterInv'
<1>1. /\ tx \in Tx /\ rw \in Rw /\ wire \in Wire /\ reports \in Seq({"allow", "block"})
      /\ stage = "capture" /\ req \in Requests
  BY StateOK DEF ExchangeInv, WriterInv, TypeInv, Capture
<1>2. req.size \in Nat /\ (req.length = 0 => req.size = 0)
  BY <1>1, RequestOK
<1>3. /\ stage' = IF req.length = 0 THEN "body" ELSE "reading"
      /\ UNCHANGED <<opts, req, conn, tx, rw, wire, sent, streamed, reports>>
  BY DEF Capture
<1>4. State' \in States
  BY <1>1, <1>3, NextStateOK
<1>5. QED
  BY <1>1, <1>2, <1>3, <1>4
  DEF ExchangeInv, WriterInv, TypeInv, Untouched, Shown, Served, Writing, ResponseInOrder, OutcomeReported

LEMMA ReadAllOK == ASSUME ExchangeInv, ReadAll PROVE WriterInv'
<1>1. /\ stage = "reading" /\ UNCHANGED <<opts, req, stage, tx, rw, wire, sent, streamed, reports>>
  BY DEF ReadAll
<1>2. State' = State
  BY <1>1 DEF State
<1>3. QED
  BY <1>1, <1>2
  DEF ExchangeInv, WriterInv, TypeInv, Untouched, Shown, Served, Writing, ResponseInOrder, OutcomeReported

\* io.ReadAll stops with the whole body, or with one byte more than the limit.
LEMMA ReadEnough ==
  ASSUME ExchangeInv, Captured
  PROVE  /\ Len(buf) \in Nat /\ Limit \in Nat /\ req.size \in Nat
         /\ body.live /\ body.held = <<>> /\ got = <<>> /\ ~conn.closed /\ conn.read = Len(buf)
         /\ Len(buf) <= Limit => Len(buf) = req.size
<1>1. req \in Requests /\ stage = "reading" /\ ~(Room /\ Arrives)
  BY DEF ExchangeInv, WriterInv, TypeInv, Captured
<1>2. req.size \in Nat /\ Limit \in Nat
  BY <1>1, RequestOK, MiddlewareAssumption
<1>3. /\ buf \in Seq(Nat) /\ conn \in Conn /\ body.live /\ body.held = <<>> /\ got = <<>>
      /\ ~conn.closed /\ conn.read = Len(buf) /\ conn.read <= req.size
  BY <1>1 DEF ExchangeInv, BodyKept, Unread, Joined
<1>4. Len(buf) \in Nat
  BY <1>3
<1>5. ASSUME Len(buf) <= Limit PROVE Len(buf) = req.size
  BY <1>1, <1>2, <1>3, <1>4, <1>5 DEF Room, Arrives
<1>6. QED
  BY <1>2, <1>3, <1>4, <1>5

LEMMA CapturedOK == ASSUME ExchangeInv, Captured PROVE WriterInv'
<1>1. /\ tx \in Tx /\ rw \in Rw /\ wire \in Wire /\ reports \in Seq({"allow", "block"})
      /\ stage = "reading" /\ req \in Requests
  BY StateOK DEF ExchangeInv, WriterInv, TypeInv, Captured
<1>2. CASE Room /\ req.fails
  <2>1. /\ Reject(Told(tx.decided)) /\ UNCHANGED <<opts, req, tx, rw, sent, streamed>>
        /\ conn' = [conn EXCEPT !.closed = TRUE, !.failed = TRUE]
    BY <1>2 DEF Captured
  <2>2. Told(tx.decided) \in {"allow", "block"}
    BY DEF Told
  <2>3. /\ wire' \in Wire /\ wire'.head = "block" /\ reports' \in Seq({"allow", "block"})
        /\ reports' # <<>> /\ Last(reports') = Told(tx.decided) /\ stage' = "done"
    BY <1>1, <2>1, <2>2, RejectOK
  <2>4. State' \in States
    BY <1>1, <2>1, <2>3, NextStateOK
  <2>5. conn'.failed
    BY <2>1 DEF ExchangeInv, BodyKept, Conn
  <2>6. Told(tx.decided)' = Told(tx.decided)
    BY <2>1 DEF Told
  <2>7. QED
    BY <2>1, <2>3, <2>4, <2>5, <2>6
    DEF ExchangeInv, WriterInv, TypeInv, Untouched, Shown, Served, Writing, ResponseInOrder, OutcomeReported
<1>3. CASE ~(Room /\ req.fails)
  <2>1. /\ tx' = [tx EXCEPT !.fed = Len(buf)] /\ stage' = "body"
        /\ UNCHANGED <<opts, req, rw, wire, sent, streamed, reports>>
    BY <1>3 DEF Captured
  <2>2. /\ Len(buf) \in Nat /\ Limit \in Nat
        /\ Len(buf) = req.size \/ Len(buf) > Limit
    BY ReadEnough
  <2>3. tx' \in Tx /\ tx'.fed = Len(buf)
    BY <1>1, <2>1, <2>2 DEF Tx
  <2>4. State' \in States
    BY <1>1, <2>1, <2>3, NextStateOK
  <2>5. QED
    BY <1>1, <2>1, <2>2, <2>3, <2>4
    DEF ExchangeInv, WriterInv, TypeInv, Untouched, Shown, Served, Writing, ResponseInOrder, OutcomeReported
<1>4. QED
  BY <1>2, <1>3

\* Reading the body leaves the rest of the exchange alone.
LEMMA ReadBodyOK == ASSUME ExchangeInv, ReadBody PROVE WriterInv'
<1>1. UNCHANGED <<opts, req, stage, tx, rw, wire, sent, streamed, reports>> /\ conn'.failed = conn.failed
  BY DEF ReadBody, ExchangeInv, BodyKept, Conn
<1>2. State' = State
  BY <1>1 DEF State
<1>3. Told(tx.decided)' = Told(tx.decided)
  BY <1>1 DEF Told
<1>4. QED
  BY <1>1, <1>2, <1>3
  DEF ExchangeInv, WriterInv, TypeInv, Untouched, Shown, Served, Writing, ResponseInOrder, OutcomeReported

LEMMA BodyOK == ASSUME ExchangeInv, NEW v \in Verdicts, Body(v) PROVE WriterInv'
<1>1. /\ tx \in Tx /\ rw \in Rw /\ wire \in Wire /\ reports \in Seq({"allow", "block"})
      /\ stage = "body" /\ req \in Requests /\ opts \in [inspect : BOOLEAN, failOpen : BOOLEAN]
      /\ wire = NoWire /\ sent = <<>> /\ ~streamed
      /\ rw.buf = <<>> /\ ~rw.blocked /\ ~rw.passthrough /\ ~rw.wroteHeader
  BY StateOK DEF ExchangeInv, WriterInv, TypeInv, Body, Untouched
<1>2. req.size \in Nat /\ Limit \in Nat
  BY <1>1, RequestOK, MiddlewareAssumption
<1>3. /\ tx' = [tx EXCEPT !.decided = v] /\ UNCHANGED <<opts, req, conn, rw, sent, streamed>>
      /\ BodyPhase(v)
  BY DEF Body
<1>4. tx' \in Tx /\ tx'.decided = v /\ tx'.fed = tx.fed
  BY <1>1, <1>3 DEF Tx
<1>40. ~conn'.failed
  BY <1>1, <1>3, NotFailed
<1>5. CASE v = "block"
  <2>1. /\ wire' \in Wire /\ wire'.head = "block" /\ reports' \in Seq({"allow", "block"})
        /\ reports' # <<>> /\ Last(reports') = "block" /\ stage' = "done"
    BY <1>1, <1>5, RejectOK DEF Body, Blocked
  <2>2. State' \in States
    BY <1>1, <1>3, <1>4, <2>1, NextStateOK
  <2>3. QED
    BY <1>3, <1>40, <2>1, <2>2
    DEF ExchangeInv, WriterInv, TypeInv, Untouched, Shown, Served, Writing, ResponseInOrder, OutcomeReported
<1>6. ASSUME v # "block", req.size > 0
      PROVE  tx.fed = req.size \/ (tx.fed > Limit /\ opts.failOpen)
  <2>1. tx.fed = req.size \/ tx.fed > Limit
    BY <1>1, <1>6 DEF ExchangeInv, WriterInv, Shown
  <2>2. tx.fed > Limit => opts.failOpen
    BY <1>3, <1>6 DEF BodyPhase, LimitVerdict
  <2>3. QED
    BY <1>2, <2>1, <2>2
<1>7. CASE v # "block" /\ opts.inspect
  <2>1. stage' = "handler" /\ wire' = wire /\ reports' = reports
    BY <1>7 DEF Body, Blocked
  <2>2. State' \in States
    BY <1>1, <1>3, <1>4, <2>1, NextStateOK
  <2>3. /\ State'.tx = tx' /\ State'.rw = rw /\ State'.wire = wire
        /\ wire.head = "none" /\ wire.bytes = <<>> /\ ~wire.hijacked
    BY <1>1, <1>3, <2>1 DEF State, NoWire
  <2>4. <<>> \in Seq(Chunks) /\ <<>> \o <<>> = <<>>
    BY NothingBehind
  <2>5. Sound(State', sent', streamed')
    BY <1>1, <1>3, <1>4, <1>7, <2>3, <2>4 DEF Sound
  <2>6. QED
    BY <1>1, <1>3, <1>4, <1>40, <1>6, <1>7, <2>1, <2>2, <2>5
    DEF ExchangeInv, WriterInv, TypeInv, Untouched, Shown, Served, Writing, ResponseInOrder, OutcomeReported
<1>8. CASE v # "block" /\ ~opts.inspect
  <2>1. stage' = "done" /\ wire' = Headed(wire, "origin") /\ reports' = Append(reports, "allow")
    BY <1>8 DEF Body, Blocked, Told
  <2>2. wire' \in Wire /\ wire'.head = "origin"
    BY <1>1, <2>1, HeadedOK DEF NoWire
  <2>3. reports' \in Seq({"allow", "block"}) /\ reports' # <<>> /\ Last(reports') = "allow"
    BY <1>1, <2>1, LastReport
  <2>4. State' \in States
    BY <1>1, <1>3, <1>4, <2>2, <2>3, NextStateOK
  <2>5. QED
    BY <1>3, <1>4, <1>40, <1>6, <1>8, <2>1, <2>2, <2>3, <2>4
    DEF ExchangeInv, WriterInv, TypeInv, Untouched, Shown, Served, Writing, ResponseInOrder, OutcomeReported
<1>9. QED
  BY <1>1, <1>5, <1>7, <1>8

\* A step of the handler keeps the invariant when it keeps the writer sound.
LEMMA HandlerStep ==
  ASSUME ExchangeInv, stage = "handler", UNCHANGED <<opts, req, stage, conn>>,
         State' \in States, State'.tx.fed = State.tx.fed,
         sent' \in Seq(Chunks), streamed' \in BOOLEAN, Sound(State', sent', streamed')
  PROVE  WriterInv'
<1>1. tx'.fed = tx.fed
  BY DEF State
<1>2. QED
  BY <1>1 DEF ExchangeInv, WriterInv, TypeInv, Untouched, Shown, Served, Writing, ResponseInOrder, OutcomeReported

\* In the handler the writer is sound, and a chunk has an identity.
LEMMA InHandler ==
  ASSUME ExchangeInv, stage = "handler"
  PROVE  /\ State \in States /\ Sound(State, sent, streamed) /\ sent \in Seq(Chunks) /\ streamed \in BOOLEAN
         /\ State.tx.fed = tx.fed
         /\ \A size \in Sizes : [id |-> Len(sent) + 1, size |-> size] \in Chunks
<1>1. State \in States /\ Sound(State, sent, streamed) /\ sent \in Seq(Chunks) /\ streamed \in BOOLEAN
  BY DEF ExchangeInv, WriterInv, TypeInv, Writing
<1>2. Len(sent) + 1 \in Nat
  BY <1>1
<1>3. \A size \in Sizes : size \in Nat
  BY MiddlewareAssumption
<1>4. QED
  BY <1>1, <1>2, <1>3, StateIs DEF Chunks

LEMMA WriteHeaderOK == ASSUME ExchangeInv, NEW v \in Verdicts, WriteHeader(v) PROVE WriterInv'
<1>1. /\ stage = "handler" /\ Become(HeaderDone(State, v)) /\ UNCHANGED <<opts, req, stage, conn, sent, streamed>>
  BY DEF WriteHeader
<1>2. /\ HeaderDone(State, v) \in States /\ Sound(HeaderDone(State, v), sent, streamed)
      /\ HeaderDone(State, v).tx.fed = State.tx.fed
  BY <1>1, InHandler, HeaderDoneOK
<1>3. State' = HeaderDone(State, v)
  BY <1>1, <1>2, BecomeIs
<1>4. QED
  BY <1>1, <1>2, <1>3, InHandler, HandlerStep

LEMMA WriteOK == ASSUME ExchangeInv, NEW size \in Sizes, NEW v \in Verdicts, Write(size, v) PROVE WriterInv'
<1> DEFINE chunk == [id |-> Len(sent) + 1, size |-> size]
<1>1. /\ stage = "handler" /\ Become(Written(State, chunk, v)) /\ UNCHANGED <<opts, req, stage, conn, streamed>>
      /\ sent' = Append(sent, chunk)
  BY DEF Write, Handler
<1>2. chunk \in Chunks
  BY <1>1, InHandler
<1> HIDE DEF chunk
<1>3. /\ Written(State, chunk, v) \in States /\ Sound(Written(State, chunk, v), Append(sent, chunk), streamed)
      /\ Written(State, chunk, v).tx.fed = State.tx.fed
  BY <1>1, <1>2, InHandler, WrittenOK
<1>4. State' = Written(State, chunk, v) /\ sent' \in Seq(Chunks)
  BY <1>1, <1>2, <1>3, BecomeIs, InHandler
<1>5. QED
  BY <1>1, <1>3, <1>4, InHandler, HandlerStep

\* Whoever streams gives up what buffering promised.
LEMMA StreamsOK ==
  ASSUME ExchangeInv, stage = "handler"
  PROVE  Sound(State, sent, TRUE)
BY InHandler DEF Sound

\* Flush and Hijack: the writer is passed, and the client's side becomes w.
LEMMA StreamedOK ==
  ASSUME NEW s \in States, NEW written \in Seq(Chunks), NEW w \in Wire, Sound(s, written, TRUE),
         w.bytes = s.wire.bytes, w.hijacked \/ w.hijacked = s.wire.hijacked, w.head \in {s.wire.head, "origin"}
  PROVE  LET g == [s EXCEPT !.wire = w] IN g \in States /\ Sound(g, written, TRUE) /\ g.tx = s.tx
<1> DEFINE g == [s EXCEPT !.wire = w]
<1>1. g \in States /\ g.tx = s.tx /\ g.rw = s.rw /\ g.wire = w
  BY WireSet
<1> HIDE DEF g
<1>2. Sound(g, written, TRUE)
  BY <1>1 DEF Sound
<1>3. QED
  BY <1>1, <1>2 DEF g

LEMMA FlushOK == ASSUME ExchangeInv, Flush PROVE WriterInv'
<1> DEFINE p == Passed(State)
           w == Headed(p.wire, "origin")
           g == [p EXCEPT !.wire = w]
<1>1. /\ stage = "handler" /\ Become(g) /\ streamed' = TRUE /\ UNCHANGED <<opts, req, stage, conn, sent>>
  BY DEF Flush
<1>2. p \in States /\ Sound(p, sent, TRUE) /\ p.tx = State.tx
  BY <1>1, InHandler, StreamsOK, PassedOK
<1> HIDE DEF p
<1>3. w \in Wire /\ w.bytes = p.wire.bytes /\ w.hijacked = p.wire.hijacked /\ w.head \in {p.wire.head, "origin"}
  BY <1>2, PartsTyped, HeadedOK
<1> HIDE DEF w
<1>4. g \in States /\ Sound(g, sent, TRUE) /\ g.tx = p.tx
  BY <1>1, <1>2, <1>3, InHandler, StreamedOK
<1> HIDE DEF g
<1>5. State' = g
  BY <1>1, <1>4, BecomeIs
<1>6. QED
  BY <1>1, <1>2, <1>4, <1>5, InHandler, HandlerStep

LEMMA HijackOK == ASSUME ExchangeInv, Hijack PROVE WriterInv'
<1> DEFINE p == Passed(State)
           w == [p.wire EXCEPT !.hijacked = TRUE]
           g == [p EXCEPT !.wire = w]
<1>1. /\ stage = "handler" /\ Become([p EXCEPT !.wire.hijacked = TRUE])
      /\ streamed' = TRUE /\ UNCHANGED <<opts, req, stage, conn, sent>>
  BY DEF Hijack
<1>2. p \in States /\ Sound(p, sent, TRUE) /\ p.tx = State.tx
  BY <1>1, InHandler, StreamsOK, PassedOK
<1> HIDE DEF p
<1>3. [p EXCEPT !.wire.hijacked = TRUE] = g
  BY <1>2 DEF States
<1>4. w \in Wire /\ w.bytes = p.wire.bytes /\ w.hijacked /\ w.head = p.wire.head
  BY <1>2, PartsTyped DEF Wire
<1> HIDE DEF w
<1>5. g \in States /\ Sound(g, sent, TRUE) /\ g.tx = p.tx
  BY <1>1, <1>2, <1>4, InHandler, StreamedOK
<1> HIDE DEF g
<1>6. State' = g
  BY <1>1, <1>3, <1>5, BecomeIs
<1>7. QED
  BY <1>1, <1>2, <1>5, <1>6, InHandler, HandlerStep

LEMMA ReadFromOK == ASSUME ExchangeInv, NEW size \in Sizes, ReadFrom(size) PROVE WriterInv'
<1> DEFINE chunk == [id |-> Len(sent) + 1, size |-> size]
           p == Passed(State)
<1>1. /\ stage = "handler" /\ Become(ToClient(p, chunk)) /\ streamed' = TRUE /\ UNCHANGED <<opts, req, stage, conn>>
      /\ sent' = Append(sent, chunk)
  BY DEF ReadFrom, Handler
<1>2. chunk \in Chunks
  BY <1>1, InHandler
<1> HIDE DEF chunk
<1>3. p \in States /\ Sound(p, sent, TRUE) /\ p.tx = State.tx /\ (p.rw.passthrough \/ p.rw.blocked)
  BY <1>1, InHandler, StreamsOK, PassedOK
<1> HIDE DEF p
<1>4. ToClient(p, chunk) \in States /\ Sound(ToClient(p, chunk), Append(sent, chunk), TRUE) /\ ToClient(p, chunk).tx = p.tx
  BY <1>1, <1>2, <1>3, InHandler, ToClientOK
<1>5. State' = ToClient(p, chunk) /\ sent' \in Seq(Chunks)
  BY <1>1, <1>2, <1>4, BecomeIs, InHandler
<1>6. QED
  BY <1>1, <1>3, <1>4, <1>5, InHandler, HandlerStep

LEMMA ReturnOK ==
  ASSUME ExchangeInv, NEW fits \in BOOLEAN, NEW w \in Verdicts, NEW b \in Verdicts, NEW v \in Verdicts,
         Return(fits, w, b, v)
  PROVE  WriterInv'
<1> DEFINE s == Finished(State, w, b, v)
           r == Append(s.reports, Told(s.tx.decided))
           g == [s EXCEPT !.reports = r]
<1>1. /\ stage = "handler" /\ stage' = "done" /\ Become(g) /\ UNCHANGED <<opts, req, conn, sent, streamed>>
  BY DEF Return
<1>2. /\ s \in States /\ Sound(s, sent, streamed) /\ s.tx.fed = tx.fed
      /\ s.rw.passthrough \/ s.rw.blocked
  BY <1>1, InHandler, FinishedOK
<1> HIDE DEF s
<1>3. /\ r \in Seq({"allow", "block"}) /\ r # <<>> /\ Last(r) = Told(s.tx.decided)
  <2>1. Told(s.tx.decided) \in {"allow", "block"}
    BY DEF Told
  <2>2. QED
    BY <1>2, <2>1, PartsTyped, LastReport
<1> HIDE DEF r
<1>4. g \in States /\ g.tx = s.tx /\ g.rw = s.rw /\ g.wire = s.wire /\ g.reports = r
  BY <1>2, <1>3 DEF States
<1> HIDE DEF g
<1>5. State' = g
  BY <1>1, <1>4, BecomeIs
<1>6. tx' = s.tx /\ rw' = s.rw /\ wire' = s.wire /\ reports' = r
  BY <1>4, <1>5 DEF State
<1>7. opts.inspect /\ sent \in Seq(Chunks)
  BY <1>1 DEF ExchangeInv, WriterInv, Writing, TypeInv
<1>8. ResponseInOrder'
  <2>1. SUFFICES ASSUME ~s.rw.blocked, ~s.wire.hijacked PROVE s.wire.bytes = sent
    BY <1>1, <1>6 DEF ResponseInOrder
  <2>2. s.rw.buf = <<>> /\ s.wire.bytes \o s.rw.buf = sent
    BY <1>2, <2>1 DEF Sound
  <2>3. QED
    BY <1>2, <2>2, PartsTyped, NothingBehind
<1>9. OutcomeReported'
  <2>1. SUFFICES ASSUME ~streamed PROVE Told(s.tx.decided) = "block" <=> s.wire.head = "block"
    <3>1. ~conn'.failed
      BY <1>1, NotFailed
    <3>2. QED
      BY <1>1, <1>3, <1>6, <3>1 DEF OutcomeReported
  <2>2. QED
    BY <1>2, <2>1 DEF Sound, Told, Blocked
<1>10. TypeInv' /\ Untouched' /\ Writing'
  BY <1>1, <1>4, <1>5 DEF ExchangeInv, WriterInv, TypeInv, Untouched, Writing
<1>11. Shown'
  BY <1>1, <1>2, <1>6 DEF ExchangeInv, WriterInv, Shown, Served
<1>12. QED
  BY <1>8, <1>9, <1>10, <1>11 DEF WriterInv

-----------------------------------------------------------------------------
(* The body *)

\* A step that leaves the body alone and does not go back.
LEMMA Onward ==
  ASSUME BodyKept, UNCHANGED <<req, conn, buf, body, got>>, stage \notin {"reading", "done"},
         stage' = stage \/ (stage = "headers" /\ stage' = "capture") \/ stage' \in {"handler", "done"}
  PROVE  BodyKept'
<1>1. InOrder(<<>>, buf)' /\ InOrder(got, body.held)'
  BY DEF BodyKept, InOrder
<1>2. Unread'
  BY DEF BodyKept, Unread
<1>3. Joined'
  <2>1. CASE stage \in {"headers", "capture"}
    <3>1. /\ buf = <<>> /\ got = <<>> /\ body.held = <<>> /\ body.live
          /\ conn.read = Len(buf) /\ Len(<<>>) = 0
      BY <2>1 DEF BodyKept, Unread, Joined
    <3>2. QED
      BY <3>1 DEF Joined
  <2>2. CASE stage \notin {"headers", "capture"}
    <3>1. Joined /\ stage' \notin {"headers", "capture", "reading"}
      BY <2>2 DEF BodyKept
    <3>2. QED
      BY <2>2, <3>1 DEF Joined
  <2>3. QED
    BY <2>1, <2>2
<1>4. QED
  BY <1>1, <1>2, <1>3 DEF BodyKept

LEMMA CaptureKeeps == ASSUME ExchangeInv, Capture PROVE BodyKept'
<1>1. stage = "capture" /\ stage' \in {"body", "reading"} /\ UNCHANGED <<req, conn, buf, body, got>>
  BY DEF Capture
<1>2. BodyKept
  BY DEF ExchangeInv
<1>3. InOrder(<<>>, buf)' /\ InOrder(got, body.held)'
  BY <1>1, <1>2 DEF BodyKept, InOrder
<1>4. Unread'
  BY <1>1, <1>2 DEF BodyKept, Unread
<1>5. /\ buf = <<>> /\ got = <<>> /\ body.held = <<>> /\ body.live
      /\ conn.read = Len(buf) /\ Len(<<>>) = 0
  BY <1>1, <1>2 DEF BodyKept, Unread, Joined
<1>6. Joined'
  BY <1>1, <1>5 DEF Joined
<1>7. QED
  BY <1>1, <1>2, <1>3, <1>4, <1>6 DEF BodyKept

\* The fields of r.Body and of the connection, as they are set.
LEMMA HeldSet ==
  ASSUME NEW b \in Bodies, NEW h \in Seq(Nat)
  PROVE  LET c == [b EXCEPT !.held = h]
         IN  c \in Bodies /\ c.held = h /\ c.live = b.live /\ c.length = b.length
BY DEF Bodies

LEMMA ReadSet ==
  ASSUME NEW c \in Conn, NEW n \in Nat
  PROVE  LET d == [c EXCEPT !.read = n]
         IN  d \in Conn /\ d.read = n /\ d.closed = c.closed /\ d.failed = c.failed
BY DEF Conn

LEMMA CloseSet ==
  ASSUME NEW c \in Conn
  PROVE  LET d == [c EXCEPT !.closed = TRUE]
         IN  d \in Conn /\ d.read = c.read /\ d.failed = c.failed
BY DEF Conn

\* A byte that goes from one side to the other leaves the sum.
LEMMA Across ==
  ASSUME NEW a \in Nat, NEW b \in Nat, NEW c, NEW d, c = a + 1, d = b - 1
  PROVE  c + d = a + b
OBVIOUS

\* One byte more is held, and it is the next.
LEMMA HeldMore ==
  ASSUME NEW read \in Seq(Nat), NEW held \in Seq(Nat), InOrder(read, held),
         NEW n \in Nat, n = Len(read) + Len(held) + 1
  PROVE  Append(held, n) \in Seq(Nat) /\ InOrder(read, Append(held, n)) /\ Len(Append(held, n)) = Len(held) + 1
<1>1. Append(held, n) \in Seq(Nat) /\ Len(Append(held, n)) = Len(held) + 1
  OBVIOUS
<1>2. \A i \in 1..Len(held) + 1 : Append(held, n)[i] = IF i = Len(held) + 1 THEN n ELSE held[i]
  OBVIOUS
<1>3. ASSUME NEW i \in 1..Len(Append(held, n)) PROVE Append(held, n)[i] = Len(read) + i
  <2>1. i \in 1..Len(held) + 1 /\ Len(held) \in Nat /\ Len(read) \in Nat
    BY <1>1, <1>3
  <2>2. CASE i = Len(held) + 1
    BY <1>2, <2>1, <2>2
  <2>3. CASE i # Len(held) + 1
    <3>1. i \in 1..Len(held) /\ Append(held, n)[i] = held[i]
      BY <1>2, <2>1, <2>3
    <3> QED
      BY <3>1 DEF InOrder
  <2> QED
    BY <2>2, <2>3
<1>4. InOrder(read, Append(held, n))
  BY <1>3 DEF InOrder
<1>5. QED
  BY <1>1, <1>4

LEMMA ReadAllKeeps == ASSUME ExchangeInv, ReadAll PROVE BodyKept'
<1>1. /\ stage = "reading" /\ Room /\ Arrives /\ UNCHANGED <<req, stage, body, got, wire>>
      /\ buf' = Append(buf, NextByte) /\ conn' = [conn EXCEPT !.read = @ + 1]
  BY DEF ReadAll
<1>2. BodyKept /\ req.size \in Nat /\ Limit \in Nat
  BY RequestOK, MiddlewareAssumption DEF ExchangeInv, WriterInv, TypeInv
<1>3. /\ conn \in Conn /\ buf \in Seq(Nat) /\ conn.read \in Nat /\ conn.read = Len(buf)
  BY <1>1, <1>2 DEF BodyKept, Joined, Conn
<1>40. <<>> \in Seq(Nat)
  OBVIOUS
<1>4. PICK none \in Seq(Nat) : none = <<>>
  BY <1>40
<1>5. PICK held \in Seq(Nat) : held = buf
  BY <1>3
<1>6. PICK n \in Nat : n = NextByte
  BY <1>3 DEF NextByte
<1>7. InOrder(none, held) /\ n = Len(none) + Len(held) + 1
  <2>1. InOrder(none, held)
    BY <1>2, <1>4, <1>5 DEF BodyKept
  <2>2. Len(none) = 0 /\ Len(held) \in Nat /\ n = Len(held) + 1
    BY <1>3, <1>4, <1>5, <1>6 DEF NextByte
  <2>3. QED
    BY <2>1, <2>2
<1>8. /\ Append(held, n) \in Seq(Nat) /\ InOrder(none, Append(held, n))
      /\ Len(Append(held, n)) = Len(held) + 1
  BY <1>7, HeldMore
<1>9. /\ conn' \in Conn /\ conn'.read = conn.read + 1 /\ conn'.closed = conn.closed
      /\ conn'.failed = conn.failed
  <2>1. PICK c \in Conn : c = conn
    BY <1>3
  <2>2. PICK m \in Nat : m = conn.read + 1
    BY <1>3
  <2>3. conn' = [c EXCEPT !.read = m]
    BY <1>1, <2>1, <2>2
  <2>4. QED
    BY <2>1, <2>2, <2>3, ReadSet
<1>10. buf' = Append(held, n)
  BY <1>1, <1>5, <1>6
<1>11. /\ buf' \in Seq(Nat) /\ Len(buf') = Len(buf) + 1 /\ Len(buf) \in Nat
  BY <1>3, <1>5, <1>8, <1>10
<1>12. Len(buf') <= Limit + 1 /\ conn'.read <= req.size
  BY <1>1, <1>2, <1>3, <1>9, <1>11 DEF Room, Arrives
<1>13. InOrder(<<>>, buf)'
  BY <1>4, <1>8, <1>10 DEF InOrder
<1>14. InOrder(got, body.held)'
  BY <1>1, <1>2 DEF BodyKept, InOrder
<1>15. Joined'
  BY <1>1, <1>3, <1>9, <1>11 DEF Joined
<1>16. Unread'
  BY <1>1, <1>2, <1>9 DEF BodyKept, Unread
<1>17. QED
  BY <1>1, <1>2, <1>9, <1>11, <1>12, <1>13, <1>14, <1>15, <1>16 DEF BodyKept

\* What is restored starts with the first byte.
LEMMA FromTheStart ==
  ASSUME ExchangeInv, Captured
  PROVE  InOrder(<<>>, buf) /\ InOrder(got, buf) /\ InOrder(got, body.held)
<1>1. got = <<>> /\ body.held = <<>>
  BY ReadEnough
<1>2. InOrder(<<>>, buf)
  BY DEF ExchangeInv, BodyKept
<1>3. InOrder(<<>>, <<>>)
  BY DEF InOrder
<1>4. QED
  BY <1>1, <1>2, <1>3

LEMMA CapturedKeeps == ASSUME ExchangeInv, Captured PROVE BodyKept'
<1>1. BodyKept /\ stage = "reading" /\ UNCHANGED <<req, buf, got>>
  BY DEF ExchangeInv, Captured
<1>2. /\ Len(buf) \in Nat /\ Limit \in Nat /\ req.size \in Nat
      /\ body.live /\ body.held = <<>> /\ got = <<>> /\ ~conn.closed /\ conn.read = Len(buf)
      /\ Len(buf) <= Limit => Len(buf) = req.size
  BY ReadEnough
<1>3. body \in Bodies /\ conn \in Conn /\ conn.failed = FALSE /\ buf \in Seq(Nat) /\ got \in Seq(Nat)
  BY <1>1 DEF BodyKept, Unread, Conn
<1>4. InOrder(<<>>, buf) /\ InOrder(got, buf) /\ InOrder(got, body.held)
  BY FromTheStart
<1>5. InOrder(<<>>, buf)' /\ Len(buf)' = Len(buf) /\ Len(got)' = 0
  BY <1>1, <1>2, <1>4 DEF InOrder
<1>6. CASE Room /\ req.fails
  <2>1. /\ conn' = [conn EXCEPT !.closed = TRUE, !.failed = TRUE] /\ body' = body
        /\ Reject(Told(tx.decided))
    BY <1>6 DEF Captured
  <2>2. Told(tx.decided) \in {"allow", "block"}
    BY DEF Told
  <2>3. wire'.head = "block" /\ stage' = "done"
    BY <1>1, <2>1, <2>2, RejectOK
  <2>4. conn' \in Conn /\ conn'.read = conn.read /\ conn'.failed
    BY <1>3, <2>1 DEF Conn
  <2>5. InOrder(got, body.held)'
    BY <1>1, <1>4, <2>1 DEF InOrder
  <2>6. Unread'
    BY <1>1, <2>1, <2>3 DEF Unread
  <2>7. Joined'
    BY <2>3, <2>4 DEF Joined
  <2>8. QED
    BY <1>1, <1>3, <1>5, <2>1, <2>4, <2>5, <2>6, <2>7 DEF BodyKept
<1>7. CASE ~(Room /\ req.fails) /\ Len(buf) <= Limit
  <2>1. body' = Replaced /\ conn' = [conn EXCEPT !.closed = TRUE] /\ stage' = "body"
    BY <1>7 DEF Captured
  <2>2. PICK c \in Conn : c = conn
    BY <1>3
  <2>3. conn' = [c EXCEPT !.closed = TRUE]
    BY <2>1, <2>2
  <2>4. conn' \in Conn /\ conn'.read = conn.read /\ ~conn'.failed
    BY <1>3, <2>2, <2>3, CloseSet
  <2>5. /\ body' \in Bodies /\ body'.held = buf /\ ~body'.live /\ body'.length = req.size
    BY <1>2, <1>3, <1>7, <2>1 DEF Replaced, Bodies
  <2>6. InOrder(got, body.held)'
    BY <1>1, <1>4, <2>5 DEF InOrder
  <2>7. Joined'
    BY <1>1, <1>2, <1>5, <1>7, <2>1, <2>4, <2>5 DEF Joined
  <2>8. Unread'
    BY <1>1, <1>2, <2>1, <2>4, <2>5 DEF Unread
  <2>9. QED
    BY <1>1, <1>3, <1>5, <2>4, <2>5, <2>6, <2>7, <2>8 DEF BodyKept
<1>8. CASE ~(Room /\ req.fails) /\ ~(Len(buf) <= Limit)
  <2>1. body' = Followed /\ conn' = conn /\ stage' = "body"
    BY <1>8 DEF Captured
  <2>2. PICK b \in Bodies : b = body
    BY <1>3
  <2>3. PICK h \in Seq(Nat) : h = buf
    BY <1>3
  <2>4. body' = [b EXCEPT !.held = h]
    BY <2>1, <2>2, <2>3 DEF Followed
  <2>5. body' \in Bodies /\ body'.held = buf /\ body'.live /\ body'.length = body.length
    BY <1>2, <2>2, <2>3, <2>4, HeldSet
  <2>6. InOrder(got, body.held)'
    BY <1>1, <1>4, <2>5 DEF InOrder
  <2>7. Joined'
    BY <1>1, <1>2, <1>3, <1>5, <2>1, <2>5 DEF Joined
  <2>8. Unread'
    BY <1>1, <1>2, <1>3, <2>1, <2>5 DEF Unread
  <2>9. QED
    BY <1>1, <1>3, <1>5, <2>1, <2>5, <2>6, <2>7, <2>8 DEF BodyKept
<1>9. QED
  BY <1>6, <1>7, <1>8

\* One byte more is read: the first of those held.
LEMMA ReadHeld ==
  ASSUME NEW read \in Seq(Nat), NEW held \in Seq(Nat), InOrder(read, held), held # <<>>
  PROVE  /\ Append(read, Head(held)) \in Seq(Nat) /\ Tail(held) \in Seq(Nat)
         /\ InOrder(Append(read, Head(held)), Tail(held))
         /\ Len(Append(read, Head(held))) = Len(read) + 1 /\ Len(Tail(held)) = Len(held) - 1
<1>1. Len(held) \in Nat /\ Len(held) >= 1 /\ Head(held) = held[1] /\ Head(held) \in Nat
  OBVIOUS
<1>2. /\ Append(read, Head(held)) \in Seq(Nat) /\ Tail(held) \in Seq(Nat)
      /\ Len(Append(read, Head(held))) = Len(read) + 1 /\ Len(Tail(held)) = Len(held) - 1
  BY <1>1
<1>3. \A i \in 1..Len(read) + 1 :
        Append(read, Head(held))[i] = IF i = Len(read) + 1 THEN Head(held) ELSE read[i]
  BY <1>1
<1>4. \A i \in 1..Len(held) - 1 : Tail(held)[i] = held[i + 1]
  BY <1>1
<1>5. Head(held) = Len(read) + 1
  BY <1>1 DEF InOrder
<1>6. \A i \in 1..Len(held) - 1 : held[i + 1] = Len(read) + 1 + i
  <2> TAKE i \in 1..Len(held) - 1
  <2>1. i + 1 \in 1..Len(held) /\ Len(read) \in Nat
    BY <1>1
  <2> QED
    BY <2>1 DEF InOrder
<1>7. QED
  BY <1>2, <1>3, <1>4, <1>5, <1>6 DEF InOrder

\* Or the next of the connection, when none is held.
LEMMA ReadOn ==
  ASSUME NEW read \in Seq(Nat), InOrder(read, <<>>), NEW n \in Nat, n = Len(read) + 1
  PROVE  /\ Append(read, n) \in Seq(Nat) /\ InOrder(Append(read, n), <<>>)
         /\ Len(Append(read, n)) = Len(read) + 1
<1>1. \A i \in 1..Len(read) + 1 : Append(read, n)[i] = IF i = Len(read) + 1 THEN n ELSE read[i]
  OBVIOUS
<1>2. Append(read, n) \in Seq(Nat) /\ Len(Append(read, n)) = Len(read) + 1 /\ Len(<<>>) = 0
  OBVIOUS
<1>3. QED
  BY <1>1, <1>2 DEF InOrder

LEMMA ReadBodyKeeps == ASSUME ExchangeInv, ReadBody PROVE BodyKept'
<1>1. /\ stage \in {"handler", "done"} /\ UNCHANGED <<req, stage, wire, buf>>
      /\ stage = "done" => wire.head = "origin"
  BY DEF ReadBody
<1>2. BodyKept /\ req.size \in Nat /\ Limit \in Nat
  BY RequestOK, MiddlewareAssumption DEF ExchangeInv, WriterInv, TypeInv
<1>3. /\ body \in Bodies /\ conn \in Conn /\ got \in Seq(Nat) /\ body.held \in Seq(Nat)
      /\ conn.read \in Nat /\ ~conn.failed
  BY <1>1, <1>2 DEF BodyKept, Unread, Bodies, Conn
<1>4. PICK read \in Seq(Nat) : read = got
  BY <1>3
<1>5. PICK held \in Seq(Nat) : held = body.held
  BY <1>3
<1>6. InOrder(read, held) /\ Len(read) \in Nat /\ Len(held) \in Nat
  BY <1>2, <1>4, <1>5 DEF BodyKept
<1>60. InOrder(<<>>, buf)'
  BY <1>1, <1>2 DEF BodyKept, InOrder
<1>7. CASE body.held # <<>>
  <2>1. /\ got' = Append(read, Head(held)) /\ body' = [body EXCEPT !.held = Tail(held)] /\ conn' = conn
    BY <1>4, <1>5, <1>7 DEF ReadBody
  <2>2. /\ Append(read, Head(held)) \in Seq(Nat) /\ Tail(held) \in Seq(Nat)
        /\ InOrder(Append(read, Head(held)), Tail(held))
        /\ Len(Append(read, Head(held))) = Len(read) + 1 /\ Len(Tail(held)) = Len(held) - 1
    BY <1>5, <1>6, <1>7, ReadHeld
  <2>3. /\ body' \in Bodies /\ body'.held = Tail(held) /\ body'.live = body.live
        /\ body'.length = body.length
    BY <1>3, <2>1, <2>2 DEF Bodies
  <2>4. InOrder(got, body.held)'
    BY <2>1, <2>2, <2>3 DEF InOrder
  <2>5. Joined'
    <3>1. /\ Len(got') = Len(got) + 1 /\ Len(body'.held) = Len(body.held) - 1
          /\ Len(got) \in Nat /\ Len(body.held) \in Nat
      BY <1>4, <1>5, <1>6, <2>1, <2>2, <2>3
    <3>2. Len(got') + Len(body'.held) = Len(got) + Len(body.held)
      <4>1. PICK a \in Nat : a = Len(got)
        BY <3>1
      <4>2. PICK b \in Nat : b = Len(body.held)
        BY <3>1
      <4>3. PICK c : c = Len(got')
        OBVIOUS
      <4>4. PICK d : d = Len(body'.held)
        OBVIOUS
      <4>5. c = a + 1 /\ d = b - 1
        BY ONLY <3>1, <4>1, <4>2, <4>3, <4>4
      <4>6. c + d = a + b
        BY ONLY <4>5, a \in Nat, b \in Nat
      <4>7. QED
        BY ONLY <4>1, <4>2, <4>3, <4>4, <4>6
    <3>3. Joined /\ stage \notin {"headers", "capture", "reading"}
      BY <1>1, <1>2 DEF BodyKept
    <3>4. QED
      BY <1>1, <2>1, <2>3, <3>2, <3>3 DEF Joined
  <2>6. Unread'
    BY <1>1, <1>2, <1>3, <2>1, <2>3 DEF BodyKept, Unread
  <2>7. QED
    BY <1>1, <1>2, <1>60, <2>1, <2>2, <2>3, <2>4, <2>5, <2>6 DEF BodyKept
<1>8. CASE body.held = <<>>
  <2>1. /\ body.live /\ Arrives /\ got' = Append(got, NextByte)
        /\ conn' = [conn EXCEPT !.read = @ + 1] /\ body' = body
    BY <1>8 DEF ReadBody
  <2>2. PICK n \in Nat : n = NextByte
    BY <1>3 DEF NextByte
  <2>3. held = <<>> /\ Len(held) = 0 /\ conn.read = Len(read)
    <3>1. Joined /\ stage \notin {"headers", "capture", "reading"} /\ ~conn.failed
      BY <1>1, <1>2, <1>3 DEF BodyKept
    <3>2. held = <<>> /\ Len(held) = 0 /\ Len(got) = Len(read)
      BY <1>4, <1>5, <1>8
    <3>3. conn.read = Len(got) + Len(body.held)
      BY <2>1, <3>1 DEF Joined
    <3>4. Len(body.held) = 0 /\ Len(read) \in Nat
      BY <1>5, <1>6, <3>2
    <3>5. conn.read = Len(read)
      BY ONLY <3>2, <3>3, <3>4
    <3>6. QED
      BY <3>2, <3>5
  <2>4. n = Len(read) + 1 /\ InOrder(read, <<>>)
    BY <1>6, <2>2, <2>3 DEF NextByte
  <2>5. /\ Append(read, n) \in Seq(Nat) /\ InOrder(Append(read, n), <<>>)
        /\ Len(Append(read, n)) = Len(read) + 1
    BY <2>4, ReadOn
  <2>6. got' = Append(read, n)
    BY <1>4, <2>1, <2>2
  <2>7. /\ conn' \in Conn /\ conn'.read = conn.read + 1 /\ conn'.closed = conn.closed
        /\ conn'.failed = conn.failed /\ conn'.read <= req.size
    <3>1. PICK c \in Conn : c = conn
      BY <1>3
    <3>2. PICK m \in Nat : m = conn.read + 1
      BY <1>3
    <3>3. conn' = [c EXCEPT !.read = m]
      BY <2>1, <3>1, <3>2
    <3>4. conn' \in Conn /\ conn'.read = m /\ conn'.closed = conn.closed /\ conn'.failed = conn.failed
      BY <3>1, <3>2, <3>3, ReadSet
    <3>5. QED
      BY <1>2, <1>3, <2>1, <3>2, <3>4 DEF Arrives
  <2>8. InOrder(got, body.held)'
    BY <1>8, <2>1, <2>5, <2>6 DEF InOrder
  <2>9. Joined'
    BY <1>1, <1>3, <1>5, <2>1, <2>3, <2>5, <2>6, <2>7 DEF Joined
  <2>10. Unread'
    BY <1>1, <1>2, <1>3, <2>1, <2>7 DEF BodyKept, Unread
  <2>11. QED
    BY <1>1, <1>2, <1>60, <2>1, <2>5, <2>6, <2>7, <2>8, <2>9, <2>10 DEF BodyKept
<1>9. QED
  BY <1>7, <1>8

-----------------------------------------------------------------------------
LEMMA InvKept == ExchangeInv /\ [ExchangeNext]_exchangeVars => ExchangeInv'
<1>1. SUFFICES ASSUME ExchangeInv, [ExchangeNext]_exchangeVars PROVE WriterInv' /\ BodyKept'
  BY DEF ExchangeInv
<1>0. BodyKept
  BY <1>1 DEF ExchangeInv
<1>2. ASSUME NEW v \in Verdicts, Headers(v) \/ Body(v) \/ WriteHeader(v)
      PROVE  WriterInv' /\ BodyKept'
  <2>1. /\ UNCHANGED <<req, conn, buf, body, got>> /\ stage \notin {"reading", "done"}
        /\ stage' = stage \/ (stage = "headers" /\ stage' = "capture") \/ stage' \in {"handler", "done"}
    BY <1>2 DEF Headers, Body, WriteHeader, Reject
  <2>2. QED
    BY <1>0, <1>1, <1>2, <2>1, HeadersOK, BodyOK, WriteHeaderOK, Onward
<1>3. ASSUME Capture \/ ReadAll \/ Captured \/ ReadBody PROVE WriterInv' /\ BodyKept'
  BY <1>1, <1>3, CaptureOK, ReadAllOK, CapturedOK, ReadBodyOK,
     CaptureKeeps, ReadAllKeeps, CapturedKeeps, ReadBodyKeeps
<1>4. ASSUME NEW size \in Sizes, NEW v \in Verdicts, Write(size, v) PROVE WriterInv' /\ BodyKept'
  <2>1. UNCHANGED <<req, conn, buf, body, got, stage>> /\ stage = "handler"
    BY <1>4 DEF Write, Handler
  <2>2. QED
    BY <1>0, <1>1, <1>4, <2>1, WriteOK, Onward
<1>5. ASSUME Flush \/ Hijack PROVE WriterInv' /\ BodyKept'
  <2>1. UNCHANGED <<req, conn, buf, body, got, stage>> /\ stage = "handler"
    BY <1>5 DEF Flush, Hijack
  <2>2. QED
    BY <1>0, <1>1, <1>5, <2>1, FlushOK, HijackOK, Onward
<1>6. ASSUME NEW size \in Sizes, ReadFrom(size) PROVE WriterInv' /\ BodyKept'
  <2>1. UNCHANGED <<req, conn, buf, body, got, stage>> /\ stage = "handler"
    BY <1>6 DEF ReadFrom, Handler
  <2>2. QED
    BY <1>0, <1>1, <1>6, <2>1, ReadFromOK, Onward
<1>7. ASSUME NEW fits \in BOOLEAN, NEW w \in Verdicts, NEW b \in Verdicts, NEW h \in Verdicts,
             Return(fits, w, b, h)
      PROVE  WriterInv' /\ BodyKept'
  <2>1. UNCHANGED <<req, conn, buf, body, got>> /\ stage = "handler" /\ stage' = "done"
    BY <1>7 DEF Return
  <2>2. QED
    BY <1>0, <1>1, <1>7, <2>1, ReturnOK, Onward
<1>8. ASSUME UNCHANGED exchangeVars PROVE WriterInv' /\ BodyKept'
  <2>1. UNCHANGED <<opts, req, stage, conn, buf, body, got, tx, rw, wire, sent, streamed, reports>>
    BY <1>8 DEF exchangeVars
  <2>2. State' = State /\ Told(tx.decided)' = Told(tx.decided)
    BY <2>1 DEF State, Told
  <2>3. WriterInv'
    BY <1>1, <2>1, <2>2
    DEF ExchangeInv, WriterInv, TypeInv, Untouched, Shown, Served, Writing, ResponseInOrder, OutcomeReported
  <2>4. QED
    BY <1>0, <2>1, <2>3 DEF BodyKept, InOrder, Joined, Unread
<1>9. QED
  BY <1>1, <1>2, <1>3, <1>4, <1>5, <1>6, <1>7, <1>8 DEF ExchangeNext

\* The invariant holds in every state of every exchange.
THEOREM ExchangeKept == ExchangeSpec => []ExchangeInv
BY InvKept, InitOK, PTL DEF ExchangeSpec

\* captureBody: however the body is split into reads, and wherever it ends or breaks off,
\* the handler reads the bytes that arrived in order and to the last, under their length,
\* and no more than a byte over the limit is held.
THEOREM BodyIntactHolds == ExchangeSpec => []BodyIntact
<1>1. ExchangeInv => BodyIntact
  <2> SUFFICES ASSUME ExchangeInv PROVE BodyIntact
    OBVIOUS
  <2>1. BodyKept /\ req.size \in Nat
    BY RequestOK DEF ExchangeInv, WriterInv, TypeInv
  <2>2. /\ conn \in Conn /\ body \in Bodies /\ got \in Seq(Nat) /\ Len(got) \in Nat
        /\ conn.read \in Nat /\ conn.read <= req.size
    BY <2>1 DEF BodyKept, Conn
  <2>3. \A i \in DOMAIN got : got[i] = i
    BY <2>1, <2>2 DEF BodyKept, InOrder
  <2>4. ASSUME Served, ~Left PROVE Len(got) = req.size
    <3>1. body.held = <<>> /\ Len(body.held) = 0 /\ (~body.live \/ ~Arrives)
      BY <2>4 DEF Left
    <3>0. Joined /\ stage \notin {"headers", "capture", "reading"} /\ ~conn.failed
      BY <2>1, <2>4 DEF BodyKept, Unread, Served
    <3>2. CASE ~body.live
      BY <2>1, <2>2, <3>0, <3>1, <3>2 DEF Joined
    <3>3. CASE body.live
      <4>1. ~conn.failed
        BY <2>1, <2>4 DEF BodyKept, Unread, Served
      <4>2. ~conn.closed
        BY <2>1, <3>3, <4>1 DEF BodyKept, Unread
      <4>3. conn.read = req.size
        BY <2>1, <2>2, <3>1, <3>3, <4>2 DEF Arrives
      <4>4. QED
        BY <2>2, <3>0, <3>1, <3>3, <4>3 DEF Joined
    <3>4. QED
      BY <3>2, <3>3
  <2>5. QED
    BY <2>1, <2>3, <2>4 DEF BodyIntact, BodyKept
<1>2. QED
  BY <1>1, ExchangeKept, PTL

\* serve: the handler runs on a body that the transaction was given whole, or was
\* shown to be over the limit where the deployment fails open.
THEOREM NothingUnseenHolds == ExchangeSpec => []NothingUnseen
<1>1. ExchangeInv => NothingUnseen
  BY DEF ExchangeInv, WriterInv, Shown, NothingUnseen
<1>2. QED
  BY <1>1, ExchangeKept, PTL

\* responseWriter: for every buffer size and every order of the handler's calls, the
\* client has what was written, complete and in order, when nothing was refused.
THEOREM ResponseInOrderHolds == ExchangeSpec => []ResponseInOrder
<1>1. ExchangeInv => ResponseInOrder
  BY DEF ExchangeInv, WriterInv
<1>2. QED
  BY <1>1, ExchangeKept, PTL

\* serve and finish: the last report says whether the client has the block page; of a
\* body that could not be read it says what had been decided before, and the client has
\* the block page all the same.
THEOREM OutcomeReportedHolds == ExchangeSpec => []OutcomeReported
<1>1. ExchangeInv => OutcomeReported
  BY DEF ExchangeInv, WriterInv
<1>2. QED
  BY <1>1, ExchangeKept, PTL

-----------------------------------------------------------------------------
(* How much was written *)

\* What SizeOf adds up, as far as n.
Sums(u, chunks, n) == u = [m \in 0..n |-> IF m = 0 THEN 0 ELSE u[m - 1] + chunks[m].size]

LEMMA SumsExist ==
  ASSUME NEW chunks, NEW L \in Nat
  PROVE  \E u : Sums(u, chunks, L)
<1> DEFINE K == {n \in Nat : \E u : Sums(u, chunks, n)}
<1>1. 0 \in K
  <2> DEFINE u == [m \in 0..0 |-> 0]
  <2>1. Sums(u, chunks, 0)
    BY DEF Sums
  <2> HIDE DEF u
  <2>2. QED
    BY <2>1
<1>2. ASSUME NEW n \in Nat, n \in K PROVE n + 1 \in K
  <2>1. PICK u : Sums(u, chunks, n)
    BY <1>2
  <2> DEFINE w == [m \in 0..(n + 1) |-> IF m = 0 THEN 0 ELSE u[m - 1] + chunks[m].size]
  <2>2. \A m \in 0..n : w[m] = u[m]
    <3> TAKE m \in 0..n
    <3>1. w[m] = IF m = 0 THEN 0 ELSE u[m - 1] + chunks[m].size
      OBVIOUS
    <3>2. u[m] = IF m = 0 THEN 0 ELSE u[m - 1] + chunks[m].size
      BY <2>1 DEF Sums
    <3>3. QED
      BY <3>1, <3>2
  <2>3. \A m \in 0..(n + 1) : (IF m = 0 THEN 0 ELSE u[m - 1] + chunks[m].size)
                              = (IF m = 0 THEN 0 ELSE w[m - 1] + chunks[m].size)
    <3> TAKE m \in 0..(n + 1)
    <3>1. m # 0 => m - 1 \in 0..n
      OBVIOUS
    <3> HIDE DEF w
    <3>2. m # 0 => u[m - 1] = w[m - 1]
      BY <2>2, <3>1
    <3>3. QED
      BY <3>2
  <2>4. Sums(w, chunks, n + 1)
    BY <2>3 DEF Sums
  <2> HIDE DEF w
  <2>5. QED
    BY <2>4
<1> HIDE DEF K
<1>3. L \in K
  BY <1>1, <1>2, Upwards
<1>4. QED
  BY <1>3 DEF K

\* The sums of chunks, by SizeOf's own definition.
LEMMA SizeSums ==
  ASSUME NEW chunks \in Seq(Chunks)
  PROVE  \E u : /\ Sums(u, chunks, Len(chunks)) /\ SizeOf(chunks) = u[Len(chunks)]
<1> DEFINE L == Len(chunks)
           u == CHOOSE f : f = [m \in 0..L |-> IF m = 0 THEN 0 ELSE f[m - 1] + chunks[m].size]
<1>1. L \in Nat
  OBVIOUS
<1>2. SizeOf(chunks) = u[L]
  BY DEF SizeOf
<1> HIDE DEF L
<1>3. \E f : f = [m \in 0..L |-> IF m = 0 THEN 0 ELSE f[m - 1] + chunks[m].size]
  BY <1>1, SumsExist DEF Sums
<1>4. u = [m \in 0..L |-> IF m = 0 THEN 0 ELSE u[m - 1] + chunks[m].size]
  BY <1>3
<1> HIDE DEF u
<1>5. Sums(u, chunks, L)
  BY <1>4 DEF Sums
<1>6. QED
  BY <1>2, <1>5 DEF L

\* Sums that agree on what they add agree.
LEMMA SumsAgree ==
  ASSUME NEW a, NEW b, NEW n \in Nat, NEW k \in Nat, n <= k,
         NEW u, Sums(u, a, n), NEW w, Sums(w, b, k),
         \A m \in 1..n : a[m] = b[m] /\ a[m].size \in Nat
  PROVE  u[n] = w[n] /\ u[n] \in Nat
<1>1. \A m \in 0..n : u[m] = IF m = 0 THEN 0 ELSE u[m - 1] + a[m].size
  BY DEF Sums
<1>2. \A m \in 0..k : w[m] = IF m = 0 THEN 0 ELSE w[m - 1] + b[m].size
  BY DEF Sums
<1> DEFINE K == {m \in Nat : m <= n => u[m] = w[m] /\ u[m] \in Nat}
<1>3. 0 \in K
  BY <1>1, <1>2
<1>4. ASSUME NEW m \in Nat, m \in K PROVE m + 1 \in K
  <2>1. SUFFICES ASSUME m + 1 <= n PROVE u[m + 1] = w[m + 1] /\ u[m + 1] \in Nat
    OBVIOUS
  <2>2. /\ m + 1 \in 0..n /\ m + 1 \in 0..k /\ m + 1 \in 1..n /\ (m + 1) - 1 = m /\ m + 1 # 0
        /\ u[m] = w[m] /\ u[m] \in Nat
    BY <1>4, <2>1
  <2>3. u[m + 1] = u[m] + a[m + 1].size
    BY <1>1, <2>2
  <2>4. w[m + 1] = w[m] + b[m + 1].size
    BY <1>2, <2>2
  <2>5. a[m + 1].size \in Nat /\ a[m + 1].size = b[m + 1].size
    BY <2>2
  <2>6. QED
    BY <2>2, <2>3, <2>4, <2>5
<1> HIDE DEF K
<1>5. n \in K
  BY <1>3, <1>4, Upwards
<1>6. QED
  BY <1>5 DEF K

\* bytes.Buffer.Len, after one more Write.
LEMMA SizeOfAppend ==
  ASSUME NEW chunks \in Seq(Chunks), NEW chunk \in Chunks
  PROVE  /\ SizeOf(chunks) \in Nat
         /\ SizeOf(Append(chunks, chunk)) = SizeOf(chunks) + chunk.size
<1> DEFINE more == Append(chunks, chunk)
           L == Len(chunks)
<1>1. /\ L \in Nat /\ more \in Seq(Chunks) /\ Len(more) = L + 1 /\ more[L + 1] = chunk
      /\ \A m \in 1..L : more[m] = chunks[m] /\ chunks[m] \in Chunks
  OBVIOUS
<1>2. \A c \in Chunks : c.size \in Nat
  BY DEF Chunks
<1>3. PICK u : Sums(u, chunks, L) /\ SizeOf(chunks) = u[L]
  BY SizeSums
<1>4. PICK w : Sums(w, more, Len(more)) /\ SizeOf(more) = w[Len(more)]
  BY <1>1, SizeSums
<1> HIDE DEF more, L
<1>5. u[L] = w[L] /\ u[L] \in Nat
  <2>1. Sums(w, more, L + 1) /\ L <= L + 1 /\ L + 1 \in Nat
    BY <1>1, <1>4
  <2>2. \A m \in 1..L : chunks[m] = more[m] /\ chunks[m].size \in Nat
    BY <1>1, <1>2
  <2>3. QED
    BY SMTT(30), <1>1, <1>3, <2>1, <2>2, SumsAgree
<1>6. w[L + 1] = w[L] + more[L + 1].size
  <2>1. L + 1 \in 0..(L + 1) /\ (L + 1) - 1 = L /\ L + 1 # 0
    BY <1>1
  <2>2. w = [m \in 0..(L + 1) |-> IF m = 0 THEN 0 ELSE w[m - 1] + more[m].size]
    BY <1>1, <1>4 DEF Sums
  <2>3. QED
    BY <2>1, <2>2
<1>7. QED
  BY <1>1, <1>3, <1>4, <1>5, <1>6 DEF more

-----------------------------------------------------------------------------
(* What leaves before it was inspected *)

\* What the writer keeps while the handler does not ask to stream, of a record of its
\* state and what the handler wrote: the body was not inspected yet, the header was if
\* there is one, and nothing left the buffer before it held all it may.
Owed(s, written) ==
  /\ s.tx.bodyRead = <<>>
  /\ s.rw.wroteHeader => s.tx.headersRead
  /\ ~s.rw.passthrough /\ ~s.rw.blocked => s.wire.bytes = <<>>
  /\ s.rw.passthrough => SizeOf(written) > RespLimit

BeforeHandler == stage \in {"headers", "capture", "reading", "body"} => tx.bodyRead = <<>>

During == stage = "handler" /\ ~streamed => Owed(State, sent)

Inspecting == BeforeHandler /\ During /\ InspectedFirst

\* block leaves what was read, and whether a header was written.
LEMMA StoppedKeeps ==
  ASSUME NEW s \in States
  PROVE  /\ Stopped(s).tx = s.tx /\ Stopped(s).rw.blocked
         /\ Stopped(s).rw.wroteHeader = s.rw.wroteHeader
         /\ Stopped(s).rw.passthrough = s.rw.passthrough
<1> DEFINE w == Emit(s.wire, "block", <<BlockPage>>)
           p == Append(s.reports, "block")
           e == <<>>
           x == [s EXCEPT !.rw.blocked = TRUE, !.rw.buf = e, !.reports = p, !.wire = w]
<1>1. Stopped(s) = x
  BY DEF Stopped
<1> HIDE DEF w, p, e
<1>2. /\ x.tx = s.tx /\ x.rw.blocked
      /\ x.rw.wroteHeader = s.rw.wroteHeader /\ x.rw.passthrough = s.rw.passthrough
  BY DEF States, Rw
<1> HIDE DEF x
<1>3. QED
  BY <1>1, <1>2

\* WriteHeader: a header that counts as written was inspected.
LEMMA HeaderDoneReads ==
  ASSUME NEW s \in States, NEW v \in Verdicts, s.rw.wroteHeader => s.tx.headersRead
  PROVE  LET h == HeaderDone(s, v)
         IN  /\ h.tx.bodyRead = s.tx.bodyRead
             /\ h.rw.wroteHeader => h.tx.headersRead
             /\ h.rw.passthrough = s.rw.passthrough
             /\ ~h.rw.blocked => ~s.rw.blocked /\ h.wire.bytes = s.wire.bytes /\ h.rw.buf = s.rw.buf
<1> DEFINE h == [s EXCEPT !.rw.wroteHeader = TRUE, !.tx.headersRead = TRUE, !.tx.decided = v]
<1>1. /\ h \in States /\ h.wire = s.wire /\ h.tx.bodyRead = s.tx.bodyRead /\ h.tx.headersRead
      /\ h.rw.wroteHeader /\ h.rw.buf = s.rw.buf
      /\ h.rw.blocked = s.rw.blocked /\ h.rw.passthrough = s.rw.passthrough
  BY HeaderSet
<1>2. HeaderDone(s, v) = IF s.rw.wroteHeader \/ s.rw.blocked THEN s
                         ELSE IF v = "block" THEN Stopped(h)
                         ELSE IF h.rw.passthrough THEN [h EXCEPT !.wire = Headed(h.wire, "origin")] ELSE h
  BY DEF HeaderDone, Blocked
<1> HIDE DEF h
<1>3. CASE s.rw.wroteHeader \/ s.rw.blocked
  BY <1>2, <1>3
<1>4. CASE ~(s.rw.wroteHeader \/ s.rw.blocked) /\ v = "block"
  BY <1>1, <1>2, <1>4, StoppedKeeps
<1>5. CASE ~(s.rw.wroteHeader \/ s.rw.blocked) /\ v # "block" /\ ~h.rw.passthrough
  BY <1>1, <1>2, <1>5
<1>6. CASE ~(s.rw.wroteHeader \/ s.rw.blocked) /\ v # "block" /\ h.rw.passthrough
  <2> DEFINE w == Headed(h.wire, "origin")
             g == [h EXCEPT !.wire = w]
  <2>1. w \in Wire /\ w.bytes = s.wire.bytes
    BY <1>1, PartsTyped, HeadedOK
  <2> HIDE DEF w
  <2>2. g.tx = h.tx /\ g.rw = h.rw /\ g.wire = w
    BY <1>1, <2>1, WireSet
  <2>3. HeaderDone(s, v) = g
    BY <1>2, <1>6 DEF w
  <2> HIDE DEF g
  <2>4. QED
    BY <1>1, <1>6, <2>1, <2>2, <2>3
<1>7. QED
  BY <1>3, <1>4, <1>5, <1>6

\* startPassthrough leaves what was read, and whether a header was written.
LEMMA PassedKeeps ==
  ASSUME NEW s \in States
  PROVE  Passed(s).tx = s.tx /\ Passed(s).rw.wroteHeader = s.rw.wroteHeader
<1> DEFINE onWire == IF s.rw.wroteHeader THEN Headed(s.wire, "origin") ELSE s.wire
           w == IF s.rw.buf = <<>> THEN onWire ELSE Emit(onWire, "origin", s.rw.buf)
           e == <<>>
           x == [s EXCEPT !.rw.passthrough = TRUE, !.rw.buf = e, !.wire = w]
<1>1. Passed(s) = IF s.rw.passthrough \/ s.rw.blocked THEN s ELSE x
  BY DEF Passed
<1> HIDE DEF w, e
<1>2. x.tx = s.tx /\ x.rw.wroteHeader = s.rw.wroteHeader
  BY DEF States, Rw
<1> HIDE DEF x
<1>3. QED
  BY <1>1, <1>2

\* As long as the writer buffers, the buffer is what the handler wrote.
LEMMA BufferIsAll ==
  ASSUME NEW s \in States, NEW written \in Seq(Chunks), Sound(s, written, FALSE),
         ~s.rw.passthrough, ~s.rw.blocked, s.wire.bytes = <<>>
  PROVE  s.rw.buf = written
<1>1. s.wire.bytes \o s.rw.buf = written /\ s.rw.buf \in Seq(Chunks)
  BY PartsTyped DEF Sound
<1>2. <<>> \o s.rw.buf = s.rw.buf
  BY <1>1, ConcatEmptySeq
<1>3. QED
  BY <1>1, <1>2

LEMMA HeaderDoneOwed ==
  ASSUME NEW s \in States, NEW written \in Seq(Chunks), NEW v \in Verdicts, Owed(s, written)
  PROVE  Owed(HeaderDone(s, v), written)
BY HeaderDoneReads DEF Owed

\* Write.
LEMMA WrittenOwed ==
  ASSUME NEW s \in States, NEW written \in Seq(Chunks), NEW chunk \in Chunks, NEW v \in Verdicts,
         Sound(s, written, FALSE), Owed(s, written)
  PROVE  Owed(Written(s, chunk, v), Append(written, chunk))
<1> DEFINE h == HeaderDone(s, v)
           more == Append(written, chunk)
           longer == Append(h.rw.buf, chunk)
           b == [h EXCEPT !.rw.buf = longer]
<1>0. SUFFICES Owed(Written(s, chunk, v), more)
  OBVIOUS
<1>1. h \in States /\ Sound(h, written, FALSE) /\ (h.rw.wroteHeader \/ h.rw.blocked)
  BY HeaderDoneOK
<1>2. Owed(h, written)
  BY HeaderDoneOwed
<1>3. Written(s, chunk, v) = IF h.rw.blocked THEN h
                             ELSE IF h.rw.passthrough THEN ToClient(h, chunk)
                             ELSE IF SizeOf(h.rw.buf) + chunk.size > RespLimit THEN ToClient(Passed(h), chunk)
                             ELSE b
  BY DEF Written
<1>4. SizeOf(written) \in Nat /\ SizeOf(more) = SizeOf(written) + chunk.size
  BY SizeOfAppend
<1>5. chunk.size \in Nat /\ RespLimit \in Nat
  BY MiddlewareAssumption DEF Chunks
<1> HIDE DEF h, more
<1>6. SizeOf(written) > RespLimit => SizeOf(more) > RespLimit
  BY <1>4, <1>5
<1>7. ASSUME NEW t \in States PROVE ToClient(t, chunk).tx = t.tx /\ ToClient(t, chunk).rw = t.rw
  <2> DEFINE w == Emit(t.wire, "origin", <<chunk>>)
  <2>1. <<chunk>> \in Seq(Chunks)
    OBVIOUS
  <2>2. w \in Wire
    BY <2>1, PartsTyped, EmitOK
  <2>3. ToClient(t, chunk) = [t EXCEPT !.wire = w]
    BY DEF ToClient
  <2> HIDE DEF w
  <2>4. QED
    BY <2>2, <2>3, WireSet
<1>8. CASE h.rw.blocked
  BY <1>2, <1>3, <1>6, <1>8 DEF Owed
<1>9. CASE ~h.rw.blocked /\ h.rw.passthrough
  <2>1. Written(s, chunk, v) = ToClient(h, chunk)
    BY <1>3, <1>9
  <2>2. ToClient(h, chunk).tx = h.tx /\ ToClient(h, chunk).rw = h.rw
    BY <1>1, <1>7
  <2>3. QED
    BY <1>2, <1>6, <1>9, <2>1, <2>2 DEF Owed
<1>10. CASE ~h.rw.blocked /\ ~h.rw.passthrough /\ SizeOf(h.rw.buf) + chunk.size > RespLimit
  <2>1. Written(s, chunk, v) = ToClient(Passed(h), chunk)
    BY <1>3, <1>10
  <2>2. Passed(h) \in States /\ Passed(h).rw.passthrough
    BY <1>1, <1>10, PassedOK
  <2>3. Passed(h).tx = h.tx /\ Passed(h).rw.wroteHeader = h.rw.wroteHeader
    BY <1>1, PassedKeeps
  <2>4. ToClient(Passed(h), chunk).tx = h.tx /\ ToClient(Passed(h), chunk).rw = Passed(h).rw
    BY <1>7, <2>2, <2>3
  <2>5. h.rw.buf = written
    BY <1>1, <1>2, <1>10, BufferIsAll DEF Owed
  <2>6. SizeOf(more) > RespLimit
    BY <1>4, <1>10, <2>5
  <2>7. QED
    BY <1>2, <2>1, <2>2, <2>3, <2>4, <2>6 DEF Owed
<1>11. CASE ~h.rw.blocked /\ ~h.rw.passthrough /\ ~(SizeOf(h.rw.buf) + chunk.size > RespLimit)
  <2>1. Written(s, chunk, v) = b
    BY <1>3, <1>11
  <2>2. longer \in Seq(Chunks)
    BY <1>1, PartsTyped, AppendBehind
  <2> HIDE DEF longer
  <2>3. /\ b.tx = h.tx /\ b.wire = h.wire
        /\ b.rw.wroteHeader = h.rw.wroteHeader /\ b.rw.blocked = h.rw.blocked
        /\ b.rw.passthrough = h.rw.passthrough
    BY <1>1, <2>2, BufSet
  <2> HIDE DEF b
  <2>4. QED
    BY <1>2, <1>11, <2>1, <2>3 DEF Owed
<1>12. QED
  BY <1>8, <1>9, <1>10, <1>11

\* What went out was inspected, unless it is more than the option buffers.
Released(f, written) ==
  f.wire.head = "origin" =>
    f.tx.headersRead /\ (f.tx.bodyRead = written \/ SizeOf(written) > RespLimit)

\* finish: what goes out was inspected, unless it is more than the option buffers.
LEMMA FinishedInspected ==
  ASSUME NEW s \in States, NEW written \in Seq(Chunks),
         NEW w \in Verdicts, NEW b \in Verdicts, NEW v \in Verdicts,
         Sound(s, written, FALSE), Owed(s, written)
  PROVE  Released(Finished(s, w, b, v), written)
<1> DEFINE f == Finished(s, w, b, v)
           given == [s EXCEPT !.tx.decided = w]
           read  == [given EXCEPT !.tx.decided = b, !.tx.bodyRead = s.rw.buf]
           held  == ~s.rw.passthrough /\ s.rw.buf # <<>>
           last  == IF held THEN read ELSE s
           head  == HeaderDone(last, v)
<1>0. SUFFICES ASSUME f.wire.head = "origin"
               PROVE  f.tx.headersRead /\ (f.tx.bodyRead = written \/ SizeOf(written) > RespLimit)
  BY DEF Released
<1>1. ~f.rw.blocked
  <2>1. Sound(f, written, FALSE)
    BY FinishedOK
  <2>2. QED
    BY <1>0, <2>1 DEF Sound
<1>2. f = IF s.rw.blocked THEN s
          ELSE IF held /\ w = "block" THEN Stopped(given)
          ELSE IF held /\ b = "block" THEN Stopped(read)
          ELSE Passed(head)
  BY DEF Finished, Blocked
<1>3. given \in States /\ given.wire = s.wire /\ given.rw = s.rw
  BY DecidedSet
<1>4. /\ read \in States /\ read.wire = s.wire /\ read.rw = s.rw
      /\ read.tx.bodyRead = s.rw.buf /\ read.tx.headersRead = s.tx.headersRead /\ read.tx.decided = b
  <2> DEFINE chunks == s.rw.buf
             x == [given EXCEPT !.tx.decided = b, !.tx.bodyRead = chunks]
  <2>1. chunks \in Seq(Chunks)
    BY PartsTyped
  <2> HIDE DEF chunks
  <2>2. /\ x \in States /\ x.wire = s.wire /\ x.rw = s.rw
        /\ x.tx.bodyRead = chunks /\ x.tx.headersRead = s.tx.headersRead /\ x.tx.decided = b
    BY <2>1 DEF States, Tx
  <2>3. x = read
    BY DEF chunks
  <2>4. QED
    BY <2>2, <2>3 DEF chunks
<1> HIDE DEF f, given, read
<1>5. ~s.rw.blocked /\ f = Passed(head) /\ ~(held /\ b = "block")
  <2>1. ~s.rw.blocked
    BY <1>1, <1>2
  <2>2. Stopped(given).rw.blocked /\ Stopped(read).rw.blocked
    BY <1>3, <1>4, StoppedKeeps
  <2>3. ~(held /\ w = "block") /\ ~(held /\ b = "block")
    BY <1>1, <1>2, <2>1, <2>2
  <2>4. QED
    BY <1>2, <2>1, <2>3
<1>6. /\ last \in States /\ last.rw = s.rw /\ last.tx.headersRead = s.tx.headersRead
      /\ last.wire = s.wire
  BY <1>4
<1>7. Sound(last, written, FALSE)
  <2>1. CASE held
    <3>1. last = read /\ b # "block"
      BY <1>5, <2>1
    <3>2. QED
      BY <1>4, <1>5, <3>1 DEF Sound
  <2>2. CASE ~held
    BY <2>2
  <2>3. QED
    BY <2>1, <2>2
<1>8. last.tx.bodyRead = written \/ SizeOf(written) > RespLimit
  <2>1. CASE s.rw.passthrough
    BY <2>1 DEF Owed
  <2>2. CASE ~s.rw.passthrough
    <3>1. s.rw.buf = written
      BY <1>5, <2>2, BufferIsAll DEF Owed
    <3>2. CASE s.rw.buf # <<>>
      BY <1>4, <2>2, <3>1, <3>2
    <3>3. CASE s.rw.buf = <<>>
      BY <3>1, <3>3 DEF Owed
    <3>4. QED
      BY <3>2, <3>3
  <2>3. QED
    BY <2>1, <2>2
<1> HIDE DEF last, held
<1>9. /\ head \in States /\ Sound(head, written, FALSE) /\ (head.rw.wroteHeader \/ head.rw.blocked)
  BY <1>6, <1>7, HeaderDoneOK
<1>10. head.tx.bodyRead = last.tx.bodyRead /\ (head.rw.wroteHeader => head.tx.headersRead)
  <2>1. last.rw.wroteHeader => last.tx.headersRead
    BY <1>6 DEF Owed
  <2>2. QED
    BY <1>6, <2>1, HeaderDoneReads
<1> HIDE DEF head
<1>11. Passed(head).tx = head.tx /\ Passed(head).rw.blocked = head.rw.blocked
  BY <1>9, PassedOK
<1>12. f.tx.headersRead /\ (f.tx.bodyRead = written \/ SizeOf(written) > RespLimit)
  BY <1>1, <1>5, <1>8, <1>9, <1>10, <1>11
<1>13. QED
  BY <1>12

\* In the handler, what went out was inspected.
LEMMA DuringInspected ==
  ASSUME ExchangeInv, stage = "handler", During
  PROVE  InspectedFirst
<1>1. SUFFICES ASSUME ~streamed, wire.head = "origin"
               PROVE  tx.headersRead /\ SizeOf(sent) > RespLimit
  BY DEF InspectedFirst
<1>2. Sound(State, sent, FALSE) /\ Owed(State, sent)
  BY <1>1, InHandler DEF During
<1>3. State.tx = tx /\ State.rw = rw /\ State.wire = wire
  BY StateIs
<1>4. rw.passthrough /\ rw.wroteHeader
  BY <1>1, <1>2, <1>3 DEF Sound
<1>5. QED
  BY <1>2, <1>3, <1>4 DEF Owed

\* Without response inspection nothing is said; with it, nothing is out before the
\* handler runs, and a rejected client has the block page.
LEMMA InspectingKept == ExchangeInv /\ Inspecting /\ [ExchangeNext]_exchangeVars => Inspecting'
<1> SUFFICES ASSUME ExchangeInv, Inspecting, [ExchangeNext]_exchangeVars PROVE Inspecting'
  OBVIOUS
<1>0. ExchangeInv'
  <2>1. ExchangeInv /\ [ExchangeNext]_exchangeVars => ExchangeInv'
    BY InvKept
  <2>2. QED
    BY <2>1
<1>1. /\ tx \in Tx /\ rw \in Rw /\ wire \in Wire /\ reports \in Seq({"allow", "block"})
  BY StateOK DEF ExchangeInv, WriterInv, TypeInv
<1>2. ASSUME stage' \in {"headers", "capture", "reading", "body"}, wire' = NoWire, tx'.bodyRead = <<>>
      PROVE  Inspecting'
  BY <1>2 DEF Inspecting, BeforeHandler, During, InspectedFirst, NoWire
<1>3. ASSUME stage' = "done", wire'.head = "block" PROVE Inspecting'
  BY <1>3 DEF Inspecting, BeforeHandler, During, InspectedFirst
<1>4. ASSUME stage' = "handler", streamed' \/ Owed(State', sent') PROVE Inspecting'
  <2>1. During'
    BY <1>4 DEF During
  <2>2. InspectedFirst'
    <3>1. (ExchangeInv /\ stage = "handler" /\ During => InspectedFirst)'
      BY DuringInspected, PTL
    <3>2. QED
      BY <1>0, <1>4, <2>1, <3>1
  <2>3. QED
    BY <1>4, <2>1, <2>2 DEF Inspecting, BeforeHandler
<1>5. ASSUME NEW v \in Verdicts, Headers(v) PROVE Inspecting'
  <2>1. stage = "headers" /\ wire = NoWire /\ tx.bodyRead = <<>> /\ tx' = [tx EXCEPT !.decided = v]
    BY <1>5 DEF Inspecting, BeforeHandler, ExchangeInv, WriterInv, Untouched, Headers
  <2>2. tx'.bodyRead = <<>>
    BY <1>1, <2>1 DEF Tx
  <2>3. CASE v = "block"
    <3>1. wire'.head = "block" /\ stage' = "done"
      BY <1>5, <2>1, <2>3, RejectOK DEF Headers, Blocked
    <3>2. QED
      BY <1>3, <3>1
  <2>4. CASE v # "block"
    BY <1>2, <1>5, <2>1, <2>2, <2>4 DEF Headers, Blocked
  <2>5. QED
    BY <2>3, <2>4
<1>60. CASE Capture \/ ReadAll
  <2>1. /\ stage \in {"capture", "reading"} /\ stage' \in {"reading", "body"}
        /\ UNCHANGED <<tx, wire>>
    BY <1>60 DEF Capture, ReadAll
  <2>2. wire = NoWire /\ tx.bodyRead = <<>>
    BY <2>1 DEF Inspecting, BeforeHandler, ExchangeInv, WriterInv, Untouched
  <2>3. QED
    BY <1>2, <2>1, <2>2
<1>61. CASE Captured
  <2>1. stage = "reading" /\ wire = NoWire /\ tx.bodyRead = <<>>
    BY <1>61 DEF Inspecting, BeforeHandler, ExchangeInv, WriterInv, Untouched, Captured
  <2>2. CASE Room /\ req.fails
    <3>1. Reject(Told(tx.decided)) /\ Told(tx.decided) \in {"allow", "block"}
      BY <1>61, <2>2 DEF Captured, Told
    <3>2. wire'.head = "block" /\ stage' = "done"
      BY <2>1, <3>1, RejectOK
    <3>3. QED
      BY <1>3, <3>2
  <2>3. CASE ~(Room /\ req.fails)
    <3>1. tx' = [tx EXCEPT !.fed = Len(buf)] /\ stage' = "body" /\ wire' = wire
      BY <1>61, <2>3 DEF Captured
    <3>2. tx'.bodyRead = <<>>
      BY <1>1, <2>1, <3>1 DEF Tx
    <3>3. QED
      BY <1>2, <2>1, <3>1, <3>2
  <2>4. QED
    BY <2>2, <2>3
<1>62. CASE ReadBody
  <2>1. UNCHANGED <<opts, stage, tx, rw, wire, sent, streamed, reports>>
    BY <1>62 DEF ReadBody
  <2>2. State' = State
    BY <2>1 DEF State
  <2>3. QED
    BY <2>1, <2>2 DEF Inspecting, BeforeHandler, During, InspectedFirst, Owed
<1>7. ASSUME NEW v \in Verdicts, Body(v) PROVE Inspecting'
  <2>1. /\ stage = "body" /\ wire = NoWire /\ tx.bodyRead = <<>> /\ tx' = [tx EXCEPT !.decided = v]
        /\ ~rw.passthrough /\ ~rw.wroteHeader /\ UNCHANGED <<opts, rw>>
    BY <1>7 DEF Inspecting, BeforeHandler, ExchangeInv, WriterInv, Untouched, Body
  <2>2. tx'.bodyRead = <<>>
    BY <1>1, <2>1 DEF Tx
  <2>3. CASE v = "block"
    <3>1. wire'.head = "block" /\ stage' = "done"
      BY <1>7, <2>1, <2>3, RejectOK DEF Body, Blocked
    <3>2. QED
      BY <1>3, <3>1
  <2>4. CASE v # "block" /\ opts.inspect
    <3>1. stage' = "handler" /\ wire' = wire
      BY <1>7, <2>4 DEF Body, Blocked
    <3>2. State'.tx = tx' /\ State'.rw = rw /\ State'.wire = wire /\ wire.bytes = <<>>
      BY <2>1, <3>1 DEF State, NoWire
    <3>3. Owed(State', sent')
      BY <2>1, <2>2, <3>2 DEF Owed
    <3>4. QED
      BY <1>4, <3>1, <3>3
  <2>5. CASE v # "block" /\ ~opts.inspect
    BY <1>7, <2>1, <2>5 DEF Body, Blocked, Inspecting, BeforeHandler, During, InspectedFirst
  <2>6. QED
    BY <2>3, <2>4, <2>5
<1>8. ASSUME NEW v \in Verdicts, WriteHeader(v) PROVE Inspecting'
  <2>1. /\ stage = "handler" /\ stage' = "handler" /\ Become(HeaderDone(State, v)) /\ UNCHANGED <<sent, streamed>>
    BY <1>8 DEF WriteHeader
  <2>2. State \in States /\ sent \in Seq(Chunks) /\ Sound(State, sent, streamed) /\ streamed \in BOOLEAN
    BY <2>1, InHandler
  <2>3. State' = HeaderDone(State, v)
    BY <2>1, <2>2, HeaderDoneOK, BecomeIs
  <2>4. ~streamed => Owed(State, sent)
    BY <2>1 DEF Inspecting, During
  <2>5. ~streamed => Owed(State', sent)
    BY <2>2, <2>3, <2>4, HeaderDoneOwed
  <2>6. streamed' \/ Owed(State', sent')
    BY <2>1, <2>5
  <2>7. QED
    BY <1>4, <2>1, <2>6
<1>9. ASSUME NEW size \in Sizes, NEW v \in Verdicts, Write(size, v) PROVE Inspecting'
  <2> DEFINE chunk == [id |-> Len(sent) + 1, size |-> size]
  <2>1. /\ stage = "handler" /\ stage' = "handler" /\ Become(Written(State, chunk, v))
        /\ sent' = Append(sent, chunk) /\ streamed' = streamed
    BY <1>9 DEF Write, Handler
  <2>2. /\ State \in States /\ sent \in Seq(Chunks) /\ Sound(State, sent, streamed)
        /\ streamed \in BOOLEAN /\ chunk \in Chunks
    BY <2>1, InHandler
  <2> HIDE DEF chunk
  <2>3. State' = Written(State, chunk, v)
    BY <2>1, <2>2, WrittenOK, BecomeIs
  <2>4. ~streamed => Owed(State, sent) /\ Sound(State, sent, FALSE)
    BY <2>1, <2>2 DEF Inspecting, During
  <2>5. ~streamed => Owed(State', sent')
    BY <2>1, <2>2, <2>3, <2>4, WrittenOwed
  <2>6. QED
    BY <1>4, <2>1, <2>5
<1>10. ASSUME streamed', stage' = "handler" PROVE Inspecting'
  BY <1>4, <1>10
<1>11. CASE Flush \/ Hijack
  BY <1>10, <1>11 DEF Flush, Hijack
<1>12. ASSUME NEW size \in Sizes, ReadFrom(size) PROVE Inspecting'
  BY <1>10, <1>12 DEF ReadFrom, Handler
<1>13. ASSUME NEW fits \in BOOLEAN, NEW w \in Verdicts, NEW b \in Verdicts, NEW v \in Verdicts,
              Return(fits, w, b, v)
       PROVE  Inspecting'
  <2> DEFINE s == Finished(State, w, b, v)
             r == Append(s.reports, Told(s.tx.decided))
             g == [s EXCEPT !.reports = r]
  <2>1. /\ stage = "handler" /\ stage' = "done" /\ Become(g) /\ UNCHANGED <<opts, sent, streamed>>
    BY <1>13 DEF Return
  <2>2. /\ State \in States /\ sent \in Seq(Chunks) /\ Sound(State, sent, streamed) /\ streamed \in BOOLEAN
    BY <2>1, InHandler
  <2>3. s \in States
    BY <2>2, FinishedOK
  <2>4. ~streamed => Sound(State, sent, FALSE) /\ Owed(State, sent)
    BY <2>1, <2>2 DEF Inspecting, During
  <2>5. ~streamed => Released(s, sent)
    <3>1. SUFFICES ASSUME ~streamed PROVE Released(s, sent)
      OBVIOUS
    <3>2. Sound(State, sent, FALSE) /\ Owed(State, sent)
      BY <2>4, <3>1
    <3>3. QED
      BY <2>2, <3>2, FinishedInspected
  <2> HIDE DEF s
  <2>6. r \in Seq({"allow", "block"})
    <3>1. Told(s.tx.decided) \in {"allow", "block"}
      BY DEF Told
    <3>2. QED
      BY <2>3, <3>1, PartsTyped, LastReport
  <2> HIDE DEF r
  <2>7. g \in States /\ g.tx = s.tx /\ g.wire = s.wire
    BY <2>3, <2>6 DEF States
  <2> HIDE DEF g
  <2>8. tx' = s.tx /\ wire' = s.wire
    BY <2>1, <2>7 DEF Become
  <2>9. QED
    BY <2>1, <2>5, <2>8 DEF Inspecting, BeforeHandler, During, InspectedFirst, Released
<1>14. CASE UNCHANGED exchangeVars
  <2>1. UNCHANGED <<opts, stage, tx, rw, wire, sent, streamed, reports>>
    BY <1>14 DEF exchangeVars
  <2>2. State' = State
    BY <2>1 DEF State
  <2>3. QED
    BY <2>1, <2>2 DEF Inspecting, BeforeHandler, During, InspectedFirst, Owed
<1>15. QED
  BY <1>5, <1>60, <1>61, <1>62, <1>7, <1>8, <1>9, <1>11, <1>12, <1>13, <1>14 DEF ExchangeNext

\* responseWriter: for every buffer size and every handler that does not ask to stream,
\* no byte goes out before its header was inspected, and before the body was, unless
\* that is more than the option buffers.
THEOREM InspectedFirstHolds == ExchangeSpec => []InspectedFirst
<1>1. ExchangeInit => Inspecting
  BY DEF ExchangeInit, Inspecting, BeforeHandler, During, InspectedFirst
<1>2. Inspecting => InspectedFirst
  BY DEF Inspecting
<1>3. QED
  BY <1>1, <1>2, InspectingKept, ExchangeKept, PTL DEF ExchangeSpec
=============================================================================
