------------------------------- MODULE Engine -------------------------------
(***************************************************************************)
(* The evaluator: internal/engine (Eval, evalRule, stages.apply), the fuel *)
(* meter of internal/budget, the readings of internal/interpret and the    *)
(* chain groups of rules/compile.go.  One evaluator walks values, their    *)
(* readings, and the chain groups, one transform or one rule at a step,    *)
(* and is used again by the next phase and the next transaction with       *)
(* whatever its buffers hold.                                              *)
(*                                                                         *)
(* The bytes of a value are a member of Data.  What a transform, a         *)
(* decoding, an automaton and an operator do to bytes is given by          *)
(* constants.                                                              *)
(***************************************************************************)
EXTENDS Integers, Sequences, FiniteSets, SequencesExt, FiniteSetsExt

CONSTANTS
  Data,          \* contents of a value
  Size,          \* Size[d]: its bytes
  Transforms,    \* transforms, numbered in the order of their names
  Image,         \* Image[t][d]: what transform t makes of d
  Decoded,       \* Decoded[d]: what each ambiguity found in d decodes it to, in order
  MaxReadings,   \* interpret.MaxReadings
  Kinds,         \* target kinds
  Rulesets,      \* sets of chain groups: see Group
  Depth,         \* the longest chain
  Values,        \* what a phase is given: sequences of Value
  Dispatch,      \* budget.CostRuleDispatch; scanning or writing a byte costs one
  Limits,        \* fuel limits; 0 is unmetered
  MaxEvals       \* bound: phases evaluated

Action == {"log", "score", "block"}

\* found: the data in which the automaton finds one of the rule's literals.
Rule == [targets : SUBSET Kinds, matches : SUBSET Data, found : SUBSET Data,
         unconditional : BOOLEAN, cost : Nat, actions : Seq(Action)]

Group == [chain : Seq(Transforms), rules : Seq(Rule)]

Value == [kind : Kinds, data : Data, inert : BOOLEAN]

ASSUME EngineAssumption ==
  /\ Size \in [Data -> Nat] /\ Dispatch \in Nat /\ Limits \subseteq Nat
  /\ Transforms \subseteq Nat /\ Image \in [Transforms -> [Data -> Data]]
  /\ Decoded \in [Data -> Seq(Data)] /\ MaxReadings \in Nat \ {0} /\ Depth \in Nat /\ MaxEvals \in Nat
  /\ Values \subseteq Seq(Value)

\* A literal an operator declares is found wherever it matches (rules/operator.go); a
\* chain is a group's own and no longer than Depth.
ASSUME RulesetAssumption ==
  \A groups \in Rulesets :
    /\ groups \subseteq Group /\ IsFiniteSet(groups)
    /\ \A g \in groups : Len(g.chain) <= Depth
    /\ \A g, h \in groups : g.chain = h.chain => g = h
    /\ \A g \in groups : \A k \in DOMAIN g.rules :
         g.rules[k].unconditional \/ g.rules[k].matches \subseteq g.rules[k].found

VARIABLES
  plan,      \* the phase's groups in the order Compile puts them (rigid)
  values,    \* the values of the phase
  pc,        \* idle, value, build, reading, group, chain, scan, rules
  at,        \* [v, r, g]: value, reading and group
  readings,  \* [list, truncated]: of the current value
  meter,     \* [limit, remaining, exhausted]
  stages,    \* [src, prev, buf, step]: step[n] is the state after n transforms,
             \* [from, changed], from naming the buffer that holds it (0: src)
  chain,     \* [n, from, changed]: transforms done of the current chain, and their result
  todo,      \* rules to evaluate on the chain's result
  result,    \* [hits, score, outcome]: outcome is none, exhausted, undecidable, terminal
  work,      \* metered work of the transaction (history)
  evals      \* phases evaluated so far (bound)

vars ==
  <<plan, values, pc, at, readings, meter, stages, chain, todo, result, work, evals>>

-----------------------------------------------------------------------------
(* Compile *)

\* sortGroupsByChain: chains that share a prefix end up next to one another.
Precedes(a, b) ==
  \E n \in 0..Len(a.chain) :
    /\ n <= Len(b.chain) /\ SubSeq(a.chain, 1, n) = SubSeq(b.chain, 1, n)
    /\ \/ n = Len(a.chain) /\ n < Len(b.chain)
       \/ n < Len(a.chain) /\ n < Len(b.chain) /\ a.chain[n + 1] < b.chain[n + 1]

\* What sorting the groups may give.
Orders(groups) ==
  { order \in [1..Cardinality(groups) -> groups] :
      /\ IsInjective(order)
      /\ \A i, j \in DOMAIN order : i < j => ~Precedes(order[j], order[i]) }

\* ChainGroup.Reads
Reads(g, kind) == \E k \in DOMAIN g.rules : kind \in g.rules[k].targets

-----------------------------------------------------------------------------
(* interpret.Set: every plausible reading, once, up to MaxReadings *)

\* addDecoded
WithReading(rs, d) ==
  IF Len(rs.list) >= MaxReadings THEN [rs EXCEPT !.truncated = TRUE]
  ELSE IF d \in Range(rs.list) THEN rs
  ELSE [rs EXCEPT !.list = Append(@, d)]

-----------------------------------------------------------------------------
(* budget.Meter *)

\* Mutation of Spent: the budget is looked at before it is charged.
SpentLate(m, n) ==
  IF m.exhausted \/ m.limit = 0 THEN m
  ELSE IF m.remaining = 0 THEN [m EXCEPT !.exhausted = TRUE]
  ELSE [m EXCEPT !.remaining = IF @ < n THEN 0 ELSE @ - n]

\* Spend
Spent(m, n) ==
  IF m.exhausted \/ m.limit = 0 THEN m
  ELSE IF m.remaining < n THEN [limit |-> m.limit, remaining |-> 0, exhausted |-> TRUE]
  ELSE [m EXCEPT !.remaining = @ - n]

\* The transaction's work once n more was done.
Worked(n) == IF meter.limit = 0 THEN work ELSE work + n

Stop(why) ==
  pc' = "idle" /\ result' = [hits |-> result.hits, score |-> result.score, outcome |-> why]

-----------------------------------------------------------------------------
(* stages *)

Held(from) == IF from = 0 THEN stages.src ELSE stages.buf[from]

\* Mutation of Fresh: the chain of the reading before is not forgotten.
FreshKept(d) == [stages EXCEPT !.src = d]

\* reset
Fresh(d) == [src |-> d, prev |-> <<>>, buf |-> stages.buf, step |-> stages.step]

\* The first n transforms of chain c are those the previous chain began with, and no more.
Shares(n, c) ==
  /\ n <= Len(c) /\ n <= Len(stages.prev)
  /\ \A i \in 1..n : c[i] = stages.prev[i]
  /\ n < Len(c) /\ n < Len(stages.prev) => c[n + 1] # stages.prev[n + 1]

-----------------------------------------------------------------------------
(* Eval *)

\* Newly acquired: the meter is reset, the evaluator is as it was left.
NewTransaction ==
  /\ pc = "idle" /\ evals > 0 /\ evals < MaxEvals
  /\ \E limit \in Limits :
       meter' = [limit |-> limit, remaining |-> limit, exhausted |-> FALSE]
  /\ result' = [hits |-> {}, score |-> 0, outcome |-> "none"]
  /\ values' = <<>> /\ work' = 0
  /\ UNCHANGED <<plan, pc, at, readings, stages, chain, todo, evals>>

\* runPhase, of a transaction that has not decided.
Eval(vs) ==
  /\ pc = "idle" /\ result.outcome = "none"
  /\ evals < MaxEvals /\ evals' = evals + 1
  /\ values' = vs /\ pc' = "value" /\ at' = [v |-> 1, r |-> 1, g |-> 1]
  /\ result' = [hits |-> {}, score |-> 0, outcome |-> "none"]
  /\ UNCHANGED <<plan, readings, meter, stages, chain, todo, work>>

\* Build begins with the value as sent; an inert value is passed over.
OpenValue ==
  /\ pc = "value"
  /\ IF at.v > Len(values) THEN pc' = "idle" /\ UNCHANGED <<at, readings>>
     ELSE IF values[at.v].inert THEN at' = [at EXCEPT !.v = @ + 1] /\ UNCHANGED <<pc, readings>>
     ELSE /\ readings' = [list |-> <<values[at.v].data>>, truncated |-> FALSE]
          /\ pc' = "build" /\ at' = [at EXCEPT !.r = 1]
  /\ UNCHANGED <<plan, values, meter, stages, chain, todo, result, work, evals>>

\* Build, one ambiguity after the other; the value is then paid for.
Build ==
  LET d == values[at.v].data
  IN  /\ pc = "build"
      /\ IF at.r <= Len(Decoded[d])
         THEN /\ readings' = WithReading(readings, Decoded[d][at.r])
              /\ at' = [at EXCEPT !.r = @ + 1]
              /\ UNCHANGED <<pc, meter, result, work>>
         ELSE /\ meter' = Spent(meter, Size[d]) /\ work' = Worked(Size[d])
              /\ at' = [at EXCEPT !.r = 1]
              /\ IF meter'.exhausted THEN Stop("exhausted")
                 ELSE IF readings.truncated THEN Stop("undecidable")
                 ELSE pc' = "reading" /\ UNCHANGED result
              /\ UNCHANGED readings
      /\ UNCHANGED <<plan, values, stages, chain, todo, evals>>

\* The next reading, or the next value.
OpenReading ==
  /\ pc = "reading"
  /\ IF at.r > Len(readings.list)
     THEN pc' = "value" /\ at' = [at EXCEPT !.v = @ + 1] /\ UNCHANGED stages
     ELSE /\ pc' = "group" /\ at' = [at EXCEPT !.g = 1]
          /\ stages' = Fresh(readings.list[at.r])
  /\ UNCHANGED <<plan, values, readings, meter, chain, todo, result, work, evals>>

\* No more groups, or one that does not read this kind of value.
PassGroup ==
  /\ pc = "group"
  /\ IF at.g > Len(plan) THEN pc' = "reading" /\ at' = [at EXCEPT !.r = @ + 1]
     ELSE /\ ~Reads(plan[at.g], values[at.v].kind)
          /\ at' = [at EXCEPT !.g = @ + 1] /\ UNCHANGED pc
  /\ UNCHANGED <<plan, values, readings, meter, stages, chain, todo, result, work, evals>>

\* apply, to where the previous chain is left.
OpenGroup ==
  /\ pc = "group" /\ at.g <= Len(plan) /\ Reads(plan[at.g], values[at.v].kind)
  /\ IF plan[at.g].chain = <<>>
     THEN pc' = "scan" /\ chain' = [n |-> 0, from |-> 0, changed |-> FALSE]
     ELSE \E n \in 0..Depth :
            /\ Shares(n, plan[at.g].chain)
            /\ pc' = "chain"
            /\ chain' = IF n = 0 THEN [n |-> 0, from |-> 0, changed |-> FALSE]
                        ELSE [n |-> n, from |-> stages.step[n].from,
                              changed |-> stages.step[n].changed]
  /\ UNCHANGED <<plan, values, at, readings, meter, stages, todo, result, work, evals>>

\* apply: one transform, into the buffer of its depth; one that changes nothing is free.
Transform ==
  LET i    == chain.n + 1
      cur  == Held(chain.from)
      next == Image[plan[at.g].chain[i]][cur]
      done == [n |-> i, from |-> i, changed |-> TRUE]
  IN  /\ pc = "chain" /\ chain.n < Len(plan[at.g].chain)
      /\ IF next = cur
         THEN /\ chain' = [chain EXCEPT !.n = i]
              /\ stages' = [stages EXCEPT !.step[i] =
                              [from |-> chain.from, changed |-> chain.changed]]
              /\ UNCHANGED <<pc, meter, result, work>>
         ELSE /\ meter' = Spent(meter, Size[next]) /\ work' = Worked(Size[next])
              /\ IF meter'.exhausted
                 THEN /\ Stop("exhausted")
                      /\ stages' = [stages EXCEPT !.buf[i] = next] /\ UNCHANGED chain
                 ELSE /\ chain' = done
                      /\ stages' = [stages EXCEPT !.buf[i] = next,
                                      !.step[i] = [from |-> i, changed |-> TRUE]]
                      /\ UNCHANGED <<pc, result>>
      /\ UNCHANGED <<plan, values, at, readings, todo, evals>>

\* apply: the whole chain is done.
CloseChain ==
  /\ pc = "chain" /\ chain.n = Len(plan[at.g].chain)
  /\ stages' = [stages EXCEPT !.prev = plan[at.g].chain]
  /\ pc' = "scan"
  /\ UNCHANGED <<plan, values, at, readings, meter, chain, todo, result, work, evals>>

\* bitset.All, and the order of ChainGroup.Unconditional: the rules of K by their index.
Ascending(g, K) ==
  LET upTo[n \in 0..Len(g.rules)] ==
        IF n = 0 THEN <<>> ELSE IF n \in K THEN Append(upTo[n - 1], n) ELSE upTo[n - 1]
  IN  upTo[Len(g.rules)]

Unconditional(g) == {k \in DOMAIN g.rules : g.rules[k].unconditional}

Candidates(g, d) == {k \in DOMAIN g.rules \ Unconditional(g) : d \in g.rules[k].found}

\* Mutation of Todo: alternative readings are not evaluated.
TodoVerbatim(g, d) ==
  IF at.r > 1 THEN <<>> ELSE Ascending(g, Unconditional(g)) \o Ascending(g, Candidates(g, d))

\* Unconditional rules, on the value as sent; then those the automaton found.
Todo(g, d) ==
  (IF at.r = 1 THEN Ascending(g, Unconditional(g)) ELSE <<>>) \o Ascending(g, Candidates(g, d))

\* Automaton.Scan, where the group has an automaton.
Scan ==
  LET g == plan[at.g]
      d == Held(chain.from)
      n == IF \A k \in DOMAIN g.rules : g.rules[k].unconditional THEN 0 ELSE Size[d]
  IN  /\ pc = "scan"
      /\ meter' = Spent(meter, n) /\ work' = Worked(n)
      /\ IF meter'.exhausted /\ n > 0 THEN Stop("exhausted") /\ UNCHANGED todo
         ELSE pc' = "rules" /\ todo' = Todo(g, d) /\ UNCHANGED result
      /\ UNCHANGED <<plan, values, at, readings, stages, chain, evals>>

\* The actions of a rule that run: those up to the first that ends evaluation.
Taken(rule) == {i \in DOMAIN rule.actions : \A j \in 1..i - 1 : rule.actions[j] # "block"}

Hit(rule, k, i) ==
  [value |-> at.v, reading |-> readings.list[at.r], chain |-> plan[at.g].chain, rule |-> k,
   nth |-> i, action |-> rule.actions[i]]

\* evalRule, paid for before the operator runs; an index that is no rule of the group is
\* passed over.
EvalRule ==
  LET k    == Head(todo)
      rule == plan[at.g].rules[k]
      paid == Spent(Spent(meter, Dispatch), rule.cost)
      took == Taken(rule)
  IN  /\ pc = "rules" /\ todo # <<>>
      /\ todo' = Tail(todo)
      /\ IF k \notin DOMAIN plan[at.g].rules \/ values[at.v].kind \notin rule.targets
         THEN UNCHANGED <<pc, meter, result, work>>
         ELSE /\ meter' = paid
              /\ IF paid.exhausted THEN Stop("exhausted") /\ UNCHANGED work
                 ELSE /\ work' = Worked(Dispatch + rule.cost)
                      /\ IF Held(chain.from) \notin rule.matches
                         THEN UNCHANGED <<pc, result>>
                         ELSE LET ends == \E i \in took : rule.actions[i] = "block"
                              IN  /\ result' =
                                       [hits    |-> result.hits \cup
                                                      {Hit(rule, k, i) : i \in took},
                                        score   |-> result.score + Cardinality(
                                          {i \in took : rule.actions[i] = "score"}),
                                        outcome |-> IF ends THEN "terminal" ELSE "none"]
                                  /\ pc' = IF ends THEN "idle" ELSE pc
      /\ UNCHANGED <<plan, values, at, readings, stages, chain, evals>>

CloseGroup ==
  /\ pc = "rules" /\ todo = <<>>
  /\ pc' = "group" /\ at' = [at EXCEPT !.g = @ + 1]
  /\ UNCHANGED <<plan, values, readings, meter, stages, chain, todo, result, work, evals>>

-----------------------------------------------------------------------------
Init ==
  /\ \E groups \in Rulesets : plan \in Orders(groups)
  /\ values = <<>> /\ pc = "idle" /\ at = [v |-> 1, r |-> 1, g |-> 1] 
  /\ readings = [list |-> <<>>, truncated |-> FALSE]
  /\ \E limit \in Limits :
       meter = [limit |-> limit, remaining |-> limit, exhausted |-> FALSE]
  /\ \E d \in Data :
       stages = [src |-> d, prev |-> <<>>, buf |-> [i \in 1..Depth |-> d],
                 step |-> [i \in 1..Depth |-> [from |-> 0, changed |-> FALSE]]]
  /\ chain = [n |-> 0, from |-> 0, changed |-> FALSE] /\ todo = <<>>
  /\ result = [hits |-> {}, score |-> 0, outcome |-> "none"]
  /\ work = 0 /\ evals = 0

Next ==
  \/ NewTransaction
  \/ \E vs \in Values : Eval(vs)
  \/ OpenValue \/ Build \/ OpenReading
  \/ PassGroup \/ OpenGroup \/ Transform \/ CloseChain
  \/ Scan \/ EvalRule \/ CloseGroup

Spec == Init /\ [][Next]_vars

-----------------------------------------------------------------------------
(* Properties *)

\* The shapes of the state; the meter never goes below zero, and is exhausted only by
\* having been spent.
TypeOK ==
  /\ pc \in {"idle", "value", "build", "reading", "group", "chain", "scan", "rules"}
  /\ at \in [v : Nat \ {0}, r : Nat \ {0}, g : Nat \ {0}]
  /\ readings \in [list : Seq(Data), truncated : BOOLEAN]
  /\ meter \in [limit : Nat, remaining : Nat, exhausted : BOOLEAN]
  /\ meter.remaining <= meter.limit /\ (meter.exhausted => meter.remaining = 0)
  /\ stages \in [src : Data, prev : Seq(Transforms), buf : [1..Depth -> Data],
                 step : [1..Depth -> [from : 0..Depth, changed : BOOLEAN]]]
  /\ chain \in [n : 0..Depth, from : 0..Depth, changed : BOOLEAN]
  /\ result.outcome \in {"none", "exhausted", "undecidable", "terminal"}
  /\ work \in Nat

\* The chain whose results stages.step holds up to depth n.
Prefix(n) == IF pc = "chain" /\ n <= chain.n THEN plan[at.g].chain ELSE stages.prev

Depths == 1..(IF pc = "chain" THEN chain.n ELSE Len(stages.prev))

Before(n) == IF n = 1 THEN 0 ELSE stages.step[n - 1].from

\* stages.go, "What must stay true": what is kept of a chain is, at every depth, the
\* transform of what is kept at the depth before, whichever buffers the two share, so a
\* chain that resumes there resumes from its own intermediate result.  While a chain is
\* being applied this covers what is done of it.
StepsSound ==
  pc \in {"group", "chain", "scan", "rules"} =>
    \A n \in Depths : Held(stages.step[n].from) = Image[Prefix(n)[n]][Held(Before(n))]

\* The result of a whole chain, from scratch.
Chained(c, d) ==
  LET after[n \in 0..Len(c)] == IF n = 0 THEN d ELSE Image[c[n]][after[n - 1]]
  IN  after[Len(c)]

\* The findings of the rules over the values, with no sharing, prefilter or budget: each
\* rule, for each live value whose kind it reads, on every distinct reading, or on the
\* value as sent if it is unconditional.
Expected ==
  LET Live     == { v \in DOMAIN values : ~values[v].inert }
      Read(v)  == {values[v].data} \cup ToSet(Decoded[values[v].data])
      Found(v, d, g) ==
        { k \in DOMAIN plan[g].rules :
            LET rule == plan[g].rules[k]
            IN  /\ values[v].kind \in rule.targets
                /\ Chained(plan[g].chain, d) \in rule.matches
                /\ rule.unconditional => d = values[v].data }
      Reported(v, d, g, k) ==
        { [value |-> v, reading |-> d, chain |-> plan[g].chain, rule |-> k, nth |-> i,
           action |-> plan[g].rules[k].actions[i]] : i \in Taken(plan[g].rules[k]) }
  IN  UNION { UNION { UNION { UNION {
        Reported(v, d, g, k) : k \in Found(v, d, g) } : g \in DOMAIN plan }
        : d \in Read(v) } : v \in Live }

\* An evaluation that reports nothing wrong has found everything there was to find and
\* counted it once, whatever the evaluator was left with by the phase and the
\* transaction before; one that stopped early has found nothing that is not there.
FindingsExact ==
  /\ result.hits \subseteq Expected
  /\ result.score = Cardinality({h \in result.hits : h.action = "score"})
  /\ pc = "idle" /\ result.outcome = "none" => result.hits = Expected

\* budget: "Maximum fuel per request bounds the work".  All the metered work of a
\* transaction stays within its limit but for the one value, transform or scan that is
\* charged after it was done.
WorkBounded == meter.limit > 0 => \E d \in Data : work <= meter.limit + Size[d]

=============================================================================
