-------------------------------- MODULE Pool --------------------------------
(***************************************************************************)
(* One WAF shared by many goroutines: the active ruleset (an atomic        *)
(* pointer that SwapRuleset replaces at any time), the pool of recycled    *)
(* transactions, and what a recycled transaction carries over.  waf.go,    *)
(* with reset and Close of transaction.go and the evaluator's scratch of   *)
(* internal/engine/eval.go and internal/bitset.                            *)
(*                                                                         *)
(* Each goroutine runs one transaction after another.  NewTransaction is   *)
(* two steps, because txPool.Get and the load of the ruleset are two       *)
(* atomic operations with anything in between; Close is two for the same   *)
(* reason.                                                                 *)
(***************************************************************************)
EXTENDS Integers, Sequences, FiniteSets

CONSTANTS
  Procs,       \* goroutines
  Plans,       \* compiled rulesets
  GroupRules,  \* per plan, the rules of its largest chain group
  Txs,         \* transactions that may be constructed
  MaxRepeats,  \* bound: calls of Close after the first of its owner, per transaction
  MaxRecords   \* bound: values recorded per transaction

ASSUME PoolAssumption ==
  /\ GroupRules \in [Plans -> Nat]
  /\ MaxRepeats \in Nat /\ MaxRecords \in Nat
  /\ IsFiniteSet(Procs) /\ IsFiniteSet(Txs)

NoPlan == "nil"
NoTx == "none"
ASSUME NilAssumption == NoPlan \notin Plans /\ NoTx \notin Txs

VARIABLES
  active,      \* WAF.ruleset
  pooled,      \* WAF.txPool: how many times each transaction is in it
  made,        \* the transactions constructed
  plan,        \* per transaction, tx.rs
  values,      \* per transaction, who recorded each of its values
  room,        \* per transaction, the capacity of its evaluator's candidate set
  pc,          \* per goroutine: idle, got, open, closing, closed
  own,         \* per goroutine, the transaction its variable refers to
  repeats,     \* per transaction, the calls of Close that were not the first of
               \* their owner (history)
  recorded,    \* per goroutine, the values it recorded (history)
  ran,         \* per goroutine, the plans it was evaluated against, each with the
               \* capacity of the candidate set it had then (history)
  loaded       \* per goroutine, the plans active since its call (history)

poolVars == <<active, pooled, made, plan, values, room, pc, own, repeats, recorded, ran, loaded>>

\* bitset.Grow: never shrinks.
Grown(capacity, n) == IF n > capacity THEN n ELSE capacity

\* Mutation of Fitted: sized once, when the evaluator is built.
FittedOnce(capacity, p) == capacity

\* sizeFor, at the start of every Eval.
Fitted(capacity, p) == Grown(capacity, GroupRules[p])

\* Mutation of Loaded: the plan New compiled, whatever was swapped in since.
LoadedOnce(t) == CHOOSE p \in Plans : TRUE

\* NewTransaction: w.ruleset.Load(), after the transaction was taken.
Loaded(t) == active

-----------------------------------------------------------------------------
PoolInit ==
  /\ active \in Plans
  /\ pooled = [t \in Txs |-> 0] /\ made = {}
  /\ plan = [t \in Txs |-> NoPlan]
  /\ values = [t \in Txs |-> <<>>]
  /\ room = [t \in Txs |-> 0]
  /\ pc = [g \in Procs |-> "idle"] /\ own = [g \in Procs |-> NoTx]
  /\ repeats = [t \in Txs |-> 0] /\ recorded = [g \in Procs |-> 0]
  /\ ran = [g \in Procs |-> {}] /\ loaded = [g \in Procs |-> {}]

\* SwapRuleset(p); a nil plan is ignored.
SwapRuleset(p) ==
  /\ active' = p
  /\ loaded' = [g \in Procs |-> IF pc[g] = "got" THEN loaded[g] \cup {p} ELSE loaded[g]]
  /\ UNCHANGED <<pooled, made, plan, values, room, pc, own, repeats, recorded, ran>>

Take(g, t) ==
  /\ pc[g] = "idle"
  /\ pc' = [pc EXCEPT ![g] = "got"] /\ own' = [own EXCEPT ![g] = t]
  /\ recorded' = [recorded EXCEPT ![g] = 0]
  /\ ran' = [ran EXCEPT ![g] = {}]
  /\ loaded' = [loaded EXCEPT ![g] = {active}]
  /\ UNCHANGED <<active, plan, values, repeats>>

\* txPool.Get finds a transaction.
GetPooled(g, t) ==
  /\ Take(g, t)
  /\ pooled[t] > 0 /\ pooled' = [pooled EXCEPT ![t] = @ - 1]
  /\ UNCHANGED <<made, room>>

\* txPool.Get finds none it can have and calls newTransaction, which loads the
\* ruleset for itself to size the evaluator.
GetNew(g, t) ==
  /\ Take(g, t)
  /\ t \notin made /\ made' = made \cup {t}
  /\ room' = [room EXCEPT ![t] = Grown(0, GroupRules[active])]
  /\ UNCHANGED pooled

\* The rest of NewTransaction: tx.reset(w.ruleset.Load()).
Begin(g) ==
  LET t == own[g]
  IN  /\ pc[g] = "got" /\ pc' = [pc EXCEPT ![g] = "open"]
      /\ plan' = [plan EXCEPT ![t] = Loaded(t)]
      /\ values' = [values EXCEPT ![t] = <<>>]
      /\ UNCHANGED <<active, pooled, made, room, own, repeats, recorded, ran, loaded>>

\* Any of the calls that hand over data.
Record(g) ==
  LET t == own[g]
  IN  /\ pc[g] = "open" /\ recorded[g] < MaxRecords
      /\ values' = [values EXCEPT ![t] = Append(@, g)]
      /\ recorded' = [recorded EXCEPT ![g] = @ + 1]
      /\ UNCHANGED <<active, pooled, made, plan, room, pc, own, repeats, ran, loaded>>

\* Any of the phase calls: Eval against tx.rs.  There is always one, unless another
\* owner has closed the transaction: then the program panics and the model stops.
Evaluate(g) ==
  LET t == own[g]
  IN  /\ pc[g] = "open" /\ plan[t] \in Plans
      /\ room' = [room EXCEPT ![t] = Fitted(@, plan[t])]
      /\ ran' = [ran EXCEPT ![g] = @ \cup {[plan |-> plan[t], room |-> room'[t]]}]
      /\ UNCHANGED <<active, pooled, made, plan, values, pc, own, repeats, recorded, loaded>>

\* Close clears the transaction.  "It is safe to call more than once" (transaction.go:223):
\* its owner may do so again, as tx.waf stays set.
Clear(g) ==
  LET t == own[g]
  IN  /\ \/ pc[g] = "open" /\ UNCHANGED repeats
         \/ /\ pc[g] = "closed" /\ repeats[t] < MaxRepeats
            /\ repeats' = [repeats EXCEPT ![t] = @ + 1]
      /\ pc' = [pc EXCEPT ![g] = "closing"]
      /\ plan' = [plan EXCEPT ![t] = NoPlan] /\ values' = [values EXCEPT ![t] = <<>>]
      /\ UNCHANGED <<active, made, room, own, recorded, ran, loaded>>

\* Mutation of Close: it puts the transaction in the pool before it clears it, and at
\* its end as well.
ClosePutsTwice(g) == Clear(g) /\ pooled' = [pooled EXCEPT ![own[g]] = @ + 1]

Close(g) == Clear(g) /\ UNCHANGED pooled

\* The end of Close, of every one: w.txPool.Put(tx).
Put(g) ==
  /\ pc[g] = "closing" /\ pc' = [pc EXCEPT ![g] = "closed"]
  /\ pooled' = [pooled EXCEPT ![own[g]] = @ + 1]
  /\ UNCHANGED <<active, made, plan, values, room, own, repeats, recorded, ran, loaded>>

\* The goroutine turns to its next request.
Leave(g) ==
  /\ pc[g] = "closed" /\ pc' = [pc EXCEPT ![g] = "idle"]
  /\ own' = [own EXCEPT ![g] = NoTx]
  /\ UNCHANGED <<active, pooled, made, plan, values, room, repeats, recorded, ran, loaded>>

\* The garbage collector empties a sync.Pool whenever it likes.
Drop(t) ==
  /\ pooled[t] > 0 /\ pooled' = [pooled EXCEPT ![t] = @ - 1]
  /\ UNCHANGED <<active, made, plan, values, room, pc, own, repeats, recorded, ran, loaded>>

PoolNext ==
  \/ \E p \in Plans : SwapRuleset(p)
  \/ \E g \in Procs, t \in Txs : GetPooled(g, t) \/ GetNew(g, t)
  \/ \E g \in Procs : Begin(g) \/ Record(g) \/ Evaluate(g) \/ Close(g)
                      \/ Put(g) \/ Leave(g)
  \/ \E t \in Txs : Drop(t)

PoolSpec == PoolInit /\ [][PoolNext]_poolVars

-----------------------------------------------------------------------------
(* Properties *)

\* The values the code can hold; a transaction is pooled only once constructed.
TypeOK ==
  /\ active \in Plans
  /\ made \subseteq Txs
  /\ pooled \in [Txs -> Nat] /\ \A t \in Txs : pooled[t] > 0 => t \in made
  /\ plan \in [Txs -> Plans \cup {NoPlan}]
  /\ room \in [Txs -> Nat]
  /\ pc \in [Procs -> {"idle", "got", "open", "closing", "closed"}]
  /\ own \in [Procs -> made \cup {NoTx}]

\* The goroutines inside a transaction's lifetime, those inside Close included.
Holders(t) == {g \in Procs : own[g] = t /\ pc[g] \in {"got", "open", "closing"}}

\* Nobody has closed the transaction again: as long as it is so it has one owner.
Unrepeated(g) == own[g] \in Txs /\ repeats[own[g]] = 0

\* waf.go: a Transaction "is owned by exactly one goroutine for its lifetime".  The code
\* does not promise that much: each Close pools the transaction, so each one repeated
\* (H13) adds an owner at most, and nothing else does.  With none repeated there is one
\* owner and it finds in its transaction exactly what it recorded, all of it.
OneOwner ==
  /\ \A t \in Txs : pooled[t] + Cardinality(Holders(t)) <= 1 + repeats[t]
  /\ \A g \in Procs : pc[g] = "open" /\ Unrepeated(g) =>
       values[own[g]] = [i \in 1..recorded[g] |-> g]

\* A transaction nobody closed again is evaluated against a plan that was active during
\* its NewTransaction, never against one replaced before it.
PlanIsCurrent == \A g \in Procs : Unrepeated(g) => \A e \in ran[g] : e.plan \in loaded[g]

\* "In-flight transactions complete against the plan they started with."
PlanIsKept ==
  [][\A g \in Procs : pc[g] = "open" /\ pc'[g] = "open" /\ Unrepeated(g)' =>
       plan'[own[g]] = plan[own[g]]]_poolVars

\* bitset.Add drops what does not fit without a word: whenever a phase is evaluated,
\* every rule of its plan has a place, whatever plan the transaction was built for.
\* Two owners after a repeated Close race for the set, and nothing is said of them.
CandidatesFit ==
  \A g \in Procs : Unrepeated(g) => \A e \in ran[g] : e.room >= GroupRules[e.plan]
=============================================================================
