------------------------------ MODULE Prefilter -----------------------------
(***************************************************************************)
(* internal/prefilter: the Aho-Corasick automaton built from the literals  *)
(* of a ruleset, and the candidate set (internal/bitset) it is scanned     *)
(* into, as rules.Compile and the evaluator use them.                      *)
(*                                                                         *)
(* A state of the automaton is the text that leads to it from the root;    *)
(* its number, and the flat arrays the children lie in, are left out.      *)
(***************************************************************************)
EXTENDS Integers, Sequences, SequencesExt

CONSTANTS
  Rulesets,   \* each a sequence of [literal, rule], in the order they are added
  Values,     \* the values scanned
  Sizes,      \* the capacities asked for
  Others,     \* the sets a candidate set is united with
  Fold,       \* a character to its lower case
  WordBits

B == INSTANCE Bitset

ASSUME PrefilterAssumption ==
  /\ WordBits \in Nat \ {0}
  /\ Sizes \subseteq Nat
  /\ \A o \in Others : o \subseteq Nat
  /\ Rulesets \subseteq Seq([literal : Seq(DOMAIN Fold), rule : Nat])
  /\ Values \subseteq Seq(DOMAIN Fold)

VARIABLES
  ruleset,     \* the rules compiled (rigid)
  candidates   \* the candidate set: see Bitset

vars == <<ruleset, candidates>>

Root == <<>>
Folded(text) == [i \in DOMAIN text |-> Fold[text[i]]]

-----------------------------------------------------------------------------
(* Builder *)

\* The states that Builder.Add creates, root included.
States(rs) == {Root} \cup UNION {{SubSeq(Folded(rs[i].literal), 1, n) :
                                  n \in 1..Len(rs[i].literal)} : i \in DOMAIN rs}

\* The rules whose literal ends at a state; an empty literal is ignored.
Outputs(rs, state) ==
  {rs[i].rule : i \in {j \in DOMAIN rs :
                       rs[j].literal # <<>> /\ Folded(rs[j].literal) = state}}

\* Follow failure links from a state until one of them consumes c.
Consume(states, fail, from, c) ==
  LET go[s \in states] ==
        IF Append(s, c) \in states THEN Append(s, c)
        ELSE IF s = Root THEN Root ELSE go[fail[s]]
  IN go[from]

\* buildLinks, level by level: the fail link of a child is found along its
\* parent's, and is never the child itself.
FailLinks(states) ==
  LET upto[n \in 0..Max({Len(s) : s \in states})] ==
        IF n <= 1 THEN [s \in {t \in states : Len(t) <= n} |-> Root]
        ELSE [s \in {t \in states : Len(t) <= n} |->
               IF Len(s) < n THEN upto[n - 1][s]
               ELSE Consume({t \in states : Len(t) < n}, upto[n - 1],
                            upto[n - 1][Front(s)], Last(s))]
  IN upto[Max({Len(s) : s \in states})]

\* Mutation of DictLinks: only the fail link itself is looked at.
DictLinksShort(states, out, fail) ==
  [s \in states |-> IF s # Root /\ out[fail[s]] # {} THEN fail[s] ELSE Root]

\* The nearest fail ancestor with outputs; the root for none.
DictLinks(states, out, fail) ==
  LET nearest[s \in states] ==
        IF s = Root THEN Root
        ELSE IF out[fail[s]] # {} THEN fail[s] ELSE nearest[fail[s]]
  IN nearest

\* Builder.Build
Build(rs) ==
  LET states == States(rs)
      out == [s \in states |-> Outputs(rs, s)]
      fail == FailLinks(states)
  IN [states |-> states, out |-> out, fail |-> fail,
      dict |-> DictLinks(states, out, fail),
      patterns |-> Cardinality({rs[i].literal : i \in DOMAIN rs} \ {<<>>})]

Automata == [rs \in Rulesets |-> Build(rs)]

-----------------------------------------------------------------------------
(* Scanning *)

Step(a, state, char) == Consume(a.states, a.fail, state, Fold[char])

\* The states a value takes the automaton through.
Visited(a, value) ==
  LET at[i \in 0..Len(value)] == IF i = 0 THEN Root ELSE Step(a, at[i - 1], value[i])
  IN {at[i] : i \in 1..Len(value)}

\* A state's outputs and those along its dictionary links.
Emitted(a, state) ==
  LET chain[s \in a.states] ==
        IF s = Root THEN {} ELSE a.out[s] \cup chain[a.dict[s]]
  IN chain[state]

\* The rules a scan adds; none when the automaton has no pattern.
Found(rs, value) ==
  LET a == Automata[rs]
      rules == {rs[i].rule : i \in DOMAIN rs}
  IN {r \in rules : a.patterns > 0 /\ \E s \in Visited(a, value) : r \in Emitted(a, s)}

-----------------------------------------------------------------------------
(* Actions *)

\* NewEvaluator, Evaluator.Fit
Grow(n) == candidates' = B!Grown(candidates, n) /\ UNCHANGED ruleset

Scan(value) == candidates' = B!Added(candidates, Found(ruleset, value)) /\ UNCHANGED ruleset

Union(other) == candidates' = B!Added(candidates, other) /\ UNCHANGED ruleset

Reset == candidates' = B!Cleared(candidates) /\ UNCHANGED ruleset

Init == ruleset \in Rulesets /\ candidates = B!Zero

Next ==
  \/ \E n \in Sizes : Grow(n)
  \/ \E value \in Values : Scan(value)
  \/ \E other \in Others : Union(other)
  \/ Reset

Spec == Init /\ [][Next]_vars

-----------------------------------------------------------------------------
(* Properties *)

(* Nothing a rule needs is missed and nothing is left over: the automaton    *)
(* and the bit set together are the set of rules with a literal in a value   *)
(* scanned since the set was last cleared (Scan, Add, Grow, Reset, All).      *)
Exact == INSTANCE Candidates
  WITH members <- B!All(candidates), cap <- B!Cap(candidates)
CandidatesImplemented == Exact!Spec

(* Every bit that is set lies in the range of touched words, so it is seen   *)
(* by All and cleared by Reset; an empty set's range says that it is empty.  *)
BoundsCover ==
  /\ \A k \in DOMAIN candidates.words : candidates.words[k] # {} =>
       k - 1 \in candidates.lo..candidates.hi
  /\ ~B!IsEmpty(candidates) => 0 <= candidates.lo /\ candidates.hi < Len(candidates.words)
=============================================================================
