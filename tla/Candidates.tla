----------------------------- MODULE Candidates -----------------------------
(***************************************************************************)
(* What the prefilter promises: once a value was scanned, the candidates   *)
(* are the rules one of whose literals occurs in it, whatever its case,    *)
(* as far as the set has room for them, and those that were there before.  *)
(***************************************************************************)
EXTENDS Integers, Sequences, SequencesExt

CONSTANTS
  Rulesets,   \* each a sequence of [literal, rule]
  Values,     \* the values scanned
  Sizes,      \* the capacities asked for
  Others,     \* the sets it is united with
  Fold,       \* a character to its lower case
  WordBits    \* capacities are rounded up to a multiple of this

VARIABLES ruleset, members, cap

vars == <<ruleset, members, cap>>

Folded(text) == [i \in DOMAIN text |-> Fold[text[i]]]

Occurs(literal, value) ==
  \E i \in 0..(Len(value) - Len(literal)) :
    Folded(literal) = Folded(SubSeq(value, i + 1, i + Len(literal)))

\* The empty literal requires nothing, and names no candidate.
Wanted(value) ==
  {ruleset[i].rule : i \in {j \in DOMAIN ruleset :
     ruleset[j].literal # <<>> /\ Occurs(ruleset[j].literal, value)}}

Fits(vs) == {v \in vs : v < cap}

Init == ruleset \in Rulesets /\ members = {} /\ cap = 0

Scan(value) ==
  members' = members \cup Fits(Wanted(value)) /\ UNCHANGED <<ruleset, cap>>

Include(vs) == members' = members \cup Fits(vs) /\ UNCHANGED <<ruleset, cap>>

Clear == members' = {} /\ UNCHANGED <<ruleset, cap>>

Grow(n) ==
  /\ cap' = Max({cap, WordBits * ((n + WordBits - 1) \div WordBits)})
  /\ UNCHANGED <<ruleset, members>>

Next ==
  \/ \E value \in Values : Scan(value)
  \/ \E n \in Sizes : Grow(n)
  \/ \E vs \in Others : Include(vs)
  \/ Clear

Spec == Init /\ [][Next]_vars
=============================================================================
