------------------------------- MODULE Bitset -------------------------------
(***************************************************************************)
(* internal/bitset: a set of small numbers held in words, with the range   *)
(* of the words touched since the last Reset.  A set is a record           *)
(* [words, lo, hi]; a word is the set of its bits; words are numbered      *)
(* from 0, so word w is words[w + 1].                                      *)
(***************************************************************************)
EXTENDS Integers, Sequences, FiniteSetsExt

CONSTANT WordBits

Bit == 0..(WordBits - 1)

\* The zero value, whose range does not say that it is empty.
Zero == [words |-> <<>>, lo |-> 0, hi |-> 0]

Cap(s) == Len(s.words) * WordBits
IsEmpty(s) == s.words = <<>> \/ s.hi < s.lo
Has(s, v) == \E k \in DOMAIN s.words : \E b \in s.words[k] : v = (k - 1) * WordBits + b

\* resetBounds
Unbounded(s) == [words |-> s.words, lo |-> Len(s.words), hi |-> -1]

Needed(capacity) == (capacity + WordBits - 1) \div WordBits

\* Grow: the bounds of a set that holds something stay, those of an empty one
\* are made to say so.
Grown(s, capacity) ==
  LET need == Needed(capacity)
      wider == [s EXCEPT !.words =
                 [k \in 1..need |-> IF k <= Len(@) THEN @[k] ELSE {}]]
  IN IF capacity <= 0 \/ need <= Len(s.words) THEN s
     ELSE IF IsEmpty(s) THEN Unbounded(wider) ELSE wider

\* Add of every member of vs, in any order; Union with the words of vs.  What
\* does not fit is ignored.
Added(s, vs) ==
  LET bits(k) == {b \in Bit : (k - 1) * WordBits + b \in vs}
      touched == {k - 1 : k \in {j \in DOMAIN s.words : bits(j) # {}}}
  IN [words |-> [k \in DOMAIN s.words |-> s.words[k] \cup bits(k)],
      lo |-> IF touched = {} THEN s.lo ELSE Min({s.lo} \cup touched),
      hi |-> IF touched = {} THEN s.hi ELSE Max({s.hi} \cup touched)]

\* Reset: only the words in the range are cleared.
Cleared(s) ==
  IF IsEmpty(s) THEN s
  ELSE Unbounded([s EXCEPT !.words =
         [k \in DOMAIN @ |-> IF k - 1 \in s.lo..s.hi THEN {} ELSE @[k]]])

\* All, in any order: the bits of the words in the range.
All(s) ==
  IF IsEmpty(s) THEN {}
  ELSE UNION {{w * WordBits + b : b \in s.words[w + 1]} : w \in s.lo..s.hi}

=============================================================================
