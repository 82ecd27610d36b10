-------------------------- MODULE PrefilterProofs ---------------------------
(***************************************************************************)
(* Proofs about the automaton and the candidate set of Prefilter, for      *)
(* every ruleset, every value, every word size and every capacity: the     *)
(* links are those of an Aho-Corasick automaton, so that a scan finds the  *)
(* literals that occur and no other, and the words and bounds of the bit   *)
(* set hold them.  Then about the windows of Scanning, the other way a     *)
(* value is walked.                                                        *)
(***************************************************************************)
EXTENDS Prefilter, Scanning, SequenceTheorems, FiniteSetTheorems, WellFoundedInduction, TLAPS

LEMMA LessThan == \A x, y \in Nat : <<x, y>> \in OpToRel(<, Nat) <=> x < y
BY DEF OpToRel

\* Natural numbers are well-ordered.
LEMMA Least ==
  ASSUME NEW S \in SUBSET Nat, S # {}
  PROVE  \E n \in S : \A k \in S : n <= k
<1> DEFINE less == OpToRel(<, Nat)
<1>1. IsWellFoundedOn(less, Nat)
  BY NatLessThanWellFounded
<1>2. \A x, y \in Nat : <<x, y>> \in less <=> x < y
  BY LessThan
<1> HIDE DEF less
<1>3. PICK n \in S : \A k \in S : ~(<<k, n>> \in less)
  BY <1>1, WFMin
<1>4. \A k \in S : n <= k
  <2> TAKE k \in S
  <2>1. n \in Nat /\ k \in Nat /\ ~(k < n)
    BY <1>2, <1>3
  <2> QED
    BY <2>1
<1> QED
  BY <1>4

\* A set of integers between two bounds has a least and a greatest member.
LEMMA MinMax ==
  ASSUME NEW S, S # {}, NEW lo \in Int, NEW hi \in Int,
         \A x \in S : x \in Int /\ lo <= x /\ x <= hi
  PROVE  /\ B!Min(S) \in S /\ \A x \in S : B!Min(S) <= x
         /\ B!Max(S) \in S /\ \A x \in S : x <= B!Max(S)
<1>1. \E n \in S : \A x \in S : n <= x
  <2> DEFINE up == {k \in Nat : lo + k \in S}
  <2>1. up \in SUBSET Nat
    OBVIOUS
  <2>2. up # {}
    <3>1. PICK x \in S : TRUE
      OBVIOUS
    <3>2. x - lo \in Nat /\ lo + (x - lo) = x
      BY <3>1
    <3> QED
      BY <3>1, <3>2
  <2>3. PICK n \in up : \A k \in up : n <= k
    <3> HIDE DEF up
    <3> QED
      BY <2>1, <2>2, Least
  <2>4. \A y \in S : lo + n <= y
    <3> TAKE y \in S
    <3>1. y - lo \in Nat /\ lo + (y - lo) = y
      OBVIOUS
    <3>2. y - lo \in up
      BY <3>1
    <3> QED
      BY <2>3, <3>1, <3>2
  <2>5. lo + n \in S
    BY <2>3
  <2> QED
    BY <2>4, <2>5
<1>2. \E n \in S : \A x \in S : n >= x
  <2> DEFINE down == {k \in Nat : hi - k \in S}
  <2>1. down \in SUBSET Nat
    OBVIOUS
  <2>2. down # {}
    <3>1. PICK x \in S : TRUE
      OBVIOUS
    <3>2. hi - x \in Nat /\ hi - (hi - x) = x
      BY <3>1
    <3> QED
      BY <3>1, <3>2
  <2>3. PICK n \in down : \A k \in down : n <= k
    <3> HIDE DEF down
    <3> QED
      BY <2>1, <2>2, Least
  <2>4. \A y \in S : hi - n >= y
    <3> TAKE y \in S
    <3>1. hi - y \in Nat /\ hi - (hi - y) = y
      OBVIOUS
    <3>2. hi - y \in down
      BY <3>1
    <3>3. n \in Nat /\ n <= hi - y
      BY <2>3, <3>2
    <3> QED
      BY <3>3
  <2>5. hi - n \in S
    BY <2>3
  <2> QED
    BY <2>4, <2>5
<1>3. B!Min(S) \in S /\ \A x \in S : B!Min(S) <= x
  BY <1>1 DEF B!Min
<1>4. B!Max(S) \in S /\ \A x \in S : x <= B!Max(S)
  BY <1>2 DEF B!Max
<1> QED
  BY <1>3, <1>4

-----------------------------------------------------------------------------
(* The invariant *)

\* A bit set whose range of touched words covers every bit that is set.
Covered(s) ==
  /\ s \in [words : Seq(SUBSET B!Bit), lo : Int, hi : Int]
  /\ s.words # <<>> => s.lo \in 0..Len(s.words) /\ s.hi \in -1..(Len(s.words) - 1)
  /\ \A k \in 1..Len(s.words) : s.words[k] # {} => k - 1 \in s.lo..s.hi

LEMMA UnboundedCovered ==
  ASSUME NEW s, s \in [words : Seq(SUBSET B!Bit), lo : Int, hi : Int],
         \A k \in 1..Len(s.words) : s.words[k] = {}
  PROVE  Covered(B!Unbounded(s))
<1>1. B!Unbounded(s).words = s.words /\ B!Unbounded(s).lo = Len(s.words)
      /\ B!Unbounded(s).hi = -1
  BY DEF B!Unbounded
<1>2. B!Unbounded(s) \in [words : Seq(SUBSET B!Bit), lo : Int, hi : Int]
  BY DEF B!Unbounded
<1>3. Len(s.words) \in Nat
  OBVIOUS
<1> QED
  BY <1>1, <1>2, <1>3 DEF Covered

LEMMA ClearedCovered ==
  ASSUME NEW s, Covered(s)
  PROVE  Covered(B!Cleared(s))
<1>1. CASE B!IsEmpty(s)
  BY <1>1 DEF B!Cleared
<1>2. CASE ~B!IsEmpty(s)
  <2> DEFINE ws == [k \in DOMAIN s.words |-> IF k - 1 \in s.lo..s.hi THEN {} ELSE s.words[k]]
             t == [s EXCEPT !.words = ws]
  <2>1. Len(s.words) \in Nat /\ DOMAIN s.words = 1..Len(s.words)
    BY DEF Covered
  <2>2. ws \in Seq(SUBSET B!Bit) /\ Len(ws) = Len(s.words)
    BY <2>1 DEF Covered
  <2>3. \A k \in 1..Len(ws) : ws[k] = {}
    BY <2>1, <2>2 DEF Covered
  <2>4. t \in [words : Seq(SUBSET B!Bit), lo : Int, hi : Int] /\ t.words = ws
    BY <2>2 DEF Covered
  <2>5. B!Cleared(s) = B!Unbounded(t)
    BY <1>2 DEF B!Cleared
  <2> HIDE DEF t, ws
  <2> QED
    BY <2>3, <2>4, <2>5, UnboundedCovered
<1> QED
  BY <1>1, <1>2

LEMMA NeededNat ==
  ASSUME NEW n \in Nat
  PROVE  B!Needed(n) \in Nat
<1>1. WordBits \in Nat /\ WordBits > 0 /\ n + WordBits - 1 \in Nat
  BY PrefilterAssumption
<1> QED
  BY <1>1 DEF B!Needed

LEMMA GrownCovered ==
  ASSUME NEW s, Covered(s), NEW n \in Nat
  PROVE  Covered(B!Grown(s, n))
<1> DEFINE need == B!Needed(n)
           ws == [k \in 1..need |-> IF k <= Len(s.words) THEN s.words[k] ELSE {}]
           t == [s EXCEPT !.words = ws]
<1>1. CASE n <= 0 \/ need <= Len(s.words)
  BY <1>1 DEF B!Grown
<1>2. CASE ~(n <= 0 \/ need <= Len(s.words))
  <2>1. need \in Nat /\ Len(s.words) \in Nat /\ Len(s.words) < need
    <3>1. need \in Nat
      BY NeededNat
    <3>2. Len(s.words) \in Nat
      BY DEF Covered
    <3> HIDE DEF need
    <3> QED
      BY <1>2, <3>1, <3>2
  <2>2. \A k \in 1..Len(s.words) : s.words[k] \in SUBSET B!Bit
    BY DEF Covered
  <2>3. ws \in Seq(SUBSET B!Bit) /\ Len(ws) = need
    <3> HIDE DEF need
    <3>1. \A k \in 1..need : (IF k <= Len(s.words) THEN s.words[k] ELSE {}) \in SUBSET B!Bit
      BY <2>1, <2>2
    <3> QED
      BY <2>1, <3>1
  <2>4. t \in [words : Seq(SUBSET B!Bit), lo : Int, hi : Int] /\ t.words = ws
        /\ t.lo = s.lo /\ t.hi = s.hi
    <3> HIDE DEF ws
    <3> QED
      BY <2>3 DEF Covered
  <2>5. CASE B!IsEmpty(s)
    <3>1. \A k \in 1..Len(s.words) : s.words[k] = {}
      BY <2>5, <2>1 DEF Covered, B!IsEmpty
    <3>2. \A k \in 1..Len(ws) : ws[k] = {}
      <4> HIDE DEF need
      <4> QED
        BY <2>1, <2>3, <3>1
    <3>3. B!Grown(s, n) = B!Unbounded(t)
      BY <1>2, <2>5 DEF B!Grown
    <3> HIDE DEF t, ws
    <3> QED
      BY <2>4, <3>2, <3>3, UnboundedCovered
  <2>6. CASE ~B!IsEmpty(s)
    <3>1. s.words # <<>>
      BY <2>6 DEF B!IsEmpty
    <3>2. B!Grown(s, n) = t
      BY <1>2, <2>6 DEF B!Grown
    <3>3. \A k \in 1..need : ws[k] # {} => k - 1 \in s.lo..s.hi
      <4> HIDE DEF need
      <4> QED
        BY <2>1 DEF Covered
    <3> HIDE DEF t, ws
    <3> QED
      BY <2>1, <2>3, <2>4, <3>1, <3>2, <3>3 DEF Covered
  <2> QED
    BY <2>5, <2>6
<1> QED
  BY <1>1, <1>2

\* Words that change only where they were touched, with the range widened to
\* those places.
LEMMA WidenedCovered ==
  ASSUME NEW s, Covered(s), NEW ws \in Seq(SUBSET B!Bit), Len(ws) = Len(s.words), NEW T,
         \A x \in T : x \in Int /\ 0 <= x /\ x <= Len(s.words) - 1,
         \A k \in 1..Len(s.words) : k - 1 \in T \/ ws[k] = s.words[k],
         NEW lo \in Int, lo = s.lo \/ lo \in T, lo <= s.lo, \A x \in T : lo <= x,
         NEW hi \in Int, hi = s.hi \/ hi \in T, hi >= s.hi, \A x \in T : hi >= x
  PROVE  Covered([words |-> ws, lo |-> lo, hi |-> hi])
<1>1. Len(s.words) \in Nat /\ s.lo \in Int /\ s.hi \in Int /\ s.words \in Seq(SUBSET B!Bit)
  BY DEF Covered
<1>2. \A k \in 1..Len(s.words) : s.words[k] # {} => k - 1 \in s.lo..s.hi
  BY DEF Covered
<1>3. ASSUME Len(s.words) > 0
      PROVE  lo \in 0..Len(s.words) /\ hi \in -1..(Len(s.words) - 1)
  <2>1. s.words # <<>>
    BY <1>3
  <2>2. s.lo \in 0..Len(s.words) /\ s.hi \in -1..(Len(s.words) - 1)
    BY <2>1 DEF Covered
  <2> QED
    BY <1>1, <2>2
<1>4. ASSUME NEW k \in 1..Len(s.words), ws[k] # {}
      PROVE  k - 1 \in lo..hi
  <2>1. CASE k - 1 \in T
    BY <1>1, <2>1
  <2>2. CASE ws[k] = s.words[k]
    <3>1. k - 1 \in s.lo..s.hi
      BY <1>2, <1>4, <2>2
    <3> QED
      BY <1>1, <3>1
  <2> QED
    BY <2>1, <2>2
<1>5. ws # <<>> => Len(s.words) > 0
  BY <1>1
<1> QED
  BY <1>3, <1>4, <1>5 DEF Covered

LEMMA AddedCovered ==
  ASSUME NEW s, Covered(s), NEW vs
  PROVE  Covered(B!Added(s, vs))
<1> DEFINE bits(k) == {b \in B!Bit : (k - 1) * WordBits + b \in vs}
           touched == {k - 1 : k \in {j \in DOMAIN s.words : bits(j) # {}}}
           ws == [k \in DOMAIN s.words |-> s.words[k] \cup bits(k)]
           lo == IF touched = {} THEN s.lo ELSE B!Min({s.lo} \cup touched)
           hi == IF touched = {} THEN s.hi ELSE B!Max({s.hi} \cup touched)
<1>1. B!Added(s, vs) = [words |-> ws, lo |-> lo, hi |-> hi]
  BY DEF B!Added
<1>2. Len(s.words) \in Nat /\ DOMAIN s.words = 1..Len(s.words)
      /\ s.lo \in Int /\ s.hi \in Int
  BY DEF Covered
<1>3. \A k \in 1..Len(s.words) : s.words[k] \in SUBSET B!Bit /\ bits(k) \in SUBSET B!Bit
  BY DEF Covered
<1>4. ws \in Seq(SUBSET B!Bit) /\ Len(ws) = Len(s.words)
  <2> HIDE DEF bits
  <2> QED
    BY <1>2, <1>3
<1>5. \A x \in touched : x \in Int /\ 0 <= x /\ x <= Len(s.words) - 1
  <2> HIDE DEF bits
  <2> QED
    BY <1>2
<1>6. \A k \in 1..Len(s.words) : k - 1 \in touched \/ ws[k] = s.words[k]
  <2> HIDE DEF bits
  <2> QED
    BY <1>2
<1>7. touched # {} => s.lo \in 0..Len(s.words) /\ s.hi \in -1..(Len(s.words) - 1)
  <2>1. touched # {} => s.words # <<>>
    <3> HIDE DEF bits
    <3> QED
      BY <1>2
  <2> HIDE DEF touched
  <2> QED
    BY <2>1 DEF Covered
<1> HIDE DEF bits, touched
<1>8. lo \in Int /\ (lo = s.lo \/ lo \in touched) /\ lo <= s.lo /\ \A x \in touched : lo <= x
  <2>1. CASE touched = {}
    BY <1>2, <2>1
  <2>2. CASE touched # {}
    <3> DEFINE A == {s.lo} \cup touched
    <3>0. 0 \in Int /\ Len(s.words) \in Int
      BY <1>2
    <3>1. A # {} /\ \A x \in A : x \in Int /\ 0 <= x /\ x <= Len(s.words)
      BY <1>2, <1>5, <1>7, <2>2
    <3>2. lo = B!Min(A)
      BY <2>2
    <3>3. \A x \in A : x \in Int
      BY <1>2, <1>5
    <3>4. lo \in A /\ \A x \in A : lo <= x
      <4> HIDE DEF A, lo
      <4> QED
        BY <3>0, <3>1, <3>2, MinMax
    <3> HIDE DEF lo
    <3> QED
      BY <3>3, <3>4
  <2> QED
    BY <2>1, <2>2
<1>9. hi \in Int /\ (hi = s.hi \/ hi \in touched) /\ hi >= s.hi /\ \A x \in touched : hi >= x
  <2>1. CASE touched = {}
    BY <1>2, <2>1
  <2>2. CASE touched # {}
    <3> DEFINE A == {s.hi} \cup touched
               top == Len(s.words) - 1
    <3>1. A # {} /\ top \in Int /\ -1 \in Int /\ \A x \in A : x \in Int /\ -1 <= x /\ x <= top
      BY <1>2, <1>5, <1>7, <2>2
    <3>2. hi = B!Max(A)
      BY <2>2
    <3>3. \A x \in A : x \in Int
      BY <1>2, <1>5
    <3>4. hi \in A /\ \A x \in A : x <= hi
      <4> HIDE DEF A, hi, top
      <4> QED
        BY <3>1, <3>2, MinMax
    <3> HIDE DEF hi
    <3> QED
      BY <3>3, <3>4
  <2> QED
    BY <2>1, <2>2
<1> HIDE DEF ws, lo, hi
<1> QED
  BY <1>1, <1>4, <1>5, <1>6, <1>8, <1>9, WidenedCovered

(* Every bit that is set lies in the range of touched words, for every word  *)
(* size, capacity and automaton: none is hidden from All, none survives      *)
(* Reset (bitset.Set under Grow, Add, Union and Reset).                      *)
THEOREM BoundsTheorem == Spec => []BoundsCover
<1>1. Init => Covered(candidates)
  BY DEF Init, Covered, B!Zero
<1>2. Covered(candidates) /\ [Next]_vars => Covered(candidates)'
  <2> SUFFICES ASSUME Covered(candidates), [Next]_vars PROVE Covered(candidates')
    BY DEF Covered
  <2>1. ASSUME NEW n \in Sizes, Grow(n) PROVE Covered(candidates')
    BY <2>1, GrownCovered, PrefilterAssumption DEF Grow
  <2>2. ASSUME NEW value \in Values, Scan(value) PROVE Covered(candidates')
    BY <2>2, AddedCovered DEF Scan
  <2>3. ASSUME NEW other \in Others, Union(other) PROVE Covered(candidates')
    BY <2>3, AddedCovered DEF Union
  <2>4. CASE Reset
    BY <2>4, ClearedCovered DEF Reset
  <2>5. CASE UNCHANGED vars
    BY <2>5 DEF vars
  <2> QED
    BY <2>1, <2>2, <2>3, <2>4, <2>5 DEF Next
<1>3. Covered(candidates) => BoundsCover
  BY DEF Covered, BoundsCover, B!IsEmpty
<1> QED
  BY <1>1, <1>2, <1>3, PTL DEF Spec

(* What All lists is what Has answers for: the two ways of reading a set     *)
(* agree whenever its bounds cover it (bitset.Set.All, Set.Has).             *)
THEOREM AllIsMembers ==
  ASSUME NEW s, Covered(s), NEW v
  PROVE  v \in B!All(s) <=> B!Has(s, v)
<1>1. Len(s.words) \in Nat /\ DOMAIN s.words = 1..Len(s.words)
      /\ s.lo \in Int /\ s.hi \in Int
  BY DEF Covered
<1>2. CASE B!IsEmpty(s)
  <2>1. \A k \in 1..Len(s.words) : s.words[k] = {}
    BY <1>1, <1>2 DEF Covered, B!IsEmpty
  <2> QED
    BY <1>1, <1>2, <2>1 DEF B!All, B!Has
<1>3. CASE ~B!IsEmpty(s)
  <2>1. s.lo \in 0..Len(s.words) /\ s.hi \in -1..(Len(s.words) - 1)
    BY <1>3 DEF Covered, B!IsEmpty
  <2>2. v \in B!All(s) <=> \E w \in s.lo..s.hi : \E b \in s.words[w + 1] : v = w * WordBits + b
    BY <1>3 DEF B!All
  <2>3. ASSUME NEW w \in s.lo..s.hi PROVE w + 1 \in 1..Len(s.words) /\ (w + 1) - 1 = w
    BY <1>1, <2>1, <2>3
  <2>4. ASSUME NEW k \in 1..Len(s.words), NEW b \in s.words[k]
        PROVE  k - 1 \in s.lo..s.hi /\ (k - 1) + 1 = k
    BY <1>1, <2>4 DEF Covered
  <2>5. B!Has(s, v) => v \in B!All(s)
    <3> SUFFICES ASSUME NEW k \in 1..Len(s.words), NEW b \in s.words[k],
                        v = (k - 1) * WordBits + b
                 PROVE  v \in B!All(s)
      BY <1>1 DEF B!Has
    <3>1. k - 1 \in s.lo..s.hi /\ b \in s.words[(k - 1) + 1]
      BY <2>4
    <3> QED
      BY <2>2, <3>1
  <2>6. v \in B!All(s) => B!Has(s, v)
    <3> SUFFICES ASSUME NEW w \in s.lo..s.hi, NEW b \in s.words[w + 1], v = w * WordBits + b
                 PROVE  B!Has(s, v)
      BY <2>2
    <3>1. w + 1 \in DOMAIN s.words /\ v = ((w + 1) - 1) * WordBits + b
      BY <1>1, <2>3
    <3> QED
      BY <3>1 DEF B!Has
  <2> QED
    BY <2>5, <2>6
<1> QED
  BY <1>2, <1>3

-----------------------------------------------------------------------------
(* Induction, over the set of numbers for which something holds *)

LEMMA Everywhere ==
  ASSUME NEW S, \A n \in Nat : (\A m \in Nat : m < n => m \in S) => n \in S
  PROVE  Nat \subseteq S
<1> SUFFICES ASSUME Nat \ S # {} PROVE FALSE
  OBVIOUS
<1>1. PICK n \in Nat \ S : \A k \in Nat \ S : n <= k
  BY Least
<1>2. \A m \in Nat : m < n => m \in S
  BY <1>1
<1> QED
  BY <1>1, <1>2

LEMMA Upwards ==
  ASSUME NEW S, 0 \in S, \A n \in Nat : n \in S => n + 1 \in S
  PROVE  Nat \subseteq S
<1>1. ASSUME NEW n \in Nat, \A m \in Nat : m < n => m \in S PROVE n \in S
  <2>1. CASE n = 0
    BY <2>1
  <2>2. CASE n # 0
    <3>1. n - 1 \in Nat /\ n - 1 < n /\ (n - 1) + 1 = n
      BY <2>2
    <3> QED
      BY <1>1, <3>1
  <2> QED
    BY <2>1, <2>2
<1> QED
  BY <1>1, Everywhere

-----------------------------------------------------------------------------
(* Suffixes *)

\* t ends with s.
Ends(t, s) ==
  Len(s) <= Len(t) /\ \A i \in 1..Len(s) : s[i] = t[Len(t) - Len(s) + i]

LEMMA EndsTrivially == ASSUME NEW C, NEW t \in Seq(C) PROVE Ends(t, t) /\ Ends(t, <<>>)
BY DEF Ends

LEMMA EndsTransitive ==
  ASSUME NEW C, NEW t \in Seq(C), NEW s \in Seq(C), NEW r \in Seq(C), Ends(t, s), Ends(s, r)
  PROVE  Ends(t, r)
<1>1. Len(t) \in Nat /\ Len(s) \in Nat /\ Len(r) \in Nat
  OBVIOUS
<1>2. ASSUME NEW i \in 1..Len(r) PROVE r[i] = t[Len(t) - Len(r) + i]
  <2>1. Len(s) - Len(r) + i \in 1..Len(s)
    BY <1>1 DEF Ends
  <2>2. r[i] = s[Len(s) - Len(r) + i]
    BY DEF Ends
  <2>3. s[Len(s) - Len(r) + i] = t[Len(t) - Len(s) + (Len(s) - Len(r) + i)]
    BY <2>1 DEF Ends
  <2>4. Len(t) - Len(s) + (Len(s) - Len(r) + i) = Len(t) - Len(r) + i
    BY <1>1
  <2> QED
    BY <2>2, <2>3, <2>4
<1> QED
  BY <1>1, <1>2 DEF Ends

\* Of two ends of one text the longer ends with the shorter.
LEMMA EndsNested ==
  ASSUME NEW C, NEW t \in Seq(C), NEW s \in Seq(C), NEW r \in Seq(C),
         Ends(t, s), Ends(t, r), Len(r) <= Len(s)
  PROVE  Ends(s, r) /\ (Len(r) = Len(s) => r = s)
<1>1. Len(t) \in Nat /\ Len(s) \in Nat /\ Len(r) \in Nat
  OBVIOUS
<1>2. ASSUME NEW i \in 1..Len(r) PROVE r[i] = s[Len(s) - Len(r) + i]
  <2>1. Len(s) - Len(r) + i \in 1..Len(s)
    BY <1>1
  <2>2. r[i] = t[Len(t) - Len(r) + i]
    BY DEF Ends
  <2>3. s[Len(s) - Len(r) + i] = t[Len(t) - Len(s) + (Len(s) - Len(r) + i)]
    BY <2>1 DEF Ends
  <2>4. Len(t) - Len(s) + (Len(s) - Len(r) + i) = Len(t) - Len(r) + i
    BY <1>1
  <2> QED
    BY <2>2, <2>3, <2>4
<1>3. ASSUME Len(r) = Len(s) PROVE r = s
  <2>1. \A i \in 1..Len(r) : r[i] = s[i]
    <3> TAKE i \in 1..Len(r)
    <3>1. r[i] = s[Len(s) - Len(r) + i] /\ Len(s) - Len(r) + i = i
      BY <1>1, <1>2, <1>3
    <3> QED
      BY <3>1
  <2> QED
    BY <1>3, <2>1, SeqEqual
<1> QED
  BY <1>2, <1>3 DEF Ends

LEMMA EndsAppend ==
  ASSUME NEW C, NEW t \in Seq(C), NEW s \in Seq(C), NEW c \in C, Ends(t, s)
  PROVE  Ends(Append(t, c), Append(s, c))
<1> DEFINE tc == Append(t, c) sc == Append(s, c)
<1>1. /\ Len(t) \in Nat /\ Len(s) \in Nat /\ Len(tc) = Len(t) + 1 /\ Len(sc) = Len(s) + 1
      /\ \A i \in 1..Len(t) : tc[i] = t[i]
      /\ \A i \in 1..Len(s) : sc[i] = s[i]
      /\ tc[Len(t) + 1] = c /\ sc[Len(s) + 1] = c
  OBVIOUS
<1> HIDE DEF tc, sc
<1>2. ASSUME NEW i \in 1..Len(sc) PROVE sc[i] = tc[Len(tc) - Len(sc) + i]
  <2>1. CASE i = Len(s) + 1
    <3>1. Len(tc) - Len(sc) + i = Len(t) + 1
      BY <1>1, <2>1
    <3> QED
      BY <1>1, <2>1, <3>1
  <2>2. CASE i # Len(s) + 1
    <3>1. i \in 1..Len(s) /\ Len(tc) - Len(sc) + i = Len(t) - Len(s) + i
      BY <1>1, <2>2
    <3>2. Len(t) - Len(s) + i \in 1..Len(t)
      BY <1>1, <3>1 DEF Ends
    <3> QED
      BY <1>1, <3>1, <3>2 DEF Ends
  <2> QED
    BY <2>1, <2>2
<1>3. Ends(tc, sc)
  BY <1>1, <1>2 DEF Ends
<1> QED
  BY <1>3 DEF tc, sc

\* A text's beginning without its last character.
LEMMA FrontLast ==
  ASSUME NEW C, NEW s \in Seq(C), s # <<>>
  PROVE  /\ Front(s) \in Seq(C) /\ Len(Front(s)) = Len(s) - 1 /\ Last(s) \in C
         /\ s = Append(Front(s), Last(s))
<1>1. Len(s) \in Nat /\ Len(s) > 0
  OBVIOUS
<1>2. Front(s) \in Seq(C) /\ Len(Front(s)) = Len(s) - 1
      /\ \A i \in 1..(Len(s) - 1) : Front(s)[i] = s[i]
  <2> DEFINE n == Len(s) - 1
  <2>1. n \in Int /\ 1 \in Int /\ \A i \in 1..n : s[i] \in C
    BY <1>1
  <2>2. n - 1 + 1 = n /\ n >= 0 /\ \A i \in 1..n : 1 + i - 1 = i
    BY <1>1
  <2> HIDE DEF n
  <2>3. /\ SubSeq(s, 1, n) \in Seq(C)
        /\ Len(SubSeq(s, 1, n)) = IF 1 <= n THEN n - 1 + 1 ELSE 0
        /\ \A i \in 1..(n - 1 + 1) : SubSeq(s, 1, n)[i] = s[1 + i - 1]
    BY <2>1, SubSeqProperties
  <2>4. Len(SubSeq(s, 1, n)) = n /\ \A i \in 1..n : SubSeq(s, 1, n)[i] = s[i]
    BY <2>1, <2>2, <2>3
  <2> QED
    BY <2>3, <2>4 DEF Front, n
<1>3. Last(s) \in C
  BY <1>1 DEF Last
<1>4. /\ Append(Front(s), Last(s)) \in Seq(C) /\ Len(Append(Front(s), Last(s))) = Len(s)
      /\ \A i \in 1..Len(s) : Append(Front(s), Last(s))[i] = s[i]
  <2> HIDE DEF Front
  <2>1. Len(Append(Front(s), Last(s))) = Len(s) /\ Append(Front(s), Last(s)) \in Seq(C)
    BY <1>1, <1>2, <1>3
  <2>2. ASSUME NEW i \in 1..Len(s) PROVE Append(Front(s), Last(s))[i] = s[i]
    BY <1>1, <1>2, <1>3 DEF Last
  <2> QED
    BY <2>1, <2>2
<1> QED
  BY <1>2, <1>3, <1>4, SeqEqual

LEMMA EndsFront ==
  ASSUME NEW C, NEW t \in Seq(C), NEW c \in C, NEW u \in Seq(C), u # <<>>,
         Ends(Append(t, c), u)
  PROVE  /\ u = Append(Front(u), c) /\ Ends(t, Front(u))
         /\ Front(u) \in Seq(C) /\ Len(Front(u)) = Len(u) - 1
<1> DEFINE v == Front(u) tc == Append(t, c)
<1>1. v \in Seq(C) /\ Len(v) = Len(u) - 1 /\ u = Append(v, Last(u)) /\ Last(u) \in C
  BY FrontLast
<1>2. /\ Len(t) \in Nat /\ Len(u) \in Nat /\ Len(u) > 0 /\ Len(tc) = Len(t) + 1
      /\ \A i \in 1..Len(t) : tc[i] = t[i]
      /\ tc[Len(t) + 1] = c
  OBVIOUS
<1> HIDE DEF v, tc
<1>3. Len(u) <= Len(tc) /\ \A i \in 1..Len(u) : u[i] = tc[Len(tc) - Len(u) + i]
  BY DEF Ends, tc
<1>4. Last(u) = c
  <2>1. Len(u) \in 1..Len(u) /\ Len(tc) - Len(u) + Len(u) = Len(t) + 1
    BY <1>2
  <2> QED
    BY <1>2, <1>3, <2>1 DEF Last
<1>5. ASSUME NEW i \in 1..Len(v) PROVE v[i] = t[Len(t) - Len(v) + i]
  <2>1. i \in 1..Len(u) /\ Len(tc) - Len(u) + i = Len(t) - Len(v) + i
    BY <1>1, <1>2
  <2>2. u[i] = v[i]
    BY <1>1, <1>2
  <2>3. Len(t) - Len(v) + i \in 1..Len(t)
    BY <1>1, <1>2, <1>3
  <2> QED
    BY <1>2, <1>3, <2>1, <2>2, <2>3
<1>6. Len(v) <= Len(t)
  BY <1>1, <1>2, <1>3
<1> QED
  BY <1>1, <1>4, <1>5, <1>6 DEF Ends, v
-----------------------------------------------------------------------------
(* Functions defined along a chain of ever smaller arguments *)

Descends(f, S, stop, base, next) ==
  f = [s \in S |-> IF stop[s] THEN base[s] ELSE f[next[s]]]

LEMMA Descent ==
  ASSUME NEW S, NEW rank, NEW N \in Nat, \A s \in S : rank[s] \in Nat /\ rank[s] <= N,
         NEW stop, NEW base, NEW next,
         \A s \in S : ~stop[s] => next[s] \in S /\ rank[next[s]] < rank[s]
  PROVE  \E f : Descends(f, S, stop, base, next)
<1> DEFINE D(n) == {s \in S : rank[s] < n}
           K == {n \in Nat : \E f : f = [s \in D(n) |-> IF stop[s] THEN base[s] ELSE f[next[s]]]}
<1>1. 0 \in K
  <2> DEFINE f == [s \in D(0) |-> 0]
  <2>1. D(0) = {}
    OBVIOUS
  <2>2. f = [s \in D(0) |-> IF stop[s] THEN base[s] ELSE f[next[s]]]
    BY <2>1
  <2> QED
    BY <2>2
<1>2. ASSUME NEW n \in Nat, n \in K PROVE n + 1 \in K
  <2>1. PICK f : f = [s \in D(n) |-> IF stop[s] THEN base[s] ELSE f[next[s]]]
    BY <1>2
  <2> DEFINE g == [s \in D(n + 1) |-> IF stop[s] THEN base[s] ELSE f[next[s]]]
  <2>2. \A s \in D(n) : g[s] = f[s]
    <3> TAKE s \in D(n)
    <3>1. s \in D(n + 1)
      OBVIOUS
    <3>2. g[s] = IF stop[s] THEN base[s] ELSE f[next[s]]
      BY <3>1
    <3>3. f[s] = IF stop[s] THEN base[s] ELSE f[next[s]]
      BY <2>1 
    <3> QED
      BY <3>2, <3>3
  <2>3. \A s \in D(n + 1) : ~stop[s] => next[s] \in D(n)
    OBVIOUS
  <2>4. g = [s \in D(n + 1) |-> IF stop[s] THEN base[s] ELSE g[next[s]]]
    <3>1. \A s \in D(n + 1) : (IF stop[s] THEN base[s] ELSE f[next[s]])
                              = (IF stop[s] THEN base[s] ELSE g[next[s]])
      BY <2>2, <2>3
    <3> HIDE DEF D
    <3> QED
      BY <3>1
  <2> HIDE DEF g
  <2> QED
    BY <2>4
<1> HIDE DEF K
<1>3. N + 1 \in K
  BY <1>1, <1>2, Upwards
<1>4. D(N + 1) = S
  OBVIOUS
<1> HIDE DEF D
<1> QED
  BY <1>3, <1>4 DEF K, Descends

-----------------------------------------------------------------------------
(* The states of an automaton *)

\* A set of texts that holds every beginning of each.
Closed(C, S) ==
  S \subseteq Seq(C) /\ <<>> \in S /\ \A s \in S : s # <<>> => Front(s) \in S

\* r is the longest of S that t ends with.
Longest(S, t, r) == r \in S /\ Ends(t, r) /\ \A u \in S : Ends(t, u) => Len(u) <= Len(r)

\* fail leads from each text of S to the longest other that it ends with.
FailsRight(S, fail) ==
  \A s \in S : s # <<>> =>
    /\ fail[s] \in S /\ Ends(s, fail[s]) /\ Len(fail[s]) < Len(s)
    /\ \A u \in S : Ends(s, u) /\ Len(u) < Len(s) => Len(u) <= Len(fail[s])

(* To extend a text by a character it is enough to know the longest state    *)
(* that it ends with and that the character may follow.                      *)
LEMMA Extended ==
  ASSUME NEW C, NEW S, Closed(C, S), NEW t \in Seq(C), NEW p \in S, NEW c \in C, Ends(t, p),
         \A v \in S : Ends(t, v) /\ Append(v, c) \in S => Len(v) <= Len(p),
         NEW r, Longest(S, Append(p, c), r)
  PROVE  Longest(S, Append(t, c), r)
<1>1. p \in Seq(C) /\ r \in Seq(C) /\ Append(p, c) \in Seq(C) /\ Append(t, c) \in Seq(C)
  BY DEF Closed, Longest
<1>2. Ends(Append(t, c), Append(p, c))
  BY <1>1, EndsAppend
<1>3. Ends(Append(t, c), r)
  BY <1>1, <1>2, EndsTransitive DEF Longest
<1>4. ASSUME NEW u \in S, Ends(Append(t, c), u) PROVE Len(u) <= Len(r)
  <2>1. u \in Seq(C)
    BY DEF Closed
  <2>2. CASE u = <<>>
    BY <1>1, <2>2
  <2>3. CASE u # <<>>
    <3>1. u = Append(Front(u), c) /\ Ends(t, Front(u)) /\ Front(u) \in Seq(C)
      BY <1>4, <2>1, <2>3, EndsFront
    <3>2. Front(u) \in S
      BY <2>3 DEF Closed
    <3>3. Len(Front(u)) <= Len(p)
      BY <3>1, <3>2
    <3>4. Ends(p, Front(u))
      BY <1>1, <3>1, <3>3, EndsNested
    <3>5. Ends(Append(p, c), u)
      BY <1>1, <3>1, <3>4, EndsAppend
    <3> QED
      BY <3>5 DEF Longest
  <2> QED
    BY <2>2, <2>3
<1> QED
  BY <1>3, <1>4 DEF Longest

LEMMA LongestOfState ==
  ASSUME NEW C, NEW S, Closed(C, S), NEW t \in S
  PROVE  Longest(S, t, t)
BY EndsTrivially DEF Closed, Longest, Ends

(* Automaton.child follows failure links to the longest state that a state   *)
(* and a character end with.                                                 *)
LEMMA ConsumeLongest ==
  ASSUME NEW C, NEW S, Closed(C, S), NEW N \in Nat, \A s \in S : Len(s) <= N,
         NEW fail, FailsRight(S, fail), NEW c \in C, NEW from \in S
  PROVE  Longest(S, Append(from, c), Consume(S, fail, from, c))
<1> DEFINE Body(g) == [s \in S |-> IF Append(s, c) \in S THEN Append(s, c)
                                   ELSE IF s = Root THEN Root ELSE g[fail[s]]]
           go == CHOOSE g : g = Body(g)
<1>1. Consume(S, fail, from, c) = go[from]
  BY DEF Consume
<1>2. \A s \in S : s \in Seq(C) /\ Len(s) \in Nat
  BY DEF Closed
<1>3. \E g : g = Body(g)
  <2> DEFINE rank == [s \in S |-> Len(s)]
             stop == [s \in S |-> Append(s, c) \in S \/ s = Root]
             base == [s \in S |-> IF Append(s, c) \in S THEN Append(s, c) ELSE Root]
  <2>1. \A s \in S : rank[s] \in Nat /\ rank[s] <= N
    BY <1>2
  <2>2. \A s \in S : ~stop[s] => fail[s] \in S /\ rank[fail[s]] < rank[s]
    BY DEF FailsRight, Root
  <2>3. ASSUME NEW g, Descends(g, S, stop, base, fail) PROVE g = Body(g)
    BY <2>3 DEF Descends
  <2> HIDE DEF rank, stop, base, Body
  <2>4. \E g : Descends(g, S, stop, base, fail)
    BY <2>1, <2>2, Descent
  <2> QED
    BY <2>3, <2>4
<1>4. go = Body(go)
  <2> HIDE DEF Body
  <2> QED
    BY <1>3
<1> HIDE DEF go
<1>5. \A s \in S : go[s] = IF Append(s, c) \in S THEN Append(s, c)
                           ELSE IF s = Root THEN Root ELSE go[fail[s]]
  BY <1>4
<1> DEFINE K == {n \in Nat : \A s \in S : Len(s) = n => Longest(S, Append(s, c), go[s])}
<1>6. ASSUME NEW n \in Nat, \A m \in Nat : m < n => m \in K PROVE n \in K
  <2> SUFFICES ASSUME NEW s \in S, Len(s) = n PROVE Longest(S, Append(s, c), go[s])
    OBVIOUS
  <2>0. Append(s, c) \in Seq(C) /\ s \in Seq(C)
    BY <1>2
  <2>1. CASE Append(s, c) \in S
    BY <1>5, <2>1, LongestOfState
  <2>2. CASE Append(s, c) \notin S /\ s = Root
    <3>1. go[s] = <<>> /\ <<>> \in S /\ Ends(Append(s, c), <<>>)
      BY <1>5, <2>0, <2>2, EndsTrivially DEF Root, Closed
    <3>2. ASSUME NEW u \in S, Ends(Append(s, c), u) PROVE Len(u) <= 0
      <4>1. u \in Seq(C) /\ s = <<>>
        BY <2>2 DEF Closed, Root
      <4>2. u # <<>> => u = Append(Front(u), c) /\ Ends(s, Front(u)) /\ Front(u) \in Seq(C)
        BY <2>0, <3>2, <4>1, EndsFront
      <4>3. u # <<>> => Front(u) = <<>>
        BY <4>1, <4>2 DEF Ends
      <4>4. u = <<>>
        BY <2>2, <4>1, <4>2, <4>3
      <4> QED
        BY <4>4
    <3> QED
      BY <3>1, <3>2 DEF Longest
  <2>3. CASE Append(s, c) \notin S /\ s # Root
    <3>1. /\ fail[s] \in S /\ Ends(s, fail[s]) /\ Len(fail[s]) < Len(s)
          /\ \A u \in S : Ends(s, u) /\ Len(u) < Len(s) => Len(u) <= Len(fail[s])
      BY <2>3 DEF FailsRight, Root
    <3>2. go[s] = go[fail[s]]
      BY <1>5, <2>3
    <3>3. Longest(S, Append(fail[s], c), go[fail[s]])
      BY <1>2, <1>6, <3>1
    <3>4. ASSUME NEW v \in S, Ends(s, v), Append(v, c) \in S PROVE Len(v) <= Len(fail[s])
      <4>1. v \in Seq(C) /\ Len(v) <= Len(s)
        BY <1>2, <3>4 DEF Ends
      <4>2. Len(v) # Len(s)
        BY <2>0, <2>3, <3>4, <4>1, EndsNested, EndsTrivially
      <4> QED
        BY <1>2, <3>1, <3>4, <4>1, <4>2
    <3> QED
      BY <2>0, <3>1, <3>2, <3>3, <3>4, Extended
  <2> QED
    BY <2>1, <2>2, <2>3
<1> HIDE DEF K
<1>7. Nat \subseteq K
  BY <1>6, Everywhere
<1> QED
  BY <1>1, <1>2, <1>7 DEF K
LEMMA Bounded ==
  ASSUME NEW S, S # {}, NEW n \in Nat, \A x \in S : x \in Nat /\ x <= n
  PROVE  Max(S) \in S /\ \A x \in S : x <= Max(S)
<1>1. B!Max(S) \in S /\ \A x \in S : x <= B!Max(S)
  BY MinMax
<1>2. \E m \in S : \A x \in S : m >= x
  BY <1>1
<1> QED
  BY <1>2 DEF Max

\* The states no longer than n.
Short(S, n) == {t \in S : Len(t) <= n}

LEMMA ShortClosed ==
  ASSUME NEW C, NEW S, Closed(C, S), NEW n \in Nat
  PROVE  Closed(C, Short(S, n))
<1>1. \A s \in S : s \in Seq(C) /\ Len(s) \in Nat
  BY DEF Closed
<1>2. <<>> \in Short(S, n)
  BY DEF Closed, Short
<1>3. ASSUME NEW s \in Short(S, n), s # <<>> PROVE Front(s) \in Short(S, n)
  <2>1. s \in S /\ Len(s) <= n
    BY DEF Short
  <2>2. Front(s) \in S /\ Len(Front(s)) = Len(s) - 1
    BY <1>1, <1>3, <2>1, FrontLast DEF Closed
  <2> QED
    BY <1>1, <2>1, <2>2 DEF Short
<1> QED
  BY <1>1, <1>2, <1>3 DEF Closed, Short

\* buildLinks: what the links of shorter states give those of length n.
Level(S, n, links) ==
  [s \in Short(S, n) |->
     IF Len(s) < n THEN links[s]
     ELSE Consume({t \in S : Len(t) < n}, links, links[Front(s)], Last(s))]

LEMMA LevelRight ==
  ASSUME NEW C, NEW S, Closed(C, S), NEW n \in Nat, n > 1,
         NEW links, FailsRight(Short(S, n - 1), links)
  PROVE  FailsRight(Short(S, n), Level(S, n, links))
<1> DEFINE T == Short(S, n - 1)
           fail == Level(S, n, links)
<1>0. n - 1 \in Nat /\ \A s \in S : s \in Seq(C) /\ Len(s) \in Nat
  BY DEF Closed
<1>1. T = {t \in S : Len(t) < n} /\ T \subseteq Short(S, n)
  BY <1>0 DEF Short
<1>2. Closed(C, T) /\ \A s \in T : Len(s) <= n - 1
  BY <1>0, ShortClosed DEF Short
<1>3. \A s \in Short(S, n) : fail[s] = IF Len(s) < n THEN links[s]
                                       ELSE Consume(T, links, links[Front(s)], Last(s))
  BY <1>1 DEF Level
<1> HIDE DEF fail
<1>4. ASSUME NEW s \in Short(S, n), s # <<>>
      PROVE  /\ fail[s] \in T /\ Ends(s, fail[s]) /\ Len(fail[s]) < Len(s)
             /\ \A u \in Short(S, n) : Ends(s, u) /\ Len(u) < Len(s) => Len(u) <= Len(fail[s])
  <2>1. s \in S /\ s \in Seq(C) /\ Len(s) \in Nat /\ Len(s) <= n
    BY <1>0 DEF Short
  <2>2. \A u \in Short(S, n) : Len(u) < Len(s) => u \in T
    BY <1>0, <1>1, <2>1 DEF Short
  <2>3. CASE Len(s) < n
    <3>1. s \in T /\ fail[s] = links[s]
      BY <1>1, <1>3, <2>1, <2>3
    <3> QED
      BY <1>4, <2>2, <3>1 DEF FailsRight
  <2>4. CASE ~(Len(s) < n)
    <3> DEFINE p == Front(s) c == Last(s) q == links[p] r == Consume(T, links, q, c)
    <3>1. Len(s) = n /\ fail[s] = r
      BY <1>3, <2>1, <2>4
    <3>2. p \in Seq(C) /\ Len(p) = n - 1 /\ c \in C /\ s = Append(p, c) /\ p \in S
      BY <1>4, <2>1, <3>1, FrontLast DEF Closed
    <3>3. p \in T /\ p # <<>>
      BY <1>0, <3>2 DEF Short
    <3>4. /\ q \in T /\ Ends(p, q) /\ Len(q) < Len(p)
          /\ \A u \in T : Ends(p, u) /\ Len(u) < Len(p) => Len(u) <= Len(q)
      BY <3>3 DEF FailsRight
    <3> HIDE DEF T, p, c, q, r
    <3>5. Longest(T, Append(q, c), r)
      BY <1>0, <1>2, <3>2, <3>4, ConsumeLongest DEF T, r
    <3>6. ASSUME NEW v \in T, Ends(p, v), Append(v, c) \in T PROVE Len(v) <= Len(q)
      <4>1. v \in Seq(C) /\ Len(Append(v, c)) <= n - 1
        BY <1>2, <3>6 DEF Closed
      <4>2. Len(v) < Len(p)
        BY <1>0, <3>2, <4>1
      <4> QED
        BY <3>4, <3>6, <4>2
    <3>7. Longest(T, s, r)
      BY <1>2, <3>2, <3>4, <3>5, <3>6, Extended
    <3>8. r \in Seq(C) /\ Len(r) <= n - 1
      BY <1>2, <3>7 DEF Longest, Closed
    <3>9. Len(r) < Len(s)
      BY <1>0, <3>1, <3>8
    <3> QED
      BY <2>2, <3>1, <3>7, <3>9 DEF Longest
  <2> QED
    BY <2>3, <2>4
<1>5. FailsRight(Short(S, n), fail)
  BY <1>1, <1>4 DEF FailsRight
<1> QED
  BY <1>5 DEF fail

(* buildLinks gives every state the longest other state that it ends with. *)
LEMMA LinksRight ==
  ASSUME NEW C, NEW S, Closed(C, S), NEW N \in Nat, \A s \in S : Len(s) <= N
  PROVE  FailsRight(S, FailLinks(S))
<1> DEFINE M == Max({Len(s) : s \in S})
           Bottom(n) == [s \in Short(S, n) |-> Root]
           Body(u, n) == [m \in 0..n |-> IF m <= 1 THEN Bottom(m) ELSE Level(S, m, u[m - 1])]
           upto == CHOOSE u : u = Body(u, M)
<1>0. \A s \in S : s \in Seq(C) /\ Len(s) \in Nat
  BY DEF Closed
<1>1. M \in Nat /\ \A s \in S : Len(s) <= M
  <2> DEFINE L == {Len(s) : s \in S}
  <2>1. L # {} /\ \A x \in L : x \in Nat /\ x <= N
    BY <1>0 DEF Closed
  <2>2. \A s \in S : Len(s) \in L
    OBVIOUS
  <2> HIDE DEF L
  <2>3. Max(L) \in L /\ \A x \in L : x <= Max(L)
    BY <2>1, Bounded
  <2> QED
    BY <2>1, <2>2, <2>3 DEF L
<1>2. FailLinks(S) = upto[M]
  BY DEF FailLinks, Level, Short
<1> HIDE DEF M, Bottom
<1> DEFINE K == {n \in Nat : \E u : u = Body(u, n)}
<1>3. 0 \in K
  <2> DEFINE u == [m \in 0..0 |-> Bottom(m)]
  <2>1. u = Body(u, 0)
    OBVIOUS
  <2> QED
    BY <2>1
<1>4. ASSUME NEW n \in Nat, n \in K PROVE n + 1 \in K
  <2>1. PICK u : u = Body(u, n)
    BY <1>4
  <2> DEFINE w == [m \in 0..(n + 1) |-> IF m <= 1 THEN Bottom(m) ELSE Level(S, m, u[m - 1])]
  <2>2. \A m \in 0..n : w[m] = u[m]
    <3> TAKE m \in 0..n
    <3>1. w[m] = IF m <= 1 THEN Bottom(m) ELSE Level(S, m, u[m - 1])
      OBVIOUS
    <3>2. u[m] = IF m <= 1 THEN Bottom(m) ELSE Level(S, m, u[m - 1])
      BY <2>1
    <3> QED
      BY <3>1, <3>2
  <2>3. \A m \in 0..(n + 1) : (IF m <= 1 THEN Bottom(m) ELSE Level(S, m, u[m - 1]))
                              = (IF m <= 1 THEN Bottom(m) ELSE Level(S, m, w[m - 1]))
    <3> TAKE m \in 0..(n + 1)
    <3>1. m > 1 => m - 1 \in 0..n
      OBVIOUS
    <3> HIDE DEF w
    <3>2. m > 1 => u[m - 1] = w[m - 1]
      BY <2>2, <3>1
    <3> QED
      BY <3>2
  <2>4. w = Body(w, n + 1)
    BY <2>3
  <2> HIDE DEF w
  <2> QED
    BY <2>4
<1>5. \E u : u = Body(u, M)
  <2> HIDE DEF K
  <2>1. M \in K
    BY <1>1, <1>3, <1>4, Upwards
  <2> QED
    BY <2>1 DEF K
<1>6. upto = Body(upto, M)
  <2> HIDE DEF Body
  <2> QED
    BY <1>5
<1> HIDE DEF upto
<1>7. \A m \in 0..M : upto[m] = IF m <= 1 THEN Bottom(m) ELSE Level(S, m, upto[m - 1])
  BY <1>6
<1> DEFINE J == {n \in Nat : n <= M => FailsRight(Short(S, n), upto[n])}
<1>8. ASSUME NEW n \in Nat, n <= 1, n <= M PROVE FailsRight(Short(S, n), upto[n])
  <2>1. upto[n] = Bottom(n)
    BY <1>1, <1>7, <1>8
  <2>2. ASSUME NEW s \in Short(S, n), s # <<>>
        PROVE  /\ upto[n][s] = <<>> /\ <<>> \in Short(S, n) /\ Ends(s, <<>>)
             /\ Len(s) \in Nat /\ Len(s) <= 1 /\ Len(s) > 0
    <3>1. s \in Seq(C) /\ Len(s) \in Nat /\ Len(s) <= n
      BY <1>0 DEF Short
    <3>2. Len(s) # 0
      BY <2>2, <3>1
    <3>3. <<>> \in Short(S, n)
      BY DEF Closed, Short
    <3>4. upto[n][s] = <<>>
      BY <2>1 DEF Bottom, Root
    <3>5. Ends(s, <<>>)
      BY <3>1, EndsTrivially
    <3>6. Len(s) <= 1
      BY <1>8, <3>1
    <3> QED
      BY <3>1, <3>2, <3>3, <3>4, <3>5, <3>6
  <2>3. \A u \in Short(S, n) : Len(u) \in Nat /\ (Len(u) < 1 => Len(u) <= 0)
    BY <1>0 DEF Short
  <2> QED
    BY <2>2, <2>3 DEF FailsRight
<1>9. ASSUME NEW n \in Nat, n \in J PROVE n + 1 \in J
  <2>1. CASE n + 1 <= 1
    <3>1. n + 1 \in Nat
      OBVIOUS
    <3> QED
      BY <1>8, <2>1, <3>1
  <2>2. CASE n + 1 > 1 /\ n + 1 <= M
    <3>1. n + 1 \in 0..M /\ (n + 1) - 1 = n /\ n <= M /\ n + 1 \in Nat
      BY <1>1, <2>2
    <3>2. upto[n + 1] = Level(S, n + 1, upto[n])
      <4>1. upto[n + 1] = IF n + 1 <= 1 THEN Bottom(n + 1) ELSE Level(S, n + 1, upto[n + 1 - 1])
        BY <1>7, <3>1
      <4> QED
        BY <2>2, <3>1, <4>1
    <3>3. FailsRight(Short(S, n + 1), Level(S, n + 1, upto[n]))
      BY <1>9, <2>2, <3>1, LevelRight
    <3> QED
      BY <3>1, <3>2, <3>3
  <2>3. CASE ~(n + 1 <= M)
    BY <2>3
  <2> QED
    BY <1>1, <2>1, <2>2, <2>3
<1>10. M \in J
  <2>1. 0 \in J
    BY <1>8
  <2> HIDE DEF J
  <2> QED
    BY <1>1, <1>9, <2>1, Upwards
<1>11. Short(S, M) = S
  BY <1>1 DEF Short
<1>12. FailsRight(Short(S, M), upto[M])
  BY <1>1, <1>10
<1> HIDE DEF Body, J
<1> QED
  BY <1>2, <1>11, <1>12
-----------------------------------------------------------------------------
(* Dictionary links and what is emitted at a state *)

\* dict leads from each text to the longest other that it ends with and that
\* has outputs.
DictRight(S, out, dict) ==
  \A s \in S : s # <<>> =>
    /\ dict[s] \in S /\ Ends(s, dict[s]) /\ Len(dict[s]) < Len(s)
    /\ \A u \in S : Ends(s, u) /\ Len(u) < Len(s) /\ out[u] # {} => Len(u) <= Len(dict[s])

LEMMA DictLinksRight ==
  ASSUME NEW C, NEW S, Closed(C, S), NEW N \in Nat, \A s \in S : Len(s) <= N,
         NEW fail, FailsRight(S, fail), NEW out
  PROVE  DictRight(S, out, DictLinks(S, out, fail))
<1> DEFINE Body(g) == [s \in S |-> IF s = Root THEN Root
                                   ELSE IF out[fail[s]] # {} THEN fail[s] ELSE g[fail[s]]]
           nearest == CHOOSE g : g = Body(g)
<1>1. DictLinks(S, out, fail) = nearest
  BY DEF DictLinks
<1>2. \A s \in S : s \in Seq(C) /\ Len(s) \in Nat
  BY DEF Closed
<1>3. \E g : g = Body(g)
  <2> DEFINE rank == [s \in S |-> Len(s)]
             stop == [s \in S |-> s = Root \/ out[fail[s]] # {}]
             base == [s \in S |-> IF s = Root THEN Root ELSE fail[s]]
  <2>1. \A s \in S : rank[s] \in Nat /\ rank[s] <= N
    BY <1>2
  <2>2. \A s \in S : ~stop[s] => fail[s] \in S /\ rank[fail[s]] < rank[s]
    BY DEF FailsRight, Root
  <2>3. ASSUME NEW g, Descends(g, S, stop, base, fail) PROVE g = Body(g)
    BY <2>3 DEF Descends
  <2> HIDE DEF rank, stop, base, Body
  <2>4. \E g : Descends(g, S, stop, base, fail)
    BY <2>1, <2>2, Descent
  <2> QED
    BY <2>3, <2>4
<1>4. nearest = Body(nearest)
  <2> HIDE DEF Body
  <2> QED
    BY <1>3
<1> HIDE DEF nearest
<1>5. \A s \in S : nearest[s] = IF s = Root THEN Root
                                ELSE IF out[fail[s]] # {} THEN fail[s] ELSE nearest[fail[s]]
  BY <1>4
<1> DEFINE Right(s) ==
             /\ nearest[s] \in S /\ Ends(s, nearest[s]) /\ Len(nearest[s]) < Len(s)
             /\ \A u \in S : Ends(s, u) /\ Len(u) < Len(s) /\ out[u] # {} =>
                  Len(u) <= Len(nearest[s])
           K == {n \in Nat : \A s \in S : Len(s) = n /\ s # <<>> => Right(s)}
<1>6. ASSUME NEW n \in Nat, \A m \in Nat : m < n => m \in K PROVE n \in K
  <2> SUFFICES ASSUME NEW s \in S, Len(s) = n, s # <<>> PROVE Right(s)
    OBVIOUS
  <2> DEFINE f == fail[s]
  <2>1. /\ f \in S /\ Ends(s, f) /\ Len(f) < Len(s)
        /\ \A u \in S : Ends(s, u) /\ Len(u) < Len(s) => Len(u) <= Len(f)
    BY DEF FailsRight
  <2>2. s \in Seq(C) /\ f \in Seq(C) /\ Len(s) \in Nat /\ Len(f) \in Nat
    BY <1>2, <2>1
  <2> HIDE DEF f
  <2>3. CASE out[f] # {}
    <3>1. nearest[s] = f
      BY <1>5, <2>3 DEF f, Root
    <3> QED
      BY <2>1, <3>1
  <2>4. CASE out[f] = {} /\ f = Root
    <3>1. nearest[s] = <<>>
      BY <1>5, <2>1, <2>4 DEF f, Root
    <3>2. <<>> \in S /\ Ends(s, <<>>) /\ Len(<<>>) < Len(s)
      BY <2>1, <2>4 DEF Root
    <3> QED
      BY <2>1, <2>4, <3>1, <3>2 DEF Root
  <2>5. CASE out[f] = {} /\ f # Root
    <3>1. nearest[s] = nearest[f]
      BY <1>5, <2>5 DEF f, Root
    <3>2. Right(f)
      BY <1>6, <2>1, <2>2, <2>5 DEF Root
    <3>3. nearest[f] \in Seq(C) /\ Len(nearest[f]) \in Nat
      BY <1>2, <3>2
    <3>4. Ends(s, nearest[f]) /\ Len(nearest[f]) < Len(s)
      BY <2>1, <2>2, <3>2, <3>3, EndsTransitive
    <3>5. ASSUME NEW u \in S, Ends(s, u), Len(u) < Len(s), out[u] # {}
          PROVE  Len(u) <= Len(nearest[f])
      <4>1. u \in Seq(C) /\ Len(u) \in Nat /\ Len(u) <= Len(f)
        BY <1>2, <2>1, <3>5
      <4>2. Ends(f, u) /\ (Len(u) = Len(f) => u = f)
        BY <2>1, <2>2, <3>5, <4>1, EndsNested
      <4>3. Len(u) < Len(f)
        BY <2>2, <2>5, <3>5, <4>1, <4>2
      <4> QED
        BY <3>2, <3>5, <4>2, <4>3
    <3> QED
      BY <3>1, <3>2, <3>4, <3>5
  <2> QED
    BY <2>3, <2>4, <2>5
<1> HIDE DEF K, Right
<1>7. Nat \subseteq K
  BY <1>6, Everywhere
<1>8. \A s \in S : s # <<>> => Right(s)
  BY <1>2, <1>7 DEF K
<1> QED
  BY <1>1, <1>8 DEF DictRight, Right

\* Sets gathered along a chain.
Gathers(f, S, out, next) ==
  f = [s \in S |-> IF s = Root THEN {} ELSE out[s] \cup f[next[s]]]

LEMMA Gathering ==
  ASSUME NEW S, NEW N \in Nat, \A s \in S : Len(s) \in Nat /\ Len(s) <= N, NEW out, NEW next,
         \A s \in S : s # Root => next[s] \in S /\ Len(next[s]) < Len(s)
  PROVE  \E f : Gathers(f, S, out, next)
<1> DEFINE D(n) == {s \in S : Len(s) < n}
           Is(f, n) == f = [s \in D(n) |-> IF s = Root THEN {} ELSE out[s] \cup f[next[s]]]
           K == {n \in Nat : \E f : Is(f, n)}
<1>1. 0 \in K
  <2> DEFINE f == [s \in D(0) |-> 0]
  <2>1. D(0) = {}
    OBVIOUS
  <2>2. Is(f, 0)
    BY <2>1
  <2> HIDE DEF Is, f
  <2> QED
    BY <2>2
<1>2. ASSUME NEW n \in Nat, n \in K PROVE n + 1 \in K
  <2>1. PICK f : Is(f, n)
    BY <1>2
  <2> DEFINE g == [s \in D(n + 1) |-> IF s = Root THEN {} ELSE out[s] \cup f[next[s]]]
  <2>2. \A s \in D(n) : g[s] = f[s]
    <3> TAKE s \in D(n)
    <3>1. s \in D(n + 1)
      OBVIOUS
    <3>2. g[s] = IF s = Root THEN {} ELSE out[s] \cup f[next[s]]
      BY <3>1
    <3>3. f[s] = IF s = Root THEN {} ELSE out[s] \cup f[next[s]]
      BY <2>1
    <3> QED
      BY <3>2, <3>3
  <2>3. \A s \in D(n + 1) : s # Root => next[s] \in D(n)
    OBVIOUS
  <2>4. g = [s \in D(n + 1) |-> IF s = Root THEN {} ELSE out[s] \cup g[next[s]]]
    <3>1. \A s \in D(n + 1) : (IF s = Root THEN {} ELSE out[s] \cup f[next[s]])
                              = (IF s = Root THEN {} ELSE out[s] \cup g[next[s]])
      BY <2>2, <2>3
    <3> HIDE DEF D
    <3> QED
      BY <3>1
  <2>5. Is(g, n + 1)
    BY <2>4
  <2> HIDE DEF g, Is
  <2> QED
    BY <2>5
<1> HIDE DEF K
<1>3. N + 1 \in K
  BY <1>1, <1>2, Upwards
<1>4. D(N + 1) = S
  OBVIOUS
<1>5. PICK f : Is(f, N + 1)
  <2> HIDE DEF Is
  <2> QED
    BY <1>3 DEF K
<1>6. Gathers(f, S, out, next)
  <2> HIDE DEF D
  <2> QED
    BY <1>4, <1>5 DEF Gathers
<1> QED
  BY <1>6

(* A state emits the outputs of every state it ends with. *)
LEMMA EmittedExact ==
  ASSUME NEW C, NEW a, Closed(C, a.states), NEW N \in Nat, \A s \in a.states : Len(s) <= N,
         DictRight(a.states, a.out, a.dict), NEW state \in a.states, NEW r
  PROVE  r \in Emitted(a, state) <=>
           \E u \in a.states : u # <<>> /\ Ends(state, u) /\ r \in a.out[u]
<1> DEFINE S == a.states
           Body(g) == [s \in S |-> IF s = Root THEN {} ELSE a.out[s] \cup g[a.dict[s]]]
           chain == CHOOSE g : g = Body(g)
<1>1. Emitted(a, state) = chain[state]
  BY DEF Emitted
<1>2. \A s \in S : s \in Seq(C) /\ Len(s) \in Nat
  BY DEF Closed
<1>3. \E g : g = Body(g)
  <2>1. \A s \in S : s # Root => a.dict[s] \in S /\ Len(a.dict[s]) < Len(s)
    BY DEF DictRight, Root
  <2>2. \E g : Gathers(g, S, a.out, a.dict)
    BY <1>2, <2>1, Gathering
  <2> QED
    BY <2>2 DEF Gathers
<1>4. chain = Body(chain)
  <2> HIDE DEF Body
  <2> QED
    BY <1>3
<1> HIDE DEF chain
<1>5. \A s \in S : chain[s] = IF s = Root THEN {} ELSE a.out[s] \cup chain[a.dict[s]]
  BY <1>4
<1> DEFINE Exactly(s) ==
             r \in chain[s] <=> \E u \in S : u # <<>> /\ Ends(s, u) /\ r \in a.out[u]
           K == {n \in Nat : \A s \in S : Len(s) = n => Exactly(s)}
<1>6. ASSUME NEW n \in Nat, \A m \in Nat : m < n => m \in K PROVE n \in K
  <2> SUFFICES ASSUME NEW s \in S, Len(s) = n PROVE Exactly(s)
    OBVIOUS
  <2>1. CASE s = <<>>
    <3>1. chain[s] = {}
      BY <1>5, <2>1 DEF Root
    <3>2. \A u \in S : Ends(s, u) => u = <<>>
      BY <1>2, <2>1 DEF Ends
    <3> QED
      BY <3>1, <3>2
  <2>2. CASE s # <<>>
    <3> DEFINE d == a.dict[s]
    <3>1. /\ d \in S /\ Ends(s, d) /\ Len(d) < Len(s)
          /\ \A u \in S : Ends(s, u) /\ Len(u) < Len(s) /\ a.out[u] # {} => Len(u) <= Len(d)
      BY <2>2 DEF DictRight
    <3>2. chain[s] = a.out[s] \cup chain[d]
      BY <1>5, <2>2 DEF Root
    <3> HIDE DEF d
    <3>3. Exactly(d)
      BY <1>2, <1>6, <3>1
    <3>4. s \in Seq(C) /\ d \in Seq(C) /\ Ends(s, s)
      BY <1>2, <3>1, EndsTrivially
    <3>5. ASSUME NEW u \in S, u # <<>>, Ends(s, u), r \in a.out[u]
          PROVE  u = s \/ Ends(d, u)
      <4>1. u \in Seq(C) /\ Len(u) \in Nat /\ Len(u) <= Len(s)
        BY <1>2, <3>5 DEF Ends
      <4>2. CASE Len(u) = Len(s)
        BY <3>4, <3>5, <4>1, <4>2, EndsNested
      <4>3. CASE Len(u) < Len(s)
        <5>1. Len(u) <= Len(d)
          BY <3>1, <3>5, <4>3
        <5> QED
          BY <3>1, <3>4, <3>5, <4>1, <5>1, EndsNested
      <4> QED
        BY <1>2, <4>1, <4>2, <4>3
    <3>6. ASSUME NEW u \in S, Ends(d, u) PROVE Ends(s, u)
      <4>1. u \in Seq(C)
        BY <1>2
      <4> QED
        BY <3>1, <3>4, <3>6, <4>1, EndsTransitive
    <3> QED
      BY <2>2, <3>2, <3>3, <3>4, <3>5, <3>6
  <2> QED
    BY <2>1, <2>2
<1> HIDE DEF K, Exactly
<1>7. Nat \subseteq K
  BY <1>6, Everywhere
<1>8. Exactly(state)
  BY <1>2, <1>7 DEF K
<1> QED
  BY <1>1, <1>8 DEF Exactly
-----------------------------------------------------------------------------
(* Folded texts and their beginnings *)

Lower == {Fold[c] : c \in DOMAIN Fold}
Beginning(t, n) == SubSeq(t, 1, n)

LEMMA FoldedText ==
  ASSUME NEW text \in Seq(DOMAIN Fold)
  PROVE  /\ Folded(text) \in Seq(Lower) /\ Len(Folded(text)) = Len(text)
         /\ \A i \in 1..Len(text) : Folded(text)[i] = Fold[text[i]]
<1>1. \A i \in 1..Len(text) : Fold[text[i]] \in Lower
  BY DEF Lower
<1>2. Len(text) \in Nat /\ DOMAIN text = 1..Len(text)
  OBVIOUS
<1> QED
  BY <1>1, <1>2 DEF Folded

LEMMA BeginningOf ==
  ASSUME NEW C, NEW t \in Seq(C), NEW n \in 0..Len(t)
  PROVE  /\ Beginning(t, n) \in Seq(C) /\ Len(Beginning(t, n)) = n
         /\ \A i \in 1..n : Beginning(t, n)[i] = t[i]
BY DEF Beginning

LEMMA BeginningNext ==
  ASSUME NEW C, NEW t \in Seq(C), NEW n \in 1..Len(t)
  PROVE  /\ Beginning(t, n) = Append(Beginning(t, n - 1), t[n])
         /\ Front(Beginning(t, n)) = Beginning(t, n - 1)
<1> DEFINE b == Beginning(t, n) p == Beginning(t, n - 1)
<1>1. n \in Nat /\ n - 1 \in Nat /\ n - 1 \in 0..Len(t) /\ n \in 0..Len(t) /\ Len(t) \in Nat
      /\ t[n] \in C
  OBVIOUS
<1>2. /\ b \in Seq(C) /\ Len(b) = n /\ \A i \in 1..n : b[i] = t[i]
  BY <1>1, BeginningOf
<1>3. /\ p \in Seq(C) /\ Len(p) = n - 1 /\ \A i \in 1..(n - 1) : p[i] = t[i]
  BY <1>1, BeginningOf
<1> HIDE DEF b, p
<1>4. b = Append(p, t[n])
  <2> DEFINE q == Append(p, t[n])
  <2>1. q \in Seq(C) /\ Len(q) = n
    BY <1>1, <1>3
  <2>2. \A i \in 1..n : q[i] = t[i]
    <3> TAKE i \in 1..n
    <3>1. CASE i = n
      BY <1>1, <1>3, <3>1
    <3>2. CASE i # n
      <4>1. i \in 1..(n - 1) /\ i \in 1..Len(p)
        BY <1>1, <1>3, <3>2
      <4>2. q[i] = p[i]
        BY <1>1, <1>3, <4>1
      <4> QED
        BY <1>3, <4>1, <4>2
    <3> QED
      BY <3>1, <3>2
  <2> HIDE DEF q
  <2> QED
    BY <1>2, <2>1, <2>2 DEF q
<1>5. b # <<>>
  BY <1>1, <1>2
<1>6. /\ Front(b) \in Seq(C) /\ Len(Front(b)) = n - 1 /\ b = Append(Front(b), Last(b))
      /\ Last(b) \in C
  BY <1>2, <1>5, FrontLast
<1>7. Front(b) = p
  <2> DEFINE f == Front(b) l == Last(b)
  <2>1. f \in Seq(C) /\ Len(f) = n - 1 /\ b = Append(f, l) /\ l \in C
    BY <1>6
  <2> HIDE DEF f, l
  <2>2. \A i \in 1..(n - 1) : f[i] = p[i]
    <3> TAKE i \in 1..(n - 1)
    <3>1. i \in 1..Len(f) /\ i \in 1..n
      BY <1>1, <2>1
    <3>2. Append(f, l)[i] = f[i]
      BY <1>1, <2>1, <3>1
    <3> QED
      BY <1>2, <1>3, <2>1, <3>1, <3>2
  <2>3. f = p
    BY <1>3, <2>1, <2>2
  <2> QED
    BY <2>3 DEF f
<1> QED
  BY <1>4, <1>7 DEF b, p

-----------------------------------------------------------------------------
(* The states of a ruleset *)

LEMMA RuleTyped ==
  ASSUME NEW rs \in Rulesets, NEW i \in DOMAIN rs
  PROVE  /\ rs[i].literal \in Seq(DOMAIN Fold) /\ rs[i].rule \in Nat
         /\ Len(rs) \in Nat /\ DOMAIN rs = 1..Len(rs)
<1> DEFINE Rule == [literal : Seq(DOMAIN Fold), rule : Nat]
<1>1. rs \in Seq(Rule)
  BY PrefilterAssumption
<1> HIDE DEF Rule
<1>2. Len(rs) \in Nat /\ DOMAIN rs = 1..Len(rs)
  BY <1>1
<1>3. rs[i] \in Rule
  BY <1>1
<1>4. rs[i].literal \in Seq(DOMAIN Fold) /\ rs[i].rule \in Nat
  BY <1>3 DEF Rule
<1> QED
  BY <1>2, <1>4

LEMMA StateOf ==
  ASSUME NEW rs \in Rulesets, NEW s
  PROVE  s \in States(rs) <=>
           \/ s = <<>>
           \/ \E i \in DOMAIN rs : \E n \in 1..Len(rs[i].literal) :
                s = Beginning(Folded(rs[i].literal), n)
BY DEF States, Root, Beginning

LEMMA StatesClosed ==
  ASSUME NEW rs \in Rulesets
  PROVE  Closed(Lower, States(rs))
<1>1. <<>> \in States(rs)
  BY StateOf
<1>2. ASSUME NEW s \in States(rs), s # <<>>
      PROVE  s \in Seq(Lower) /\ Front(s) \in States(rs)
  <2>0. PICK i \in DOMAIN rs : \E n \in 1..Len(rs[i].literal) :
          s = Beginning(Folded(rs[i].literal), n)
    BY <1>2, StateOf
  <2>1. PICK n \in 1..Len(rs[i].literal) : s = Beginning(Folded(rs[i].literal), n)
    BY <2>0
  <2> DEFINE lit == rs[i].literal f == Folded(lit)
  <2>2. lit \in Seq(DOMAIN Fold)
    BY RuleTyped
  <2>3. f \in Seq(Lower) /\ Len(f) = Len(lit)
    BY <2>2, FoldedText
  <2>4. s = Beginning(f, n) /\ n \in 1..Len(lit) /\ Len(lit) \in Nat
    BY <2>1, <2>2
  <2> HIDE DEF f
  <2>5. s \in Seq(Lower)
    <3>1. n \in 0..Len(f)
      BY <2>3, <2>4
    <3> QED
      BY <2>3, <2>4, <3>1, BeginningOf
  <2>6. Front(s) = Beginning(f, n - 1)
    BY <2>3, <2>4, BeginningNext
  <2>7. CASE n = 1
    <3>1. Len(Beginning(f, 0)) = 0 /\ Beginning(f, 0) \in Seq(Lower)
      BY <2>3, BeginningOf
    <3>2. Beginning(f, 0) = <<>>
      BY <3>1
    <3> QED
      BY <1>1, <2>5, <2>6, <2>7, <3>2
  <2>8. CASE n # 1
    <3>1. n - 1 \in 1..Len(rs[i].literal)
      BY <2>4, <2>8
    <3> QED
      BY <2>5, <2>6, <3>1, StateOf DEF f
  <2> QED
    BY <2>7, <2>8
<1>3. <<>> \in Seq(Lower)
  OBVIOUS
<1> QED
  BY <1>1, <1>2, <1>3 DEF Closed

LEMMA StatesBounded ==
  ASSUME NEW rs \in Rulesets
  PROVE  \E N \in Nat : \A s \in States(rs) : Len(s) <= N
<1>0. \A i \in DOMAIN rs : Len(rs[i].literal) \in Nat
  BY RuleTyped
<1>1. Len(rs) \in Nat /\ DOMAIN rs = 1..Len(rs)
  BY PrefilterAssumption
<1> DEFINE Over(N, n) == \A i \in DOMAIN rs : i <= n => Len(rs[i].literal) <= N
           K == {n \in Nat : \E N \in Nat : Over(N, n)}
<1>2. 0 \in K
  BY <1>1
<1>3. ASSUME NEW n \in Nat, n \in K PROVE n + 1 \in K
  <2>1. PICK N \in Nat : Over(N, n)
    BY <1>3
  <2>2. CASE n + 1 \in DOMAIN rs
    <3> DEFINE L == Len(rs[n + 1].literal) M == IF N <= L THEN L ELSE N
    <3>1. L \in Nat
      BY <1>0, <2>2
    <3>2. M \in Nat /\ N <= M /\ L <= M
      BY <3>1
    <3>3. Over(M, n + 1)
      <4> SUFFICES ASSUME NEW i \in DOMAIN rs, i <= n + 1 PROVE Len(rs[i].literal) <= M
        OBVIOUS
      <4> HIDE DEF M
      <4>1. CASE i = n + 1
        BY <3>2, <4>1
      <4>2. CASE i # n + 1
        <5>1. Len(rs[i].literal) <= N /\ Len(rs[i].literal) \in Nat
          BY <1>0, <1>1, <2>1, <4>2
        <5> QED
          BY <3>2, <5>1
      <4> QED
        BY <4>1, <4>2
    <3> HIDE DEF Over, M
    <3> QED
      BY <3>2, <3>3
  <2>3. CASE n + 1 \notin DOMAIN rs
    <3>1. Over(N, n + 1)
      BY <1>1, <2>1, <2>3
    <3> HIDE DEF Over
    <3> QED
      BY <3>1
  <2> QED
    BY <2>2, <2>3
<1>4. PICK N \in Nat : Over(N, Len(rs))
  <2> HIDE DEF K
  <2>1. Len(rs) \in K
    BY <1>1, <1>2, <1>3, Upwards
  <2> HIDE DEF Over
  <2> QED
    BY <2>1 DEF K
<1>5. ASSUME NEW s \in States(rs) PROVE Len(s) <= N
  <2>1. CASE s = <<>>
    BY <2>1
  <2>2. CASE s # <<>>
    <3>0. PICK i \in DOMAIN rs : \E n \in 1..Len(rs[i].literal) :
            s = Beginning(Folded(rs[i].literal), n)
      BY <2>2, StateOf
    <3>1. PICK n \in 1..Len(rs[i].literal) : s = Beginning(Folded(rs[i].literal), n)
      BY <3>0
    <3>2. /\ Len(rs[i].literal) \in Nat /\ Len(rs[i].literal) <= N
          /\ rs[i].literal \in Seq(DOMAIN Fold)
      BY <1>0, <1>1, <1>4, RuleTyped
    <3>3. Folded(rs[i].literal) \in Seq(Lower) /\ Len(Folded(rs[i].literal)) = Len(rs[i].literal)
      BY <3>2, FoldedText
    <3>4. n \in 0..Len(Folded(rs[i].literal))
      BY <3>2, <3>3
    <3>5. Len(s) = n
      BY <3>1, <3>3, <3>4, BeginningOf
    <3> QED
      BY <3>2, <3>5
  <2> QED
    BY <2>1, <2>2
<1> QED
  BY <1>5
-----------------------------------------------------------------------------
(* What a scan finds *)

(* The automaton is, after each character, in the longest state that the     *)
(* text read so far ends with (Automaton.ScanInto).                          *)
LEMMA VisitedLongest ==
  ASSUME NEW C, NEW a, Closed(C, a.states), NEW N \in Nat, \A s \in a.states : Len(s) <= N,
         FailsRight(a.states, a.fail), NEW value, NEW f \in Seq(C), Len(f) = Len(value),
         \A i \in 1..Len(value) : f[i] = Fold[value[i]]
  PROVE  \E at : /\ Visited(a, value) = {at[i] : i \in 1..Len(value)}
                 /\ \A i \in 1..Len(value) : Longest(a.states, Beginning(f, i), at[i])
<1> DEFINE L == Len(value)
           Body(u, n) == [i \in 0..n |-> IF i = 0 THEN Root ELSE Step(a, u[i - 1], value[i])]
           at == CHOOSE u : u = Body(u, L)
<1>1. Visited(a, value) = {at[i] : i \in 1..L}
  BY DEF Visited
<1>2. L \in Nat
  <2>1. Len(f) \in Nat
    OBVIOUS
  <2> QED
    BY <2>1
<1> HIDE DEF L
<1> DEFINE Is(u, n) == u = Body(u, n)
           K == {n \in Nat : \E u : Is(u, n)}
<1>3. 0 \in K
  <2> DEFINE u == [i \in 0..0 |-> Root]
  <2>1. Is(u, 0)
    OBVIOUS
  <2> HIDE DEF u, Is
  <2> QED
    BY <2>1
<1>4. ASSUME NEW n \in Nat, n \in K PROVE n + 1 \in K
  <2>1. PICK u : Is(u, n)
    <3> HIDE DEF Is
    <3> QED
      BY <1>4
  <2> DEFINE w == [i \in 0..(n + 1) |-> IF i = 0 THEN Root ELSE Step(a, u[i - 1], value[i])]
  <2>2. \A i \in 0..n : w[i] = u[i]
    <3> TAKE i \in 0..n
    <3>1. w[i] = IF i = 0 THEN Root ELSE Step(a, u[i - 1], value[i])
      OBVIOUS
    <3>2. u[i] = IF i = 0 THEN Root ELSE Step(a, u[i - 1], value[i])
      BY <2>1
    <3> QED
      BY <3>1, <3>2
  <2>3. \A i \in 0..(n + 1) : (IF i = 0 THEN Root ELSE Step(a, u[i - 1], value[i]))
                              = (IF i = 0 THEN Root ELSE Step(a, w[i - 1], value[i]))
    <3> TAKE i \in 0..(n + 1)
    <3>1. i # 0 => i - 1 \in 0..n
      OBVIOUS
    <3> HIDE DEF w
    <3>2. i # 0 => u[i - 1] = w[i - 1]
      BY <2>2, <3>1
    <3> QED
      BY <3>2
  <2>4. Is(w, n + 1)
    BY <2>3
  <2> HIDE DEF w, Is
  <2> QED
    BY <2>4
<1>5. \E u : Is(u, L)
  <2> HIDE DEF K
  <2>1. L \in K
    BY <1>2, <1>3, <1>4, Upwards
  <2> HIDE DEF Is
  <2> QED
    BY <2>1 DEF K
<1>6. at = Body(at, L)
  <2> HIDE DEF Body
  <2> QED
    BY <1>5
<1> HIDE DEF at
<1>7. \A i \in 0..L : at[i] = IF i = 0 THEN Root ELSE Step(a, at[i - 1], value[i])
  BY <1>6
<1> DEFINE J == {n \in Nat : n <= L => Longest(a.states, Beginning(f, n), at[n])}
<1>8. 0 \in J
  <2>1. at[0] = <<>>
    BY <1>2, <1>7 DEF Root
  <2>2. Beginning(f, 0) \in Seq(C) /\ Len(Beginning(f, 0)) = 0
    BY BeginningOf
  <2>3. Beginning(f, 0) = <<>>
    BY <2>2
  <2>4. <<>> \in a.states
    BY DEF Closed
  <2>5. Longest(a.states, <<>>, <<>>)
    BY <2>4, LongestOfState
  <2> QED
    BY <2>1, <2>3, <2>5
<1>9. ASSUME NEW n \in Nat, n \in J PROVE n + 1 \in J
  <2> SUFFICES ASSUME n + 1 <= L PROVE Longest(a.states, Beginning(f, n + 1), at[n + 1])
    OBVIOUS
  <2> DEFINE p == at[n] t == Beginning(f, n) c == f[n + 1]
  <2>1. /\ n <= L /\ n \in 0..L /\ n + 1 \in 0..L /\ n + 1 \in 1..L /\ (n + 1) - 1 = n
        /\ n + 1 # 0 /\ Len(f) = L
    BY <1>2 DEF L
  <2>2. Longest(a.states, t, p)
    BY <1>9, <2>1
  <2>3. t \in Seq(C) /\ c \in C
    BY <2>1, BeginningOf
  <2>4. Beginning(f, n + 1) = Append(t, c)
    BY <2>1, BeginningNext
  <2>5. at[n + 1] = Consume(a.states, a.fail, p, c)
    <3>1. at[n + 1] = Step(a, at[n], value[n + 1])
      BY <1>7, <2>1
    <3>2. f[n + 1] = Fold[value[n + 1]]
      BY <2>1 DEF L
    <3> QED
      BY <3>1, <3>2 DEF Step
  <2> HIDE DEF p, t, c
  <2>6. p \in a.states /\ Ends(t, p) /\ \A v \in a.states : Ends(t, v) => Len(v) <= Len(p)
    BY <2>2 DEF Longest
  <2>7. Longest(a.states, Append(p, c), Consume(a.states, a.fail, p, c))
    BY <2>3, <2>6, ConsumeLongest
  <2>8. Longest(a.states, Append(t, c), Consume(a.states, a.fail, p, c))
    BY <2>3, <2>6, <2>7, Extended
  <2> QED
    BY <2>4, <2>5, <2>8
<1>10. \A i \in 1..L : Longest(a.states, Beginning(f, i), at[i])
  <2> HIDE DEF J
  <2>1. Nat \subseteq J
    BY <1>8, <1>9, Upwards
  <2> QED
    BY <1>2, <2>1 DEF J
<1> QED
  BY <1>1, <1>10 DEF L

(* A literal occurs in a value when what was read of it, lower case, ends    *)
(* with the literal at some point.                                           *)
LEMMA OccursEnds ==
  ASSUME NEW lit \in Seq(DOMAIN Fold), lit # <<>>, NEW value \in Seq(DOMAIN Fold)
  PROVE  Exact!Occurs(lit, value) <=>
           \E k \in 1..Len(value) : Ends(Beginning(Folded(value), k), Folded(lit))
<1> DEFINE L == Len(lit) V == Len(value) g == Folded(lit) f == Folded(value)
<1>1. L \in Nat /\ V \in Nat /\ L # 0
  OBVIOUS
<1>2. /\ g \in Seq(Lower) /\ Len(g) = L /\ \A i \in 1..L : g[i] = Fold[lit[i]]
  BY FoldedText
<1>3. /\ f \in Seq(Lower) /\ Len(f) = V /\ \A i \in 1..V : f[i] = Fold[value[i]]
  BY FoldedText
<1> DEFINE At(i) == \A j \in 1..L : g[j] = f[i + j]
<1>4. ASSUME NEW i \in 0..(V - L)
      PROVE  Exact!Folded(lit) = Exact!Folded(SubSeq(value, i + 1, i + L)) <=> At(i)
  <2> DEFINE sub == SubSeq(value, i + 1, i + L)
             h == Exact!Folded(sub)
  <2>1. Exact!Folded(lit) = g
    BY DEF Exact!Folded, Folded
  <2>2. sub \in Seq(DOMAIN Fold) /\ Len(sub) = L /\ \A j \in 1..L : sub[j] = value[i + j]
    <3>1. i + 1 \in 1..(V + 1) /\ i + L \in i..V /\ i \in Nat
      BY <1>1
    <3>2. (i + L) - (i + 1) + 1 = L
      BY <1>1, <3>1
    <3>3. \A j \in 1..L : (i + 1) + j - 1 = i + j
      BY <1>1, <3>1
    <3> DEFINE m == i + 1 n == i + L
    <3>4. m \in 1..(V + 1) /\ n \in (m - 1)..V
      BY <1>1, <3>1
    <3> HIDE DEF m, n
    <3>5. /\ SubSeq(value, m, n) \in Seq(DOMAIN Fold) /\ Len(SubSeq(value, m, n)) = n - m + 1
          /\ \A j \in 1..(n - m + 1) : SubSeq(value, m, n)[j] = value[m + j - 1]
      BY <3>4, SubSeqProperties
    <3> QED
      BY <3>2, <3>3, <3>5 DEF m, n
  <2> HIDE DEF sub
  <2>3. h = Folded(sub)
    BY DEF Exact!Folded, Folded
  <2>4. h \in Seq(Lower) /\ Len(h) = L /\ \A j \in 1..L : h[j] = Fold[sub[j]]
    BY <2>2, <2>3, FoldedText
  <2> HIDE DEF h, f, g
  <2>5. \A j \in 1..L : h[j] = f[i + j]
    <3> TAKE j \in 1..L
    <3>1. i + j \in 1..V
      BY <1>1
    <3> QED
      BY <1>3, <2>2, <2>4, <3>1
  <2>6. g = h <=> At(i)
    <3> HIDE DEF L
    <3>1. g = h => At(i)
      BY <2>5
    <3>2. At(i) => g = h
      BY <1>2, <2>4, <2>5
    <3> QED
      BY <3>1, <3>2
  <2> QED
    BY <2>1, <2>6 DEF h, sub
<1>5. Exact!Occurs(lit, value) <=> \E i \in 0..(V - L) : At(i)
  <2> HIDE DEF At
  <2> QED
    BY <1>4 DEF Exact!Occurs
<1> HIDE DEF f, g, L, V
<1>6. ASSUME NEW k \in 1..V
      PROVE  Ends(Beginning(f, k), g) <=> L <= k /\ At(k - L)
  <2> DEFINE b == Beginning(f, k)
  <2>1. k \in Nat /\ k \in 0..Len(f)
    BY <1>1, <1>3
  <2>2. Len(b) = k /\ \A i \in 1..k : b[i] = f[i]
    BY <1>3, <2>1, BeginningOf
  <2> HIDE DEF b
  <2>3. L <= k => \A j \in 1..L : Len(b) - Len(g) + j = (k - L) + j /\ (k - L) + j \in 1..k
    BY <1>1, <1>2, <2>1, <2>2
  <2>4. L <= k => \A j \in 1..L : b[Len(b) - Len(g) + j] = f[(k - L) + j]
    BY <2>2, <2>3
  <2>5. L <= k => (Ends(b, g) <=> At(k - L))
    BY <1>2, <2>2, <2>4 DEF Ends
  <2>6. Ends(b, g) => L <= k
    BY <1>2, <2>2 DEF Ends
  <2> HIDE DEF At
  <2> QED
    BY <2>5, <2>6 DEF b
<1>7. ASSUME NEW i \in 0..(V - L), At(i) PROVE \E k \in 1..V : Ends(Beginning(f, k), g)
  <2>1. i + L \in 1..V /\ L <= i + L /\ (i + L) - L = i
    BY <1>1
  <2>2. Ends(Beginning(f, i + L), g)
    <3>1. At((i + L) - L)
      BY <1>7, <2>1
    <3> HIDE DEF At
    <3> QED
      BY <1>6, <2>1, <3>1
  <2> QED
    BY <2>1, <2>2
<1>8. ASSUME NEW k \in 1..V, Ends(Beginning(f, k), g) PROVE \E i \in 0..(V - L) : At(i)
  <2>1. L <= k /\ At(k - L)
    <3> HIDE DEF At
    <3> QED
      BY <1>6, <1>8
  <2>2. k - L \in 0..(V - L)
    BY <1>1, <2>1
  <2> QED
    BY <2>1, <2>2
<1> HIDE DEF At
<1> QED
  BY <1>5, <1>7, <1>8 DEF f, g, V

(* The number of patterns is positive when there is a literal to look for. *)
LEMMA Patterns ==
  ASSUME NEW rs \in Rulesets, NEW i \in DOMAIN rs, rs[i].literal # <<>>
  PROVE  Cardinality({rs[j].literal : j \in DOMAIN rs} \ {<<>>}) > 0
<1> DEFINE T == {rs[j].literal : j \in DOMAIN rs}
           f == [j \in DOMAIN rs |-> rs[j].literal]
<1>1. Len(rs) \in Nat /\ DOMAIN rs = 1..Len(rs)
  BY RuleTyped
<1>2. IsFiniteSet(DOMAIN rs)
  <2>1. 1 \in Int /\ Len(rs) \in Int
    BY <1>1
  <2>2. IsFiniteSet(1..Len(rs))
    BY <2>1, FS_Interval
  <2> QED
    BY <1>1, <2>2
<1>3. f \in Surjection(DOMAIN rs, T)
  BY DEF Surjection
<1> HIDE DEF f
<1>4. IsFiniteSet(T)
  BY <1>2, <1>3, FS_Surjection
<1>5. rs[i].literal \in T \ {<<>>} /\ T \ {<<>>} \in SUBSET T
  OBVIOUS
<1> DEFINE U == T \ {<<>>}
<1>6. IsFiniteSet(U)
  BY <1>4, <1>5, FS_Subset
<1>7. Cardinality(U) \in Nat /\ Cardinality(U) # 0
  <2> HIDE DEF T
  <2>1. U # {}
    BY <1>5
  <2> HIDE DEF U
  <2>2. Cardinality(U) \in Nat
    BY <1>6, FS_CardinalityType
  <2> QED
    BY <1>6, <2>1, <2>2, FS_EmptySet
<1> QED
  BY <1>7

(* What is built from a ruleset: Builder.Build. *)
LEMMA Built ==
  ASSUME NEW rs \in Rulesets
  PROVE  LET a == Automata[rs] IN
         /\ a.states = States(rs) /\ Closed(Lower, a.states)
         /\ \A s \in a.states : a.out[s] = Outputs(rs, s)
         /\ FailsRight(a.states, a.fail) /\ DictRight(a.states, a.out, a.dict)
         /\ a.patterns = Cardinality({rs[i].literal : i \in DOMAIN rs} \ {<<>>})
<1> DEFINE S == States(rs) out == [s \in S |-> Outputs(rs, s)] fail == FailLinks(S)
           dict == DictLinks(S, out, fail)
           n == Cardinality({rs[i].literal : i \in DOMAIN rs} \ {<<>>})
<1>1. Automata[rs] = [states |-> S, out |-> out, fail |-> fail, dict |-> dict, patterns |-> n]
  BY DEF Automata, Build
<1>2. Closed(Lower, S)
  BY StatesClosed
<1>3. PICK N \in Nat : \A s \in S : Len(s) <= N
  BY StatesBounded
<1>4. FailsRight(S, fail)
  <2> HIDE DEF S
  <2> QED
    BY <1>2, <1>3, LinksRight
<1>5. DictRight(S, out, dict)
  <2> HIDE DEF S, out, fail
  <2> QED
    BY <1>2, <1>3, <1>4, DictLinksRight
<1>6. \A s \in S : out[s] = Outputs(rs, s)
  OBVIOUS
<1> HIDE DEF S, out, fail, dict, n
<1> QED
  BY <1>1, <1>2, <1>4, <1>5, <1>6 DEF S, n

(* The rules that the automaton finds in a value are those with a literal    *)
(* that occurs in it (Builder.Build, Automaton.ScanInto).                    *)
LEMMA FoundWanted ==
  ASSUME ruleset \in Rulesets, NEW value \in Values
  PROVE  Found(ruleset, value) = Exact!Wanted(value)
<1> DEFINE rs == ruleset a == Automata[rs] f == Folded(value)
<1>1. value \in Seq(DOMAIN Fold) /\ Len(value) \in Nat
  BY PrefilterAssumption
<1>2. /\ a.states = States(rs) /\ Closed(Lower, a.states)
      /\ \A s \in a.states : a.out[s] = Outputs(rs, s)
      /\ FailsRight(a.states, a.fail) /\ DictRight(a.states, a.out, a.dict)
      /\ a.patterns = Cardinality({rs[i].literal : i \in DOMAIN rs} \ {<<>>})
  BY Built
<1>3. PICK N \in Nat : \A s \in a.states : Len(s) <= N
  BY <1>2, StatesBounded
<1>4. f \in Seq(Lower) /\ Len(f) = Len(value) /\ \A i \in 1..Len(value) : f[i] = Fold[value[i]]
  BY <1>1, FoldedText
<1>5. \A r : r \in Found(rs, value) <=>
        /\ \E j \in DOMAIN rs : rs[j].rule = r
        /\ a.patterns > 0 /\ \E s \in Visited(a, value) : r \in Emitted(a, s)
  BY DEF Found
<1> HIDE DEF a, f
<1>6. PICK at : /\ Visited(a, value) = {at[i] : i \in 1..Len(value)}
                /\ \A i \in 1..Len(value) : Longest(a.states, Beginning(f, i), at[i])
  BY <1>2, <1>3, <1>4, VisitedLongest
<1>7. ASSUME NEW i \in 1..Len(value), NEW u \in a.states
      PROVE  Ends(at[i], u) <=> Ends(Beginning(f, i), u)
  <2>1. at[i] \in a.states /\ Ends(Beginning(f, i), at[i])
        /\ \A v \in a.states : Ends(Beginning(f, i), v) => Len(v) <= Len(at[i])
    BY <1>6 DEF Longest
  <2>2. Beginning(f, i) \in Seq(Lower) /\ at[i] \in Seq(Lower) /\ u \in Seq(Lower)
    <3>1. i \in 0..Len(f)
      BY <1>4
    <3> QED
      BY <1>2, <1>4, <2>1, <3>1, BeginningOf DEF Closed
  <2>3. Ends(at[i], u) => Ends(Beginning(f, i), u)
    BY <2>1, <2>2, EndsTransitive
  <2>4. Ends(Beginning(f, i), u) => Ends(at[i], u)
    BY <2>1, <2>2, EndsNested
  <2> QED
    BY <2>3, <2>4
<1>8. ASSUME NEW i \in 1..Len(value), NEW r
      PROVE  r \in Emitted(a, at[i]) <=>
               \E u \in a.states : u # <<>> /\ Ends(Beginning(f, i), u) /\ r \in Outputs(rs, u)
  <2>1. at[i] \in a.states
    BY <1>6 DEF Longest
  <2>2. r \in Emitted(a, at[i]) <=>
          \E u \in a.states : u # <<>> /\ Ends(at[i], u) /\ r \in a.out[u]
    BY <1>2, <1>3, <2>1, EmittedExact
  <2> QED
    BY <1>2, <1>7, <2>2
<1>9. \A u, r : r \in Outputs(rs, u) <=>
        \E j \in DOMAIN rs : rs[j].literal # <<>> /\ Folded(rs[j].literal) = u /\ rs[j].rule = r
  BY DEF Outputs
<1>10. ASSUME NEW j \in DOMAIN rs, rs[j].literal # <<>>
       PROVE  /\ Folded(rs[j].literal) \in a.states /\ Folded(rs[j].literal) # <<>>
              /\ Exact!Occurs(rs[j].literal, value) <=>
                   \E i \in 1..Len(value) : Ends(Beginning(f, i), Folded(rs[j].literal))
  <2> DEFINE lit == rs[j].literal g == Folded(lit)
  <2>1. lit \in Seq(DOMAIN Fold)
    BY RuleTyped
  <2>2. Exact!Occurs(lit, value) <=> \E i \in 1..Len(value) : Ends(Beginning(f, i), g)
    BY <1>1, <1>10, <2>1, OccursEnds DEF f
  <2>3. g \in Seq(Lower) /\ Len(g) = Len(lit) /\ Len(lit) \in Nat /\ Len(lit) # 0
    BY <1>10, <2>1, FoldedText
  <2>4. g # <<>>
    BY <2>3
  <2>5. g = Beginning(g, Len(lit)) /\ Len(lit) \in 1..Len(lit)
    <3> HIDE DEF g
    <3>1. Len(lit) \in 0..Len(g)
      BY <2>3
    <3>2. /\ Beginning(g, Len(lit)) \in Seq(Lower) /\ Len(Beginning(g, Len(lit))) = Len(lit)
          /\ \A i \in 1..Len(lit) : Beginning(g, Len(lit))[i] = g[i]
      BY <2>3, <3>1, BeginningOf
    <3> QED
      BY <2>3, <3>2
  <2>6. g \in States(rs)
    BY <2>5, StateOf
  <2> QED
    BY <1>2, <2>2, <2>4, <2>6
<1>11. \A r : r \in Exact!Wanted(value) <=>
         \E j \in DOMAIN rs : /\ rs[j].literal # <<>> /\ Exact!Occurs(rs[j].literal, value)
                              /\ rs[j].rule = r
  BY DEF Exact!Wanted
<1> HIDE DEF rs
<1>12. ASSUME NEW r, r \in Found(rs, value) PROVE r \in Exact!Wanted(value)
  <2>1. PICK i \in 1..Len(value) : r \in Emitted(a, at[i])
    BY <1>5, <1>6, <1>12
  <2>2. PICK u \in a.states : u # <<>> /\ Ends(Beginning(f, i), u) /\ r \in Outputs(rs, u)
    BY <1>8, <2>1
  <2>3. PICK j \in DOMAIN rs : rs[j].literal # <<>> /\ Folded(rs[j].literal) = u /\ rs[j].rule = r
    BY <1>9, <2>2
  <2>4. Exact!Occurs(rs[j].literal, value)
    BY <1>10, <2>2, <2>3
  <2> QED
    BY <1>11, <2>3, <2>4
<1>13. ASSUME NEW r, r \in Exact!Wanted(value) PROVE r \in Found(rs, value)
  <2>1. PICK j \in DOMAIN rs : /\ rs[j].literal # <<>> /\ Exact!Occurs(rs[j].literal, value)
                               /\ rs[j].rule = r
    BY <1>11, <1>13
  <2>2. PICK i \in 1..Len(value) : Ends(Beginning(f, i), Folded(rs[j].literal))
    BY <1>10, <2>1
  <2>3. r \in Outputs(rs, Folded(rs[j].literal))
    BY <1>9, <2>1
  <2>4. r \in Emitted(a, at[i])
    BY <1>8, <1>10, <2>1, <2>2, <2>3
  <2>5. a.patterns > 0
    <3>1. Cardinality({rs[k].literal : k \in DOMAIN rs} \ {<<>>}) > 0
      BY <2>1, Patterns DEF rs
    <3> QED
      BY <1>2, <3>1
  <2>6. at[i] \in Visited(a, value)
    BY <1>6
  <2> QED
    BY <1>5, <2>1, <2>4, <2>5, <2>6
<1> QED
  BY <1>12, <1>13 DEF rs
-----------------------------------------------------------------------------
(* What the bit set holds *)

\* Every number lies at some bit of some word.
LEMMA Placed ==
  ASSUME NEW v \in Nat
  PROVE  \E q \in Nat : \E b \in B!Bit : v = q * WordBits + b
<1> DEFINE At(n) == \E q \in Nat : \E b \in B!Bit : n = q * WordBits + b
           K == {n \in Nat : At(n)}
<1>1. WordBits \in Nat /\ WordBits > 0
  BY PrefilterAssumption
<1>2. 0 \in K
  <2>1. 0 \in B!Bit /\ 0 = 0 * WordBits + 0
    BY <1>1 DEF B!Bit
  <2> QED
    BY <2>1
<1>3. ASSUME NEW n \in Nat, n \in K PROVE n + 1 \in K
  <2>1. PICK q \in Nat : \E b \in B!Bit : n = q * WordBits + b
    BY <1>3
  <2>2. PICK b \in B!Bit : n = q * WordBits + b
    BY <2>1
  <2>3. CASE b + 1 < WordBits
    <3>1. b + 1 \in B!Bit /\ n + 1 = q * WordBits + (b + 1)
      BY <1>1, <2>2, <2>3 DEF B!Bit
    <3> QED
      BY <3>1
  <2>4. CASE ~(b + 1 < WordBits)
    <3>1. b + 1 = WordBits /\ 0 \in B!Bit
      BY <1>1, <2>4 DEF B!Bit
    <3>2. (q + 1) * WordBits = q * WordBits + WordBits /\ q * WordBits \in Nat
      BY <1>1
    <3>3. n + 1 = (q + 1) * WordBits + 0
      <4> DEFINE p == q * WordBits p1 == (q + 1) * WordBits
      <4>1. p \in Nat /\ p1 = p + WordBits /\ n = p + b /\ b \in Nat
        BY <2>2, <3>2 DEF B!Bit
      <4> HIDE DEF p, p1
      <4>2. n + 1 = p1 + 0
        BY <1>1, <3>1, <4>1
      <4> QED
        BY <4>2 DEF p1
    <3>4. q + 1 \in Nat
      OBVIOUS
    <3> QED
      BY <3>1, <3>3, <3>4
  <2> QED
    BY <2>3, <2>4
<1> HIDE DEF K
<1>4. v \in K
  BY <1>2, <1>3, Upwards
<1> QED
  BY <1>4 DEF K

\* A bit of word q lies below the bound n words give exactly when q is one of them.
LEMMA BelowBound ==
  ASSUME NEW q \in Nat, NEW n \in Nat, NEW b \in B!Bit
  PROVE  q * WordBits + b < n * WordBits <=> q < n
<1>1. WordBits \in Nat /\ b \in Nat /\ b < WordBits
  BY PrefilterAssumption DEF B!Bit
<1>2. ASSUME q < n PROVE q * WordBits + b < n * WordBits
  <2> DEFINE d == n - (q + 1)
  <2>1. d \in Nat /\ n = q + 1 + d
    BY <1>2
  <2>2. d * WordBits \in Nat /\ q * WordBits \in Nat
    BY <1>1, <2>1
  <2>3. (q + 1 + d) * WordBits = q * WordBits + WordBits + d * WordBits
    <3> HIDE DEF d
    <3> QED
      BY <1>1, <2>1
  <2> HIDE DEF d
  <2> QED
    BY <1>1, <2>1, <2>2, <2>3
<1>3. ASSUME ~(q < n) PROVE ~(q * WordBits + b < n * WordBits)
  <2> DEFINE d == q - n
  <2>1. d \in Nat /\ q = n + d
    BY <1>3
  <2> HIDE DEF d
  <2>2. (n + d) * WordBits = n * WordBits + d * WordBits
    BY <1>1, <2>1
  <2>3. d * WordBits \in Nat /\ n * WordBits \in Nat
    BY <1>1, <2>1
  <2> QED
    BY <1>1, <2>1, <2>2, <2>3
<1> QED
  BY <1>2, <1>3

LEMMA CapNat ==
  ASSUME NEW s, Covered(s)
  PROVE  Len(s.words) \in Nat /\ DOMAIN s.words = 1..Len(s.words) /\ B!Cap(s) \in Nat
<1>1. Len(s.words) \in Nat /\ DOMAIN s.words = 1..Len(s.words)
  BY DEF Covered
<1>2. WordBits \in Nat
  BY PrefilterAssumption
<1> HIDE DEF Covered
<1> QED
  BY <1>1, <1>2 DEF B!Cap

(* Add of several members adds those that fit, and nothing else.             *)
LEMMA AddedMembers ==
  ASSUME NEW s, Covered(s), NEW vs \in SUBSET Nat
  PROVE  /\ B!All(B!Added(s, vs)) = B!All(s) \cup {v \in vs : v < B!Cap(s)}
         /\ B!Cap(B!Added(s, vs)) = B!Cap(s)
<1> DEFINE t == B!Added(s, vs)
           bits(k) == {b \in B!Bit : (k - 1) * WordBits + b \in vs}
<1>1. Len(s.words) \in Nat /\ DOMAIN s.words = 1..Len(s.words)
  BY CapNat
<1>2. t.words = [k \in DOMAIN s.words |-> s.words[k] \cup bits(k)]
  BY DEF B!Added
<1>3. Covered(t)
  BY AddedCovered
<1>4. DOMAIN t.words = 1..Len(s.words) /\ Len(t.words) = Len(s.words)
      /\ \A k \in 1..Len(s.words) : t.words[k] = s.words[k] \cup bits(k)
  <2> HIDE DEF bits, t
  <2>1. DOMAIN t.words = 1..Len(t.words) /\ Len(t.words) \in Nat
    BY <1>3, CapNat
  <2>2. DOMAIN t.words = 1..Len(s.words)
    BY <1>1, <1>2
  <2>3. Len(t.words) = Len(s.words)
    BY <1>1, <2>1, <2>2
  <2> QED
    BY <1>1, <1>2, <2>2, <2>3
<1> HIDE DEF t
<1>5. \A v : v \in B!All(t) <=> B!Has(t, v)
  BY <1>3, AllIsMembers
<1>6. \A v : v \in B!All(s) <=> B!Has(s, v)
  BY AllIsMembers
<1>7. \A v : B!Has(s, v) => B!Has(t, v)
  BY <1>1, <1>4 DEF B!Has
<1>8. ASSUME NEW v \in vs, v < B!Cap(s) PROVE B!Has(t, v)
  <2>1. PICK q \in Nat : \E b \in B!Bit : v = q * WordBits + b
    BY Placed
  <2>2. PICK b \in B!Bit : v = q * WordBits + b
    BY <2>1
  <2>3. q < Len(s.words)
    BY <1>1, <1>8, <2>2, BelowBound DEF B!Cap
  <2>4. q + 1 \in 1..Len(s.words) /\ (q + 1) - 1 = q
    BY <1>1, <2>3
  <2>5. b \in t.words[q + 1]
    BY <1>4, <2>2, <2>4
  <2> QED
    BY <1>4, <2>2, <2>4, <2>5 DEF B!Has
<1>9. ASSUME NEW v, B!Has(t, v), ~B!Has(s, v) PROVE v \in vs /\ v < B!Cap(s)
  <2>1. PICK k \in 1..Len(s.words) : \E b \in t.words[k] : v = (k - 1) * WordBits + b
    BY <1>4, <1>9 DEF B!Has
  <2>2. PICK b \in t.words[k] : v = (k - 1) * WordBits + b
    BY <2>1
  <2>3. b \notin s.words[k]
    BY <1>1, <1>9, <2>2 DEF B!Has
  <2>4. b \in bits(k)
    BY <1>4, <2>3
  <2>5. b \in B!Bit /\ v \in vs
    BY <2>2, <2>4
  <2>6. k - 1 \in Nat /\ k - 1 < Len(s.words)
    BY <1>1
  <2>7. (k - 1) * WordBits + b < Len(s.words) * WordBits
    BY <1>1, <2>5, <2>6, BelowBound
  <2> QED
    BY <2>2, <2>5, <2>7 DEF B!Cap
<1>10. B!All(t) = B!All(s) \cup {v \in vs : v < B!Cap(s)}
  BY <1>5, <1>6, <1>7, <1>8, <1>9
<1>11. B!Cap(t) = B!Cap(s)
  BY <1>4 DEF B!Cap
<1> QED
  BY <1>10, <1>11 DEF t

(* Reset leaves nothing, and the words it had.                               *)
LEMMA ClearedMembers ==
  ASSUME NEW s, Covered(s)
  PROVE  B!All(B!Cleared(s)) = {} /\ B!Cap(B!Cleared(s)) = B!Cap(s)
<1>1. CASE B!IsEmpty(s)
  BY <1>1 DEF B!Cleared, B!All
<1>2. CASE ~B!IsEmpty(s)
  <2> DEFINE t == B!Cleared(s)
             ws == [k \in DOMAIN s.words |-> IF k - 1 \in s.lo..s.hi THEN {} ELSE s.words[k]]
  <2>1. Len(s.words) \in Nat /\ DOMAIN s.words = 1..Len(s.words)
    BY CapNat
  <2>2. t.words = ws
    BY <1>2 DEF B!Cleared, B!Unbounded, Covered
  <2>3. Covered(t)
    BY ClearedCovered
  <2> HIDE DEF t
  <2>4. \A k \in 1..Len(s.words) : t.words[k] = {}
    BY <2>1, <2>2 DEF Covered
  <2>5. DOMAIN t.words = 1..Len(s.words)
    BY <2>1, <2>2
  <2>6. Len(t.words) = Len(s.words)
    <3>1. Len(t.words) \in Nat /\ DOMAIN t.words = 1..Len(t.words)
      BY <2>3, CapNat
    <3> QED
      BY <2>1, <2>5, <3>1
  <2>7. \A v : ~B!Has(t, v)
    BY <2>4, <2>5 DEF B!Has
  <2>8. B!All(t) = {}
    BY <2>3, <2>7, AllIsMembers
  <2> QED
    BY <2>6, <2>8 DEF B!Cap, t
<1> QED
  BY <1>1, <1>2

LEMMA Greater ==
  ASSUME NEW m \in Nat, NEW n \in Nat
  PROVE  Exact!Max({m, n}) = IF m >= n THEN m ELSE n
<1> DEFINE A == {m, n} top == IF m >= n THEN m ELSE n
<1>1. top \in A /\ \A x \in A : top >= x
  OBVIOUS
<1>2. \A y \in A : (\A x \in A : y >= x) => y = top
  OBVIOUS
<1>3. Exact!Max(A) = CHOOSE x \in A : \A y \in A : x >= y
  BY DEF Exact!Max
<1> HIDE DEF A, top
<1>4. Exact!Max(A) \in A /\ \A y \in A : Exact!Max(A) >= y
  BY <1>1, <1>3
<1>5. Exact!Max(A) = top
  BY <1>2, <1>4
<1> QED
  BY <1>5 DEF A, top

(* Grow keeps the members, and makes room for at least as many as asked.     *)
LEMMA GrownMembers ==
  ASSUME NEW s, Covered(s), NEW n \in Nat
  PROVE  /\ B!All(B!Grown(s, n)) = B!All(s)
         /\ B!Cap(B!Grown(s, n))
              = Exact!Max({B!Cap(s), WordBits * ((n + WordBits - 1) \div WordBits)})
<1> DEFINE t == B!Grown(s, n) need == B!Needed(n) L == Len(s.words)
           ws == [k \in 1..need |-> IF k <= L THEN s.words[k] ELSE {}]
<1>1. L \in Nat /\ DOMAIN s.words = 1..L /\ need \in Nat /\ WordBits \in Nat /\ WordBits > 0
  BY CapNat, NeededNat, PrefilterAssumption
<1>2. B!Cap(s) = L * WordBits /\ L * WordBits \in Nat /\ need * WordBits \in Nat
  <2> HIDE DEF need, L
  <2> QED
    BY <1>1 DEF B!Cap, L
<1>3. WordBits * ((n + WordBits - 1) \div WordBits) = need * WordBits
  <2>1. need = (n + WordBits - 1) \div WordBits
    BY DEF B!Needed
  <2> HIDE DEF need
  <2> QED
    BY <1>1, <2>1
<1>4. need <= L => need * WordBits <= L * WordBits
  <2> HIDE DEF need, L
  <2> SUFFICES ASSUME need <= L PROVE need * WordBits <= L * WordBits
    OBVIOUS
  <2> DEFINE d == L - need
  <2>1. d \in Nat /\ L = need + d
    BY <1>1
  <2> HIDE DEF d
  <2>2. (need + d) * WordBits = need * WordBits + d * WordBits /\ d * WordBits \in Nat
    BY <1>1, <2>1
  <2> QED
    BY <1>1, <1>2, <2>1, <2>2
<1>5. n = 0 => need = 0
  BY <1>1 DEF B!Needed
<1>6. CASE n <= 0 \/ need <= L
  <2>1. t = s
    BY <1>6 DEF B!Grown
  <2>2. need <= L
    <3> HIDE DEF need, L
    <3> QED
      BY <1>1, <1>5, <1>6
  <2> HIDE DEF t, need, L
  <2>3. Exact!Max({B!Cap(s), need * WordBits}) = B!Cap(s)
    BY <1>2, <1>4, <2>2, Greater
  <2> QED
    BY <1>3, <2>1, <2>3 DEF t
<1>7. CASE ~(n <= 0 \/ need <= L)
  <2>1. t.words = ws
    <3>1. s.words \in Seq(SUBSET B!Bit) /\ s \in [words : Seq(SUBSET B!Bit), lo : Int, hi : Int]
      BY DEF Covered
    <3> QED
      BY <1>7, <3>1 DEF B!Grown, B!Unbounded
  <2>2. Covered(t)
    BY GrownCovered
  <2> HIDE DEF t, need, L
  <2>3. L < need
    BY <1>1, <1>7
  <2>4. DOMAIN t.words = 1..need /\ Len(t.words) = need
    <3>1. Len(t.words) \in Nat /\ DOMAIN t.words = 1..Len(t.words)
      BY <2>2, CapNat
    <3>2. DOMAIN t.words = 1..need
      BY <2>1
    <3> QED
      BY <1>1, <3>1, <3>2
  <2>5. \A k \in 1..need : t.words[k] = IF k <= L THEN s.words[k] ELSE {}
    BY <2>1
  <2>6. \A v : B!Has(t, v) <=> B!Has(s, v)
    <3>1. \A v : B!Has(s, v) => B!Has(t, v)
      <4>1. \A k \in 1..L : k \in 1..need /\ t.words[k] = s.words[k]
        BY <1>1, <2>3, <2>5
      <4> QED
        BY <1>1, <2>4, <4>1 DEF B!Has
    <3>2. \A v : B!Has(t, v) => B!Has(s, v)
      <4>1. \A k \in 1..need : t.words[k] # {} => k \in 1..L /\ t.words[k] = s.words[k]
        BY <1>1, <2>5
      <4> QED
        BY <1>1, <2>4, <4>1 DEF B!Has
    <3> QED
      BY <3>1, <3>2
  <2>7. B!All(t) = B!All(s)
    <3>1. \A v : v \in B!All(t) <=> B!Has(t, v)
      BY <2>2, AllIsMembers
    <3>2. \A v : v \in B!All(s) <=> B!Has(s, v)
      BY AllIsMembers
    <3> QED
      BY <2>6, <3>1, <3>2
  <2>8. B!Cap(t) = need * WordBits
    BY <2>4 DEF B!Cap
  <2>9. L * WordBits < need * WordBits
    <3>1. 0 \in B!Bit
      BY <1>1 DEF B!Bit
    <3>2. L * WordBits + 0 < need * WordBits
      BY <1>1, <2>3, <3>1, BelowBound
    <3> QED
      BY <1>2, <3>2
  <2>10. Exact!Max({B!Cap(s), need * WordBits}) = need * WordBits
    BY <1>2, <2>9, Greater
  <2> QED
    BY <1>3, <2>7, <2>8, <2>10 DEF t
<1> QED
  BY <1>6, <1>7

-----------------------------------------------------------------------------
(* The refinement *)

LEMMA FoundNumbers ==
  ASSUME ruleset \in Rulesets, NEW value \in Values
  PROVE  Found(ruleset, value) \in SUBSET Nat
<1>1. \A i \in DOMAIN ruleset : ruleset[i].rule \in Nat
  BY RuleTyped
<1> QED
  BY <1>1 DEF Found

(* The automaton and the bit set together implement the candidate set: at    *)
(* any time it holds the rules one of whose literals occurred in a value     *)
(* scanned since the last Reset, as far as there was room, and nothing else  *)
(* (Builder.Build, Automaton.ScanInto, bitset.Set).                          *)
THEOREM CandidatesTheorem == Spec => CandidatesImplemented
<1> DEFINE Known == ruleset \in Rulesets /\ Covered(candidates)
<1>1. Init => Known /\ Exact!Init
  <2> SUFFICES ASSUME Init PROVE Known /\ Exact!Init
    OBVIOUS
  <2>1. Known
    BY DEF Init, Covered, B!Zero
  <2>2. B!All(candidates) = {}
    BY DEF Init, B!All, B!IsEmpty, B!Zero
  <2>3. B!Cap(candidates) = 0
    <3>1. candidates.words = <<>> /\ WordBits \in Nat
      BY PrefilterAssumption DEF Init, B!Zero
    <3>2. Len(candidates.words) = 0
      BY <3>1
    <3> QED
      BY <3>1, <3>2 DEF B!Cap
  <2> QED
    BY <2>1, <2>2, <2>3 DEF Init, Exact!Init
<1>2. Known /\ [Next]_vars => Known' /\ [Exact!Next]_(Exact!vars)
  <2> SUFFICES ASSUME Known, [Next]_vars PROVE Known' /\ [Exact!Next]_(Exact!vars)
    OBVIOUS
  <2> DEFINE all == B!All(candidates) cap == B!Cap(candidates)
             all2 == B!All(candidates') cap2 == B!Cap(candidates')
  <2>0. /\ (Exact!Next \/ UNCHANGED Exact!vars) => [Exact!Next]_(Exact!vars)
        /\ (ruleset \in Rulesets)' <=> ruleset' \in Rulesets
        /\ B!All(candidates)' = all2 /\ B!Cap(candidates)' = cap2
        /\ Covered(candidates') => Covered(candidates)'
    BY DEF Covered, B!All, B!Cap, B!IsEmpty
  <2>1. ASSUME NEW n \in Sizes, Grow(n)
        PROVE  Covered(candidates') /\ Exact!Grow(n) /\ UNCHANGED ruleset
    <3>1. n \in Nat /\ candidates' = B!Grown(candidates, n) /\ UNCHANGED ruleset
      BY <2>1, PrefilterAssumption DEF Grow
    <3>2. Covered(candidates')
      BY <3>1, GrownCovered
    <3>3. /\ all2 = all
          /\ cap2 = Exact!Max({cap, WordBits * ((n + WordBits - 1) \div WordBits)})
      BY <3>1, GrownMembers
    <3> HIDE DEF all, cap, all2, cap2
    <3> QED
      BY <2>0, <3>1, <3>2, <3>3 DEF Exact!Grow, all, cap
  <2>2. ASSUME NEW vs \in SUBSET Nat, candidates' = B!Added(candidates, vs)
        PROVE  /\ Covered(candidates') /\ cap2 = cap
               /\ all2 = all \cup Exact!Fits(vs)
    <3>1. Covered(candidates')
      BY <2>2, AddedCovered
    <3>2. all2 = all \cup {v \in vs : v < cap} /\ cap2 = cap
      BY <2>2, AddedMembers
    <3> QED
      BY <3>1, <3>2 DEF Exact!Fits
  <2>3. ASSUME NEW value \in Values, Scan(value)
        PROVE  Covered(candidates') /\ Exact!Scan(value) /\ UNCHANGED ruleset
    <3>1. candidates' = B!Added(candidates, Exact!Wanted(value)) /\ UNCHANGED ruleset
          /\ Exact!Wanted(value) \in SUBSET Nat
      BY <2>3, FoundWanted, FoundNumbers DEF Scan
    <3>2. /\ Covered(candidates') /\ cap2 = cap
          /\ all2 = all \cup Exact!Fits(Exact!Wanted(value))
      BY <2>2, <3>1
    <3> HIDE DEF all, cap, all2, cap2
    <3> QED
      BY <2>0, <3>1, <3>2 DEF Exact!Scan, all, cap
  <2>4. ASSUME NEW other \in Others, Union(other)
        PROVE  Covered(candidates') /\ Exact!Include(other) /\ UNCHANGED ruleset
    <3>1. candidates' = B!Added(candidates, other) /\ UNCHANGED ruleset /\ other \in SUBSET Nat
      BY <2>4, PrefilterAssumption DEF Union
    <3>2. /\ Covered(candidates') /\ cap2 = cap /\ all2 = all \cup Exact!Fits(other)
      BY <2>2, <3>1
    <3> HIDE DEF all, cap, all2, cap2
    <3> QED
      BY <2>0, <3>1, <3>2 DEF Exact!Include, all, cap
  <2>5. ASSUME Reset PROVE Covered(candidates') /\ Exact!Clear /\ UNCHANGED ruleset
    <3>1. candidates' = B!Cleared(candidates) /\ UNCHANGED ruleset
      BY <2>5 DEF Reset
    <3>2. Covered(candidates') /\ all2 = {} /\ cap2 = cap
      BY <3>1, ClearedCovered, ClearedMembers
    <3> HIDE DEF all, cap, all2, cap2
    <3> QED
      BY <2>0, <3>1, <3>2 DEF Exact!Clear, cap
  <2>6. ASSUME UNCHANGED vars PROVE Covered(candidates') /\ UNCHANGED Exact!vars
                                    /\ UNCHANGED ruleset
    BY <2>6 DEF vars, Exact!vars, B!All, B!Cap, B!IsEmpty
  <2> HIDE DEF all, cap, all2, cap2
  <2> QED
    BY <2>0, <2>1, <2>3, <2>4, <2>5, <2>6 DEF Next, Exact!Next
<1> QED
  BY <1>1, <1>2, PTL DEF Spec, CandidatesImplemented, Exact!Spec

-----------------------------------------------------------------------------
(***************************************************************************)
(* The windows of Scanning, for every overlap, window, length and value.   *)
(***************************************************************************)

(* Every window moves forward, and by no more than leaves an overlap with    *)
(* the one before (overlapFor, the step of Windows).                          *)
THEOREM Forward ==
  ASSUME NEW w \in Int, w > 0
  PROVE  /\ OverlapFor(w) \in 0..(w \div 2)
         /\ StepOf(w) = w - OverlapFor(w)
         /\ StepOf(w) \in 1..w
<1>1. w \div 2 \in Int /\ 0 <= w \div 2 /\ 2 * (w \div 2) <= w
  OBVIOUS
<1>2. w \div 8 \in Int /\ 0 <= w \div 8
  OBVIOUS
<1>3. OverlapFor(w) \in Int /\ 0 <= OverlapFor(w) /\ OverlapFor(w) <= w \div 2
  BY <1>1, <1>2, ScanningAssumption DEF OverlapFor, AtLeast, AtMost
<1>4. w - OverlapFor(w) > 0
  BY <1>1, <1>3
<1> QED
  BY <1>1, <1>3, <1>4 DEF StepOf

-----------------------------------------------------------------------------
(* The invariant of Scanning *)

Types ==
  /\ size \in Nat /\ window \in Int /\ off \in Nat /\ done \in BOOLEAN /\ found \in BOOLEAN
  /\ \A m \in marks : m.at \in Nat /\ m.len \in Nat /\ m.at + m.len <= size
  /\ \A s \in seen : s.from \in Nat /\ s.to \in Nat

\* Every place behind the next window was seen with an overlap's length after it.
Behind ==
  \A p \in Nat : p < off =>
    \E s \in seen : s.from <= p /\ (p + OverlapFor(window) <= s.to \/ s.to = size)

\* A scan that is not over has more of the value before it; one that is over and
\* found nothing has seen it to its end.
Ahead ==
  /\ Whole(size, window) => off = 0
  /\ ~done /\ ~Whole(size, window) => off < size
  /\ done /\ ~found => \E s \in seen : s.from = off /\ s.to = size

\* No window that was passed over holds enough.
Clean ==
  ~found => \A s \in seen : ~Reaches({m \in marks : Inside(m, s.from, s.to)})

Scanned == Types /\ Behind /\ Ahead /\ Clean

LEMMA EndType ==
  ASSUME Types
  PROVE  EndOf(size, window, off) \in Int /\ (~Whole(size, window) => window > 0)
BY DEF Types, EndOf, AtMost, Whole

LEMMA ScannedInit == ScanInit => Scanned
<1> SUFFICES ASSUME ScanInit PROVE Scanned
  OBVIOUS
<1>1. Types
  BY ScanningAssumption DEF ScanInit, Types
<1>2. Ahead
  BY <1>1 DEF ScanInit, Types, Ahead, Whole
<1>3. Behind /\ Clean
  BY DEF ScanInit, Behind, Clean
<1> QED
  BY <1>1, <1>2, <1>3 DEF Scanned

LEMMA ScannedAnalyze ==
  ASSUME Scanned, Analyze
  PROVE  Scanned'
<1> DEFINE end == EndOf(size, window, off)
           ms == {m \in marks : Inside(m, off, end)}
           new == [from |-> off, to |-> end]
<1>1. /\ ~done /\ seen' = seen \cup {new} /\ (Hit(ms) \/ Miss(ms, end))
      /\ UNCHANGED <<size, marks, window>>
  BY DEF Analyze
<1>2. Types /\ Behind /\ Ahead /\ Clean
  BY DEF Scanned
<1>3. end \in Int /\ (~Whole(size, window) => window > 0)
  BY <1>2, EndType
<1>4. off <= size
  BY <1>1, <1>2 DEF Ahead, Types
<1>5. end \in Nat /\ end <= size
  BY <1>2, <1>3, <1>4 DEF Types, EndOf, AtMost
<1>6. new.from = off /\ new.to = end
  OBVIOUS
<1>7. \A s \in seen' : s \in seen \/ s = new
  BY <1>1
<1>8. UNCHANGED <<size, marks, window>> /\ Whole(size, window)' = Whole(size, window)
      /\ OverlapFor(window)' = OverlapFor(window)
  BY <1>1 DEF Whole, OverlapFor
<1>9. CASE Hit(ms)
  <2>1. found' = TRUE /\ done' = TRUE /\ off' = off
    BY <1>9 DEF Hit
  <2>2. Types'
    BY <1>2, <1>5, <1>6, <1>7, <1>8, <2>1 DEF Types
  <2>3. Behind'
    <3> HIDE DEF new
    <3> QED
      BY <1>1, <1>2, <1>8, <2>1 DEF Behind
  <2>4. Ahead' /\ Clean'
    BY <1>2, <1>8, <2>1 DEF Ahead, Clean
  <2> QED
    BY <2>2, <2>3, <2>4 DEF Scanned
<1>10. CASE Miss(ms, end)
  <2>1. ~Reaches(ms) /\ found' = found
    BY <1>10 DEF Miss
  <2>2. Clean'
    <3> SUFFICES ASSUME ~found, NEW s \in seen'
                 PROVE  ~Reaches({m \in marks : Inside(m, s.from, s.to)})
      BY <1>8, <2>1 DEF Clean, Reaches, Inside
    <3>1. CASE s \in seen
      BY <1>2, <3>1 DEF Clean
    <3>2. CASE s = new
      <4>1. s.from = off /\ s.to = end
        BY <3>2, <1>6
      <4> QED
        BY <2>1, <4>1
    <3> QED
      BY <1>7, <3>1, <3>2
  <2>3. CASE end = size \/ Whole(size, window)
    <3>1. done' = TRUE /\ off' = off /\ end = size
      BY <1>10, <2>3 DEF Miss, EndOf
    <3>2. Types'
      BY <1>2, <1>5, <1>6, <1>7, <1>8, <2>1, <3>1 DEF Types
    <3>3. Behind'
      <4> HIDE DEF new
      <4> QED
        BY <1>1, <1>2, <1>8, <3>1 DEF Behind
    <3>4. Ahead'
      <4>1. new \in seen'
        BY <1>1
      <4> HIDE DEF new, end
      <4> QED
        BY <1>2, <1>6, <1>8, <3>1, <4>1 DEF Ahead
    <3> QED
      BY <2>2, <3>2, <3>3, <3>4 DEF Scanned
  <2>4. CASE ~(end = size \/ Whole(size, window))
    <3>1. off' = off + StepOf(window) /\ (off' < size => done' = done)
      BY <1>10, <2>4 DEF Miss
    <3>2. window \in Int /\ window > 0
      BY <1>2, <1>3, <2>4 DEF Types
    <3>3. /\ OverlapFor(window) \in Int /\ 0 <= OverlapFor(window)
          /\ StepOf(window) = window - OverlapFor(window)
          /\ StepOf(window) \in Int /\ 1 <= StepOf(window) /\ StepOf(window) <= window
      BY <3>2, Forward
    <3>4. end = off + window /\ end < size
      BY <1>2, <1>5, <2>4 DEF EndOf, AtMost, Types
    <3>5. off' \in Nat /\ off' <= end /\ off' < size /\ done' = FALSE
      <4>1. off' \in Nat /\ off' <= end
        BY <1>2, <3>1, <3>2, <3>3, <3>4 DEF Types
      <4>2. off' < size
        BY <1>2, <1>5, <3>4, <4>1 DEF Types
      <4>3. done' = done /\ done = FALSE
        BY <1>1, <1>2, <3>1, <4>2 DEF Types
      <4> QED
        BY <4>1, <4>2, <4>3
    <3>6. Types'
      BY <1>2, <1>5, <1>6, <1>7, <1>8, <2>1, <3>5 DEF Types
    <3>7. Behind'
      <4> SUFFICES ASSUME NEW p \in Nat, p < off'
                   PROVE  \E s \in seen' : s.from <= p /\
                            (p + OverlapFor(window) <= s.to \/ s.to = size)
        BY <1>8 DEF Behind
      <4>1. CASE p < off
        <5> HIDE DEF new
        <5> QED
          BY <1>1, <1>2, <4>1 DEF Behind
      <4>2. CASE p >= off
        <5>1. p + OverlapFor(window) <= end
          BY <1>2, <3>1, <3>2, <3>3, <3>4, <4>2 DEF Types
        <5>2. new \in seen'
          BY <1>1
        <5> HIDE DEF new, end
        <5> QED
          BY <1>6, <4>2, <5>1, <5>2
      <4> QED
        BY <1>2, <4>1, <4>2 DEF Types
    <3>8. Ahead'
      BY <1>8, <2>4, <3>5 DEF Ahead
    <3> QED
      BY <2>2, <3>6, <3>7, <3>8 DEF Scanned
  <2> QED
    BY <2>3, <2>4
<1> QED
  BY <1>1, <1>9, <1>10

\* More signals are never less evidence.
LEMMA ReachesMore ==
  ASSUME NEW A, NEW C, A \subseteq C, Reaches(A)
  PROVE  Reaches(C)
BY DEF Reaches

LEMMA ScannedMeans == Scanned => NothingMissed
<1> SUFFICES ASSUME Scanned, done, ~found PROVE
      /\ \A ms \in SUBSET marks : Together(ms, OverlapFor(window)) => ~Reaches(ms)
      /\ Whole(size, window) => ~Reaches(marks)
  BY DEF NothingMissed
<1>1. Types /\ Behind /\ Ahead /\ Clean
  BY DEF Scanned
<1>2. PICK last \in seen : last.from = off /\ last.to = size
  BY <1>1 DEF Ahead
<1>3. Whole(size, window) => ~Reaches(marks)
  <2> SUFFICES ASSUME Whole(size, window) PROVE ~Reaches(marks)
    OBVIOUS
  <2>1. marks = {m \in marks : Inside(m, last.from, last.to)}
    BY <1>1, <1>2 DEF Ahead, Types, Inside
  <2> QED
    BY <1>1, <1>2, <2>1 DEF Clean
<1>4. ASSUME NEW ms \in SUBSET marks, Together(ms, OverlapFor(window)), Reaches(ms), ms # {},
             ~Whole(size, window)
      PROVE  FALSE
  <2> DEFINE ats == {m.at : m \in ms}
  <2>1. ats \in SUBSET Nat /\ ats # {}
    BY <1>1, <1>4 DEF Types
  <2>2. PICK p \in ats : \A k \in ats : p <= k
    <3> HIDE DEF ats
    <3> QED
      BY <2>1, Least
  <2>3. PICK a \in ms : p = a.at
    BY <2>2
  <2>4. \A b \in ms : a.at <= b.at /\ b.at + b.len - a.at <= OverlapFor(window)
    BY <1>4, <2>2, <2>3 DEF Together
  <2>5. OverlapFor(window) \in Int
    BY <1>1, <1>4, Forward DEF Types, Whole
  <2>6. \A b \in ms : b.at \in Nat /\ b.len \in Nat /\ b.at + b.len <= size
    BY <1>1, <1>4 DEF Types
  <2>7. \E s \in seen : s.from <= a.at /\ (a.at + OverlapFor(window) <= s.to \/ s.to = size)
    <3>1. CASE a.at < off
      BY <1>1, <2>3, <2>6, <3>1 DEF Behind
    <3>2. CASE a.at >= off
      BY <1>2, <3>2
    <3> QED
      BY <1>1, <2>3, <2>6, <3>1, <3>2 DEF Types
  <2>8. PICK s \in seen : s.from <= a.at /\ (a.at + OverlapFor(window) <= s.to \/ s.to = size)
    BY <2>7
  <2>9. s.from \in Nat /\ s.to \in Nat /\ a.at \in Nat
    BY <1>1, <2>3, <2>6 DEF Types
  <2>10. \A b \in ms : Inside(b, s.from, s.to)
    <3> SUFFICES ASSUME NEW b \in ms PROVE s.from <= b.at /\ b.at + b.len <= s.to
      BY DEF Inside
    <3>1. a.at <= b.at /\ b.at + b.len - a.at <= OverlapFor(window)
      BY <2>4
    <3>2. b.at \in Nat /\ b.len \in Nat /\ b.at + b.len <= size
      BY <2>6
    <3> QED
      BY <2>5, <2>8, <2>9, <3>1, <3>2
  <2>11. ms \subseteq {m \in marks : Inside(m, s.from, s.to)}
    BY <1>4, <2>10
  <2> QED
    BY <1>1, <1>4, <2>8, <2>11, ReachesMore DEF Clean
<1>5. ASSUME NEW ms \in SUBSET marks, Reaches(ms), ms = {} \/ Whole(size, window)
      PROVE  FALSE
  <2>1. CASE Whole(size, window)
    BY <1>3, <1>5, <2>1, ReachesMore
  <2>2. CASE ms = {}
    <3>1. ms \subseteq {m \in marks : Inside(m, last.from, last.to)}
      BY <2>2
    <3> QED
      BY <1>1, <1>2, <1>5, <3>1, ReachesMore DEF Clean
  <2> QED
    BY <1>5, <2>1, <2>2
<1> QED
  BY <1>3, <1>4, <1>5

(* Evidence within one overlap's length is never missed, for every overlap,  *)
(* window, value and set of signals (Windows, overlapFor, Eval).              *)
THEOREM NothingMissedTheorem == ScanSpec => []NothingMissed
<1>1. Scanned /\ [ScanNext]_scanVars => Scanned'
  <2> SUFFICES ASSUME Scanned, [ScanNext]_scanVars PROVE Scanned'
    OBVIOUS
  <2>1. CASE Analyze
    BY <2>1, ScannedAnalyze
  <2>2. CASE UNCHANGED scanVars
    BY <2>2 DEF scanVars, Scanned, Types, Behind, Ahead, Clean, Whole, OverlapFor, Reaches, Inside
  <2> QED
    BY <2>1, <2>2 DEF ScanNext, Returned
<1> QED
  BY <1>1, ScannedInit, ScannedMeans, PTL DEF ScanSpec
=============================================================================
