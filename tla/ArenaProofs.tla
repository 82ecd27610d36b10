---------------------------- MODULE ArenaProofs -----------------------------
(***************************************************************************)
(* Proofs about Arena for every limit, size and text: the arena stays in   *)
(* its bounds, no byte below its length is ever overwritten, and what the  *)
(* rules read of it is what the store promises.                            *)
(***************************************************************************)
EXTENDS Arena, SequenceTheorems, WellFoundedInduction, TLAPS

Bound == Max({Limit, DefaultSize})

LEMMA MaxOfTwo ==
  ASSUME NEW x \in Nat, NEW y \in Nat
  PROVE  Max({x, y}) \in Nat /\ Max({x, y}) >= x /\ Max({x, y}) >= y
         /\ Max({x, y}) \in {x, y}
<1>1. \E m \in {x, y} : \A n \in {x, y} : m >= n
  BY DEF Max
<1> QED
  BY <1>1 DEF Max

LEMMA MinOfTwo ==
  ASSUME NEW x \in Nat, NEW y \in Nat
  PROVE  Min({x, y}) \in {x, y} /\ Min({x, y}) <= x /\ Min({x, y}) <= y
<1>1. \E m \in {x, y} : \A n \in {x, y} : m <= n
  OBVIOUS
<1> QED
  BY <1>1 DEF Min

-----------------------------------------------------------------------------
(* Arenas: a is [mem, len].  What the cells hold is left open, so that the   *)
(* lemmas serve every text.                                                  *)

ArenaOK(a) ==
  /\ a = [mem |-> a.mem, len |-> a.len]
  /\ \E S : a.mem \in Seq(Seq(S))
  /\ Len(a.mem) > 0
  /\ a.len \in 0..Cap(a)
  /\ Cap(a) <= Bound

\* b holds every byte of a, and is no larger than a if it is still empty.
Keeps(a, b) ==
  /\ b.len >= a.len
  /\ \A i \in 1..a.len : Array(b)[i] = Array(a)[i]
  /\ b.len = 0 => Cap(b) = Cap(a)

\* A sequence of sequences stays one over a wider alphabet.
LEMMA Widen ==
  ASSUME NEW S, NEW T, NEW m \in Seq(Seq(S))
  PROVE  m \in Seq(Seq(S \cup T))
<1>1. Seq(S) \subseteq Seq(S \cup T)
  BY SeqMonotonic, S \subseteq S \cup T
<1> QED
  BY <1>1, SeqMonotonic

\* A function on 1..n is a sequence over its values.
LEMMA OfLength ==
  ASSUME NEW n \in Nat, NEW f, f = [i \in 1..n |-> f[i]]
  PROVE  \E T : f \in Seq(T) /\ Len(f) = n
<1> DEFINE T == {f[i] : i \in 1..n}
<1>1. f \in [1..n -> T]
  OBVIOUS
<1>2. f \in Seq(T) /\ Len(f) = n
  BY <1>1
<1> QED
  BY <1>2

LEMMA BoundIsLargest == Bound \in Nat /\ Bound >= Limit /\ Bound >= DefaultSize
BY MaxOfTwo, ArenaAssumption DEF Bound

LEMMA CapIsNat == ASSUME NEW a, ArenaOK(a) PROVE Cap(a) \in Nat /\ a.len \in Nat
<1>1. PICK S : a.mem \in Seq(Seq(S))
  BY DEF ArenaOK
<1>2. Array(a) \in Seq(S)
  BY <1>1, ElementOfSeq DEF Array, ArenaOK
<1> QED
  BY <1>2 DEF ArenaOK, Cap

\* Moving to an array of a given size keeps the bytes.
LEMMA MovedOK ==
  ASSUME NEW a, ArenaOK(a), NEW size \in Nat, size > Cap(a), size <= Bound
  PROVE  /\ ArenaOK(Moved(a, size))
         /\ Moved(a, size).len = a.len
         /\ Cap(Moved(a, size)) = size
         /\ \A i \in 1..a.len : Array(Moved(a, size))[i] = Array(a)[i]
<1> DEFINE array == [i \in 1..size |-> IF i <= a.len THEN Array(a)[i] ELSE "0"]
           b == Moved(a, size)
<1>1. PICK S : a.mem \in Seq(Seq(S))
  BY DEF ArenaOK
<1>2. PICK T : array \in Seq(T) /\ Len(array) = size
  <2>1. array = [i \in 1..size |-> array[i]]
    OBVIOUS
  <2> HIDE DEF array
  <2> QED
    BY <2>1, OfLength
<1>3. a.mem \in Seq(Seq(S \cup T)) /\ array \in Seq(S \cup T)
  BY <1>1, <1>2, Widen, SeqMonotonic
<1>4. b = [mem |-> Append(a.mem, array), len |-> a.len]
  <2>1. b = [a EXCEPT !.mem = Append(a.mem, array)]
    BY DEF Moved
  <2>2. a = [mem |-> a.mem, len |-> a.len]
    BY DEF ArenaOK
  <2> HIDE DEF array, b
  <2> QED
    BY <2>1, <2>2
<1>8. \A i \in 1..a.len : array[i] = Array(a)[i]
  <2>1. a.len \in 0..Cap(a) /\ Cap(a) \in Nat
    BY CapIsNat DEF ArenaOK
  <2> QED
    BY <2>1
<1> HIDE DEF array
<1>5. /\ b.mem \in Seq(Seq(S \cup T)) /\ Len(b.mem) = Len(a.mem) + 1
      /\ Array(b) = array
  BY <1>3, <1>4, AppendProperties DEF Array
<1>6. a.len \in 0..Cap(a) /\ Cap(a) \in Nat
  <2>1. Array(a) \in Seq(S)
    BY <1>1, ElementOfSeq DEF Array, ArenaOK
  <2> QED
    BY <2>1 DEF ArenaOK, Cap
<1>7. Cap(b) = size
  BY <1>2, <1>5 DEF Cap
<1>9. \E U : b.mem \in Seq(Seq(U))
  BY <1>5
<1>10. b.len = a.len /\ b = [mem |-> b.mem, len |-> b.len]
  BY <1>4
<1>11. Len(b.mem) > 0
  BY <1>1, <1>5 DEF ArenaOK
<1>12. ArenaOK(b)
  BY <1>6, <1>7, <1>9, <1>10, <1>11 DEF ArenaOK
<1> QED
  BY <1>5, <1>7, <1>8, <1>10, <1>12

LEMMA LessThan == \A x, y \in Nat : <<x, y>> \in OpToRel(<, Nat) <=> x < y
BY DEF OpToRel

\* A set of natural numbers has a least element: < is well-founded on Nat.
LEMMA MinIsSmallest ==
  ASSUME NEW S \in SUBSET Nat, S # {}
  PROVE  Min(S) \in S
<1> DEFINE less == OpToRel(<, Nat)
<1>1. IsWellFoundedOn(less, Nat)
  BY NatLessThanWellFounded
<1>2. \A x, y \in Nat : <<x, y>> \in less <=> x < y
  BY LessThan
<1> HIDE DEF less
<1>3. PICK n \in S : \A k \in S : ~(<<k, n>> \in less)
  BY <1>1, WFMin
<1>4. \A k \in S : n <= k
  <2> TAKE k \in S
  <2>1. n \in Nat /\ k \in Nat /\ ~(k < n)
    BY <1>2, <1>3
  <2> QED
    BY <2>1
<1> QED
  BY <1>4 DEF Min

(* Whatever the doubling yields lies between the need and the limit. *)
LEMMA NewCapOK ==
  ASSUME NEW a, NEW need \in Nat, need <= Limit
  PROVE  NewCap(a, need) \in need..Limit
<1> DEFINE base == Max({2 * Cap(a), DefaultSize})
           doublings == {c \in need..Limit : \E k \in 0..c : c = base * 2^k}
<1>1. doublings \in SUBSET (need..Limit) /\ Limit \in Nat
  BY ArenaAssumption
<1>2. NewCap(a, need) = IF doublings = {} THEN Limit ELSE Min(doublings)
  BY DEF NewCap
<1> HIDE DEF doublings
<1>3. CASE doublings = {}
  BY <1>1, <1>2, <1>3
<1>4. CASE doublings # {}
  <2>1. doublings \in SUBSET Nat
    BY <1>1
  <2>2. Min(doublings) \in doublings
    BY <1>4, <2>1, MinIsSmallest
  <2> QED
    BY <1>1, <1>2, <1>4, <2>2
<1> QED
  BY <1>3, <1>4

LEMMA ReservedOK ==
  ASSUME NEW a, ArenaOK(a), NEW n \in Nat, Fits(a, n)
  PROVE  /\ ArenaOK(Reserved(a, n))
         /\ Reserved(a, n).len = a.len
         /\ Cap(Reserved(a, n)) >= a.len + n
         /\ n = 0 => Reserved(a, n) = a
         /\ \A i \in 1..a.len : Array(Reserved(a, n))[i] = Array(a)[i]
<1> DEFINE need == a.len + n
<1>1. Cap(a) \in Nat /\ a.len \in Nat /\ a.len <= Cap(a) /\ need <= Limit
  BY CapIsNat DEF ArenaOK, Fits
<1>2. CASE need <= Cap(a)
  BY <1>1, <1>2 DEF Reserved
<1>3. CASE need > Cap(a)
  <2>1. Reserved(a, n) = Moved(a, NewCap(a, need))
    BY <1>1, <1>3 DEF Reserved
  <2>2. NewCap(a, need) \in need..Limit
    BY <1>1, NewCapOK
  <2>3. /\ NewCap(a, need) \in Nat /\ NewCap(a, need) > Cap(a)
        /\ NewCap(a, need) >= need /\ NewCap(a, need) <= Bound
    BY <1>1, <1>3, <2>2, BoundIsLargest, ArenaAssumption
  <2>4. n # 0
    BY <1>1, <1>3
  <2> QED
    BY <2>1, <2>3, <2>4, MovedOK
<1> QED
  BY <1>1, <1>2, <1>3

\* Growing exactly, or not at all.
LEMMA GrownOK ==
  ASSUME NEW a, ArenaOK(a), NEW n \in Nat
  PROVE  /\ ArenaOK(Grown(a, n))
         /\ Grown(a, n).len = a.len
         /\ \A i \in 1..a.len : Array(Grown(a, n))[i] = Array(a)[i]
<1>1. Cap(a) \in Nat /\ a.len \in Nat /\ Limit \in Nat /\ Limit <= Bound
  BY CapIsNat, BoundIsLargest, ArenaAssumption
<1>2. CASE Fits(a, n) /\ a.len + n > Cap(a)
  <2>1. Grown(a, n) = Moved(a, a.len + n)
    BY <1>2 DEF Grown
  <2>2. a.len + n \in Nat /\ a.len + n <= Bound
    BY <1>1, <1>2, BoundIsLargest DEF Fits
  <2> QED
    BY <1>2, <2>1, <2>2, MovedOK
<1>3. CASE ~(Fits(a, n) /\ a.len + n > Cap(a))
  BY <1>3 DEF Grown
<1> QED
  BY <1>2, <1>3

(* An allocation and its copy touch no byte below the arena's length, and    *)
(* end at the new one.                                                       *)
LEMMA FilledOK ==
  ASSUME NEW a, ArenaOK(a), NEW n \in Nat, Fits(a, n), NEW text
  PROVE  /\ ArenaOK(Filled(a, n, text))
         /\ Filled(a, n, text).len = a.len + n
         /\ Keeps(a, Filled(a, n, text))
<1> DEFINE r == Reserved(a, n)
           array == [i \in DOMAIN Array(r) |->
                      IF i - r.len \in 1..n THEN text[i - r.len] ELSE Array(r)[i]]
           b == Filled(a, n, text)
<1>1. /\ ArenaOK(r) /\ r.len = a.len /\ Cap(r) >= a.len + n /\ (n = 0 => r = a)
      /\ \A i \in 1..a.len : Array(r)[i] = Array(a)[i]
  BY ReservedOK
<1>2. Cap(r) \in Nat /\ a.len \in Nat /\ r.len <= Cap(r) /\ Cap(r) <= Bound
  <2> HIDE DEF r
  <2>1. Cap(r) \in Nat /\ r.len \in Nat
    BY <1>1, CapIsNat
  <2> QED
    BY <1>1, <2>1 DEF ArenaOK
<1>3. PICK S : r.mem \in Seq(Seq(S))
  BY <1>1 DEF ArenaOK
<1>4. Array(r) \in Seq(S) /\ DOMAIN Array(r) = 1..Cap(r) /\ Len(r.mem) \in DOMAIN r.mem
  BY <1>1, <1>3, ElementOfSeq, LenProperties DEF Array, ArenaOK, Cap
<1>5. array = [i \in 1..Cap(r) |-> array[i]]
  BY <1>4
<1>6. \A i \in 1..a.len : array[i] = Array(a)[i]
  BY <1>1, <1>2, <1>4
<1>7. b = [mem |-> [r.mem EXCEPT ![Len(r.mem)] = array], len |-> a.len + n]
  BY <1>1 DEF Filled
<1> HIDE DEF array, r
<1>8. PICK T : array \in Seq(T) /\ Len(array) = Cap(r)
  BY <1>2, <1>5, OfLength
<1>9. r.mem \in Seq(Seq(S \cup T)) /\ array \in Seq(S \cup T)
  BY <1>3, <1>8, Widen, SeqMonotonic
<1>10. /\ b.mem \in Seq(Seq(S \cup T)) /\ Len(b.mem) = Len(r.mem)
       /\ Array(b) = array
  BY <1>4, <1>7, <1>9, ExceptSeq DEF Array
<1>11. Cap(b) = Cap(r)
  BY <1>8, <1>10 DEF Cap
<1>12. ArenaOK(b)
  <2>1. \E U : b.mem \in Seq(Seq(U))
    BY <1>10
  <2>2. Len(b.mem) > 0
    BY <1>1, <1>10 DEF ArenaOK
  <2>3. b = [mem |-> b.mem, len |-> b.len] /\ b.len \in 0..Cap(b)
    BY <1>1, <1>2, <1>7, <1>11
  <2> QED
    BY <1>2, <1>11, <2>1, <2>2, <2>3 DEF ArenaOK
<1>13. b.len = 0 => Cap(b) = Cap(a)
  BY <1>1, <1>2, <1>7, <1>11
<1>14. b.len = a.len + n /\ b.len >= a.len
  BY <1>2, <1>7
<1> HIDE DEF b
<1>15. Keeps(a, b)
  BY <1>6, <1>10, <1>13, <1>14 DEF Keeps
<1> QED
  BY <1>12, <1>14, <1>15 DEF b

-----------------------------------------------------------------------------
(* The invariant *)

Inv ==
  /\ ArenaOK(Arena)
  /\ len = 0 => Cap(Arena) <= MaxRetained
  /\ reply.body.len \in Nat /\ reply.declared \in Nat
  /\ reply = [key |-> reply.key, body |-> reply.body, declared |-> reply.declared]
  /\ reply.body = [off |-> reply.body.off, len |-> reply.body.len]

\* What recording leaves: an arena in bounds that keeps what it was given.
Sound(a, b) == ArenaOK(b) /\ Keeps(a, b)

LEMMA KeepsIsTransitive ==
  ASSUME NEW a, NEW b, NEW c, ArenaOK(a), ArenaOK(b), ArenaOK(c), Keeps(a, b), Keeps(b, c)
  PROVE  Keeps(a, c)
<1>1. a.len \in Nat /\ b.len \in Nat /\ c.len \in Nat
  BY CapIsNat
<1> QED
  BY <1>1 DEF Keeps

LEMMA SoundAppend ==
  ASSUME NEW a, ArenaOK(a), NEW text \in Seq(STRING), Fits(a, Len(text))
  PROVE  Sound(a, Appended(a, text))
<1>1. Len(text) \in Nat
  OBVIOUS
<1> QED
  BY <1>1, FilledOK DEF Appended, Sound

LEMMA SoundSelf == ASSUME NEW a, ArenaOK(a) PROVE Sound(a, a)
BY CapIsNat DEF Sound, Keeps

LEMMA SoundTransitive ==
  ASSUME NEW a, NEW b, NEW c, ArenaOK(a), Sound(a, b), Sound(b, c)
  PROVE  Sound(a, c)
BY KeepsIsTransitive DEF Sound

LEMMA PutOK ==
  ASSUME NEW s, s = [arena |-> s.arena, values |-> s.values], ArenaOK(s.arena),
         NEW kind, NEW key \in Seq(STRING), NEW data \in Seq(STRING)
  PROVE  Sound(s.arena, Put(s, kind, key, data).arena)
<1> DEFINE a1 == Appended(s.arena, key)
           a2 == Appended(a1, data)
<1>1. \/ Put(s, kind, key, data) = s
      \/ /\ Fits(s.arena, Len(key))
         /\ Put(s, kind, key, data).arena = a1
      \/ /\ Fits(s.arena, Len(key)) /\ Fits(a1, Len(data))
         /\ Put(s, kind, key, data).arena = a2
  BY DEF Put, Noted
<1>2. Fits(s.arena, Len(key)) => Sound(s.arena, a1)
  BY SoundAppend
<1> HIDE DEF a1
<1>3. Fits(s.arena, Len(key)) /\ Fits(a1, Len(data)) => Sound(s.arena, a2)
  BY <1>2, SoundAppend, SoundTransitive DEF Sound
<1> QED
  BY <1>1, <1>2, <1>3, SoundSelf

\* The records that recording works on.
Whole(s) == s = [arena |-> s.arena, values |-> s.values]

LEMMA PutWhole ==
  ASSUME NEW s, Whole(s), NEW kind, NEW key, NEW data
  PROVE  Whole(Put(s, kind, key, data))
<1> DEFINE keyed == [s EXCEPT !.arena = Appended(s.arena, key)]
           full  == [s EXCEPT !.arena = Appended(keyed.arena, data)]
           put   == Put(s, kind, key, data)
<1>1. \/ put = s \/ put = keyed
      \/ \E v : put = [full EXCEPT !.values = Append(@, v)]
  BY DEF Put, Noted
<1>2. Whole(keyed) /\ Whole(full)
  BY DEF Whole
<1> HIDE DEF put, keyed, full
<1> QED
  BY <1>1, <1>2 DEF Whole, put

LEMMA PutNameOK ==
  ASSUME NEW s, Whole(s), ArenaOK(s.arena),
         NEW parent \in Seq(STRING), NEW key \in Seq(STRING)
  PROVE  Sound(s.arena, PutName(s, parent, key).arena)
<1> DEFINE bare == Put(s, "name", parent, key)
           path == parent \o <<".">> \o key
<1>1. \/ PutName(s, parent, key) = bare
      \/ Fits(bare.arena, Len(path)) /\ PutName(s, parent, key).arena = Appended(bare.arena, path)
  <2>1. Whole(bare)
    BY PutWhole
  <2> DEFINE at   == SpanOf(bare.arena.len, Len(path))
             next == [bare EXCEPT !.arena = Appended(@, path)]
  <2>2. PutName(s, parent, key) =
          IF \/ parent = <<>> \/ key \notin PositionalKeys
             \/ Len(path) > MaxValueLen \/ ~Fits(bare.arena, Len(path))
          THEN bare ELSE Noted(next, "name", at, at)
    BY DEF PutName
  <2>3. next.arena = Appended(bare.arena, path) /\ Whole(next)
    <3> HIDE DEF bare, path
    <3> QED
      BY <2>1 DEF Whole
  <2> HIDE DEF bare, path, at, next
  <2>4. Noted(next, "name", at, at).arena = next.arena
    BY <2>3 DEF Noted, Whole
  <2> QED
    BY <2>2, <2>3, <2>4
<1>2. Sound(s.arena, bare.arena)
  BY PutOK DEF Whole
<1>3. path \in Seq(STRING)
  <2>1. <<".">> \in Seq(STRING)
    BY ArenaAssumption
  <2> QED
    BY <2>1
<1> HIDE DEF bare, path
<1>4. Fits(bare.arena, Len(path)) => Sound(s.arena, Appended(bare.arena, path))
  BY <1>2, <1>3, SoundAppend, SoundTransitive DEF Sound
<1> QED
  BY <1>1, <1>2, <1>4

\* A join allocates its whole length, whatever it copies.
LEMMA PutJoinedOK ==
  ASSUME NEW s, Whole(s), ArenaOK(s.arena), NEW end
  PROVE  Sound(s.arena, PutJoined(s, end).arena)
<1> DEFINE args  == Args(SubSeq(s.values, 1, end))
           total == SizeOf(args)
           room  == Reserved(s.arena, total)
           whole == FlattenSeq([k \in DOMAIN args |-> Resolve(room, args[k].data)])
           at    == SpanOf(s.arena.len, total)
           next  == Filled(room, total, whole)
<1>1. PutJoined(s, end) =
        IF total \notin 1..MaxValueLen \/ ~Fits(s.arena, total) THEN s
        ELSE Noted([s EXCEPT !.arena = next], "joined", Empty, at)
  BY DEF PutJoined
<1>2. ASSUME total \in 1..MaxValueLen, Fits(s.arena, total) PROVE Sound(s.arena, next)
  <2> HIDE DEF total, whole
  <2>1. total \in Nat
    BY <1>2
  <2>2. /\ ArenaOK(room) /\ room.len = s.arena.len
        /\ \A i \in 1..s.arena.len : Array(room)[i] = Array(s.arena)[i]
    BY <1>2, <2>1, ReservedOK
  <2>3. Fits(room, total) /\ room.len \in Nat
    BY <1>2, <2>2, CapIsNat DEF Fits
  <2> HIDE DEF room
  <2>4. ArenaOK(next) /\ Keeps(room, next) /\ next.len = room.len + total
    BY <2>1, <2>2, <2>3, FilledOK
  <2> HIDE DEF next
  <2>5. next.len # 0
    BY <1>2, <2>3, <2>4, ArenaAssumption
  <2> QED
    BY <2>2, <2>3, <2>4, <2>5 DEF Keeps, Sound
<1> HIDE DEF total, room, whole, next, at
<1>3. CASE total \notin 1..MaxValueLen \/ ~Fits(s.arena, total)
  BY <1>1, <1>3, SoundSelf
<1>4. CASE ~(total \notin 1..MaxValueLen \/ ~Fits(s.arena, total))
  BY <1>1, <1>2, <1>4 DEF Noted, Whole
<1> QED
  BY <1>3, <1>4

-----------------------------------------------------------------------------
\* No call but recycling changes a byte the arena holds.
Kept == values' = <<>> \/ Keeps(Arena, Arena')

ReplyOK(r) ==
  /\ r.body.len \in Nat /\ r.declared \in Nat
  /\ r = [key |-> r.key, body |-> r.body, declared |-> r.declared]
  /\ r.body = [off |-> r.body.off, len |-> r.body.len]

LEMMA Becoming ==
  ASSUME NEW s, Becomes(s), Sound(Arena, s.arena), Inv, ReplyOK(reply')
  PROVE  Inv' /\ Kept
<1>1. Arena' = s.arena
  BY DEF Becomes, Arena, Sound, ArenaOK
<1>2. ArenaOK(Arena') /\ Keeps(Arena, Arena')
  BY <1>1 DEF Sound
<1>3. len' = 0 => Cap(Arena') <= MaxRetained
  <2>1. /\ len \in Nat /\ Arena.len = len /\ Arena'.len = len' /\ len' \in Nat
        /\ ArenaOK(Arena) /\ Cap(Arena) \in Nat
    <3>1. ArenaOK(Arena)
      BY DEF Inv
    <3>2. \A a : ArenaOK(a) => Cap(a) \in Nat /\ a.len \in Nat
      BY CapIsNat
    <3>3. Arena.len = len /\ Arena'.len = len'
      BY DEF Arena
    <3> QED
      BY <1>2, <3>1, <3>2, <3>3
  <2> QED
    BY <1>2, <2>1 DEF Inv, Keeps
<1> QED
  BY <1>2, <1>3 DEF Inv, Kept, ReplyOK

LEMMA StateWhole == Inv => Whole(State) /\ ArenaOK(State.arena) /\ State.arena = Arena
BY DEF State, Whole, Inv

\* The key of a response body, and the room that is asked for behind it.
LEMMA StartedOK ==
  ASSUME Inv, NEW chunk \in Texts, Fits(Arena, Len(BodyKey))
  PROVE  Sound(Arena, Started(Arena, chunk))
<1> DEFINE keyed == Appended(Arena, BodyKey)
           n == Max({reply.declared, Len(chunk)})
<1>1. /\ ArenaOK(Arena) /\ chunk \in Seq(STRING) /\ BodyKey \in Seq(STRING)
      /\ BodyKey # <<>> /\ Len(BodyKey) \in Nat
  BY ArenaAssumption DEF Inv
<1>2. n \in Nat
  <2>1. Len(chunk) \in Nat /\ reply.declared \in Nat
    BY <1>1 DEF Inv
  <2> QED
    BY <2>1, MaxOfTwo
<1>3. ArenaOK(keyed) /\ Keeps(Arena, keyed) /\ keyed.len = Arena.len + Len(BodyKey)
  BY <1>1, FilledOK DEF Appended
<1> HIDE DEF keyed, n
<1>4. /\ ArenaOK(Grown(keyed, n)) /\ Grown(keyed, n).len = keyed.len
      /\ \A i \in 1..keyed.len : Array(Grown(keyed, n))[i] = Array(keyed)[i]
  BY <1>2, <1>3, GrownOK
<1>5. Len(BodyKey) > 0 /\ Arena.len \in Nat /\ keyed.len \in Nat /\ keyed.len # 0
  <2>1. Arena.len \in Nat /\ keyed.len \in Nat
    BY <1>1, <1>3, CapIsNat
  <2>2. Len(BodyKey) > 0
    BY <1>1
  <2> QED
    BY <1>3, <2>1, <2>2
<1>6. Keeps(Arena, Grown(keyed, n))
  BY <1>3, <1>4, <1>5 DEF Keeps
<1>7. Started(Arena, chunk) = Grown(keyed, n)
  BY DEF Started, keyed, n
<1> QED
  BY <1>4, <1>6, <1>7 DEF Sound

LEMMA WriteStep ==
  ASSUME Inv, NEW chunk \in Texts, WriteResponseBody(chunk)
  PROVE  Inv' /\ Kept
<1> DEFINE first == reply.body.len = 0
           keyFits == Fits(Arena, Len(BodyKey))
           a == IF ~first THEN Arena ELSE IF keyFits THEN Started(Arena, chunk) ELSE Arena
           need == IF ~first /\ End(reply.body) # len THEN reply.body.len + Len(chunk)
                   ELSE Len(chunk)
           whole == IF first THEN [arena |-> Appended(a, chunk), body |-> SpanOf(a.len, Len(chunk))]
                    ELSE Lengthened(a, reply.body, chunk)
           room == Fits(a, need) /\ (first => keyFits)
           next == IF room THEN whole.arena ELSE a
<1>1. /\ Becomes([arena |-> next, values |-> values])
      /\ reply' = [reply EXCEPT
           !.key = IF first /\ keyFits THEN SpanOf(len, Len(BodyKey)) ELSE @,
           !.body = IF room THEN whole.body ELSE @]
  BY DEF WriteResponseBody
<1>2. /\ ArenaOK(Arena) /\ chunk \in Seq(STRING) /\ Len(chunk) \in Nat
      /\ ReplyOK(reply) /\ Arena.len = len
  BY ArenaAssumption DEF Inv, ReplyOK, Arena
<1>3. Sound(Arena, a) /\ ArenaOK(a)
  BY <1>2, StartedOK, SoundSelf DEF Sound
<1>4. ASSUME room, first PROVE Sound(a, whole.arena) /\ whole.body.len \in Nat
                               /\ whole.body = [off |-> whole.body.off, len |-> whole.body.len]
  <2>1. Fits(a, Len(chunk))
    BY <1>4
  <2>2. whole.arena = Appended(a, chunk) /\ whole.body = SpanOf(a.len, Len(chunk))
    BY <1>4
  <2> HIDE DEF a, whole
  <2>3. Len(chunk) % SpanMod \in Nat
    BY <1>2, ArenaAssumption
  <2> QED
    BY <1>2, <1>3, <2>1, <2>2, <2>3, SoundAppend DEF SpanOf
<1>5. ASSUME room, ~first PROVE Sound(a, whole.arena) /\ whole.body.len \in Nat
                                /\ whole.body = [off |-> whole.body.off, len |-> whole.body.len]
  <2> DEFINE body == reply.body
             n == body.len + Len(chunk)
             text == Resolve(a, body) \o chunk
  <2>1. a = Arena /\ a.len = len /\ Fits(a, need) /\ whole = Lengthened(a, body, chunk)
    BY <1>2, <1>5
  <2>2. n \in Nat /\ n % SpanMod \in Nat /\ body = [off |-> body.off, len |-> body.len]
    <3>1. n \in Nat /\ body = [off |-> body.off, len |-> body.len]
      BY <1>2 DEF ReplyOK
    <3>2. \A k \in Nat : k % SpanMod \in Nat
      BY ArenaAssumption
    <3> HIDE DEF n, body
    <3> QED
      BY <3>1, <3>2
  <2>3. CASE End(body) # a.len
    <3>1. whole.arena = Filled(a, n, text) /\ whole.body = SpanOf(a.len, n)
      BY <2>1, <2>3 DEF Lengthened
    <3>2. Fits(a, n)
      BY <1>5, <2>1, <2>3
    <3> HIDE DEF a, whole, n, text
    <3> QED
      BY <1>3, <2>2, <3>1, <3>2, FilledOK DEF SpanOf, Sound
  <2>4. CASE End(body) = a.len
    <3>1. whole.arena = Appended(a, chunk) /\ whole.body = [body EXCEPT !.len = n]
      BY <2>1, <2>4 DEF Lengthened
    <3>2. Fits(a, Len(chunk))
      BY <1>5, <2>1, <2>4
    <3> HIDE DEF a, whole, n, body
    <3> QED
      BY <1>2, <1>3, <2>2, <3>1, <3>2, SoundAppend
  <2> QED
    BY <2>3, <2>4
<1> HIDE DEF a, whole, room, first, keyFits
<1>6. Sound(Arena, next)
  BY <1>2, <1>3, <1>4, <1>5, SoundTransitive
<1>7. ReplyOK(reply')
  BY <1>1, <1>2, <1>4, <1>5 DEF ReplyOK
<1> HIDE DEF next
<1> QED
  BY <1>1, <1>6, <1>7, Becoming

\* An array that grew too large is replaced by a fresh one.
LEMMA RecycleStep == ASSUME Inv, Recycle PROVE Inv' /\ Kept
<1> DEFINE a == Reset(Arena)
           s == [arena |-> a, values |-> <<>>]
           array == IF Cap(Arena) > MaxRetained THEN Fresh ELSE Array(Arena)
<1>1. Becomes(s) /\ reply' = [key |-> Empty, body |-> Empty, declared |-> 0]
  BY DEF Recycle
<1>2. a = [mem |-> <<array>>, len |-> 0]
  BY DEF Reset
<1>3. \E S : array \in Seq(S) /\ Len(array) <= MaxRetained /\ Len(array) <= Bound
  <2>1. PICK S : Array(Arena) \in Seq(S)
    <3>1. PICK S : Arena.mem \in Seq(Seq(S)) /\ Len(Arena.mem) > 0
      BY DEF Inv, ArenaOK
    <3> QED
      BY <3>1, ElementOfSeq DEF Array
  <2>2. Fresh \in Seq({"0"}) /\ Len(Fresh) = DefaultSize
    BY ArenaAssumption DEF Fresh
  <2>3. CASE Cap(Arena) > MaxRetained
    BY <2>2, <2>3, BoundIsLargest, ArenaAssumption
  <2>4. CASE ~(Cap(Arena) > MaxRetained)
    <3>1. Cap(Arena) \in Nat /\ Cap(Arena) <= Bound
      BY CapIsNat DEF Inv, ArenaOK
    <3> QED
      BY <2>1, <2>4, <3>1, ArenaAssumption DEF Cap
  <2> QED
    BY <2>3, <2>4
<1> HIDE DEF array
<1>4. Arena' = a
  BY <1>1, <1>2 DEF Becomes, Arena
<1>5. PICK S : array \in Seq(S) /\ Len(array) <= MaxRetained /\ Len(array) <= Bound
  BY <1>3
<1> HIDE DEF a
<1>6. Array(a) = array /\ Cap(a) = Len(array) /\ a.mem \in Seq(Seq(S)) /\ Len(a.mem) = 1
  <2>1. <<array>> \in Seq(Seq(S)) /\ Len(<<array>>) = 1 /\ <<array>>[1] = array
    BY <1>5
  <2> QED
    BY <1>2, <2>1 DEF Array, Cap
<1>7. ArenaOK(a)
  BY <1>2, <1>5, <1>6 DEF ArenaOK
<1>8. values' = <<>>
  BY <1>1 DEF Becomes
<1> QED
  BY <1>1, <1>4, <1>5, <1>6, <1>7, <1>8 DEF Inv, Kept, Empty

LEMMA Step == Inv /\ [Next]_vars => Inv' /\ ([Kept]_vars)
<1> SUFFICES ASSUME Inv, [Next]_vars PROVE Inv' /\ [Kept]_vars
  OBVIOUS
<1>0. /\ Keys \subseteq Seq(STRING) /\ Texts \subseteq Seq(STRING)
      /\ Whole(State) /\ ArenaOK(State.arena) /\ State.arena = Arena
      /\ ReplyOK(reply)
  BY ArenaAssumption, StateWhole DEF Inv, ReplyOK
<1>1. ASSUME NEW kind \in Kinds, NEW key \in Keys, NEW data \in Texts, Record(kind, key, data)
      PROVE  Inv' /\ Kept
  <2>1. Sound(Arena, Put(State, kind, key, data).arena)
    BY <1>0, PutOK DEF Whole
  <2> QED
    BY <1>0, <1>1, <2>1, Becoming DEF Record
<1>2. ASSUME NEW parent \in Keys, NEW key \in Keys, RecordArgName(parent, key)
      PROVE  Inv' /\ Kept
  <2>1. Sound(Arena, PutName(State, parent, key).arena)
    BY <1>0, PutNameOK
  <2> QED
    BY <1>0, <1>2, <2>1, Becoming DEF RecordArgName
<1>3. ASSUME NEW from, NEW to, CopyArgs(from, to) PROVE Inv' /\ Kept
  <2>1. PutCopies(State, from, to).arena = Arena
    BY <1>0 DEF PutCopies, Whole
  <2> QED
    BY <1>0, <1>3, <2>1, Becoming, SoundSelf DEF CopyArgs
<1>4. ASSUME NEW end, JoinArgs(end) PROVE Inv' /\ Kept
  <2>1. Sound(Arena, PutJoined(State, end).arena)
    BY <1>0, PutJoinedOK
  <2> QED
    BY <1>0, <1>4, <2>1, Becoming DEF JoinArgs
<1>5. ASSUME NEW end, RecordCookies(end) PROVE Inv' /\ Kept
  <2>1. PutCookies(State, end).arena = Arena
    BY <1>0 DEF PutCookies, Whole
  <2> QED
    BY <1>0, <1>5, <2>1, Becoming, SoundSelf DEF RecordCookies
<1>6. ASSUME NEW n \in Declared, Declare(n) PROVE Inv' /\ Kept
  <2>1. Arena' = Arena /\ len' = len /\ n \in Nat
    BY <1>6, ArenaAssumption DEF Declare, Arena
  <2>2. ReplyOK(reply')
    BY <1>0, <1>6, <2>1 DEF Declare, ReplyOK
  <2> QED
    BY <1>0, <2>1, <2>2, SoundSelf DEF Inv, Kept, ReplyOK, Sound
<1>7. ASSUME NEW chunk \in Texts, WriteResponseBody(chunk) PROVE Inv' /\ Kept
  BY <1>7, WriteStep
<1>8. CASE RecordResponseBody
  <2> DEFINE s == Noted(State, "respbody", reply.key, reply.body)
  <2>1. s.arena = Arena
    BY <1>0 DEF Noted, Whole
  <2>2. Becomes(s) /\ reply' = reply
    BY <1>8 DEF RecordResponseBody
  <2> HIDE DEF s
  <2> QED
    BY <1>0, <2>1, <2>2, Becoming, SoundSelf
<1>9. CASE RefreshValues
  <2> DEFINE s == [arena |-> Arena,
                   values |-> [i \in DOMAIN values |-> [values[i] EXCEPT !.at = Len(mem)]]]
  <2>1. s.arena = Arena /\ Becomes(s) /\ reply' = reply
    BY <1>9 DEF RefreshValues
  <2> HIDE DEF s
  <2> QED
    BY <1>0, <2>1, Becoming, SoundSelf
<1>10. CASE Recycle
  BY <1>10, RecycleStep
<1>11. CASE UNCHANGED vars
  BY <1>11 DEF vars, Inv, Arena, ArenaOK, Array, Cap, ReplyOK
<1> QED
  BY <1>1, <1>2, <1>3, <1>4, <1>5, <1>6, <1>7, <1>8, <1>9, <1>10, <1>11 DEF Next

LEMMA InitOK == Init => Inv
<1> SUFFICES ASSUME Init PROVE Inv
  OBVIOUS
<1>1. Fresh \in Seq({"0"}) /\ Len(Fresh) = DefaultSize
  BY ArenaAssumption DEF Fresh
<1>2. mem \in Seq(Seq({"0"})) /\ Len(mem) = 1 /\ Array(Arena) = Fresh
  <2>1. <<Fresh>> \in Seq(Seq({"0"})) /\ Len(<<Fresh>>) = 1 /\ <<Fresh>>[1] = Fresh
    BY <1>1
  <2> QED
    BY <2>1 DEF Init, Array, Arena
<1>3. Cap(Arena) = DefaultSize /\ Arena.mem = mem /\ Arena.len = 0
  BY <1>1, <1>2 DEF Cap, Arena, Init
<1>4. ArenaOK(Arena)
  BY <1>2, <1>3, BoundIsLargest, ArenaAssumption DEF ArenaOK, Arena
<1> QED
  BY <1>3, <1>4, ArenaAssumption DEF Init, Inv, Empty

LEMMA Invariance == Spec => []Inv
<1>1. Inv /\ [Next]_vars => Inv'
  BY Step
<1> QED
  BY InitOK, <1>1, PTL DEF Spec

(* One transaction never takes more than the limit, and what it leaves in    *)
(* the pool is no larger than maxRetainedSize (reserve, Grow, Reset).         *)
THEOREM CapacityTheorem == Spec => []CapacityBounded
<1>1. Inv => CapacityBounded
  BY DEF Inv, ArenaOK, CapacityBounded, Bound
<1> QED
  BY <1>1, Invariance, PTL

(* No call changes a byte below the arena's length, so whatever a span was   *)
(* cut over it reads until the arena is recycled: growth copies, an          *)
(* allocation fills only what lies behind (Alloc, Grow, appendResponseChunk). *)
THEOREM BytesKept == Spec => [][Kept]_vars
<1>1. Inv /\ [Next]_vars => [Kept]_vars
  BY Step
<1> QED
  BY <1>1, Invariance, PTL DEF Spec

-----------------------------------------------------------------------------
(* Recursion over sequences: what is laid end to end, piece by piece.        *)

\* Induction over the set of numbers for which something holds.
LEMMA Upwards ==
  ASSUME NEW S, 0 \in S, \A n \in Nat : n \in S => n + 1 \in S
  PROVE  Nat \subseteq S
<1> SUFFICES ASSUME Nat \ S # {} PROVE FALSE
  OBVIOUS
<1> DEFINE less == OpToRel(<, Nat)
<1>1. IsWellFoundedOn(less, Nat)
  BY NatLessThanWellFounded
<1>2. \A x, y \in Nat : <<x, y>> \in less <=> x < y
  BY DEF OpToRel
<1> HIDE DEF less
<1>3. Nat \ S \in SUBSET Nat /\ Nat \ S # {}
  OBVIOUS
<1>4. PICK n \in Nat \ S : \A k \in Nat \ S : ~(<<k, n>> \in less)
  BY <1>1, <1>3, WFMin
<1>5. CASE n = 0
  BY <1>5
<1>6. CASE n # 0
  <2>1. n - 1 \in Nat /\ n - 1 < n /\ (n - 1) + 1 = n
    BY <1>6
  <2>2. n - 1 \in S
    BY <1>2, <1>4, <2>1
  <2>3. QED
    BY <2>1, <2>2
<1>7. QED
  BY <1>5, <1>6

\* The same, as far as a bound.
LEMMA UpTo ==
  ASSUME NEW n \in Nat, NEW S, 0 \in S, \A k \in 1..n : k - 1 \in S => k \in S
  PROVE  0..n \subseteq S
<1> DEFINE T == {k \in Nat : k <= n => k \in S}
<1>1. 0 \in T
  OBVIOUS
<1>2. \A k \in Nat : k \in T => k + 1 \in T
  <2> SUFFICES ASSUME NEW k \in Nat, k \in T, k + 1 <= n PROVE k + 1 \in S
    OBVIOUS
  <2>1. k \in S /\ k + 1 \in 1..n /\ (k + 1) - 1 = k
    OBVIOUS
  <2> QED
    BY <2>1
<1> HIDE DEF T
<1>3. Nat \subseteq T
  BY <1>1, <1>2, Upwards
<1> QED
  BY <1>3 DEF T

\* f is what step makes of base, place by place.
Iterates(f, T, n, base, step) ==
  /\ f \in [0..n -> T] /\ f[0] = base
  /\ \A k \in 1..n : f[k] = step[<<f[k - 1], k>>]

\* A function over 0..n by recursion exists and keeps to the set of its values.
LEMMA IterationExists ==
  ASSUME NEW T, NEW n \in Nat, NEW base \in T, NEW step \in [T \X (1..n) -> T]
  PROVE  \E f : Iterates(f, T, n, base, step)
<1> DEFINE S == {m \in 0..n : \E f : Iterates(f, T, m, base, step)}
<1>1. 0 \in S
  <2> DEFINE f == [k \in 0..0 |-> base]
  <2>1. Iterates(f, T, 0, base, step)
    BY DEF Iterates
  <2> QED
    BY <2>1
<1>2. \A k \in 1..n : k - 1 \in S => k \in S
  <2> SUFFICES ASSUME NEW k \in 1..n, k - 1 \in S PROVE \E f : Iterates(f, T, k, base, step)
    OBVIOUS
  <2>1. PICK g : Iterates(g, T, k - 1, base, step)
    OBVIOUS
  <2>2. g \in [0..k - 1 -> T] /\ k - 1 \in 0..k - 1 /\ k \in Nat
    BY <2>1 DEF Iterates
  <2>3. step[<<g[k - 1], k>>] \in T
    <3>1. g[k - 1] \in T
      BY <2>2
    <3>2. <<g[k - 1], k>> \in T \X (1..n)
      BY <3>1
    <3> QED
      BY <3>2
  <2> DEFINE f == [j \in 0..k |-> IF j = k THEN step[<<g[k - 1], k>>] ELSE g[j]]
  <2>4. \A j \in 0..k - 1 : f[j] = g[j]
    BY <2>2
  <2>5. f[k] = step[<<g[k - 1], k>>]
    BY <2>2
  <2>6. f \in [0..k -> T]
    <3>1. \A j \in 0..k : j # k => j \in 0..k - 1
      BY <2>2
    <3> QED
      BY <2>2, <2>3, <3>1
  <2> HIDE DEF f
  <2>7. f[0] = base
    BY <2>1, <2>2, <2>4 DEF Iterates
  <2>8. \A j \in 1..k : f[j] = step[<<f[j - 1], j>>]
    <3> SUFFICES ASSUME NEW j \in 1..k PROVE f[j] = step[<<f[j - 1], j>>]
      OBVIOUS
    <3>1. j - 1 \in 0..k - 1 /\ (j = k \/ j \in 1..k - 1)
      BY <2>2
    <3>2. f[j - 1] = g[j - 1]
      BY <2>4, <3>1
    <3>3. CASE j = k
      BY <2>5, <3>2, <3>3
    <3>4. CASE j \in 1..k - 1
      <4>1. g[j] = step[<<g[j - 1], j>>] /\ j \in 0..k - 1
        BY <2>1, <2>2, <3>4 DEF Iterates
      <4> QED
        BY <2>4, <3>2, <4>1
    <3> QED
      BY <3>1, <3>3, <3>4
  <2> QED
    BY <2>6, <2>7, <2>8 DEF Iterates
<1> HIDE DEF S
<1>3. n \in S
  BY <1>1, <1>2, UpTo
<1> QED
  BY <1>3 DEF S

\* Sequences laid end to end.
Laid(f, seqs, n) ==
  \A k \in 1..n : f[k] = IF k = 1 THEN seqs[k] ELSE f[k - 1] \o seqs[k]

\* FlattenSeq is the last place of its recursion.
LEMMA FlattenUnfolds ==
  ASSUME NEW T, NEW seqs \in Seq(Seq(T)), Len(seqs) # 0
  PROVE  \E f : Laid(f, seqs, Len(seqs)) /\ FlattenSeq(seqs) = f[Len(seqs)]
<1> DEFINE n == Len(seqs)
           Is(f) == f = [k \in 1..n |-> IF k = 1 THEN seqs[k] ELSE f[k - 1] \o seqs[k]]
           f == CHOOSE f : Is(f)
<1>0. n \in Nat /\ n # 0 /\ \A k \in 1..n : seqs[k] \in Seq(T)
  OBVIOUS
<1>1. FlattenSeq(seqs) = f[n]
  BY DEF FlattenSeq
<1> HIDE DEF n
<1>2. \E g : Is(g)
  <2> DEFINE step == [p \in Seq(T) \X (1..n) |->
                        IF p[2] = 1 THEN seqs[1] ELSE p[1] \o seqs[p[2]]]
  <2>0. <<>> \in Seq(T) /\ 1 \in 1..n
    BY <1>0
  <2>1. \A t \in Seq(T), k \in 1..n : t \o seqs[k] \in Seq(T)
    BY <1>0
  <2>2. step \in [Seq(T) \X (1..n) -> Seq(T)]
    BY <1>0, <2>0, <2>1
  <2>3. \A t \in Seq(T), k \in 1..n : step[<<t, k>>] = IF k = 1 THEN seqs[k] ELSE t \o seqs[k]
    OBVIOUS
  <2> HIDE DEF step
  <2>4. PICK g : Iterates(g, Seq(T), n, <<>>, step)
    BY <1>0, <2>0, <2>2, IterationExists
  <2>5. \A k \in 1..n : g[k] = IF k = 1 THEN seqs[k] ELSE g[k - 1] \o seqs[k]
    <3> TAKE k \in 1..n
    <3>1. k - 1 \in 0..n
      BY <1>0
    <3>2. g[k - 1] \in Seq(T) /\ g[k] = step[<<g[k - 1], k>>]
      BY <2>4, <3>1 DEF Iterates
    <3> QED
      BY <2>3, <3>2
  <2> DEFINE h == [k \in 1..n |-> g[k]]
  <2>6. \A k \in 1..n : h[k] = IF k = 1 THEN seqs[k] ELSE h[k - 1] \o seqs[k]
    <3> TAKE k \in 1..n
    <3>1. k # 1 => k - 1 \in 1..n
      BY <1>0
    <3> QED
      BY <2>5, <3>1
  <2>7. h = [k \in 1..n |-> IF k = 1 THEN seqs[k] ELSE h[k - 1] \o seqs[k]]
    <3>1. h = [k \in 1..n |-> h[k]]
      OBVIOUS
    <3> HIDE DEF h
    <3> QED
      BY <2>6, <3>1
  <2> HIDE DEF h
  <2> QED
    BY <2>7
<1> HIDE DEF Is
<1>3. Is(f)
  BY <1>2
<1> HIDE DEF f
<1>4. Laid(f, seqs, n)
  BY <1>3 DEF Is, Laid
<1> QED
  BY <1>1, <1>4 DEF n

\* Sequences laid end to end are a sequence of the same values.
LEMMA FlattenType ==
  ASSUME NEW T, NEW seqs \in Seq(Seq(T))
  PROVE  FlattenSeq(seqs) \in Seq(T)
<1> DEFINE n == Len(seqs)
<1>0. n \in Nat /\ \A k \in 1..n : seqs[k] \in Seq(T)
  OBVIOUS
<1>1. CASE n = 0
  <2>1. seqs = <<>>
    BY <1>1, EmptySeq
  <2>2. FlattenSeq(seqs) = seqs
    BY <1>1 DEF FlattenSeq
  <2>3. <<>> \in Seq(T)
    OBVIOUS
  <2> QED
    BY <2>1, <2>2, <2>3
<1>2. CASE n # 0
  <2>1. PICK f : Laid(f, seqs, n) /\ FlattenSeq(seqs) = f[n]
    BY <1>2, FlattenUnfolds
  <2> HIDE DEF n
  <2> DEFINE K == {k \in 0..n : k = 0 \/ f[k] \in Seq(T)}
  <2>2. 0 \in K
    BY <1>0
  <2>3. \A k \in 1..n : k - 1 \in K => k \in K
    <3> SUFFICES ASSUME NEW k \in 1..n, k - 1 \in K PROVE k \in K
      OBVIOUS
    <3>1. f[k] = IF k = 1 THEN seqs[k] ELSE f[k - 1] \o seqs[k]
      BY <2>1 DEF Laid
    <3>2. k # 1 => k - 1 # 0
      BY <1>0
    <3>3. f[k] \in Seq(T)
      <4>1. CASE k = 1
        BY <1>0, <3>1, <4>1
      <4>2. CASE k # 1
        <5>1. f[k - 1] \in Seq(T) /\ seqs[k] \in Seq(T)
          BY <1>0, <3>2, <4>2
        <5> QED
          BY <3>1, <4>2, <5>1
      <4> QED
        BY <4>1, <4>2
    <3>4. k \in 0..n
      BY <1>0
    <3> QED
      BY <3>3, <3>4
  <2> HIDE DEF K
  <2>a. n \in Nat
    BY <1>0 DEF n
  <2>b. 0..n \subseteq K
    BY <2>2, <2>3, <2>a, UpTo
  <2>4. n \in K
    BY <2>a, <2>b
  <2> QED
    BY <1>2, <2>1, <2>4 DEF K
<1> QED
  BY <1>1, <1>2

\* Two sequences whose members correspond, place by place.
Alike(x, y, A, B, R) ==
  /\ x \in Seq(A) /\ y \in Seq(B) /\ Len(x) = Len(y)
  /\ \A i \in 1..Len(x) : <<x[i], y[i]>> \in R

LEMMA OneAlike ==
  ASSUME NEW A, NEW B, NEW R, NEW a \in A, NEW b \in B, <<a, b>> \in R
  PROVE  Alike(<<a>>, <<b>>, A, B, R)
BY DEF Alike

\* What corresponds piece by piece corresponds end to end.
LEMMA ConcatAlike ==
  ASSUME NEW A, NEW B, NEW R, NEW x, NEW y, NEW u, NEW v,
         Alike(x, y, A, B, R), Alike(u, v, A, B, R)
  PROVE  Alike(x \o u, y \o v, A, B, R)
<1>1. /\ x \in Seq(A) /\ u \in Seq(A) /\ y \in Seq(B) /\ v \in Seq(B)
      /\ Len(x) \in Nat /\ Len(u) \in Nat /\ Len(x) = Len(y) /\ Len(u) = Len(v)
  BY DEF Alike
<1>2. /\ x \o u \in Seq(A) /\ y \o v \in Seq(B)
      /\ Len(x \o u) = Len(x) + Len(u) /\ Len(y \o v) = Len(x) + Len(u)
  <2>1. x \o u \in Seq(A) /\ Len(x \o u) = Len(x) + Len(u)
    BY <1>1, ConcatProperties
  <2>2. y \o v \in Seq(B) /\ Len(y \o v) = Len(y) + Len(v)
    BY <1>1, ConcatProperties
  <2> QED
    BY <1>1, <2>1, <2>2
<1>3. \A i \in 1..(Len(x) + Len(u)) : <<(x \o u)[i], (y \o v)[i]>> \in R
  <2> TAKE i \in 1..(Len(x) + Len(u))
  <2>1. CASE i \in 1..Len(x)
    <3>1. (x \o u)[i] = x[i] /\ (y \o v)[i] = y[i]
      BY <1>1, <2>1
    <3> QED
      BY <2>1, <3>1 DEF Alike
  <2>2. CASE i \notin 1..Len(x)
    <3>1. i - Len(x) \in 1..Len(u)
      BY <1>1, <2>2
    <3>2. (x \o u)[i] = u[i - Len(x)] /\ (y \o v)[i] = v[i - Len(x)]
      BY <1>1, <2>2
    <3> QED
      BY <3>1, <3>2 DEF Alike
  <2> QED
    BY <2>1, <2>2
<1> QED
  BY <1>1, <1>2, <1>3 DEF Alike

\* And so do sequences of such pieces laid end to end.
LEMMA FlattenAlike ==
  ASSUME NEW A, NEW B, NEW R, NEW x \in Seq(Seq(A)), NEW y \in Seq(Seq(B)),
         Len(x) = Len(y), \A i \in 1..Len(x) : Alike(x[i], y[i], A, B, R)
  PROVE  Alike(FlattenSeq(x), FlattenSeq(y), A, B, R)
<1> DEFINE n == Len(x)
<1>1. CASE n = 0
  <2>1. x = <<>> /\ y = <<>>
    BY <1>1, EmptySeq
  <2>2. FlattenSeq(x) = <<>> /\ FlattenSeq(y) = <<>>
    BY <1>1, <2>1 DEF FlattenSeq
  <2> QED
    BY <2>2 DEF Alike
<1>2. CASE n # 0
  <2>1. PICK f : Laid(f, x, n) /\ FlattenSeq(x) = f[n]
    BY <1>2, FlattenUnfolds
  <2>2. PICK g : Laid(g, y, n) /\ FlattenSeq(y) = g[n]
    BY <1>2, FlattenUnfolds
  <2>3. n \in Nat /\ \A i \in 1..n : Alike(x[i], y[i], A, B, R)
    OBVIOUS
  <2> HIDE DEF n
  <2> DEFINE K == {k \in 0..n : k = 0 \/ Alike(f[k], g[k], A, B, R)}
  <2>4. 0 \in K
    BY <2>3
  <2>5. \A k \in 1..n : k - 1 \in K => k \in K
    <3> SUFFICES ASSUME NEW k \in 1..n, k - 1 \in K PROVE k \in K
      OBVIOUS
    <3>1. /\ f[k] = IF k = 1 THEN x[k] ELSE f[k - 1] \o x[k]
          /\ g[k] = IF k = 1 THEN y[k] ELSE g[k - 1] \o y[k]
      BY <2>1, <2>2 DEF Laid
    <3>2. Alike(f[k], g[k], A, B, R)
      <4>1. CASE k = 1
        BY <2>3, <3>1, <4>1
      <4>2. CASE k # 1
        <5>1. k - 1 # 0
          BY <2>3, <4>2
        <5>2. Alike(f[k - 1], g[k - 1], A, B, R) /\ Alike(x[k], y[k], A, B, R)
          BY <2>3, <5>1
        <5>3. Alike(f[k - 1] \o x[k], g[k - 1] \o y[k], A, B, R)
          BY <5>2, ConcatAlike
        <5> QED
          BY <3>1, <4>2, <5>3
      <4> QED
        BY <4>1, <4>2
    <3>3. k \in 0..n
      BY <2>3
    <3> QED
      BY <3>2, <3>3
  <2> HIDE DEF K
  <2>6. 0..n \subseteq K
    BY <2>3, <2>4, <2>5, UpTo
  <2>7. n \in K
    BY <2>3, <2>6
  <2> QED
    BY <1>2, <2>1, <2>2, <2>7 DEF K
<1> QED
  BY <1>1, <1>2

\* The store flattens as the arena does.
LEMMA SameFlatten == ASSUME NEW x PROVE Store!FlattenSeq(x) = FlattenSeq(x)
BY DEF Store!FlattenSeq, FlattenSeq

\* The bytes of values laid end to end are as many as the values take together.
Sums(f, vs, n) == f[0] = 0 /\ \A k \in 1..n : f[k] = f[k - 1] + vs[k].data.len

LEMMA SizeOfUnfolds ==
  ASSUME NEW vs, NEW n \in Nat, n = Len(vs), \A k \in 1..n : vs[k].data.len \in Nat
  PROVE  \E f : Sums(f, vs, n) /\ SizeOf(vs) = f[n]
<1> DEFINE Is(f) == f = [k \in 0..n |-> IF k = 0 THEN 0 ELSE f[k - 1] + vs[k].data.len]
           f == CHOOSE f : Is(f)
<1>1. SizeOf(vs) = f[n]
  BY DEF SizeOf
<1>2. \E g : Is(g)
  <2> DEFINE step == [p \in Nat \X (1..n) |-> p[1] + vs[p[2]].data.len]
  <2>1. \A t \in Nat, k \in 1..n : t + vs[k].data.len \in Nat
    OBVIOUS
  <2>2. step \in [Nat \X (1..n) -> Nat]
    BY <2>1
  <2>3. \A t \in Nat, k \in 1..n : step[<<t, k>>] = t + vs[k].data.len
    OBVIOUS
  <2> HIDE DEF step
  <2>4. PICK g : Iterates(g, Nat, n, 0, step)
    BY <2>2, IterationExists
  <2>5. \A k \in 1..n : g[k] = g[k - 1] + vs[k].data.len
    <3> TAKE k \in 1..n
    <3>1. k - 1 \in 0..n
      OBVIOUS
    <3>2. g[k - 1] \in Nat /\ g[k] = step[<<g[k - 1], k>>]
      BY <2>4, <3>1 DEF Iterates
    <3> QED
      BY <2>3, <3>2
  <2>6. g \in [0..n -> Nat] /\ g[0] = 0
    BY <2>4 DEF Iterates
  <2>7. \A k \in 0..n : k = 0 \/ k \in 1..n
    OBVIOUS
  <2>8. g = [k \in 0..n |-> IF k = 0 THEN 0 ELSE g[k - 1] + vs[k].data.len]
    BY <2>5, <2>6, <2>7
  <2> QED
    BY <2>8
<1> HIDE DEF Is
<1>3. Is(f)
  BY <1>2
<1> HIDE DEF f
<1>4. Sums(f, vs, n)
  <2>1. f = [k \in 0..n |-> IF k = 0 THEN 0 ELSE f[k - 1] + vs[k].data.len]
    BY <1>3 DEF Is
  <2>2. 0 \in 0..n /\ \A k \in 1..n : k \in 0..n /\ k # 0
    OBVIOUS
  <2>3. f[0] = 0 /\ \A k \in 1..n : f[k] = f[k - 1] + vs[k].data.len
    BY <2>1, <2>2
  <2> QED
    BY <2>3 DEF Sums
<1> QED
  BY <1>1, <1>4

LEMMA SizeOfFlatten ==
  ASSUME NEW vs, NEW T, NEW texts \in Seq(Seq(T)), Len(vs) = Len(texts),
         \A k \in 1..Len(texts) : vs[k].data.len = Len(texts[k])
  PROVE  SizeOf(vs) = Len(FlattenSeq(texts)) /\ FlattenSeq(texts) \in Seq(T)
<1> DEFINE n == Len(texts)
<1>1. n \in Nat /\ n = Len(vs)
      /\ \A k \in 1..n : texts[k] \in Seq(T) /\ vs[k].data.len = Len(texts[k])
                         /\ vs[k].data.len \in Nat
  OBVIOUS
<1>2. PICK g : Sums(g, vs, n) /\ SizeOf(vs) = g[n]
  BY <1>1, SizeOfUnfolds
<1>3. CASE n = 0
  <2>1. texts = <<>>
    BY <1>3, EmptySeq
  <2>2. FlattenSeq(texts) = <<>>
    BY <1>3, <2>1 DEF FlattenSeq
  <2>3. g[n] = 0
    BY <1>2, <1>3 DEF Sums
  <2> QED
    BY <1>2, <2>2, <2>3
<1>4. CASE n # 0
  <2>1. PICK f : Laid(f, texts, n) /\ FlattenSeq(texts) = f[n]
    BY <1>4, FlattenUnfolds
  <2> HIDE DEF n
  <2> DEFINE K == {k \in 0..n : k = 0 \/ (f[k] \in Seq(T) /\ g[k] = Len(f[k]))}
  <2>2. 0 \in K
    BY <1>1
  <2>3. \A k \in 1..n : k - 1 \in K => k \in K
    <3> SUFFICES ASSUME NEW k \in 1..n, k - 1 \in K PROVE k \in K
      OBVIOUS
    <3>1. /\ f[k] = IF k = 1 THEN texts[k] ELSE f[k - 1] \o texts[k]
          /\ g[k] = g[k - 1] + Len(texts[k])
      BY <1>1, <1>2, <2>1 DEF Laid, Sums
    <3>2. f[k] \in Seq(T) /\ g[k] = Len(f[k])
      <4>0. texts[k] \in Seq(T) /\ Len(texts[k]) \in Nat
        BY <1>1
      <4>1. CASE k = 1
        <5>1. g[0] = 0 /\ k - 1 = 0
          BY <1>2, <4>1 DEF Sums
        <5> QED
          BY <3>1, <4>0, <4>1, <5>1
      <4>2. CASE k # 1
        <5>1. k - 1 # 0
          BY <1>1, <4>2
        <5>2. f[k - 1] \in Seq(T) /\ g[k - 1] = Len(f[k - 1])
          BY <5>1
        <5> QED
          BY <3>1, <4>0, <4>2, <5>2
      <4> QED
        BY <4>1, <4>2
    <3>3. k \in 0..n
      BY <1>1
    <3> QED
      BY <3>2, <3>3
  <2> HIDE DEF K
  <2>4. 0..n \subseteq K
    BY <1>1, <2>2, <2>3, UpTo
  <2>5. n \in K
    BY <1>1, <2>4
  <2> QED
    BY <1>2, <1>4, <2>1, <2>5 DEF K
<1> QED
  BY <1>3, <1>4

-----------------------------------------------------------------------------
(* What is in memory: bytes, and spans over them.                            *)

\* A byte of a text, or of memory that nothing was written to.
Byte == STRING \cup {"0"}

Sized(a) == ArenaOK(a) /\ a.mem \in Seq(Seq(Byte)) /\ a.len <= Limit

\* b has every array of a, none of them shorter, and every byte recorded in a.
Extends(a, b) ==
  /\ Len(b.mem) >= Len(a.mem) /\ b.len >= a.len
  /\ \A k \in 1..Len(a.mem) :
       /\ Len(b.mem[k]) = Len(a.mem[k])
       /\ \A i \in 1..Len(a.mem[k]) : i <= a.len => b.mem[k][i] = a.mem[k][i]
  /\ \A i \in 1..a.len : Array(b)[i] = Array(a)[i]

\* A function on 1..n is a sequence of its values.
LEMMA SequenceOf ==
  ASSUME NEW T, NEW n \in Nat, NEW f, f = [i \in 1..n |-> f[i]], \A i \in 1..n : f[i] \in T
  PROVE  f \in Seq(T) /\ Len(f) = n
<1>1. f \in [1..n -> T]
  OBVIOUS
<1> QED
  BY <1>1

\* The arrays of an arena, and the one it uses.
LEMMA SizedParts ==
  ASSUME NEW a, Sized(a)
  PROVE  /\ Len(a.mem) \in Nat \ {0} /\ Len(a.mem) \in 1..Len(a.mem)
         /\ Array(a) = a.mem[Len(a.mem)] /\ Array(a) \in Seq(Byte)
         /\ Cap(a) = Len(Array(a)) /\ Cap(a) \in Nat /\ Cap(a) <= Bound
         /\ a.len \in Nat /\ a.len <= Cap(a) /\ a.len <= Limit
         /\ \A k \in 1..Len(a.mem) : a.mem[k] \in Seq(Byte) /\ Len(a.mem[k]) \in Nat
<1>1. Len(a.mem) \in Nat \ {0} /\ Len(a.mem) \in 1..Len(a.mem)
  BY DEF Sized, ArenaOK
<1>2. \A k \in 1..Len(a.mem) : a.mem[k] \in Seq(Byte) /\ Len(a.mem[k]) \in Nat
  BY DEF Sized
<1>3. Cap(a) \in Nat /\ a.len \in Nat
  BY CapIsNat DEF Sized
<1> QED
  BY <1>1, <1>2, <1>3 DEF Sized, ArenaOK, Array, Cap

LEMMA ExtendsSelf == ASSUME NEW a, Sized(a) PROVE Extends(a, a)
BY SizedParts DEF Extends

LEMMA ExtendsIf ==
  ASSUME NEW a, NEW b, Len(b.mem) >= Len(a.mem), b.len >= a.len,
         \A k \in 1..Len(a.mem) :
            /\ Len(b.mem[k]) = Len(a.mem[k])
            /\ \A i \in 1..Len(a.mem[k]) : i <= a.len => b.mem[k][i] = a.mem[k][i],
         \A i \in 1..a.len : Array(b)[i] = Array(a)[i]
  PROVE  Extends(a, b)
BY DEF Extends

LEMMA ExtendsTwice ==
  ASSUME NEW a, NEW b, NEW c, Sized(a), Sized(b), Sized(c), Extends(a, b), Extends(b, c)
  PROVE  Extends(a, c)
<1>1. /\ Len(a.mem) \in Nat /\ Len(b.mem) \in Nat /\ Len(c.mem) \in Nat
      /\ a.len \in Nat /\ b.len \in Nat /\ c.len \in Nat
      /\ Len(b.mem) >= Len(a.mem) /\ b.len >= a.len
      /\ Len(c.mem) >= Len(b.mem) /\ c.len >= b.len
  BY SizedParts DEF Extends
<1>2. ASSUME NEW k \in 1..Len(a.mem)
      PROVE  /\ Len(c.mem[k]) = Len(a.mem[k])
             /\ \A i \in 1..Len(a.mem[k]) : i <= a.len => c.mem[k][i] = a.mem[k][i]
  <2>1. k \in 1..Len(b.mem) /\ Len(b.mem[k]) = Len(a.mem[k]) /\ Len(c.mem[k]) = Len(b.mem[k])
    BY <1>1 DEF Extends
  <2>2. ASSUME NEW i \in 1..Len(a.mem[k]), i <= a.len PROVE c.mem[k][i] = a.mem[k][i]
    <3>1. b.mem[k][i] = a.mem[k][i]
      BY <2>2 DEF Extends
    <3>2. i \in 1..Len(b.mem[k]) /\ i <= b.len
      <4>1. Len(a.mem[k]) \in Nat
        BY SizedParts
      <4> QED
        BY <1>1, <2>1, <2>2, <4>1
    <3>3. c.mem[k][i] = b.mem[k][i]
      BY <2>1, <3>2 DEF Extends
    <3> QED
      BY <3>1, <3>3
  <2> QED
    BY <2>1, <2>2
<1>3. \A i \in 1..a.len : Array(c)[i] = Array(a)[i]
  BY <1>1 DEF Extends
<1>4. Len(c.mem) >= Len(a.mem) /\ c.len >= a.len
  BY <1>1
<1> QED
  BY <1>2, <1>3, <1>4, ExtendsIf

\* Moving abandons the array it copies, as it is.
LEMMA MovedExtends ==
  ASSUME NEW a, Sized(a), NEW size \in Nat, size > Cap(a), size <= Bound
  PROVE  Sized(Moved(a, size)) /\ Extends(a, Moved(a, size))
<1> DEFINE array == [i \in 1..size |-> IF i <= a.len THEN Array(a)[i] ELSE "0"]
           b == Moved(a, size)
<1>1. /\ ArenaOK(b) /\ b.len = a.len
      /\ \A i \in 1..a.len : Array(b)[i] = Array(a)[i]
  BY MovedOK DEF Sized
<1>2. b.mem = Append(a.mem, array)
  <2>1. a = [mem |-> a.mem, len |-> a.len]
    BY DEF Sized, ArenaOK
  <2> HIDE DEF array
  <2>2. [a EXCEPT !.mem = Append(a.mem, array)].mem = Append(a.mem, array)
    BY <2>1
  <2>3. b = [a EXCEPT !.mem = Append(a.mem, array)]
    BY DEF Moved, array
  <2> HIDE DEF b
  <2> QED
    BY <2>2, <2>3
<1>3. array \in Seq(Byte)
  <2>1. /\ Array(a) \in Seq(Byte) /\ Cap(a) = Len(Array(a)) /\ Cap(a) \in Nat
        /\ a.len \in Nat /\ a.len <= Cap(a)
    BY SizedParts
  <2>2. \A i \in 1..size : i <= a.len => Array(a)[i] \in Byte
    BY <2>1
  <2>3. \A i \in 1..size : array[i] \in Byte
    BY <2>2 DEF Byte
  <2>4. array = [i \in 1..size |-> array[i]]
    OBVIOUS
  <2> HIDE DEF array
  <2> QED
    BY <2>3, <2>4, SequenceOf
<1> HIDE DEF array, b
<1>4. /\ b.mem \in Seq(Seq(Byte)) /\ Len(b.mem) = Len(a.mem) + 1
      /\ \A k \in 1..Len(a.mem) : b.mem[k] = a.mem[k]
  <2>1. a.mem \in Seq(Seq(Byte))
    BY DEF Sized
  <2> QED
    BY <1>2, <1>3, <2>1, AppendProperties
<1>5. Len(a.mem) \in Nat /\ a.len \in Nat /\ a.len <= Limit
  BY SizedParts
<1>6. Sized(b)
  BY <1>1, <1>4, <1>5 DEF Sized
<1>7. Extends(a, b)
  <2>1. Len(b.mem) >= Len(a.mem) /\ b.len >= a.len
    BY <1>1, <1>4, <1>5
  <2> QED
    BY <1>1, <1>4, <2>1 DEF Extends
<1> QED
  BY <1>6, <1>7 DEF b

LEMMA ReservedExtends ==
  ASSUME NEW a, Sized(a), NEW n \in Nat, Fits(a, n)
  PROVE  Sized(Reserved(a, n)) /\ Extends(a, Reserved(a, n))
<1> DEFINE need == a.len + n
<1>1. Cap(a) \in Nat /\ need \in Nat /\ need <= Limit
  BY SizedParts DEF Fits
<1>2. CASE need <= Cap(a)
  BY <1>2, ExtendsSelf DEF Reserved
<1>3. CASE need > Cap(a)
  <2>1. Reserved(a, n) = Moved(a, NewCap(a, need))
    BY <1>1, <1>3 DEF Reserved
  <2>2. NewCap(a, need) \in need..Limit
    BY <1>1, NewCapOK
  <2>3. NewCap(a, need) \in Nat /\ NewCap(a, need) > Cap(a) /\ NewCap(a, need) <= Bound
    BY <1>1, <1>3, <2>2, BoundIsLargest, ArenaAssumption
  <2> QED
    BY <2>1, <2>3, MovedExtends
<1> QED
  BY <1>1, <1>2, <1>3

LEMMA GrownExtends ==
  ASSUME NEW a, Sized(a), NEW n \in Nat
  PROVE  Sized(Grown(a, n)) /\ Extends(a, Grown(a, n)) /\ Grown(a, n).len = a.len
<1>1. Cap(a) \in Nat /\ a.len \in Nat /\ Limit \in Nat /\ Limit <= Bound /\ Bound \in Nat
  BY SizedParts, BoundIsLargest, ArenaAssumption
<1>2. CASE Fits(a, n) /\ a.len + n > Cap(a)
  <2>1. Grown(a, n) = Moved(a, a.len + n)
    BY <1>2 DEF Grown
  <2>2. a.len + n \in Nat /\ a.len + n <= Bound
    BY <1>1, <1>2 DEF Fits
  <2>3. Moved(a, a.len + n).len = a.len
    BY <1>2, <2>2, MovedOK DEF Sized
  <2> QED
    BY <1>2, <2>1, <2>2, <2>3, MovedExtends
<1>3. CASE ~(Fits(a, n) /\ a.len + n > Cap(a))
  BY <1>3, ExtendsSelf DEF Grown
<1> QED
  BY <1>2, <1>3

\* A text lies where there was none, and what there was is as it was.
LEMMA FilledExtends ==
  ASSUME NEW a, Sized(a), NEW text \in Seq(Byte), NEW n \in Nat, n = Len(text), Fits(a, n)
  PROVE  /\ Sized(Filled(a, n, text)) /\ Extends(a, Filled(a, n, text))
         /\ Filled(a, n, text).len = a.len + n
         /\ \A i \in 1..n : Array(Filled(a, n, text))[a.len + i] = text[i]
<1> DEFINE r == Reserved(a, n)
           array == [i \in DOMAIN Array(r) |->
                      IF i - r.len \in 1..n THEN text[i - r.len] ELSE Array(r)[i]]
           b == Filled(a, n, text)
<1>1. Sized(r) /\ Extends(a, r) /\ r.len = a.len /\ Cap(r) >= a.len + n
  BY ReservedExtends, ReservedOK DEF Sized
<1>2. ArenaOK(b) /\ b.len = a.len + n /\ Keeps(a, b)
  BY FilledOK DEF Sized
<1>3. b.mem = [r.mem EXCEPT ![Len(r.mem)] = array]
  BY DEF Filled
<1> HIDE DEF r
<1>4. /\ Array(r) \in Seq(Byte) /\ Cap(r) = Len(Array(r)) /\ Cap(r) \in Nat
      /\ DOMAIN Array(r) = 1..Cap(r)
      /\ Array(r) = r.mem[Len(r.mem)] /\ Len(r.mem) \in 1..Len(r.mem) /\ Len(r.mem) \in Nat
      /\ r.mem \in Seq(Seq(Byte)) /\ a.len \in Nat
  <2>1. \A t \in Seq(Byte) : DOMAIN t = 1..Len(t)
    OBVIOUS
  <2> QED
    BY <1>1, <2>1, SizedParts DEF Sized
<1>5. array \in Seq(Byte) /\ Len(array) = Cap(r)
  <2>1. \A i \in 1..Cap(r) : Array(r)[i] \in Byte
    BY <1>4
  <2>2. \A i \in 1..n : text[i] \in Byte
    OBVIOUS
  <2>3. \A i \in 1..Cap(r) : array[i] \in Byte
    BY <1>4, <2>1, <2>2
  <2>4. array = [i \in 1..Cap(r) |-> array[i]]
    BY <1>4
  <2> HIDE DEF array
  <2> QED
    BY <1>4, <2>3, <2>4, SequenceOf
<1>6. \A i \in 1..Cap(r) : i <= a.len => array[i] = Array(r)[i]
  BY <1>1, <1>4
<1>7. \A i \in 1..n : array[a.len + i] = text[i]
  <2> TAKE i \in 1..n
  <2>1. a.len + i \in 1..Cap(r) /\ (a.len + i) - r.len = i
    BY <1>1, <1>4
  <2> QED
    BY <1>4, <2>1
<1> HIDE DEF array, b
<1>8. /\ b.mem \in Seq(Seq(Byte)) /\ Len(b.mem) = Len(r.mem)
      /\ b.mem[Len(r.mem)] = array
      /\ \A k \in 1..Len(r.mem) : k # Len(r.mem) => b.mem[k] = r.mem[k]
  BY <1>3, <1>4, <1>5, ExceptSeq
<1>9. Array(b) = array
  BY <1>8 DEF Array
<1>10. Sized(b)
  BY <1>2, <1>4, <1>8 DEF Sized, Fits
<1>11. Extends(r, b)
  <2>1. \A k \in 1..Len(r.mem) :
          /\ Len(b.mem[k]) = Len(r.mem[k])
          /\ \A i \in 1..Len(r.mem[k]) : i <= r.len => b.mem[k][i] = r.mem[k][i]
    <3> TAKE k \in 1..Len(r.mem)
    <3>1. CASE k = Len(r.mem)
      BY <1>1, <1>4, <1>5, <1>6, <1>8, <3>1
    <3>2. CASE k # Len(r.mem)
      BY <1>8, <3>2
    <3> QED
      BY <3>1, <3>2
  <2>2. \A i \in 1..r.len : Array(b)[i] = Array(r)[i]
    <3>1. \A i \in 1..r.len : i \in 1..Cap(r) /\ i <= a.len
      BY <1>1, <1>4
    <3> QED
      BY <1>6, <1>9, <3>1
  <2>3. b.len >= r.len
    BY <1>1, <1>2, <1>4
  <2> QED
    BY <1>4, <1>8, <2>1, <2>2, <2>3 DEF Extends
<1>12. Extends(a, b)
  BY <1>1, <1>10, <1>11, ExtendsTwice
<1> QED
  BY <1>2, <1>7, <1>9, <1>10, <1>12 DEF b

-----------------------------------------------------------------------------
(* What is recorded: spans that lie within the arena, in the array they were *)
(* cut from as in the one it uses now.                                       *)

Slice(a, s, at) == Bytes(s, a.mem[at], Len(a.mem[at]))

Lies(a, s, at) ==
  /\ s \in Span /\ at \in 1..Len(a.mem)
  /\ s.off + s.len <= a.len /\ s.off + s.len <= Len(a.mem[at])
  /\ \A i \in 1..s.len : a.mem[at][s.off + i] = Array(a)[s.off + i]

\* A slice reads what its span resolves to.
LEMMA SliceResolves ==
  ASSUME NEW a, Sized(a), NEW s, NEW at, Lies(a, s, at)
  PROVE  /\ Slice(a, s, at) = Resolve(a, s)
         /\ Resolve(a, s) = [i \in 1..s.len |-> Array(a)[s.off + i]]
         /\ Resolve(a, s) \in Seq(Byte) /\ Len(Resolve(a, s)) = s.len
         /\ s.off \in Nat /\ s.len \in Nat
<1>1. s.off \in Nat /\ s.len \in Nat /\ s.off + s.len <= a.len /\ s.off + s.len <= Len(a.mem[at])
  BY ArenaAssumption DEF Lies, Span
<1>2. Len(a.mem[at]) \in Nat /\ a.len \in Nat /\ a.len <= Cap(a) /\ Cap(a) \in Nat
      /\ Array(a) \in Seq(Byte) /\ Cap(a) = Len(Array(a))
  BY SizedParts DEF Lies
<1>3. Slice(a, s, at) = [i \in 1..s.len |-> a.mem[at][s.off + i]]
  BY <1>1, <1>2 DEF Slice, Bytes
<1>4. Resolve(a, s) = [i \in 1..s.len |-> Array(a)[s.off + i]]
  BY <1>1, <1>2 DEF Resolve, Bytes
<1>5. Slice(a, s, at) = Resolve(a, s)
  BY <1>3, <1>4 DEF Lies
<1>6. \A i \in 1..s.len : Resolve(a, s)[i] \in Byte
  <2> TAKE i \in 1..s.len
  <2>1. s.off + i \in 1..Len(Array(a))
    BY <1>1, <1>2
  <2>2. Array(a)[s.off + i] \in Byte
    BY <1>2, <2>1
  <2> QED
    BY <1>4, <2>2
<1>7. Resolve(a, s) = [i \in 1..s.len |-> Resolve(a, s)[i]]
  BY <1>4
<1>8. Resolve(a, s) \in Seq(Byte) /\ Len(Resolve(a, s)) = s.len
  BY <1>1, <1>6, <1>7, SequenceOf
<1> QED
  BY <1>1, <1>4, <1>5, <1>8

\* A span may be cut again from the array the arena uses now.
LEMMA LiesNow ==
  ASSUME NEW a, Sized(a), NEW s \in Span, s.off + s.len <= a.len
  PROVE  Lies(a, s, Len(a.mem))
<1>1. s.off \in Nat /\ s.len \in Nat
  BY ArenaAssumption DEF Span
<1>2. Len(a.mem) \in 1..Len(a.mem) /\ Array(a) = a.mem[Len(a.mem)]
      /\ a.len <= Len(Array(a)) /\ a.len \in Nat /\ Len(Array(a)) \in Nat
  BY SizedParts
<1> QED
  BY <1>1, <1>2 DEF Lies

\* A part of a stretch, counted from where the stretch begins.
LEMMA PartOf ==
  ASSUME NEW off \in Nat, NEW part \in Nat, NEW all \in Nat, off + part <= all,
         NEW from \in Nat, NEW to \in Nat, from <= to, to <= part
  PROVE  /\ off + from \in Nat /\ off + from <= all /\ to - from \in Nat /\ to - from <= all
         /\ (off + from) + (to - from) <= all
         /\ \A i \in 1..(to - from) : /\ from + i \in 1..part
                                    /\ off + (from + i) = (off + from) + i
OBVIOUS

LEMMA PlaceIn ==
  ASSUME NEW off \in Nat, NEW part \in Nat, NEW all \in Nat, off + part <= all, NEW i \in 1..part
  PROVE  off + i \in 1..all /\ off + i <= all
OBVIOUS

\* Whatever extends an arena reads every span of it as it did.
LEMMA LiesKept ==
  ASSUME NEW a, NEW b, Sized(a), Sized(b), Extends(a, b), NEW s, NEW at, Lies(a, s, at)
  PROVE  Lies(b, s, at) /\ Slice(b, s, at) = Slice(a, s, at) /\ Resolve(b, s) = Resolve(a, s)
<1>1. s.off \in Nat /\ s.len \in Nat /\ s.off + s.len <= a.len /\ s.off + s.len <= Len(a.mem[at])
      /\ at \in 1..Len(a.mem) /\ Len(a.mem[at]) \in Nat
  <2>1. s.off \in Nat /\ s.len \in Nat
    BY SliceResolves
  <2>2. s.off + s.len <= a.len /\ s.off + s.len <= Len(a.mem[at]) /\ at \in 1..Len(a.mem)
    BY DEF Lies
  <2>3. Len(a.mem[at]) \in Nat
    BY <2>2, SizedParts
  <2> QED
    BY <2>1, <2>2, <2>3
<1>2. /\ Len(a.mem) \in Nat /\ Len(b.mem) \in Nat /\ a.len \in Nat /\ b.len \in Nat
      /\ Len(b.mem) >= Len(a.mem) /\ b.len >= a.len /\ Len(b.mem[at]) = Len(a.mem[at])
  BY <1>1, SizedParts DEF Extends
<1>3. \A i \in 1..s.len : /\ b.mem[at][s.off + i] = a.mem[at][s.off + i]
                          /\ Array(b)[s.off + i] = Array(a)[s.off + i]
  <2> TAKE i \in 1..s.len
  <2> DEFINE n == s.off + i
  <2>1. n \in 1..Len(a.mem[at]) /\ n <= a.len /\ n \in 1..a.len
    <3>1. n \in 1..Len(a.mem[at])
      BY <1>1, PlaceIn
    <3>2. n <= a.len /\ n \in 1..a.len
      BY <1>1, <1>2, PlaceIn
    <3> QED
      BY <3>1, <3>2
  <2> HIDE DEF n
  <2>2. \A m \in 1..Len(a.mem[at]) : m <= a.len => b.mem[at][m] = a.mem[at][m]
    <3>1. \A k \in 1..Len(a.mem) :
            /\ Len(b.mem[k]) = Len(a.mem[k])
            /\ \A m \in 1..Len(a.mem[k]) : m <= a.len => b.mem[k][m] = a.mem[k][m]
      BY ZenonT(30) DEF Extends
    <3>2. at \in 1..Len(a.mem)
      BY <1>1
    <3> QED
      BY <3>1, <3>2, Zenon
  <2>3. \A m \in 1..a.len : Array(b)[m] = Array(a)[m]
    BY ZenonT(30) DEF Extends
  <2>4. b.mem[at][n] = a.mem[at][n] /\ Array(b)[n] = Array(a)[n]
    BY <2>1, <2>2, <2>3, Zenon
  <2> QED
    BY <2>4 DEF n
<1>4. \A i \in 1..s.len : b.mem[at][s.off + i] = Array(b)[s.off + i]
  BY <1>3 DEF Lies
<1>5. Lies(b, s, at)
  <2>1. s \in Span
    BY DEF Lies
  <2>2. at \in 1..Len(b.mem)
    BY <1>1, <1>2
  <2>3. s.off + s.len <= Len(b.mem[at])
    BY <1>1, <1>2
  <2>4. s.off + s.len <= b.len
    <3> DEFINE end == s.off + s.len
    <3>1. end \in Nat /\ end <= a.len /\ a.len \in Nat /\ b.len \in Nat /\ b.len >= a.len
      BY <1>1, <1>2
    <3> HIDE DEF end
    <3>2. end <= b.len
      BY <3>1
    <3> QED
      BY <3>2 DEF end
  <2> QED
    BY <1>4, <2>1, <2>2, <2>3, <2>4 DEF Lies
<1>6. Resolve(b, s) = Resolve(a, s)
  <2>1. /\ Resolve(a, s) = [i \in 1..s.len |-> Array(a)[s.off + i]]
        /\ Resolve(b, s) = [i \in 1..s.len |-> Array(b)[s.off + i]]
    BY <1>5, SliceResolves
  <2> QED
    BY <1>3, <2>1
<1> QED
  BY <1>5, <1>6, SliceResolves

\* The span of a text just recorded resolves to it.
LEMMA SpanOfText ==
  ASSUME NEW a, Sized(a), NEW off \in Nat, NEW n \in Nat, off + n <= a.len
  PROVE  /\ SpanOf(off, n) = [off |-> off, len |-> n] /\ SpanOf(off, n) \in Span
         /\ Lies(a, SpanOf(off, n), Len(a.mem))
<1>1. off < SpanMod /\ n < SpanMod /\ SpanMod \in Nat
  BY SizedParts, ArenaAssumption
<1>2. off % SpanMod = off /\ n % SpanMod = n
  BY <1>1
<1>3. SpanOf(off, n) = [off |-> off, len |-> n] /\ SpanOf(off, n) \in Span
  BY <1>1, <1>2 DEF SpanOf, Span
<1> QED
  BY <1>3, LiesNow

Entries == [kind : Kinds \cup {"name", "view", "joined", "cookie", "cookiename", "respbody"},
            key : Seq(Byte), data : Seq(Byte)]

Holds(a, v) == v \in Value /\ Lies(a, v.key, v.at) /\ Lies(a, v.data, v.at)

\* What the rules read of a value in an arena.
ReadIn(a, v) ==
  [kind |-> v.kind, key |-> Slice(a, v.key, v.at), data |-> Slice(a, v.data, v.at)]

Pairing(a) == {p \in Value \X Entries : Holds(a, p[1]) /\ p[2] = ReadIn(a, p[1])}

\* The values vs, in the arena a, hold the entries es of the store.
Means(a, vs, es) == Alike(vs, es, Value, Entries, Pairing(a))

LEMMA ValueFields ==
  ASSUME NEW v \in Value
  PROVE  /\ v = [kind |-> v.kind, key |-> v.key, data |-> v.data, at |-> v.at]
         /\ v.kind \in Kinds \cup {"name", "view", "joined", "cookie", "cookiename", "respbody"}
         /\ v.key \in Span /\ v.data \in Span /\ v.at \in Nat
BY DEF Value

LEMMA ReadInType ==
  ASSUME NEW a, Sized(a), NEW v, Holds(a, v)
  PROVE  ReadIn(a, v) \in Entries /\ <<v, ReadIn(a, v)>> \in Pairing(a)
<1>1. Slice(a, v.key, v.at) \in Seq(Byte) /\ Slice(a, v.data, v.at) \in Seq(Byte)
  BY SliceResolves DEF Holds
<1>2. ReadIn(a, v) \in Entries
  BY <1>1, ValueFields DEF ReadIn, Entries, Holds
<1> QED
  BY <1>2 DEF Pairing, Holds

LEMMA PairingIs ==
  ASSUME NEW a, NEW v, NEW e, <<v, e>> \in Pairing(a)
  PROVE  v \in Value /\ e \in Entries /\ Holds(a, v) /\ e = ReadIn(a, v)
BY DEF Pairing

\* The entries are what is read of the values.
LEMMA MeansReads ==
  ASSUME NEW a, NEW vs, NEW es, Means(a, vs, es)
  PROVE  /\ vs \in Seq(Value) /\ es \in Seq(Entries) /\ Len(es) = Len(vs) /\ DOMAIN vs = 1..Len(vs)
         /\ es = [i \in DOMAIN vs |-> ReadIn(a, vs[i])]
         /\ \A i \in 1..Len(vs) : Holds(a, vs[i]) /\ es[i] = ReadIn(a, vs[i])
<1>1. vs \in Seq(Value) /\ es \in Seq(Entries) /\ Len(es) = Len(vs)
  BY DEF Means, Alike
<1>2. \A i \in 1..Len(vs) : Holds(a, vs[i]) /\ es[i] = ReadIn(a, vs[i])
  BY PairingIs DEF Means, Alike
<1>3. DOMAIN vs = 1..Len(vs) /\ es = [i \in 1..Len(vs) |-> es[i]]
  <2>1. \A S : \A t \in Seq(S) : DOMAIN t = 1..Len(t) /\ t = [i \in 1..Len(t) |-> t[i]]
    OBVIOUS
  <2> QED
    BY <1>1, <2>1
<1>4. es = [i \in DOMAIN vs |-> ReadIn(a, vs[i])]
  BY <1>2, <1>3
<1> QED
  BY <1>1, <1>2, <1>3, <1>4

\* Values that an arena holds mean what is read of them.
LEMMA MeansOf ==
  ASSUME NEW a, Sized(a), NEW vs \in Seq(Value), NEW es, Len(es) = Len(vs),
         es = [i \in 1..Len(vs) |-> es[i]],
         \A i \in 1..Len(vs) : Holds(a, vs[i]) /\ es[i] = ReadIn(a, vs[i])
  PROVE  Means(a, vs, es)
<1>1. \A i \in 1..Len(vs) : es[i] \in Entries /\ <<vs[i], es[i]>> \in Pairing(a)
  BY ReadInType
<1>2. es \in Seq(Entries)
  <2>1. Len(vs) \in Nat
    OBVIOUS
  <2> QED
    BY <1>1, <2>1, SequenceOf
<1> QED
  BY <1>1, <1>2 DEF Means, Alike

LEMMA MeansKept ==
  ASSUME NEW a, NEW b, Sized(a), Sized(b), Extends(a, b), NEW vs, NEW es, Means(a, vs, es)
  PROVE  Means(b, vs, es)
<1>1. \A v : Holds(a, v) => Holds(b, v) /\ ReadIn(b, v) = ReadIn(a, v)
  BY LiesKept DEF Holds, ReadIn
<1>2. \A i \in 1..Len(vs) : Holds(b, vs[i]) /\ es[i] = ReadIn(b, vs[i])
  BY <1>1, MeansReads
<1>3. vs \in Seq(Value) /\ Len(es) = Len(vs) /\ es = [i \in 1..Len(vs) |-> es[i]]
  <2>1. vs \in Seq(Value) /\ es \in Seq(Entries) /\ Len(es) = Len(vs)
    BY MeansReads
  <2> QED
    BY <2>1
<1> QED
  BY <1>2, <1>3, MeansOf

-----------------------------------------------------------------------------
(* Recording: each operation keeps what was recorded, and adds the entries   *)
(* that the store adds.                                                      *)

Ready(s) == Whole(s) /\ Sized(s.arena)

Does(s, t, more) ==
  /\ Ready(t) /\ Extends(s.arena, t.arena) /\ more \in Seq(Entries)
  /\ \A es : Means(s.arena, s.values, es) => Means(t.arena, t.values, es \o more)

LEMMA TextType == ASSUME NEW t \in Seq(STRING) PROVE t \in Seq(Byte)
<1>1. STRING \subseteq Byte
  BY DEF Byte
<1> QED
  BY <1>1, SeqMonotonic

LEMMA NothingAdded ==
  ASSUME NEW S, NEW x \in Seq(S)
  PROVE  x \o <<>> = x
OBVIOUS

LEMMA MeansNothing == ASSUME NEW a PROVE Means(a, <<>>, <<>>)
BY DEF Means, Alike

LEMMA MeansOne ==
  ASSUME NEW a, Sized(a), NEW v, Holds(a, v)
  PROVE  Means(a, <<v>>, <<ReadIn(a, v)>>)
<1>1. ReadIn(a, v) \in Entries /\ <<v, ReadIn(a, v)>> \in Pairing(a) /\ v \in Value
  BY ReadInType DEF Holds
<1> DEFINE e == ReadIn(a, v)
<1> HIDE DEF e
<1> QED
  BY <1>1 DEF Means, Alike, e

LEMMA MeansMore ==
  ASSUME NEW a, NEW vs, NEW es, NEW us, NEW fs, Means(a, vs, es), Means(a, us, fs)
  PROVE  Means(a, vs \o us, es \o fs)
BY ConcatAlike DEF Means

LEMMA DoesTwice ==
  ASSUME NEW s, NEW t, NEW u, NEW m, NEW n, Ready(s), Does(s, t, m), Does(t, u, n)
  PROVE  Does(s, u, m \o n)
<1>1. Extends(s.arena, u.arena)
  BY ExtendsTwice DEF Does, Ready
<1>2. m \in Seq(Entries) /\ n \in Seq(Entries) /\ m \o n \in Seq(Entries)
  BY DEF Does
<1>3. ASSUME NEW es, Means(s.arena, s.values, es) PROVE Means(u.arena, u.values, es \o (m \o n))
  <2>1. es \in Seq(Entries)
    BY <1>3, MeansReads
  <2>2. Means(u.arena, u.values, (es \o m) \o n)
    BY <1>3 DEF Does
  <2>3. (es \o m) \o n = es \o (m \o n)
    BY <1>2, <2>1, ConcatAssociative
  <2> QED
    BY <2>2, <2>3
<1> QED
  BY <1>1, <1>2, <1>3 DEF Does

\* Nothing recorded, but perhaps room taken.
LEMMA ArenaDoes ==
  ASSUME NEW s, Ready(s), NEW b, Sized(b), Extends(s.arena, b)
  PROVE  Does(s, [s EXCEPT !.arena = b], <<>>)
<1> DEFINE t == [s EXCEPT !.arena = b]
<1>1. t.arena = b /\ t.values = s.values /\ Whole(t)
  BY DEF Ready, Whole
<1> HIDE DEF t
<1>2. ASSUME NEW es, Means(s.arena, s.values, es) PROVE Means(t.arena, t.values, es \o <<>>)
  <2>1. es \in Seq(Entries)
    BY <1>2, MeansReads
  <2>2. Means(b, s.values, es)
    BY <1>2, MeansKept DEF Ready
  <2> QED
    BY <1>1, <2>1, <2>2, NothingAdded
<1>3. <<>> \in Seq(Entries)
  OBVIOUS
<1> QED
  BY <1>1, <1>2, <1>3 DEF Does, Ready, t

LEMMA NothingDone == ASSUME NEW s, Ready(s) PROVE Does(s, s, <<>>)
<1>1. s = [s EXCEPT !.arena = s.arena]
  BY DEF Ready, Whole
<1>2. Sized(s.arena) /\ Extends(s.arena, s.arena)
  BY ExtendsSelf DEF Ready
<1>3. Does(s, [s EXCEPT !.arena = s.arena], <<>>)
  BY <1>2, ArenaDoes
<1> QED
  BY <1>1, <1>3

\* A value is noted as what its spans resolve to.
LEMMA NotedDoes ==
  ASSUME NEW s, Ready(s),
         NEW kind \in Kinds \cup {"name", "view", "joined", "cookie", "cookiename", "respbody"},
         NEW key, NEW data, Lies(s.arena, key, Len(s.arena.mem)),
         Lies(s.arena, data, Len(s.arena.mem))
  PROVE  LET e == Store!Entry(kind, Resolve(s.arena, key), Resolve(s.arena, data))
         IN  e \in Entries /\ Does(s, Noted(s, kind, key, data), <<e>>)
<1> DEFINE v == [kind |-> kind, key |-> key, data |-> data, at |-> Len(s.arena.mem)]
           e == Store!Entry(kind, Resolve(s.arena, key), Resolve(s.arena, data))
           t == Noted(s, kind, key, data)
<1>0. Sized(s.arena) /\ Len(s.arena.mem) \in Nat
  BY SizedParts DEF Ready
<1>1. Holds(s.arena, v)
  <2>1. v \in Value
    BY <1>0 DEF Value, Lies
  <2> QED
    BY <2>1 DEF Holds
<1>2. ReadIn(s.arena, v) = e
  BY <1>0, SliceResolves DEF ReadIn, Store!Entry
<1>3. t.arena = s.arena /\ t.values = Append(s.values, v) /\ Whole(t)
  <2>1. t = [s EXCEPT !.values = Append(s.values, v)]
    BY DEF Noted
  <2> HIDE DEF v, t
  <2> QED
    BY <2>1 DEF Ready, Whole
<1> HIDE DEF v, e, t
<1>4. e \in Entries /\ <<e>> \in Seq(Entries)
  <2>1. e \in Entries
    BY <1>0, <1>1, <1>2, ReadInType
  <2> QED
    BY <2>1
<1>5. ASSUME NEW es, Means(s.arena, s.values, es) PROVE Means(t.arena, t.values, es \o <<e>>)
  <2>1. Means(s.arena, s.values \o <<v>>, es \o <<e>>)
    BY <1>0, <1>1, <1>2, <1>5, MeansOne, MeansMore
  <2>2. s.values \o <<v>> = Append(s.values, v)
    <3>1. s.values \in Seq(Value) /\ v \in Value
      BY <1>1, <1>5, MeansReads DEF Holds
    <3> QED
      BY <3>1
  <2> QED
    BY <1>3, <2>1, <2>2
<1>6. Does(s, t, <<e>>)
  BY <1>0, <1>3, <1>4, <1>5, ExtendsSelf DEF Does, Ready
<1> QED
  BY <1>4, <1>6 DEF e, t

\* A text laid at the end lies there.
LEMMA AppendedExtends ==
  ASSUME NEW a, Sized(a), NEW text \in Seq(STRING), Fits(a, Len(text))
  PROVE  LET b == Appended(a, text) s == SpanOf(a.len, Len(text))
         IN /\ Sized(b) /\ Extends(a, b) /\ b.len = a.len + Len(text)
            /\ s = [off |-> a.len, len |-> Len(text)]
            /\ Lies(b, s, Len(b.mem)) /\ Resolve(b, s) = text
<1> DEFINE n == Len(text)
           b == Appended(a, text)
           s == SpanOf(a.len, n)
<1>0. text \in Seq(Byte) /\ n \in Nat /\ a.len \in Nat /\ text = [i \in 1..n |-> text[i]]
  <2>1. text = [i \in 1..n |-> text[i]] /\ n \in Nat
    OBVIOUS
  <2> QED
    BY <2>1, TextType, SizedParts
<1>1. /\ Sized(b) /\ Extends(a, b) /\ b.len = a.len + n
      /\ \A i \in 1..n : Array(b)[a.len + i] = text[i]
  BY <1>0, FilledExtends DEF Appended
<1> HIDE DEF b, n
<1>2. s = [off |-> a.len, len |-> n] /\ Lies(b, s, Len(b.mem))
  <2>1. a.len + n <= b.len
    BY <1>0, <1>1
  <2> QED
    BY <1>0, <1>1, <2>1, SpanOfText
<1> HIDE DEF s
<1>3. Resolve(b, s) = [i \in 1..n |-> Array(b)[a.len + i]]
  <2>1. Resolve(b, s) = [i \in 1..s.len |-> Array(b)[s.off + i]]
    BY <1>1, <1>2, SliceResolves
  <2> QED
    BY <1>2, <2>1
<1>4. Resolve(b, s) = text
  BY <1>0, <1>1, <1>3
<1> QED
  BY <1>1, <1>2, <1>4 DEF b, n, s

\* And lies there still, in the array used now, when the arena grows.
LEMMA StillLies ==
  ASSUME NEW a, NEW b, Sized(a), Sized(b), Extends(a, b), NEW s, NEW at, Lies(a, s, at)
  PROVE  Lies(b, s, Len(b.mem)) /\ Resolve(b, s) = Resolve(a, s)
<1>1. Lies(b, s, at) /\ Resolve(b, s) = Resolve(a, s)
  BY LiesKept
<1>2. s \in Span /\ s.off + s.len <= b.len
  BY <1>1 DEF Lies
<1> QED
  BY <1>1, <1>2, LiesNow

Recordable(kind) ==
  kind \in Kinds \cup {"name", "view", "joined", "cookie", "cookiename", "respbody"}

\* A value is recorded whole or not at all.
LEMMA PutDoes ==
  ASSUME NEW s, Ready(s), NEW kind, Recordable(kind),
         NEW key \in Seq(STRING), NEW data \in Seq(STRING)
  PROVE  LET e == Store!Entry(kind, key, data)
         IN \E more \in {<<>>, <<e>>} : Does(s, Put(s, kind, key, data), more)
<1> DEFINE keyed == [s EXCEPT !.arena = Appended(s.arena, key)]
           full  == [s EXCEPT !.arena = Appended(keyed.arena, data)]
           a1 == Appended(s.arena, key)
           a2 == Appended(a1, data)
           k == SpanOf(s.arena.len, Len(key))
           d == SpanOf(keyed.arena.len, Len(data))
           put == Put(s, kind, key, data)
           e == Store!Entry(kind, key, data)
<1>1. put = IF Len(data) > MaxValueLen \/ ~Fits(s.arena, Len(key)) THEN s
            ELSE IF ~Fits(keyed.arena, Len(data)) THEN keyed
            ELSE Noted(full, kind, k, d)
  BY DEF Put
<1>2. keyed.arena = a1 /\ full.arena = a2 /\ full.values = s.values /\ Whole(full) /\ Sized(s.arena)
      /\ d = SpanOf(a1.len, Len(data))
  BY DEF Ready, Whole
<1>3. CASE Len(data) > MaxValueLen \/ ~Fits(s.arena, Len(key))
  <2>1. put = s
    BY <1>1, <1>3
  <2>2. Does(s, s, <<>>)
    BY NothingDone
  <2> QED
    BY <2>1, <2>2
<1>4. CASE ~(Len(data) > MaxValueLen \/ ~Fits(s.arena, Len(key)))
  <2>1. Sized(a1) /\ Extends(s.arena, a1) /\ Lies(a1, k, Len(a1.mem)) /\ Resolve(a1, k) = key
    BY <1>2, <1>4, AppendedExtends
  <2>2. CASE ~Fits(a1, Len(data))
    <3>1. put = keyed
      BY <1>1, <1>2, <1>4, <2>2
    <3>2. Does(s, keyed, <<>>)
      BY <2>1, ArenaDoes
    <3> QED
      BY <3>1, <3>2
  <2>3. CASE Fits(a1, Len(data))
    <3>1. put = Noted(full, kind, k, d)
      BY <1>1, <1>2, <1>4, <2>3
    <3> HIDE DEF a1, k
    <3>2. Sized(a2) /\ Extends(a1, a2) /\ Lies(a2, d, Len(a2.mem)) /\ Resolve(a2, d) = data
      BY <1>2, <2>1, <2>3, AppendedExtends
    <3> HIDE DEF a2, d, keyed, full
    <3>3. Lies(a2, k, Len(a2.mem)) /\ Resolve(a2, k) = key
      BY <2>1, <3>2, StillLies
    <3>4. Extends(s.arena, a2)
      BY <1>2, <2>1, <3>2, ExtendsTwice
    <3>5. Does(s, full, <<>>)
      <4>1. full = [s EXCEPT !.arena = a2]
        BY DEF full, a2, a1, keyed, Ready, Whole
      <4> QED
        BY <3>2, <3>4, <4>1, ArenaDoes
    <3>6. e \in Entries /\ Does(full, Noted(full, kind, k, d), <<e>>)
      <4>1. Ready(full)
        BY <1>2, <3>2 DEF Ready
      <4>2. /\ Store!Entry(kind, Resolve(full.arena, k), Resolve(full.arena, d)) \in Entries
            /\ Does(full, Noted(full, kind, k, d),
                    <<Store!Entry(kind, Resolve(full.arena, k), Resolve(full.arena, d))>>)
        BY <1>2, <3>2, <3>3, <4>1, NotedDoes DEF Recordable
      <4> QED
        BY <1>2, <3>2, <3>3, <4>2
    <3>7. Does(s, put, <<>> \o <<e>>)
      BY <3>1, <3>5, <3>6, DoesTwice
    <3>8. <<>> \o <<e>> = <<e>>
      <4> HIDE DEF e
      <4> QED
        BY <3>6
    <3> QED
      BY <3>7, <3>8
  <2> QED
    BY <2>2, <2>3
<1> QED
  BY <1>3, <1>4

\* A member name, and under a positional key the path of it as well.
LEMMA PutNameDoes ==
  ASSUME NEW s, Ready(s), NEW parent \in Seq(STRING), NEW key \in Seq(STRING)
  PROVE  LET path == parent \o <<".">> \o key
         IN \E bare \in {<<>>, <<Store!Entry("name", parent, key)>>},
               full \in {<<>>, <<Store!Entry("name", path, path)>>} :
              /\ full # <<>> => parent # <<>> /\ key \in PositionalKeys
              /\ Does(s, PutName(s, parent, key), bare \o full)
<1> DEFINE t == Put(s, "name", parent, key)
           path == parent \o <<".">> \o key
           at == SpanOf(t.arena.len, Len(path))
           next == [t EXCEPT !.arena = Appended(@, path)]
           named == PutName(s, parent, key)
           e == Store!Entry("name", path, path)
<1>1. PICK bare \in {<<>>, <<Store!Entry("name", parent, key)>>} : Does(s, t, bare)
  <2>1. Recordable("name")
    BY DEF Recordable
  <2>2. \E more \in {<<>>, <<Store!Entry("name", parent, key)>>} :
          Does(s, Put(s, "name", parent, key), more)
    BY <2>1, PutDoes
  <2> QED
    BY <2>2, Zenon
<1>2. Ready(t) /\ bare \in Seq(Entries) /\ Sized(t.arena)
  BY <1>1 DEF Does, Ready
<1>3. named = IF \/ parent = <<>> \/ key \notin PositionalKeys
                 \/ Len(path) > MaxValueLen \/ ~Fits(t.arena, Len(path))
              THEN t ELSE Noted(next, "name", at, at)
  BY DEF PutName
<1>4. path \in Seq(STRING)
  <2>1. <<".">> \in Seq(STRING)
    BY ArenaAssumption
  <2>2. parent \o <<".">> \in Seq(STRING)
    BY <2>1, ConcatProperties
  <2> QED
    BY <2>2, ConcatProperties
<1> HIDE DEF t, path
<1>5. CASE \/ parent = <<>> \/ key \notin PositionalKeys
           \/ Len(path) > MaxValueLen \/ ~Fits(t.arena, Len(path))
  <2>1. Does(s, named, bare)
    BY <1>1, <1>3, <1>5
  <2>2. bare \o <<>> = bare
    BY <1>2, NothingAdded
  <2>3. Does(s, named, bare \o <<>>)
    BY <2>1, <2>2
  <2> QED
    BY <2>3 DEF path
<1>6. CASE ~(\/ parent = <<>> \/ key \notin PositionalKeys
             \/ Len(path) > MaxValueLen \/ ~Fits(t.arena, Len(path)))
  <2> DEFINE b == Appended(t.arena, path)
  <2>1. /\ Sized(b) /\ Extends(t.arena, b)
        /\ Lies(b, at, Len(b.mem)) /\ Resolve(b, at) = path
    BY <1>2, <1>4, <1>6, AppendedExtends
  <2>2. next = [t EXCEPT !.arena = b]
    BY DEF next
  <2>3. Does(t, next, <<>>)
    BY <1>2, <2>1, <2>2, ArenaDoes
  <2>4. next.arena = b /\ Ready(next)
    <3>1. Ready(next)
      BY <2>3 DEF Does
    <3> QED
      BY <1>2, <2>2, <3>1 DEF Ready, Whole
  <2> HIDE DEF next, b, at
  <2>5. e \in Entries /\ Does(next, Noted(next, "name", at, at), <<e>>)
    <3>1. /\ Store!Entry("name", Resolve(next.arena, at), Resolve(next.arena, at)) \in Entries
          /\ Does(next, Noted(next, "name", at, at),
                  <<Store!Entry("name", Resolve(next.arena, at), Resolve(next.arena, at))>>)
      BY <2>1, <2>4, NotedDoes
    <3> QED
      BY <2>1, <2>4, <3>1
  <2> HIDE DEF e
  <2>6. Does(t, Noted(next, "name", at, at), <<>> \o <<e>>)
    BY <1>2, <2>3, <2>5, DoesTwice
  <2>7. <<>> \o <<e>> = <<e>>
    BY <2>5
  <2>8. Does(s, named, bare \o <<e>>)
    BY <1>1, <1>3, <1>6, <2>6, <2>7, DoesTwice
  <2>9. parent # <<>> /\ key \in PositionalKeys
    BY <1>6
  <2> QED
    BY <2>8, <2>9 DEF e, path
<1> QED
  BY <1>5, <1>6

\* A stretch of values means the same stretch of the entries.
LEMMA StretchAlike ==
  ASSUME NEW A, NEW B, NEW R, NEW x, NEW y, Alike(x, y, A, B, R), NEW m \in Nat, NEW n \in Nat,
         m >= 1, n <= Len(x)
  PROVE  Alike(SubSeq(x, m, n), SubSeq(y, m, n), A, B, R)
<1>1. x \in Seq(A) /\ y \in Seq(B) /\ Len(x) = Len(y) /\ Len(x) \in Nat
  BY DEF Alike
<1>2. CASE m > n
  <2>1. SubSeq(x, m, n) = <<>> /\ SubSeq(y, m, n) = <<>>
    BY <1>1, <1>2
  <2> QED
    BY <2>1 DEF Alike
<1>3. CASE m <= n
  <2>1. /\ \A i \in 1..(n - m + 1) : (m + i - 1) \in 1..Len(x)
        /\ n - m + 1 \in Nat
    BY <1>1, <1>3
  <2>2. SubSeq(x, m, n) \in Seq(A) /\ Len(SubSeq(x, m, n)) = n - m + 1
        /\ \A i \in 1..(n - m + 1) : SubSeq(x, m, n)[i] = x[m + i - 1]
    BY <1>1, <1>3, SubSeqProperties
  <2>3. SubSeq(y, m, n) \in Seq(B) /\ Len(SubSeq(y, m, n)) = n - m + 1
        /\ \A i \in 1..(n - m + 1) : SubSeq(y, m, n)[i] = y[m + i - 1]
    BY <1>1, <1>3, SubSeqProperties
  <2>4. \A i \in 1..(n - m + 1) : <<SubSeq(x, m, n)[i], SubSeq(y, m, n)[i]>> \in R
    BY <2>1, <2>2, <2>3 DEF Alike
  <2> QED
    BY <2>2, <2>3, <2>4 DEF Alike
<1> QED
  BY <1>2, <1>3

\* The arguments among the values mean the arguments among the entries.
LEMMA ArgsMean ==
  ASSUME NEW a, Sized(a), NEW vs, NEW es, Means(a, vs, es)
  PROVE  Means(a, Args(vs), Store!Args(es))
<1> DEFINE n == Len(vs)
           x == [i \in DOMAIN vs |-> IF IsArg(vs[i]) THEN <<vs[i]>> ELSE <<>>]
           y == [i \in DOMAIN es |-> IF es[i].kind = "arg" THEN <<es[i]>> ELSE <<>>]
<1>1. /\ vs \in Seq(Value) /\ es \in Seq(Entries) /\ Len(es) = n /\ n \in Nat
      /\ DOMAIN vs = 1..n /\ DOMAIN es = 1..n
      /\ \A i \in 1..n : Holds(a, vs[i]) /\ es[i] = ReadIn(a, vs[i])
  <2>1. vs \in Seq(Value) /\ es \in Seq(Entries) /\ Len(es) = n
    BY MeansReads
  <2> QED
    BY <2>1, MeansReads
<1>2. \A i \in 1..n : Means(a, x[i], y[i])
  <2> TAKE i \in 1..n
  <2>1. es[i].kind = vs[i].kind
    BY <1>1 DEF ReadIn
  <2>2. CASE IsArg(vs[i])
    <3>1. x[i] = <<vs[i]>> /\ y[i] = <<es[i]>>
      BY <1>1, <2>1, <2>2 DEF IsArg
    <3> QED
      BY <1>1, <3>1, MeansOne
  <2>3. CASE ~IsArg(vs[i])
    <3>1. x[i] = <<>> /\ y[i] = <<>>
      BY <1>1, <2>1, <2>3 DEF IsArg
    <3> QED
      BY <3>1, MeansNothing
  <2> QED
    BY <2>2, <2>3
<1>3. Args(vs) = FlattenSeq(x) /\ Store!Args(es) = FlattenSeq(y)
  BY SameFlatten DEF Args, Store!Args
<1>4. x = [i \in 1..n |-> x[i]] /\ y = [i \in 1..n |-> y[i]]
  BY <1>1
<1> HIDE DEF x, y, n
<1>5. \A i \in 1..n : x[i] \in Seq(Value) /\ y[i] \in Seq(Entries)
  BY <1>2, MeansReads
<1>6. x \in Seq(Seq(Value)) /\ y \in Seq(Seq(Entries)) /\ Len(x) = n /\ Len(y) = n
  BY <1>1, <1>4, <1>5, SequenceOf
<1>7. Alike(FlattenSeq(x), FlattenSeq(y), Value, Entries, Pairing(a))
  BY <1>2, <1>6, FlattenAlike DEF Means
<1> QED
  BY <1>3, <1>7 DEF Means

\* Arguments, shown as a view of them.
AsViews(args) == [k \in DOMAIN args |-> [args[k] EXCEPT !.kind = "view"]]

\* The views share the spans of the arguments.
LEMMA PutCopiesDoes ==
  ASSUME NEW s, Ready(s), NEW es, Means(s.arena, s.values, es),
         NEW from \in 0..Len(s.values), NEW to \in 0..Len(s.values)
  PROVE  LET t == PutCopies(s, from, to)
             args == Store!Args(SubSeq(es, from + 1, to))
         IN /\ t.arena = s.arena /\ Ready(t)
            /\ Means(t.arena, t.values,
                     es \o AsViews(args))
<1> DEFINE a == s.arena
           at == Len(a.mem)
           vargs == Args(SubSeq(s.values, from + 1, to))
           eargs == Store!Args(SubSeq(es, from + 1, to))
           views == [k \in DOMAIN vargs |-> [vargs[k] EXCEPT !.kind = "view", !.at = at]]
           shown == [k \in DOMAIN eargs |-> [eargs[k] EXCEPT !.kind = "view"]]
           t == PutCopies(s, from, to)
<1>0. Sized(a) /\ at \in Nat
  BY SizedParts DEF Ready
<1>1. Means(a, vargs, eargs)
  <2>1. Len(s.values) \in Nat /\ from + 1 \in Nat /\ from + 1 >= 1 /\ to \in Nat
        /\ to <= Len(s.values)
    <3>1. s.values \in Seq(Value)
      BY MeansReads
    <3> QED
      BY <3>1
  <2>2. Means(a, SubSeq(s.values, from + 1, to), SubSeq(es, from + 1, to))
    BY <2>1, StretchAlike DEF Means
  <2> QED
    BY <1>0, <2>2, ArgsMean
<1>2. t.arena = a /\ t.values = s.values \o views /\ Whole(t)
  <2>1. t = [s EXCEPT !.values = s.values \o views]
    BY DEF PutCopies
  <2> HIDE DEF views, t
  <2> QED
    BY <2>1 DEF Ready, Whole
<1> HIDE DEF a, at, vargs, eargs
<1>3. /\ vargs \in Seq(Value) /\ eargs \in Seq(Entries) /\ Len(eargs) = Len(vargs)
      /\ DOMAIN vargs = 1..Len(vargs) /\ DOMAIN eargs = 1..Len(vargs) /\ Len(vargs) \in Nat
      /\ \A i \in 1..Len(vargs) : Holds(a, vargs[i]) /\ eargs[i] = ReadIn(a, vargs[i])
  <2>1. vargs \in Seq(Value) /\ eargs \in Seq(Entries) /\ Len(eargs) = Len(vargs)
    BY <1>1, MeansReads
  <2> QED
    BY <1>1, <2>1, MeansReads
<1>4. \A i \in 1..Len(vargs) : /\ views[i] \in Value /\ Holds(a, views[i])
                               /\ shown[i] = ReadIn(a, views[i])
  <2> SUFFICES ASSUME NEW i \in 1..Len(vargs)
               PROVE  /\ views[i] \in Value /\ Holds(a, views[i])
                      /\ shown[i] = ReadIn(a, views[i])
    OBVIOUS
  <2> DEFINE v == vargs[i]
  <2>1. v \in Value /\ Holds(a, v) /\ eargs[i] = ReadIn(a, v)
    BY <1>3
  <2> HIDE DEF v
  <2>2. v = [kind |-> v.kind, key |-> v.key, data |-> v.data, at |-> v.at]
        /\ v.key \in Span /\ v.data \in Span
    BY <2>1, ValueFields
  <2>3. views[i] = [kind |-> "view", key |-> v.key, data |-> v.data, at |-> at]
    <3>1. views[i] = [v EXCEPT !.kind = "view", !.at = at]
      BY <1>3 DEF v
    <3> QED
      BY <2>2, <3>1
  <2>4. shown[i] = [kind |-> "view", key |-> Slice(a, v.key, v.at),
                    data |-> Slice(a, v.data, v.at)]
    <3>1. shown[i] = [eargs[i] EXCEPT !.kind = "view"]
      BY <1>3
    <3> QED
      BY <2>1, <3>1 DEF ReadIn
  <2>5. /\ Lies(a, v.key, at) /\ Slice(a, v.key, at) = Slice(a, v.key, v.at)
        /\ Lies(a, v.data, at) /\ Slice(a, v.data, at) = Slice(a, v.data, v.at)
    <3>1. ASSUME NEW sp, Lies(a, sp, v.at)
          PROVE  Lies(a, sp, at) /\ Slice(a, sp, at) = Slice(a, sp, v.at)
      <4>1. sp \in Span /\ sp.off + sp.len <= a.len
        BY <3>1 DEF Lies
      <4>2. Lies(a, sp, at)
        BY <1>0, <4>1, LiesNow DEF at
      <4> QED
        BY <1>0, <3>1, <4>2, SliceResolves
    <3> QED
      BY <2>1, <3>1 DEF Holds
  <2> HIDE DEF views, shown
  <2>6. views[i] \in Value
    BY <1>0, <2>2, <2>3 DEF Value
  <2> QED
    BY <2>3, <2>4, <2>5, <2>6 DEF Holds, ReadIn
<1>5. views = [k \in 1..Len(vargs) |-> views[k]] /\ shown = [k \in 1..Len(vargs) |-> shown[k]]
  BY <1>3
<1> HIDE DEF views, shown
<1>6. Means(a, views, shown)
  <2>1. views \in Seq(Value) /\ Len(views) = Len(vargs)
    BY <1>3, <1>4, <1>5, SequenceOf
  <2>2. Len(shown) = Len(vargs)
    <3>1. \A i \in 1..Len(vargs) : shown[i] \in Entries
      BY <1>0, <1>4, ReadInType
    <3> QED
      BY <1>3, <1>5, <3>1, SequenceOf
  <2> QED
    BY <1>0, <1>4, <1>5, <2>1, <2>2, MeansOf
<1>7. Means(a, s.values \o views, es \o shown)
  BY <1>6, MeansMore DEF a
<1> QED
  BY <1>0, <1>2, <1>7 DEF shown, eargs, a, t, Ready, AsViews

\* The empty span reads nothing.
LEMMA EmptyReads ==
  ASSUME NEW a, Sized(a)
  PROVE  Empty \in Span /\ Lies(a, Empty, Len(a.mem)) /\ Resolve(a, Empty) = <<>>
<1>1. Empty \in Span /\ Empty.off = 0 /\ Empty.len = 0
  BY ArenaAssumption DEF Empty, Span
<1>2. Lies(a, Empty, Len(a.mem))
  <2>1. Empty.off + Empty.len <= a.len
    BY <1>1, SizedParts
  <2> QED
    BY <1>1, <2>1, LiesNow
<1>3. Resolve(a, Empty) \in Seq(Byte) /\ Len(Resolve(a, Empty)) = 0
  BY <1>1, <1>2, SliceResolves
<1> QED
  BY <1>1, <1>2, <1>3, EmptySeq

\* A text laid behind an arena, whatever made room for it.
LEMMA FilledText ==
  ASSUME NEW a, Sized(a), NEW text \in Seq(Byte), NEW n \in Nat, n = Len(text), Fits(a, n)
  PROVE  LET b == Filled(a, n, text) s == SpanOf(a.len, n)
         IN /\ Sized(b) /\ Extends(a, b) /\ b.len = a.len + n
            /\ s = [off |-> a.len, len |-> n] /\ Lies(b, s, Len(b.mem)) /\ Resolve(b, s) = text
<1> DEFINE b == Filled(a, n, text)
           s == SpanOf(a.len, n)
<1>0. a.len \in Nat /\ text = [i \in 1..n |-> text[i]]
  BY SizedParts
<1>1. /\ Sized(b) /\ Extends(a, b) /\ b.len = a.len + n
      /\ \A i \in 1..n : Array(b)[a.len + i] = text[i]
  BY <1>0, FilledExtends
<1> HIDE DEF b
<1>2. s = [off |-> a.len, len |-> n] /\ Lies(b, s, Len(b.mem))
  <2>1. a.len + n <= b.len
    BY <1>0, <1>1
  <2> QED
    BY <1>0, <1>1, <2>1, SpanOfText
<1> HIDE DEF s
<1>3. Resolve(b, s) = [i \in 1..n |-> Array(b)[a.len + i]]
  <2>1. Resolve(b, s) = [i \in 1..s.len |-> Array(b)[s.off + i]]
    BY <1>1, <1>2, SliceResolves
  <2> QED
    BY <1>2, <2>1
<1>4. Resolve(b, s) = text
  BY <1>0, <1>1, <1>3
<1> QED
  BY <1>1, <1>2, <1>4 DEF b, s

\* The sources of a join, resolved in whatever the arena has become, are as many
\* bytes as were counted, and are the bytes of the arguments end to end.
LEMMA SourcesJoined ==
  ASSUME NEW a, NEW b, Sized(a), Sized(b), Extends(a, b), NEW vs, NEW es, Means(a, vs, es)
  PROVE  LET whole == FlattenSeq([k \in DOMAIN vs |-> Resolve(b, vs[k].data)])
         IN /\ whole \in Seq(Byte) /\ SizeOf(vs) = Len(whole) /\ SizeOf(vs) \in Nat
            /\ whole = FlattenSeq([k \in DOMAIN es |-> es[k].data])
<1> DEFINE n == Len(vs)
           x == [k \in DOMAIN vs |-> Resolve(b, vs[k].data)]
           y == [k \in DOMAIN es |-> es[k].data]
<1>1. /\ vs \in Seq(Value) /\ es \in Seq(Entries) /\ Len(es) = n /\ n \in Nat
      /\ DOMAIN vs = 1..n /\ DOMAIN es = 1..n
      /\ \A i \in 1..n : Holds(a, vs[i]) /\ es[i] = ReadIn(a, vs[i])
  <2>1. vs \in Seq(Value) /\ es \in Seq(Entries) /\ Len(es) = n
    BY MeansReads
  <2> QED
    BY <2>1, MeansReads
<1>2. ASSUME NEW k \in 1..n
      PROVE  x[k] \in Seq(Byte) /\ Len(x[k]) = vs[k].data.len /\ y[k] = x[k]
  <2> DEFINE v == vs[k]
             s == v.data
  <2>1. Holds(a, v) /\ es[k] = ReadIn(a, v) /\ x[k] = Resolve(b, s) /\ y[k] = es[k].data
    BY <1>1
  <2> HIDE DEF v, x, y
  <2>2. Lies(a, s, v.at) /\ es[k].data = Slice(a, s, v.at)
    BY <2>1 DEF Holds, ReadIn
  <2> HIDE DEF s
  <2>3. Lies(b, s, v.at) /\ Resolve(b, s) = Resolve(a, s)
    BY <2>2, LiesKept
  <2>4. Slice(a, s, v.at) = Resolve(a, s) /\ Resolve(b, s) \in Seq(Byte) /\ Len(Resolve(b, s)) = s.len
    BY <2>2, <2>3, SliceResolves
  <2> QED
    BY <2>1, <2>2, <2>3, <2>4 DEF s, v
<1>3. x = [k \in 1..n |-> x[k]] /\ y = [k \in 1..n |-> y[k]]
  BY <1>1
<1> HIDE DEF x, y, n
<1>4. x \in Seq(Seq(Byte)) /\ Len(x) = n /\ y = x
  BY <1>1, <1>2, <1>3, SequenceOf
<1>5. Len(vs) = Len(x) /\ \A k \in 1..Len(x) : vs[k].data.len = Len(x[k])
  BY <1>2, <1>4 DEF n
<1>6. SizeOf(vs) = Len(FlattenSeq(x)) /\ FlattenSeq(x) \in Seq(Byte)
  BY <1>4, <1>5, SizeOfFlatten
<1>7. Len(FlattenSeq(x)) \in Nat
  BY <1>6
<1> QED
  BY <1>4, <1>6, <1>7 DEF x, y

\* What is joined is the bytes of the arguments, end to end, or nothing.
LEMMA PutJoinedDoes ==
  ASSUME NEW s, Ready(s), NEW es, Means(s.arena, s.values, es), NEW end \in 0..Len(s.values)
  PROVE  LET args == Store!Args(SubSeq(es, 1, end))
             whole == FlattenSeq([k \in DOMAIN args |-> args[k].data])
         IN \E more \in {<<>>, <<Store!Entry("joined", <<>>, whole)>>} :
              Does(s, PutJoined(s, end), more)
<1> DEFINE a == s.arena
           vargs == Args(SubSeq(s.values, 1, end))
           eargs == Store!Args(SubSeq(es, 1, end))
           total == SizeOf(vargs)
           room  == Reserved(a, total)
           whole == FlattenSeq([k \in DOMAIN vargs |-> Resolve(room, vargs[k].data)])
           bytes == FlattenSeq([k \in DOMAIN eargs |-> eargs[k].data])
           b     == Filled(room, total, whole)
           at    == SpanOf(a.len, total)
           laid  == [s EXCEPT !.arena = b]
           e     == Store!Entry("joined", <<>>, bytes)
<1>0. Sized(a) /\ Len(s.values) \in Nat /\ end \in Nat /\ end <= Len(s.values)
  <2>1. s.values \in Seq(Value)
    BY MeansReads
  <2> QED
    BY <2>1 DEF Ready
<1>1. PutJoined(s, end) =
        IF total \notin 1..MaxValueLen \/ ~Fits(a, total) THEN s
        ELSE Noted(laid, "joined", Empty, at)
  BY DEF PutJoined
<1>2. Means(a, vargs, eargs)
  <2>1. Means(a, SubSeq(s.values, 1, end), SubSeq(es, 1, end))
    BY <1>0, StretchAlike DEF Means
  <2> QED
    BY <1>0, <2>1, ArgsMean
<1> HIDE DEF vargs, eargs
<1>3. CASE total \notin 1..MaxValueLen \/ ~Fits(a, total)
  <2>1. PutJoined(s, end) = s
    BY <1>1, <1>3
  <2>2. Does(s, PutJoined(s, end), <<>>)
    BY <2>1, NothingDone
  <2> QED
    BY <2>2
<1>4. CASE ~(total \notin 1..MaxValueLen \/ ~Fits(a, total))
  <2>0. total \in Nat /\ Fits(a, total)
    BY <1>4, ArenaAssumption
  <2> HIDE DEF total
  <2>1. Sized(room) /\ Extends(a, room) /\ room.len = a.len /\ Fits(room, total)
    <3>1. Sized(room) /\ Extends(a, room)
      BY <1>0, <2>0, ReservedExtends
    <3>2. room.len = a.len
      BY <1>0, <2>0, ReservedOK DEF Sized
    <3> QED
      BY <2>0, <3>1, <3>2 DEF Fits
  <2> HIDE DEF room, a
  <2>2. whole \in Seq(Byte) /\ total = Len(whole) /\ whole = bytes
    BY <1>0, <1>2, <2>1, SourcesJoined DEF total
  <2> HIDE DEF whole, bytes
  <2>3. /\ Sized(b) /\ Extends(room, b)
        /\ Lies(b, at, Len(b.mem)) /\ Resolve(b, at) = bytes
    <3>1. at = SpanOf(room.len, total)
      BY <2>1
    <3> HIDE DEF at
    <3>2. /\ Sized(b) /\ Extends(room, b)
          /\ Lies(b, at, Len(b.mem)) /\ Resolve(b, at) = whole
      BY <2>0, <2>1, <2>2, <3>1, FilledText
    <3> QED
      BY <2>2, <3>2
  <2> HIDE DEF b, at
  <2>4. Extends(a, b)
    BY <1>0, <2>1, <2>3, ExtendsTwice
  <2>5. Does(s, laid, <<>>)
    BY <2>3, <2>4, ArenaDoes DEF a
  <2>6. Ready(laid) /\ laid.arena = b
    <3>1. Ready(laid)
      BY <2>5 DEF Does
    <3> QED
      BY <3>1 DEF Ready, Whole
  <2> HIDE DEF laid
  <2>7. e \in Entries /\ Does(laid, Noted(laid, "joined", Empty, at), <<e>>)
    <3>1. Lies(b, Empty, Len(b.mem)) /\ Resolve(b, Empty) = <<>>
      BY <2>3, EmptyReads
    <3>2. /\ Store!Entry("joined", Resolve(laid.arena, Empty), Resolve(laid.arena, at)) \in Entries
          /\ Does(laid, Noted(laid, "joined", Empty, at),
                  <<Store!Entry("joined", Resolve(laid.arena, Empty), Resolve(laid.arena, at))>>)
      BY <2>3, <2>6, <3>1, NotedDoes
    <3> QED
      BY <2>3, <2>6, <3>1, <3>2
  <2> HIDE DEF e
  <2>8. <<>> \o <<e>> = <<e>>
    BY <2>7
  <2>9. Does(s, Noted(laid, "joined", Empty, at), <<>> \o <<e>>)
    BY <2>5, <2>7, DoesTwice
  <2>10. Does(s, PutJoined(s, end), <<e>>)
    BY <1>1, <1>4, <2>8, <2>9 DEF total, a
  <2> QED
    BY <2>10 DEF e, bytes, eargs
<1> QED
  BY <1>3, <1>4

-----------------------------------------------------------------------------
(* Cookies: ranges of a header's value, and the texts they stand for.        *)

LEMMA SameBytes == Store!Blanks = Blanks /\ Store!Separator = Separator
<1>1. Store!Blanks = Blanks
  BY Zenon DEF Store!Blanks, Blanks
<1>2. Store!Separator = Separator
  BY Zenon DEF Store!Separator, Separator
<1> QED
  BY <1>1, <1>2

LEMMA SameBounds == ASSUME NEW S PROVE Store!Min(S) = Min(S) /\ Store!Max(S) = Max(S)
BY DEF Store!Min, Store!Max, Min, Max

\* The least and the greatest of a bounded set of numbers.
LEMMA LeastOf ==
  ASSUME NEW S \in SUBSET Nat, S # {}
  PROVE  Min(S) \in S /\ \A x \in S : Min(S) <= x
<1> DEFINE less == OpToRel(<, Nat)
<1>1. IsWellFoundedOn(less, Nat)
  BY NatLessThanWellFounded
<1>2. \A x, y \in Nat : <<x, y>> \in less <=> x < y
  BY LessThan
<1> HIDE DEF less
<1>3. PICK n \in S : \A k \in S : ~(<<k, n>> \in less)
  BY <1>1, WFMin
<1>4. \A k \in S : n <= k
  <2> TAKE k \in S
  <2>1. n \in Nat /\ k \in Nat /\ ~(k < n)
    BY <1>2, <1>3
  <2> QED
    BY <2>1
<1> QED
  BY <1>4 DEF Min

LEMMA GreatestOf ==
  ASSUME NEW n \in Nat, NEW S \in SUBSET (0..n), S # {}
  PROVE  Max(S) \in S /\ \A x \in S : Max(S) >= x
<1> DEFINE T == {n - x : x \in S}
<1>1. T \in SUBSET Nat /\ T # {}
  <2>1. \A x \in S : n - x \in Nat
    OBVIOUS
  <2>2. T \subseteq Nat
    BY <2>1
  <2>3. PICK x \in S : TRUE
    OBVIOUS
  <2>4. n - x \in T
    OBVIOUS
  <2> QED
    BY <2>2, <2>4
<1>2. PICK m \in T : \A x \in T : m <= x
  BY <1>1, LeastOf
<1>3. PICK g \in S : m = n - g
  OBVIOUS
<1>4. \A x \in S : g >= x
  <2> TAKE x \in S
  <2>1. n - x \in T /\ g \in 0..n /\ x \in 0..n
    OBVIOUS
  <2>2. n - g <= n - x
    BY <1>2, <1>3, <2>1
  <2> QED
    BY <2>1, <2>2
<1> QED
  BY <1>4 DEF Max

\* T is S moved up by c.
ShiftedBy(S, T, c, n) ==
  /\ n \in Nat /\ c \in Nat /\ S \in SUBSET (1..n) /\ S # {}
  /\ \A i \in S : c + i \in T
  /\ \A j \in T : \E i \in S : j = c + i

\* Shifting a set shifts its bounds.
LEMMA Shifted ==
  ASSUME NEW S, NEW T, NEW c, NEW n, ShiftedBy(S, T, c, n)
  PROVE  /\ Min(T) = c + Min(S) /\ Max(T) = c + Max(S)
         /\ Min(S) \in S /\ Max(S) \in S /\ Min(S) <= Max(S) /\ T # {}
<1>0. /\ n \in Nat /\ c \in Nat /\ S \in SUBSET (1..n) /\ S # {}
      /\ \A i \in S : c + i \in T
      /\ \A j \in T : \E i \in S : j = c + i
  BY DEF ShiftedBy
<1>1. S \in SUBSET Nat /\ S \in SUBSET (0..n) /\ T \in SUBSET Nat /\ T \in SUBSET (0..(c + n))
      /\ T # {} /\ c + n \in Nat
  <2>1. \A i \in S : i \in Nat /\ i \in 0..n /\ c + i \in Nat /\ c + i \in 0..(c + n)
    BY <1>0
  <2>2. T \subseteq Nat /\ T \subseteq 0..(c + n)
    BY <1>0, <2>1
  <2>3. PICK i \in S : TRUE
    BY <1>0
  <2>4. c + i \in T /\ c + n \in Nat
    BY <1>0
  <2> QED
    BY <2>1, <2>2, <2>4
<1>2. Min(S) \in S /\ (\A x \in S : Min(S) <= x) /\ Min(T) \in T /\ (\A x \in T : Min(T) <= x)
  BY <1>0, <1>1, LeastOf
<1>3. /\ Max(S) \in S /\ (\A x \in S : Max(S) >= x)
      /\ Max(T) \in T /\ (\A x \in T : Max(T) >= x)
  BY <1>0, <1>1, GreatestOf
<1>4. PICK l \in S : Min(T) = c + l
  BY <1>0, <1>2
<1>5. PICK g \in S : Max(T) = c + g
  BY <1>0, <1>3
<1>6. c + Min(S) \in T /\ c + Max(S) \in T
  BY <1>0, <1>2, <1>3
<1>7. Min(T) <= c + Min(S) /\ Min(S) <= l /\ Max(T) >= c + Max(S) /\ Max(S) >= g
      /\ Min(S) <= Max(S)
  BY <1>2, <1>3, <1>6
<1>8. l \in Nat /\ g \in Nat /\ Min(S) \in Nat /\ Max(S) \in Nat
  BY <1>0, <1>1, <1>2, <1>3
<1> QED
  BY <1>0, <1>1, <1>2, <1>3, <1>4, <1>5, <1>7, <1>8

\* A stretch of a stretch.
LEMMA StretchTwice ==
  ASSUME NEW t \in Seq(Byte), NEW a \in Nat, NEW b \in Nat, a <= b, b <= Len(t),
         NEW m \in Nat, NEW n \in Nat, m >= 1, n <= b - a
  PROVE  /\ SubSeq(t, a + 1, b) \in Seq(Byte) /\ Len(SubSeq(t, a + 1, b)) = b - a
         /\ \A i \in 1..(b - a) : SubSeq(t, a + 1, b)[i] = t[a + i]
         /\ SubSeq(SubSeq(t, a + 1, b), m, n) = SubSeq(t, a + m, a + n)
<1> DEFINE p == SubSeq(t, a + 1, b)
<1>0. Len(t) \in Nat
  OBVIOUS
<1>1. p \in Seq(Byte) /\ Len(p) = b - a /\ \A i \in 1..(b - a) : p[i] = t[a + i]
  <2>1. \A i \in 1..(b - a) : (a + 1) + i - 1 = a + i
    OBVIOUS
  <2>2. CASE a < b
    <3>1. \A i \in (a + 1)..b : t[i] \in Byte
      BY <1>0
    <3>2. /\ p \in Seq(Byte) /\ Len(p) = b - (a + 1) + 1
          /\ \A i \in 1..(b - (a + 1) + 1) : p[i] = t[(a + 1) + i - 1]
      BY <1>0, <2>2, SubSeqProperties
    <3>3. b - (a + 1) + 1 = b - a
      OBVIOUS
    <3> HIDE DEF p
    <3> QED
      BY <2>1, <3>2, <3>3
  <2>3. CASE a = b
    <3>1. p = <<>>
      BY <1>0, <2>3
    <3> QED
      BY <2>3, <3>1
  <2> QED
    BY <2>2, <2>3
<1> HIDE DEF p
<1>2. SubSeq(p, m, n) = SubSeq(t, a + m, a + n)
  <2>1. CASE m > n
    BY <1>0, <1>1, <2>1
  <2>2. CASE m <= n
    <3>1. Len(p) \in Nat /\ 1 <= m /\ n <= Len(p) /\ 1 <= a + m /\ a + n <= Len(t)
      BY <1>0, <1>1
    <3>2. SubSeq(p, m, n) = [i \in 1..(n - m + 1) |-> p[m + i - 1]]
      BY <1>1, <2>2, <3>1
    <3>3. SubSeq(t, a + m, a + n) = [i \in 1..(n - m + 1) |-> t[a + m + i - 1]]
      <4>1. (a + n) - (a + m) + 1 = n - m + 1
        OBVIOUS
      <4> QED
        BY <2>2, <3>1, <4>1
    <3>4. \A i \in 1..(n - m + 1) : p[m + i - 1] = t[a + m + i - 1]
      <4> TAKE i \in 1..(n - m + 1)
      <4>1. m + i - 1 \in 1..(b - a) /\ a + (m + i - 1) = a + m + i - 1
        BY <2>2
      <4> QED
        BY <1>1, <4>1
    <3> QED
      BY <3>2, <3>3, <3>4
  <2> QED
    BY <2>1, <2>2
<1> QED
  BY <1>1, <1>2 DEF p

LEMMA StretchOfStretch ==
  ASSUME NEW t \in Seq(Byte), NEW a \in Nat, NEW b \in Nat, a <= b, b <= Len(t),
         NEW m \in Nat, NEW n \in Nat, m >= 1, n <= b - a
  PROVE  SubSeq(SubSeq(t, a + 1, b), m, n) = SubSeq(t, a + m, a + n)
BY StretchTwice

\* A stretch is as long as its bounds say.
LEMMA StretchLength ==
  ASSUME NEW t \in Seq(Byte), NEW a \in Nat, NEW b \in Nat, a <= b, b <= Len(t)
  PROVE  /\ SubSeq(t, a + 1, b) \in Seq(Byte) /\ Len(SubSeq(t, a + 1, b)) = b - a
         /\ \A i \in 1..(b - a) : SubSeq(t, a + 1, b)[i] = t[a + i]
BY StretchTwice, 1 \in Nat, 0 \in Nat, 1 >= 1, 0 <= b - a

Ranges == [from : Nat, to : Nat]

\* A range of a text, within bounds, and the text it stands for.
Stands(t, r, p) ==
  r \in Ranges /\ r.from <= r.to /\ r.to <= Len(t) /\ p = SubSeq(t, r.from + 1, r.to)

\* Trimming a range trims the text it stands for.
LEMMA TrimStands ==
  ASSUME NEW t \in Seq(Byte), NEW a \in Nat, NEW b \in Nat, a <= b, b <= Len(t)
  PROVE  /\ Stands(t, TrimmedRange(t, a, b), Store!Trimmed(SubSeq(t, a + 1, b)))
         /\ TrimmedRange(t, a, b).to <= b
<1> DEFINE p == SubSeq(t, a + 1, b)
           S == {i \in DOMAIN p : p[i] \notin Blanks}
           T == {i \in (a + 1)..b : t[i] \notin Blanks}
           r == TrimmedRange(t, a, b)
<1>1. p \in Seq(Byte) /\ Len(p) = b - a /\ \A i \in 1..(b - a) : p[i] = t[a + i]
  BY StretchLength
<1>2. r = IF T = {} THEN [from |-> b, to |-> b] ELSE [from |-> Min(T) - 1, to |-> Max(T)]
  BY DEF TrimmedRange
<1>3. Store!Trimmed(p) = IF S = {} THEN <<>> ELSE SubSeq(p, Min(S), Max(S))
  BY SameBounds, SameBytes DEF Store!Trimmed
<1> HIDE DEF p, r
<1>4. DOMAIN p = 1..(b - a) /\ b - a \in Nat /\ S \in SUBSET (1..(b - a))
  BY <1>1
<1>5. (\A i \in S : a + i \in T) /\ \A j \in T : \E i \in S : j = a + i
  <2>1. \A i \in S : a + i \in T
    BY <1>1, <1>4
  <2>2. \A j \in T : j - a \in S /\ j = a + (j - a)
    BY <1>1, <1>4
  <2> HIDE DEF S, T
  <2> QED
    BY <2>1, <2>2
<1> HIDE DEF S, T
<1>6. CASE S = {}
  <2>1. T = {} /\ r = [from |-> b, to |-> b] /\ Store!Trimmed(p) = <<>>
    BY <1>2, <1>3, <1>5, <1>6
  <2>2. SubSeq(t, b + 1, b) = <<>>
    BY StretchLength, EmptySeq
  <2>3. r \in Ranges /\ r.from = b /\ r.to = b
    BY <2>1 DEF Ranges
  <2>4. Stands(t, r, Store!Trimmed(p)) /\ r.to <= b
    BY <2>1, <2>2, <2>3 DEF Stands
  <2> QED
    BY <2>4 DEF p, r
<1>7. CASE S # {}
  <2>1. /\ Min(T) = a + Min(S) /\ Max(T) = a + Max(S) /\ T # {}
        /\ Min(S) \in 1..(b - a) /\ Max(S) \in 1..(b - a) /\ Min(S) <= Max(S)
    <3>1. ShiftedBy(S, T, a, b - a)
      BY <1>4, <1>5, <1>7 DEF ShiftedBy
    <3> QED
      BY <1>4, <3>1, Shifted
  <2> DEFINE l == Min(S)
             g == Max(S)
  <2>2. l \in Nat /\ g \in Nat /\ l >= 1 /\ g <= b - a /\ l <= g
    BY <2>1
  <2>3. r = [from |-> a + l - 1, to |-> a + g] /\ Store!Trimmed(p) = SubSeq(p, l, g)
    <3>1. r = [from |-> Min(T) - 1, to |-> Max(T)] /\ Store!Trimmed(p) = SubSeq(p, l, g)
      BY <1>2, <1>3, <1>7, <2>1
    <3>2. Min(T) = a + l /\ Max(T) = a + g
      BY <2>1
    <3> HIDE DEF l, g
    <3>3. Min(T) - 1 = a + l - 1
      BY <2>2, <3>2
    <3> QED
      BY <3>1, <3>2, <3>3
  <2> HIDE DEF l, g
  <2>4. SubSeq(p, l, g) = SubSeq(t, a + l, a + g)
    BY <2>2, StretchOfStretch DEF p
  <2>5. /\ a + l - 1 \in Nat /\ a + g \in Nat /\ a + l - 1 <= a + g /\ a + g <= b
        /\ (a + l - 1) + 1 = a + l /\ a + g <= Len(t)
    BY <2>2
  <2>6. r \in Ranges /\ r.from = a + l - 1 /\ r.to = a + g
    BY <2>3, <2>5 DEF Ranges
  <2>7. Stands(t, r, Store!Trimmed(p)) /\ r.to <= b
    BY <2>3, <2>4, <2>5, <2>6 DEF Stands
  <2> QED
    BY <2>7 DEF p, r
<1> QED
  BY <1>6, <1>7

Standing(t) == {p \in Ranges \X Seq(Byte) : Stands(t, p[1], p[2])}

LEMMA StandingIs ==
  ASSUME NEW t \in Seq(Byte), NEW r, NEW p, Stands(t, r, p)
  PROVE  /\ r \in Ranges /\ p \in Seq(Byte) /\ <<r, p>> \in Standing(t)
         /\ r.from \in Nat /\ r.to \in Nat /\ Len(p) = r.to - r.from
         /\ \A i \in 1..(r.to - r.from) : p[i] = t[r.from + i]
<1>1. /\ r \in Ranges /\ r.from \in Nat /\ r.to \in Nat /\ r.from <= r.to /\ r.to <= Len(t)
      /\ p = SubSeq(t, r.from + 1, r.to)
  BY DEF Stands, Ranges
<1>2. p \in Seq(Byte) /\ Len(p) = r.to - r.from /\ \A i \in 1..(r.to - r.from) : p[i] = t[r.from + i]
  BY <1>1, StretchLength
<1>3. <<r, p>> \in Standing(t)
  BY <1>1, <1>2 DEF Standing
<1> QED
  BY <1>1, <1>2, <1>3

\* The ranges cut out of a header's value stand for the pairs of its text.
LEMMA RangesStand ==
  ASSUME NEW t \in Seq(Byte)
  PROVE  Alike(CookieRanges(t), Store!CookiePairs(t), Ranges, Seq(Byte), Standing(t))
<1> DEFINE n == Len(t) + 1
           stops == {j \in 1..(Len(t) + 1) : j = Len(t) + 1 \/ t[j] = Separator}
           from(j) == Max({0} \cup {i \in stops : i < j})
           piece(j) == TrimmedRange(t, from(j), j - 1)
           pair(j) == Store!Trimmed(SubSeq(t, from(j) + 1, j - 1))
           x == [j \in 1..(Len(t) + 1) |->
                  IF j \in stops /\ piece(j).from < piece(j).to THEN <<piece(j)>> ELSE <<>>]
           y == [j \in 1..(Len(t) + 1) |->
                  IF j \in stops /\ pair(j) # <<>> THEN <<pair(j)>> ELSE <<>>]
<1>1. CookieRanges(t) = FlattenSeq(x)
  BY DEF CookieRanges
<1>2. Store!CookiePairs(t) = FlattenSeq(y)
  <2>1. Store!Stops(t) = stops
    BY SameBytes DEF Store!Stops
  <2>2. \A j : Store!Pair(t, j) = pair(j)
    BY <2>1, SameBounds DEF Store!Pair
  <2> HIDE DEF pair, stops
  <2> QED
    BY <2>1, <2>2, SameFlatten DEF Store!CookiePairs
<1>3. n \in Nat /\ Len(t) \in Nat /\ \A j \in stops : j \in Nat
  OBVIOUS
<1> HIDE DEF stops
<1>4. ASSUME NEW j \in 1..n PROVE from(j) \in Nat /\ from(j) <= j - 1 /\ j - 1 \in Nat /\ j - 1 <= Len(t)
  <2> DEFINE S == {0} \cup {i \in stops : i < j}
  <2>1. S \in SUBSET (0..(j - 1)) /\ S # {} /\ j - 1 \in Nat /\ j - 1 <= Len(t)
    BY <1>3
  <2>2. from(j) = Max(S)
    OBVIOUS
  <2> HIDE DEF S, from
  <2>3. Max(S) \in S
    BY <2>1, GreatestOf
  <2>4. from(j) \in 0..(j - 1) /\ j - 1 \in Nat /\ j - 1 <= Len(t)
    BY <2>1, <2>2, <2>3
  <2> QED
    BY <2>4
<1> HIDE DEF from
<1>5. ASSUME NEW j \in 1..n
      PROVE  /\ Stands(t, piece(j), pair(j))
             /\ pair(j) # <<>> <=> piece(j).from < piece(j).to
  <2>1. Stands(t, piece(j), pair(j))
    BY <1>4, TrimStands
  <2> HIDE DEF piece, pair
  <2>2. /\ pair(j) \in Seq(Byte) /\ piece(j).from \in Nat /\ piece(j).to \in Nat
        /\ Len(pair(j)) = piece(j).to - piece(j).from /\ piece(j).from <= piece(j).to
    BY <2>1, StandingIs DEF Stands
  <2>3. pair(j) # <<>> <=> Len(pair(j)) # 0
    BY <2>2, EmptySeq
  <2> QED
    BY <2>1, <2>2, <2>3
<1> HIDE DEF piece, pair
<1>6. \A j \in 1..n : Alike(x[j], y[j], Ranges, Seq(Byte), Standing(t))
  <2> SUFFICES ASSUME NEW j \in 1..n PROVE Alike(x[j], y[j], Ranges, Seq(Byte), Standing(t))
    OBVIOUS
  <2>1. CASE j \in stops /\ pair(j) # <<>>
    <3>1. x[j] = <<piece(j)>> /\ y[j] = <<pair(j)>>
      BY <1>5, <2>1
    <3>2. piece(j) \in Ranges /\ pair(j) \in Seq(Byte) /\ <<piece(j), pair(j)>> \in Standing(t)
      BY <1>5, StandingIs
    <3>3. Alike(<<piece(j)>>, <<pair(j)>>, Ranges, Seq(Byte), Standing(t))
      BY <3>2, OneAlike
    <3> QED
      BY <3>1, <3>3
  <2>2. CASE ~(j \in stops /\ pair(j) # <<>>)
    <3>1. x[j] = <<>> /\ y[j] = <<>>
      BY <1>5, <2>2
    <3> QED
      BY <3>1 DEF Alike
  <2> QED
    BY <2>1, <2>2
<1>7. x = [j \in 1..n |-> x[j]] /\ y = [j \in 1..n |-> y[j]]
  OBVIOUS
<1> HIDE DEF x, y, n
<1>8. \A j \in 1..n : x[j] \in Seq(Ranges) /\ y[j] \in Seq(Seq(Byte))
  BY <1>6 DEF Alike
<1>9. x \in Seq(Seq(Ranges)) /\ y \in Seq(Seq(Seq(Byte))) /\ Len(x) = n /\ Len(y) = n
  BY <1>3, <1>7, <1>8, SequenceOf
<1>10. Alike(FlattenSeq(x), FlattenSeq(y), Ranges, Seq(Byte), Standing(t))
  BY <1>6, <1>9, FlattenAlike
<1> QED
  BY <1>1, <1>2, <1>10

\* A range of a value's bytes may be cut out of its span.
LEMMA CutStands ==
  ASSUME NEW a, Sized(a), NEW base, Lies(a, base, Len(a.mem)),
         NEW r, NEW p, Stands(Resolve(a, base), r, p)
  PROVE  /\ Lies(a, SubSpan(base, r.from, r.to), Len(a.mem))
         /\ Resolve(a, SubSpan(base, r.from, r.to)) = p
<1> DEFINE t == Resolve(a, base)
           s == SubSpan(base, r.from, r.to)
           m == r.to - r.from
<1>1. /\ t = [i \in 1..base.len |-> Array(a)[base.off + i]] /\ t \in Seq(Byte)
      /\ Len(t) = base.len /\ base.off \in Nat /\ base.len \in Nat
      /\ base.off + base.len <= a.len
  <2>1. Lies(a, base, Len(a.mem))
    OBVIOUS
  <2>2. base.off + base.len <= a.len
    BY <2>1 DEF Lies
  <2>3. /\ Resolve(a, base) = [i \in 1..base.len |-> Array(a)[base.off + i]]
        /\ Resolve(a, base) \in Seq(Byte) /\ Len(Resolve(a, base)) = base.len
        /\ base.off \in Nat /\ base.len \in Nat
    BY <2>1, SliceResolves
  <2> QED
    BY <2>2, <2>3
<1>2. Stands(t, r, p)
  OBVIOUS
<1> HIDE DEF t
<1>3. /\ r.from \in Nat /\ r.to \in Nat /\ r.from <= r.to /\ r.to <= base.len
      /\ p \in Seq(Byte) /\ Len(p) = m /\ \A i \in 1..m : p[i] = t[r.from + i]
  <2>1. /\ r.from \in Nat /\ r.to \in Nat
        /\ p \in Seq(Byte) /\ Len(p) = r.to - r.from
        /\ \A i \in 1..(r.to - r.from) : p[i] = t[r.from + i]
    <3>1. t \in Seq(Byte) /\ Stands(t, r, p)
      BY <1>1, <1>2
    <3> QED
      BY <3>1, StandingIs
  <2>2. r.from <= r.to /\ r.to <= base.len
    BY <1>1, <1>2 DEF Stands
  <2> QED
    BY <2>1, <2>2
<1>4. a.len \in Nat /\ a.len < SpanMod /\ SpanMod \in Nat
  BY SizedParts, ArenaAssumption
<1>20. /\ base.off + r.from \in Nat /\ base.off + r.from <= a.len
       /\ r.to - r.from \in Nat /\ r.to - r.from <= a.len
       /\ (base.off + r.from) + (r.to - r.from) <= a.len
       /\ \A i \in 1..(r.to - r.from) : /\ r.from + i \in 1..base.len
                                      /\ base.off + (r.from + i) = (base.off + r.from) + i
  <2>1. /\ base.off \in Nat /\ base.len \in Nat /\ base.off + base.len <= a.len
        /\ r.from \in Nat /\ r.to \in Nat /\ r.from <= r.to /\ r.to <= base.len
    BY <1>1, <1>3
  <2>2. a.len \in Nat
    BY <1>4
  <2> QED
    BY SMTT(30), <2>1, <2>2, PartOf
<1>5. /\ base.off + r.from \in Nat /\ base.off + r.from < SpanMod /\ m \in Nat /\ m < SpanMod
      /\ (base.off + r.from) + m <= a.len
  <2> DEFINE o == base.off + r.from
             d == r.to - r.from
  <2>1. o \in Nat /\ d \in Nat /\ o <= a.len /\ d <= a.len /\ o + d <= a.len
    BY <1>20
  <2> HIDE DEF o, d
  <2>2. o < SpanMod /\ d < SpanMod
    BY <1>4, <2>1
  <2> QED
    BY <2>1, <2>2 DEF o, d
<1>6. s = [off |-> base.off + r.from, len |-> m]
  <2>1. (base.off + r.from) % SpanMod = base.off + r.from
    BY <1>4, <1>5
  <2> QED
    BY <2>1 DEF SubSpan
<1>7. s \in Span
  BY <1>4, <1>5, <1>6 DEF Span
<1> HIDE DEF s
<1>8. Lies(a, s, Len(a.mem))
  BY <1>5, <1>6, <1>7, LiesNow
<1>9. Resolve(a, s) = [i \in 1..m |-> Array(a)[(base.off + r.from) + i]]
  <2>1. Resolve(a, s) = [i \in 1..s.len |-> Array(a)[s.off + i]]
    BY <1>8, SliceResolves
  <2> QED
    BY <1>6, <2>1
<1>10. \A i \in 1..m : p[i] = Array(a)[(base.off + r.from) + i]
  <2> TAKE i \in 1..m
  <2>1. r.from + i \in 1..base.len /\ base.off + (r.from + i) = (base.off + r.from) + i
    BY <1>20
  <2>2. t[r.from + i] = Array(a)[base.off + (r.from + i)]
    BY <1>1, <2>1
  <2> QED
    BY <1>3, <2>1, <2>2
<1>11. p = [i \in 1..m |-> p[i]]
  BY <1>3
<1>12. Resolve(a, s) = p
  BY <1>9, <1>10, <1>11
<1> QED
  BY <1>8, <1>12 DEF s

LEMMA PairOfTwo == ASSUME NEW e, NEW f PROVE <<e>> \o <<f>> = <<e, f>>
<1> DEFINE U == {e, f}
<1>1. <<e>> \in Seq(U) /\ <<f>> \in Seq(U) /\ <<e, f>> \in Seq(U)
  OBVIOUS
<1>2. Len(<<e>>) = 1 /\ Len(<<f>>) = 1 /\ Len(<<e, f>>) = 2
      /\ <<e>>[1] = e /\ <<f>>[1] = f /\ <<e, f>>[1] = e /\ <<e, f>>[2] = f
  OBVIOUS
<1> HIDE DEF U
<1>3. /\ <<e>> \o <<f>> \in Seq(U) /\ Len(<<e>> \o <<f>>) = 2
      /\ (<<e>> \o <<f>>)[1] = e /\ (<<e>> \o <<f>>)[2] = f
  BY <1>1, <1>2, ConcatProperties
<1>4. \A i \in 1..2 : (<<e>> \o <<f>>)[i] = <<e, f>>[i]
  BY <1>2, <1>3
<1> QED
  BY <1>1, <1>2, <1>3, <1>4, SeqEqual

\* The two values of a cookie mean its two entries.
LEMMA CookieMeans ==
  ASSUME NEW a, Sized(a), NEW base, Lies(a, base, Len(a.mem)),
         NEW r, NEW p, Stands(Resolve(a, base), r, p)
  PROVE  Means(a, CookieValues(base, Resolve(a, base), r, Len(a.mem)), Store!CookieEntries(p))
<1> DEFINE t == Resolve(a, base)
           lo == r.from
           hi == r.to
           T == {i \in (lo + 1)..hi : t[i] = "="}
           S == {i \in DOMAIN p : p[i] = "="}
           name == IF T = {} THEN r ELSE TrimmedRange(t, lo, Min(T) - 1)
           value == IF T = {} THEN r ELSE TrimmedRange(t, Min(T), hi)
           named == IF S = {} THEN p ELSE Store!Trimmed(SubSeq(p, 1, Min(S) - 1))
           valued == IF S = {} THEN p ELSE Store!Trimmed(SubSeq(p, Min(S) + 1, Len(p)))
           at == Len(a.mem)
           k == SubSpan(base, name.from, name.to)
           d == SubSpan(base, value.from, value.to)
<1>1. /\ CookieValues(base, t, r, at) =
           <<[kind |-> "cookie", key |-> k, data |-> d, at |-> at],
             [kind |-> "cookiename", key |-> k, data |-> k, at |-> at]>>
  BY DEF CookieValues
<1>2. Store!CookieEntries(p) =
        <<Store!Entry("cookie", named, valued), Store!Entry("cookiename", named, named)>>
  BY SameBounds DEF Store!CookieEntries
<1>3. t \in Seq(Byte) /\ Stands(t, r, p) /\ at \in Nat
  BY SliceResolves, SizedParts
<1> HIDE DEF t, at
<1>4. /\ lo \in Nat /\ hi \in Nat /\ lo <= hi /\ hi <= Len(t) /\ Len(t) \in Nat
      /\ p \in Seq(Byte) /\ Len(p) = hi - lo /\ p = SubSeq(t, lo + 1, hi)
      /\ DOMAIN p = 1..(hi - lo)
      /\ \A i \in 1..(hi - lo) : p[i] = t[lo + i]
  <2>1. /\ lo \in Nat /\ hi \in Nat /\ p \in Seq(Byte) /\ Len(p) = hi - lo
        /\ \A i \in 1..(hi - lo) : p[i] = t[lo + i]
    BY <1>3, StandingIs
  <2>2. lo <= hi /\ hi <= Len(t) /\ p = SubSeq(t, lo + 1, hi)
    BY <1>3 DEF Stands
  <2>3. Len(t) \in Nat
    BY <1>3
  <2>4. DOMAIN p = 1..(hi - lo)
    BY <2>1
  <2> QED
    BY <2>1, <2>2, <2>3, <2>4
<1> HIDE DEF lo, hi
<1>5. /\ S \in SUBSET (1..(hi - lo)) /\ hi - lo \in Nat
      /\ \A i \in S : lo + i \in T
      /\ \A j \in T : \E i \in S : j = lo + i
  <2>1. S \in SUBSET (1..(hi - lo)) /\ hi - lo \in Nat
    BY <1>4
  <2>2. \A i \in S : lo + i \in T
    <3> SUFFICES ASSUME NEW i \in DOMAIN p, p[i] = "=" PROVE lo + i \in T
      OBVIOUS
    <3>1. i \in 1..(hi - lo)
      BY <1>4
    <3>2. lo + i \in (lo + 1)..hi
      BY <1>4, <3>1
    <3>3. p[i] = t[lo + i]
      BY <1>4, <3>1
    <3> QED
      BY <3>2, <3>3
  <2>3. \A j \in T : j - lo \in S /\ j = lo + (j - lo)
    <3> SUFFICES ASSUME NEW j \in (lo + 1)..hi, t[j] = "="
                 PROVE  j - lo \in S /\ j = lo + (j - lo)
      OBVIOUS
    <3>1. j - lo \in 1..(hi - lo) /\ j = lo + (j - lo)
      BY <1>4
    <3>2. p[j - lo] = t[j]
      BY <1>4, <3>1
    <3>3. j - lo \in DOMAIN p
      BY <1>4, <3>1
    <3> QED
      BY <3>1, <3>2, <3>3
  <2> HIDE DEF S, T
  <2> QED
    BY <2>1, <2>2, <2>3
<1> HIDE DEF S, T
<1>6. Stands(t, name, named) /\ Stands(t, value, valued)
  <2>1. CASE S = {}
    <3>1. T = {}
      BY <1>5, <2>1
    <3> QED
      BY <1>3, <2>1, <3>1
  <2>2. CASE S # {}
    <3> DEFINE m == Min(S)
    <3>1. T # {} /\ Min(T) = lo + m /\ m \in 1..(hi - lo)
      <4>1. ShiftedBy(S, T, lo, hi - lo)
        BY <1>4, <1>5, <2>2 DEF ShiftedBy
      <4> QED
        BY <1>5, <4>1, Shifted
    <3>2. /\ name = TrimmedRange(t, lo, Min(T) - 1) /\ value = TrimmedRange(t, Min(T), hi)
          /\ named = Store!Trimmed(SubSeq(p, 1, m - 1))
          /\ valued = Store!Trimmed(SubSeq(p, m + 1, Len(p)))
      BY <2>2, <3>1
    <3> HIDE DEF m, name, value, named, valued
    <3>3. /\ m \in Nat /\ m - 1 \in Nat /\ m + 1 \in Nat /\ m - 1 <= hi - lo
          /\ lo + m - 1 \in Nat /\ lo + m \in Nat /\ lo <= lo + m - 1
          /\ lo + m - 1 <= Len(t) /\ lo + m <= hi /\ Min(T) - 1 = lo + m - 1
          /\ lo + (m - 1) = lo + m - 1 /\ lo + (m + 1) = (lo + m) + 1
          /\ lo + (hi - lo) = hi /\ m + 1 >= 1
      <4>1. /\ lo \in Nat /\ hi \in Nat /\ lo <= hi /\ hi <= Len(t)
            /\ Len(t) \in Nat
        BY <1>4
      <4>2. m \in 1..(hi - lo) /\ Min(T) = lo + m
        BY <3>1
      <4>3. m \in Nat /\ m >= 1 /\ m <= hi - lo
        BY <4>1, <4>2
      <4> QED
        BY <4>1, <4>2, <4>3
    <3>4. SubSeq(p, 1, m - 1) = SubSeq(t, lo + 1, lo + m - 1)
      <4>1. SubSeq(SubSeq(t, lo + 1, hi), 1, m - 1) = SubSeq(t, lo + 1, lo + (m - 1))
        <5>1. t \in Seq(Byte) /\ lo \in Nat /\ hi \in Nat /\ lo <= hi /\ hi <= Len(t)
          BY <1>3, <1>4
        <5>2. 1 \in Nat /\ m - 1 \in Nat /\ 1 >= 1 /\ m - 1 <= hi - lo
          BY <3>3
        <5> QED
          BY <5>1, <5>2, StretchOfStretch
      <4> QED
        BY <1>4, <3>3, <4>1
    <3>5. SubSeq(p, m + 1, Len(p)) = SubSeq(t, (lo + m) + 1, hi)
      <4> DEFINE w == hi - lo
                 l == m + 1
      <4>1. w \in Nat /\ l \in Nat /\ l >= 1 /\ w <= hi - lo
        BY <1>5, <3>3
      <4>2. lo + l = (lo + m) + 1 /\ lo + w = hi
        BY <3>3
      <4>3. Len(p) = w /\ p = SubSeq(t, lo + 1, hi)
        BY <1>4
      <4>4. t \in Seq(Byte) /\ lo \in Nat /\ hi \in Nat /\ lo <= hi /\ hi <= Len(t)
        BY <1>3, <1>4
      <4> HIDE DEF w, l
      <4>5. SubSeq(SubSeq(t, lo + 1, hi), l, w) = SubSeq(t, lo + l, lo + w)
        BY <4>1, <4>4, StretchOfStretch
      <4> QED
        BY <4>2, <4>3, <4>5 DEF l
    <3>6. Stands(t, name, named)
      BY <1>3, <1>4, <3>2, <3>3, <3>4, TrimStands
    <3>7. Stands(t, value, valued)
      <4>1. value = TrimmedRange(t, lo + m, hi)
        BY <3>1, <3>2
      <4> QED
        BY <1>3, <1>4, <3>2, <3>3, <3>5, <4>1, TrimStands
    <3> QED
      BY <3>6, <3>7
  <2> QED
    BY <2>1, <2>2
<1> HIDE DEF name, value, named, valued
<1>7. Lies(a, k, at) /\ Resolve(a, k) = named /\ Lies(a, d, at) /\ Resolve(a, d) = valued
  BY <1>6, CutStands DEF t, at
<1> HIDE DEF k, d
<1> DEFINE v == [kind |-> "cookie", key |-> k, data |-> d, at |-> at]
           w == [kind |-> "cookiename", key |-> k, data |-> k, at |-> at]
<1>8. Holds(a, v) /\ ReadIn(a, v) = Store!Entry("cookie", named, valued)
  <2>1. v \in Value
    BY <1>3, <1>7 DEF Value, Lies
  <2> QED
    BY <1>7, <2>1, SliceResolves DEF Holds, ReadIn, Store!Entry
<1>9. Holds(a, w) /\ ReadIn(a, w) = Store!Entry("cookiename", named, named)
  <2>1. w \in Value
    BY <1>3, <1>7 DEF Value, Lies
  <2> QED
    BY <1>7, <2>1, SliceResolves DEF Holds, ReadIn, Store!Entry
<1> HIDE DEF v, w
<1>10. Means(a, <<v>>, <<ReadIn(a, v)>>) /\ Means(a, <<w>>, <<ReadIn(a, w)>>)
  BY <1>8, <1>9, MeansOne
<1>11. Means(a, <<v>> \o <<w>>, <<ReadIn(a, v)>> \o <<ReadIn(a, w)>>)
  BY <1>10, MeansMore
<1>12. <<v>> \o <<w>> = <<v, w>>
       /\ <<ReadIn(a, v)>> \o <<ReadIn(a, w)>> = <<ReadIn(a, v), ReadIn(a, w)>>
  BY PairOfTwo
<1> QED
  BY <1>1, <1>2, <1>8, <1>9, <1>11, <1>12 DEF v, w, t, at

\* The values of a pair of a header, and the text of the pair.
CookieParts(a) == {p \in Seq(Value) \X Seq(Byte) : Means(a, p[1], Store!CookieEntries(p[2]))}

\* The cookies cut out of a header's value mean the pairs of its text.
LEMMA CutAlike ==
  ASSUME NEW a, Sized(a), NEW base, Lies(a, base, Len(a.mem)), NEW t, t = Resolve(a, base)
  PROVE  LET ranges == CookieRanges(t)
             cut == [j \in DOMAIN ranges |-> CookieValues(base, t, ranges[j], Len(a.mem))]
         IN Alike(cut, Store!CookiePairs(t), Seq(Value), Seq(Byte), CookieParts(a))
<1> DEFINE ranges == CookieRanges(t)
           pairs == Store!CookiePairs(t)
           cut == [j \in DOMAIN ranges |-> CookieValues(base, t, ranges[j], Len(a.mem))]
           n == Len(ranges)
<1>1. t \in Seq(Byte)
  BY SliceResolves
<1>2. Alike(ranges, pairs, Ranges, Seq(Byte), Standing(t))
  BY <1>1, RangesStand
<1> HIDE DEF ranges, pairs
<1>3. /\ ranges \in Seq(Ranges) /\ pairs \in Seq(Seq(Byte)) /\ Len(pairs) = n
      /\ n \in Nat /\ DOMAIN ranges = 1..n
      /\ \A j \in 1..n : <<ranges[j], pairs[j]>> \in Standing(t)
  <2>1. ranges \in Seq(Ranges) /\ pairs \in Seq(Seq(Byte)) /\ Len(pairs) = n
        /\ \A j \in 1..n : <<ranges[j], pairs[j]>> \in Standing(t)
    BY <1>2 DEF Alike
  <2>2. n \in Nat /\ DOMAIN ranges = 1..n
    BY <2>1
  <2> QED
    BY <2>1, <2>2
<1> HIDE DEF n
<1>4. ASSUME NEW j \in 1..n
      PROVE  cut[j] \in Seq(Value) /\ <<cut[j], pairs[j]>> \in CookieParts(a)
  <2> DEFINE r == ranges[j]
             p == pairs[j]
             c == CookieValues(base, t, r, Len(a.mem))
  <2>1. <<r, p>> \in Standing(t) /\ p \in Seq(Byte) /\ cut[j] = c
    BY <1>3
  <2>2. Stands(t, r, p)
    BY <2>1 DEF Standing
  <2> HIDE DEF r, p
  <2>3. Means(a, c, Store!CookieEntries(p))
    BY <2>2, CookieMeans
  <2> HIDE DEF c
  <2>4. c \in Seq(Value)
    BY <2>3, MeansReads
  <2>5. <<c, p>> \in CookieParts(a)
    BY <2>1, <2>3, <2>4 DEF CookieParts
  <2> QED
    BY <2>1, <2>4, <2>5 DEF p
<1>5. cut = [j \in 1..n |-> cut[j]]
  BY <1>3
<1> HIDE DEF cut
<1>6. cut \in Seq(Seq(Value)) /\ Len(cut) = n
  BY <1>3, <1>4, <1>5, SequenceOf
<1>7. Alike(cut, pairs, Seq(Value), Seq(Byte), CookieParts(a))
  BY <1>3, <1>4, <1>6 DEF Alike
<1> QED
  BY <1>7 DEF cut, pairs, ranges

\* The values of the cookies of a transaction are the store's cookies.
LEMMA PutCookiesDoes ==
  ASSUME NEW s, Ready(s), NEW es, Means(s.arena, s.values, es), NEW end \in 0..Len(s.values)
  PROVE  LET t == PutCookies(s, end)
         IN /\ t.arena = s.arena /\ Ready(t)
            /\ Means(t.arena, t.values, es \o Store!Cookies(SubSeq(es, 1, end)))
<1> DEFINE a == s.arena
           at == Len(s.arena.mem)
           text(v) == Slice(a, v.data, v.at)
           from(v) == v.kind = "header" /\ Slice(a, v.key, v.at) \in CookieKeys
           cut(v) == [j \in DOMAIN CookieRanges(text(v)) |->
                       CookieValues(v.data, text(v), CookieRanges(text(v))[j], at)]
           headers == SubSeq(s.values, 1, end)
           x == [i \in DOMAIN headers |-> IF from(headers[i]) THEN cut(headers[i]) ELSE <<>>]
           pieces == FlattenSeq(x)
           taken == SubSeq(pieces, 1, Min({Len(pieces), MaxPairs}))
           added == FlattenSeq(taken)
           shown == SubSeq(es, 1, end)
           y == [i \in DOMAIN shown |->
                  IF shown[i].kind = "header" /\ shown[i].key \in CookieKeys
                  THEN Store!CookiePairs(shown[i].data) ELSE <<>>]
           pairs == FlattenSeq(y)
           kept == SubSeq(pairs, 1, Min({Len(pairs), MaxPairs}))
           z == [k \in DOMAIN kept |-> Store!CookieEntries(kept[k])]
           t == PutCookies(s, end)
<1>1. t = [s EXCEPT !.values = s.values \o added]
  BY DEF PutCookies, Slice
<1>2. Store!Cookies(shown) = FlattenSeq(z)
  <2>1. Store!Cookies(shown) =
          LET prs == Store!FlattenSeq(y)
              kpt == SubSeq(prs, 1, Store!Min({Len(prs), MaxPairs}))
          IN Store!FlattenSeq([k \in DOMAIN kpt |-> Store!CookieEntries(kpt[k])])
    BY DEF Store!Cookies
  <2>2. Store!FlattenSeq(y) = pairs
    BY SameFlatten
  <2> HIDE DEF y, pairs
  <2>3. Store!Min({Len(pairs), MaxPairs}) = Min({Len(pairs), MaxPairs})
    BY SameBounds
  <2>4. Store!Cookies(shown) = Store!FlattenSeq(z)
    BY <2>1, <2>2, <2>3
  <2> HIDE DEF z
  <2> QED
    BY <2>4, SameFlatten
<1>3. Sized(a) /\ at \in Nat /\ Whole(s)
  BY SizedParts DEF Ready
<1>4. Means(a, headers, shown)
  <2>1. Len(s.values) \in Nat /\ end \in Nat /\ end <= Len(s.values) /\ 1 \in Nat /\ 1 >= 1
    <3>1. s.values \in Seq(Value)
      BY MeansReads
    <3> QED
      BY <3>1
  <2>2. Alike(s.values, es, Value, Entries, Pairing(a))
    BY DEF Means
  <2>3. Alike(headers, shown, Value, Entries, Pairing(a))
    BY <2>1, <2>2, StretchAlike
  <2> QED
    BY <2>3 DEF Means
<1> HIDE DEF headers, shown
<1> DEFINE n == Len(headers)
<1>5. /\ headers \in Seq(Value) /\ shown \in Seq(Entries) /\ Len(shown) = n /\ n \in Nat
      /\ DOMAIN headers = 1..n /\ DOMAIN shown = 1..n
      /\ \A i \in 1..n : Holds(a, headers[i]) /\ shown[i] = ReadIn(a, headers[i])
  <2>1. headers \in Seq(Value) /\ shown \in Seq(Entries) /\ Len(shown) = n
    BY <1>4, MeansReads
  <2> QED
    BY <1>4, <2>1, MeansReads
<1> HIDE DEF n
<1>6. ASSUME NEW i \in 1..n
      PROVE  Alike(x[i], y[i], Seq(Value), Seq(Byte), CookieParts(a))
  <2> DEFINE v == headers[i]
             e == shown[i]
  <2>1. /\ Holds(a, v) /\ e = ReadIn(a, v)
        /\ x[i] = IF from(v) THEN cut(v) ELSE <<>>
        /\ y[i] = IF e.kind = "header" /\ e.key \in CookieKeys
                  THEN Store!CookiePairs(e.data) ELSE <<>>
    BY <1>5
  <2> HIDE DEF v, e, x, y
  <2>2. e.kind = v.kind /\ e.key = Slice(a, v.key, v.at) /\ e.data = text(v)
    BY <2>1 DEF ReadIn
  <2>3. CASE from(v)
    <3>1. x[i] = cut(v) /\ y[i] = Store!CookiePairs(text(v))
      BY <2>1, <2>2, <2>3
    <3>2. Lies(a, v.data, v.at) /\ text(v) = Resolve(a, v.data)
      BY <1>3, <2>1, SliceResolves DEF Holds
    <3>3. Lies(a, v.data, at)
      <4>1. v.data \in Span /\ v.data.off + v.data.len <= a.len
        BY <3>2 DEF Lies
      <4> QED
        BY <1>3, <4>1, LiesNow
    <3> DEFINE w == text(v)
    <3> HIDE DEF a
    <3>4. Alike(cut(v), Store!CookiePairs(w), Seq(Value), Seq(Byte), CookieParts(a))
      <4>1. w = Resolve(a, v.data) /\ Lies(a, v.data, Len(a.mem)) /\ at = Len(a.mem)
        BY <3>2, <3>3 DEF a
      <4> HIDE DEF w, at
      <4>2. LET ranges == CookieRanges(w)
                pieced == [j \in DOMAIN ranges |-> CookieValues(v.data, w, ranges[j], Len(a.mem))]
            IN Alike(pieced, Store!CookiePairs(w), Seq(Value), Seq(Byte), CookieParts(a))
        BY <1>3, <4>1, CutAlike
      <4>3. cut(v) = [j \in DOMAIN CookieRanges(w) |->
                       CookieValues(v.data, w, CookieRanges(w)[j], Len(a.mem))]
        BY <4>1 DEF w
      <4> QED
        BY <4>2, <4>3
    <3> QED
      BY <3>1, <3>4
  <2>4. CASE ~from(v)
    <3>1. x[i] = <<>> /\ y[i] = <<>>
      BY <2>1, <2>2, <2>4
    <3> QED
      BY <3>1 DEF Alike
  <2> QED
    BY <2>3, <2>4
<1>7. x = [i \in 1..n |-> x[i]] /\ y = [i \in 1..n |-> y[i]]
  BY <1>5
<1> HIDE DEF x, y
<1>8. \A i \in 1..n : x[i] \in Seq(Seq(Value)) /\ y[i] \in Seq(Seq(Byte))
  BY <1>6 DEF Alike
<1>9. x \in Seq(Seq(Seq(Value))) /\ y \in Seq(Seq(Seq(Byte))) /\ Len(x) = n /\ Len(y) = n
  BY <1>5, <1>7, <1>8, SequenceOf
<1>10. Alike(pieces, pairs, Seq(Value), Seq(Byte), CookieParts(a))
  BY <1>6, <1>9, FlattenAlike
<1> HIDE DEF pieces, pairs
<1>11. Alike(taken, kept, Seq(Value), Seq(Byte), CookieParts(a))
  <2> DEFINE m == Min({Len(pieces), MaxPairs})
  <2>1. Len(pieces) \in Nat /\ Len(pairs) = Len(pieces) /\ MaxPairs \in Nat
    BY <1>10, ArenaAssumption DEF Alike
  <2>2. m \in Nat /\ m <= Len(pieces) /\ 1 \in Nat /\ 1 >= 1
    BY <2>1, MinOfTwo
  <2>3. taken = SubSeq(pieces, 1, m) /\ kept = SubSeq(pairs, 1, m)
    BY <2>1
  <2> HIDE DEF m, taken, kept
  <2>4. Alike(SubSeq(pieces, 1, m), SubSeq(pairs, 1, m), Seq(Value), Seq(Byte), CookieParts(a))
    BY <1>10, <2>2, StretchAlike
  <2> QED
    BY <2>3, <2>4
<1> HIDE DEF taken, kept
<1> DEFINE l == Len(taken)
<1>12. /\ taken \in Seq(Seq(Value)) /\ kept \in Seq(Seq(Byte)) /\ l \in Nat
       /\ DOMAIN kept = 1..l /\ \A k \in 1..l : <<taken[k], kept[k]>> \in CookieParts(a)
  <2>1. /\ taken \in Seq(Seq(Value)) /\ kept \in Seq(Seq(Byte)) /\ Len(kept) = l
        /\ \A k \in 1..l : <<taken[k], kept[k]>> \in CookieParts(a)
    BY <1>11 DEF Alike
  <2>2. l \in Nat /\ DOMAIN kept = 1..l
    BY <2>1
  <2> QED
    BY <2>1, <2>2
<1>13. \A k \in 1..l : Alike(taken[k], z[k], Value, Entries, Pairing(a))
  <2> TAKE k \in 1..l
  <2>1. z[k] = Store!CookieEntries(kept[k])
    BY <1>12
  <2>2. <<taken[k], kept[k]>> \in CookieParts(a)
    BY <1>12
  <2>3. Means(a, taken[k], Store!CookieEntries(kept[k]))
    BY <2>2 DEF CookieParts
  <2> QED
    BY <2>1, <2>3 DEF Means
<1>14. z = [k \in 1..l |-> z[k]]
  BY <1>12
<1> HIDE DEF z
<1>15. z \in Seq(Seq(Entries)) /\ Len(z) = l
  <2>1. \A k \in 1..l : z[k] \in Seq(Entries)
    BY <1>13 DEF Alike
  <2> QED
    BY <1>12, <1>14, <2>1, SequenceOf
<1>16. Means(a, added, FlattenSeq(z))
  <2>1. Alike(FlattenSeq(taken), FlattenSeq(z), Value, Entries, Pairing(a))
    BY <1>12, <1>13, <1>15, FlattenAlike
  <2> QED
    BY <2>1 DEF Means
<1> HIDE DEF added
<1>17. Means(a, s.values \o added, es \o FlattenSeq(z))
  BY <1>16, MeansMore
<1> HIDE DEF t
<1>18. t.arena = a /\ t.values = s.values \o added /\ Whole(t)
  BY <1>1, <1>3 DEF Whole
<1>19. Ready(t)
  BY <1>3, <1>18 DEF Ready
<1> QED
  BY <1>2, <1>17, <1>18, <1>19 DEF t, shown

-----------------------------------------------------------------------------
(* The refinement: what the rules read of the values, and the response body, *)
(* change as the store's entries and body do.                                *)

Read == [i \in DOMAIN values |-> Contents(values[i])]
Body == Resolve(Arena, reply.body)

\* The response's key and body lie within the arena, and the key of a body that
\* was begun is the one that response bodies are recorded under.
BodyLies(a, r) ==
  /\ r.key \in Span /\ r.key.off + r.key.len <= a.len
  /\ r.body \in Span /\ r.body.off + r.body.len <= a.len
  /\ r.body.len # 0 => Resolve(a, r.key) = BodyKey

Reads ==
  /\ Inv /\ Sized(Arena)
  /\ Means(Arena, values, Read)
  /\ BodyLies(Arena, reply)

LEMMA ReadAs == Read = [i \in DOMAIN values |-> ReadIn(Arena, values[i])]
<1>1. \A v : Contents(v) = ReadIn(Arena, v)
  BY DEF Contents, ReadIn, Slice, Arena
<1> QED
  BY <1>1 DEF Read

\* A span within the arena reads the same in whatever extends it.
LEMMA SpanKept ==
  ASSUME NEW a, NEW b, Sized(a), Sized(b), Extends(a, b), NEW s \in Span, s.off + s.len <= a.len
  PROVE  s.off + s.len <= b.len /\ Resolve(b, s) = Resolve(a, s)
<1>1. Lies(a, s, Len(a.mem))
  BY LiesNow
<1>2. Lies(b, s, Len(a.mem)) /\ Resolve(b, s) = Resolve(a, s)
  BY <1>1, LiesKept
<1> QED
  BY <1>2 DEF Lies

LEMMA BodyLiesKept ==
  ASSUME NEW a, NEW b, Sized(a), Sized(b), Extends(a, b), NEW r, BodyLies(a, r)
  PROVE  BodyLies(b, r) /\ Resolve(b, r.body) = Resolve(a, r.body)
<1>1. /\ r.key \in Span /\ r.key.off + r.key.len <= a.len
      /\ r.body \in Span /\ r.body.off + r.body.len <= a.len
      /\ r.body.len # 0 => Resolve(a, r.key) = BodyKey
  BY DEF BodyLies
<1>2. /\ r.key.off + r.key.len <= b.len /\ Resolve(b, r.key) = Resolve(a, r.key)
      /\ r.body.off + r.body.len <= b.len /\ Resolve(b, r.body) = Resolve(a, r.body)
  BY <1>1, SpanKept
<1> QED
  BY <1>1, <1>2 DEF BodyLies

\* What a call leaves behind reads as the entries it is said to mean.
LEMMA BecomesRead ==
  ASSUME NEW t, Becomes(t), Whole(t), Sized(t.arena), NEW es, Means(t.arena, t.values, es)
  PROVE  /\ Arena' = t.arena /\ values' = t.values /\ Read' = es
         /\ Sized(Arena)' /\ Means(Arena, values, Read)'
<1>1. mem' = t.arena.mem /\ len' = t.arena.len /\ values' = t.values
  BY DEF Becomes
<1>2. Arena' = t.arena
  BY <1>1 DEF Arena, Sized, ArenaOK
<1>3. es = [i \in DOMAIN t.values |-> ReadIn(t.arena, t.values[i])]
  BY MeansReads
<1>4. Read' = [i \in DOMAIN values' |-> ReadIn(Arena', values'[i])]
  <2>1. Read = [i \in DOMAIN values |-> ReadIn(Arena, values[i])]
    BY ReadAs
  <2>2. \A v : Contents(v)' = ReadIn(Arena', v)
    BY DEF Contents, ReadIn, Slice, Arena
  <2> QED
    BY <2>2 DEF Read
<1>5. Read' = es
  BY <1>1, <1>2, <1>3, <1>4
<1>6. Sized(Arena)' /\ Means(Arena, values, Read)'
  <2>1. Sized(Arena') /\ Means(Arena', values', Read')
    BY <1>1, <1>2, <1>5
  <2> QED
    BY <2>1 DEF Sized, ArenaOK, Array, Cap, Means, Alike, Pairing, Holds, Lies, ReadIn, Slice, Bytes
<1> QED
  BY <1>1, <1>2, <1>5, <1>6

\* A call that keeps the response adds to the entries what it records.
LEMMA Advances ==
  ASSUME Reads, Inv', NEW t, Becomes(t), reply' = reply, Ready(t), Extends(Arena, t.arena),
         NEW more, Means(t.arena, t.values, Read \o more)
  PROVE  Reads' /\ Store!Extend(more)
<1>1. /\ Arena' = t.arena /\ Read' = Read \o more /\ Sized(Arena)' /\ Means(Arena, values, Read)'
  BY BecomesRead DEF Ready
<1>2. BodyLies(t.arena, reply) /\ Resolve(t.arena, reply.body) = Body
  BY BodyLiesKept DEF Reads, Ready, Body
<1>3. BodyLies(Arena', reply') /\ Body' = Body
  <2>1. Resolve(Arena', reply'.body) = Body
    BY <1>1, <1>2
  <2> QED
    BY <1>1, <1>2, <2>1 DEF Body, Resolve, Bytes, Array
<1>4. BodyLies(Arena, reply)'
  BY <1>3 DEF BodyLies, Resolve, Bytes, Array
<1>5. Store!Extend(more)
  BY <1>1, <1>3 DEF Store!Extend, Read, Body
<1> QED
  BY <1>1, <1>4, <1>5 DEF Reads

LEMMA StateReady ==
  ASSUME Reads
  PROVE  /\ Ready(State) /\ State.arena = Arena /\ State.values = values
         /\ Means(State.arena, State.values, Read) /\ Sized(Arena)
         /\ values \in Seq(Value) /\ Read \in Seq(Entries) /\ Len(Read) = Len(values)
         /\ Len(values) \in Nat
<1>1. Ready(State) /\ State.arena = Arena /\ State.values = values
  BY StateWhole DEF Reads, Ready, State
<1>2. Means(Arena, values, Read) /\ Sized(Arena)
  BY DEF Reads
<1>3. values \in Seq(Value) /\ Read \in Seq(Entries) /\ Len(Read) = Len(values)
  BY <1>2, MeansReads
<1>4. Len(values) \in Nat
  BY <1>3
<1> QED
  BY <1>1, <1>2, <1>3, <1>4

\* What one recording does, the call does.
LEMMA AdvancesBy ==
  ASSUME Reads, Inv', NEW t, Becomes(t), reply' = reply, NEW more, Does(State, t, more)
  PROVE  Reads' /\ Store!Extend(more)
<1>1. Ready(t) /\ Extends(Arena, t.arena) /\ Means(t.arena, t.values, Read \o more)
  BY StateReady DEF Does
<1> QED
  BY <1>1, Advances

LEMMA RecordReads ==
  ASSUME Reads, Inv', NEW kind \in Kinds, NEW key \in Keys, NEW data \in Texts,
         Record(kind, key, data)
  PROVE  Reads' /\ Store!Record(kind, key, data)
<1> DEFINE t == Put(State, kind, key, data)
<1>1. key \in Seq(STRING) /\ data \in Seq(STRING) /\ Recordable(kind) /\ Ready(State)
  BY StateReady, ArenaAssumption DEF Recordable
<1>2. PICK more \in {<<>>, <<Store!Entry(kind, key, data)>>} : Does(State, t, more)
  BY <1>1, PutDoes
<1>3. Becomes(t) /\ reply' = reply
  BY DEF Record
<1> HIDE DEF t
<1>4. Reads' /\ Store!Extend(more)
  BY <1>2, <1>3, AdvancesBy
<1> QED
  BY <1>2, <1>4 DEF Store!Record

LEMMA RecordArgNameReads ==
  ASSUME Reads, Inv', NEW parent \in Keys, NEW key \in Keys, RecordArgName(parent, key)
  PROVE  Reads' /\ Store!RecordName(parent, key)
<1> DEFINE t == PutName(State, parent, key)
           path == parent \o <<".">> \o key
<1>1. parent \in Seq(STRING) /\ key \in Seq(STRING) /\ Ready(State)
  BY StateReady, ArenaAssumption
<1>2. PICK bare \in {<<>>, <<Store!Entry("name", parent, key)>>},
           full \in {<<>>, <<Store!Entry("name", path, path)>>} :
        /\ full # <<>> => parent # <<>> /\ key \in PositionalKeys
        /\ Does(State, t, bare \o full)
  <2>1. \E x \in {<<>>, <<Store!Entry("name", parent, key)>>},
           y \in {<<>>, <<Store!Entry("name", path, path)>>} :
          /\ y # <<>> => parent # <<>> /\ key \in PositionalKeys
          /\ Does(State, PutName(State, parent, key), x \o y)
    BY ZenonT(30), <1>1, PutNameDoes
  <2> QED
    BY <2>1, Zenon
<1>3. Becomes(t) /\ reply' = reply
  BY DEF RecordArgName
<1> HIDE DEF t
<1>4. Reads' /\ Store!Extend(bare \o full)
  BY <1>2, <1>3, AdvancesBy
<1> QED
  BY <1>2, <1>4 DEF Store!RecordName

LEMMA CopyArgsReads ==
  ASSUME Reads, Inv', NEW from \in 0..Len(values), NEW to \in 0..Len(values), CopyArgs(from, to)
  PROVE  Reads' /\ Store!Copy(from, to)
<1> DEFINE t == PutCopies(State, from, to)
           args == Store!Args(SubSeq(Read, from + 1, to))
           more == AsViews(args)
<1>1. /\ Ready(State) /\ Means(State.arena, State.values, Read) /\ State.arena = Arena
      /\ from \in 0..Len(State.values) /\ to \in 0..Len(State.values) /\ Sized(Arena)
  BY StateReady
<1>2. t.arena = State.arena /\ Ready(t) /\ Means(t.arena, t.values, Read \o more)
  BY <1>1, PutCopiesDoes
<1>3. Becomes(t) /\ reply' = reply
  BY DEF CopyArgs
<1> HIDE DEF t, more
<1>4. Extends(Arena, t.arena)
  BY <1>1, <1>2, ExtendsSelf
<1>5. Reads' /\ Store!Extend(more)
  BY <1>2, <1>3, <1>4, Advances
<1> QED
  BY <1>5 DEF Store!Copy, more, Read, AsViews

LEMMA JoinArgsReads ==
  ASSUME Reads, Inv', NEW end \in 0..Len(values), JoinArgs(end)
  PROVE  Reads' /\ Store!Join(end)
<1> DEFINE t == PutJoined(State, end)
           args == Store!Args(SubSeq(Read, 1, end))
           whole == FlattenSeq([k \in DOMAIN args |-> args[k].data])
<1>1. /\ Ready(State) /\ Means(State.arena, State.values, Read)
      /\ end \in 0..Len(State.values)
  BY StateReady
<1>2. PICK more \in {<<>>, <<Store!Entry("joined", <<>>, whole)>>} : Does(State, t, more)
  BY <1>1, PutJoinedDoes
<1>3. Becomes(t) /\ reply' = reply
  BY DEF JoinArgs
<1> HIDE DEF t
<1>4. Reads' /\ Store!Extend(more)
  BY <1>2, <1>3, AdvancesBy
<1>5. Store!FlattenSeq([k \in DOMAIN args |-> args[k].data]) = whole
  BY SameFlatten
<1>6. \E one \in {<<>>, <<Store!Entry("joined", <<>>,
                          Store!FlattenSeq([k \in DOMAIN args |-> args[k].data]))>>} :
        Store!Extend(one)
  BY <1>2, <1>4, <1>5
<1> QED
  BY <1>4, <1>6 DEF Store!Join, Read

LEMMA RecordCookiesReads ==
  ASSUME Reads, Inv', NEW end \in 0..Len(values), RecordCookies(end)
  PROVE  Reads' /\ Store!SplitCookies(end)
<1> DEFINE t == PutCookies(State, end)
           more == Store!Cookies(SubSeq(Read, 1, end))
<1>1. /\ Ready(State) /\ Means(State.arena, State.values, Read) /\ State.arena = Arena
      /\ end \in 0..Len(State.values) /\ Sized(Arena)
  BY StateReady
<1>2. t.arena = State.arena /\ Ready(t) /\ Means(t.arena, t.values, Read \o more)
  BY <1>1, PutCookiesDoes
<1>3. Becomes(t) /\ reply' = reply
  BY DEF RecordCookies
<1> HIDE DEF t, more
<1>4. Extends(Arena, t.arena)
  BY <1>1, <1>2, ExtendsSelf
<1>5. Reads' /\ Store!Extend(more)
  BY <1>2, <1>3, <1>4, Advances
<1> QED
  BY <1>5 DEF Store!SplitCookies, more, Read

\* The body is recorded where it lies.
LEMMA RecordBodyReads ==
  ASSUME Reads, Inv', RecordResponseBody
  PROVE  Reads' /\ Store!RecordBody
<1> DEFINE t == Noted(State, "respbody", reply.key, reply.body)
           e == Store!Entry("respbody", BodyKey, Body)
<1>1. Becomes(t) /\ reply' = reply /\ reply.body.len \in 1..MaxValueLen
  BY DEF RecordResponseBody
<1>2. /\ Ready(State) /\ State.arena = Arena /\ Sized(Arena) /\ BodyLies(Arena, reply)
  BY StateReady DEF Reads
<1>3. reply.body.len # 0
  BY <1>1, ArenaAssumption
<1>4. /\ Lies(Arena, reply.key, Len(Arena.mem)) /\ Lies(Arena, reply.body, Len(Arena.mem))
      /\ Resolve(Arena, reply.key) = BodyKey
  BY <1>2, <1>3, LiesNow DEF BodyLies
<1>5. Body # <<>>
  <2>1. Body \in Seq(Byte) /\ Len(Body) = reply.body.len
    BY <1>2, <1>4, SliceResolves DEF Body
  <2> HIDE DEF Body
  <2> QED
    BY <1>3, <2>1
<1>6. Does(State, t, <<e>>)
  <2>1. Does(State, t,
             <<Store!Entry("respbody", Resolve(State.arena, reply.key),
                           Resolve(State.arena, reply.body))>>)
    BY <1>2, <1>4, NotedDoes
  <2> QED
    BY <1>2, <1>4, <2>1 DEF Body
<1> HIDE DEF t, e
<1>7. Reads' /\ Store!Extend(<<e>>)
  BY <1>1, <1>6, AdvancesBy
<1> QED
  BY <1>5, <1>7 DEF Store!RecordBody, e, Body

\* Values cut again from the array used now read what they read before.
LEMMA RefreshReads ==
  ASSUME Reads, Inv', RefreshValues
  PROVE  Reads' /\ Store!Extend(<<>>)
<1> DEFINE n == Len(values)
           at == Len(mem)
           cut == [i \in DOMAIN values |-> [values[i] EXCEPT !.at = at]]
           t == [arena |-> Arena, values |-> cut]
<1>1. Becomes(t) /\ reply' = reply
  BY DEF RefreshValues
<1>2. /\ Sized(Arena) /\ values \in Seq(Value) /\ n \in Nat /\ DOMAIN values = 1..n
      /\ Means(Arena, values, Read) /\ Read \in Seq(Entries) /\ Len(Read) = n
  <2>1. values \in Seq(Value)
    BY StateReady
  <2>2. DOMAIN values = 1..n
    BY <2>1
  <2> QED
    BY <2>1, <2>2, StateReady DEF Reads
<1>3. at = Len(Arena.mem) /\ at \in Nat
  <2>1. Arena.mem = mem
    BY DEF Arena
  <2> QED
    BY <1>2, <2>1, SizedParts
<1> HIDE DEF n, at
<1>4. ASSUME NEW i \in 1..n
      PROVE  cut[i] \in Value /\ Holds(Arena, cut[i]) /\ Read[i] = ReadIn(Arena, cut[i])
  <2> DEFINE v == values[i]
             w == cut[i]
  <2>1. v \in Value /\ Holds(Arena, v) /\ Read[i] = ReadIn(Arena, v)
    BY <1>2, MeansReads DEF n
  <2>2. w = [v EXCEPT !.at = at]
    BY <1>2
  <2> HIDE DEF v, w
  <2>3. w = [kind |-> v.kind, key |-> v.key, data |-> v.data, at |-> at]
        /\ v.key \in Span /\ v.data \in Span
    BY <2>1, <2>2, ValueFields
  <2>4. w \in Value
    BY <1>3, <2>1, <2>2, <2>3, ValueFields DEF Value
  <2>5. /\ Lies(Arena, v.key, at) /\ Slice(Arena, v.key, at) = Slice(Arena, v.key, v.at)
        /\ Lies(Arena, v.data, at) /\ Slice(Arena, v.data, at) = Slice(Arena, v.data, v.at)
    <3>1. ASSUME NEW sp, Lies(Arena, sp, v.at)
          PROVE  Lies(Arena, sp, at) /\ Slice(Arena, sp, at) = Slice(Arena, sp, v.at)
      <4>1. sp \in Span /\ sp.off + sp.len <= Arena.len
        BY <3>1 DEF Lies
      <4>2. Lies(Arena, sp, at)
        BY <1>2, <1>3, <4>1, LiesNow
      <4> QED
        BY <1>2, <3>1, <4>2, SliceResolves
    <3> QED
      BY <2>1, <3>1 DEF Holds
  <2>6. Holds(Arena, w) /\ Read[i] = ReadIn(Arena, w)
    BY <2>1, <2>3, <2>4, <2>5 DEF Holds, ReadIn
  <2> QED
    BY <2>4, <2>6 DEF w
<1>5. cut = [i \in 1..n |-> cut[i]] /\ Read = [i \in 1..n |-> Read[i]]
  BY <1>2
<1> HIDE DEF cut
<1>6. cut \in Seq(Value) /\ Len(cut) = n
  BY <1>2, <1>4, <1>5, SequenceOf
<1>7. Means(Arena, cut, Read)
  BY <1>2, <1>4, <1>5, <1>6, MeansOf
<1>8. t.arena = Arena /\ t.values = cut /\ Ready(t) /\ Extends(Arena, t.arena)
  BY <1>2, ExtendsSelf DEF Ready, Whole
<1>9. Read \o <<>> = Read
  BY <1>2, NothingAdded
<1> HIDE DEF t
<1>10. Means(t.arena, t.values, Read \o <<>>)
  BY <1>7, <1>8, <1>9
<1> QED
  BY <1>1, <1>8, <1>10, Advances

LEMMA DeclareReads ==
  ASSUME Reads, Inv', NEW n \in Declared, Declare(n)
  PROVE  Reads' /\ UNCHANGED Store!vars
<1>1. /\ reply' = [reply EXCEPT !.declared = n] /\ UNCHANGED <<mem, len, values>>
  BY DEF Declare
<1>2. Arena' = Arena /\ Read' = Read
  BY <1>1 DEF Arena, Read, Contents, Bytes
<1>3. reply'.key = reply.key /\ reply'.body = reply.body
  BY <1>1 DEF Reads, Inv
<1>4. Body' = Body
  BY <1>2, <1>3 DEF Body, Resolve, Bytes, Array
<1>5. BodyLies(Arena, reply)'
  <2>1. BodyLies(Arena, reply)
    BY DEF Reads
  <2> QED
    BY <1>2, <1>3, <2>1 DEF BodyLies, Resolve, Bytes, Array
<1>6. Sized(Arena)' /\ Means(Arena, values, Read)'
  <2>1. Sized(Arena) /\ Means(Arena, values, Read)
    BY DEF Reads
  <2>2. Sized(Arena') /\ Means(Arena', values', Read')
    BY <1>1, <1>2, <2>1
  <2> QED
    BY <2>2 DEF Sized, ArenaOK, Array, Cap, Means, Alike, Pairing, Holds, Lies, ReadIn, Slice, Bytes
<1>7. UNCHANGED Store!vars
  BY <1>2, <1>4 DEF Store!vars, Read, Body
<1> QED
  BY <1>5, <1>6, <1>7 DEF Reads

\* A chunk laid behind the body, or with the body moved before it, makes it longer.
LEMMA Lengthens ==
  ASSUME NEW a, Sized(a), NEW body \in Span, body.off + body.len <= a.len,
         NEW chunk \in Seq(STRING),
         Fits(a, IF End(body) # a.len THEN body.len + Len(chunk) ELSE Len(chunk))
  PROVE  LET w == Lengthened(a, body, chunk)
         IN /\ Sized(w.arena) /\ Extends(a, w.arena)
            /\ w.body \in Span /\ w.body.off + w.body.len <= w.arena.len
            /\ Resolve(w.arena, w.body) = Resolve(a, body) \o chunk
<1> DEFINE w == Lengthened(a, body, chunk)
           old == Resolve(a, body)
           n == body.len + Len(chunk)
           text == old \o chunk
<1>1. /\ body.off \in Nat /\ body.len \in Nat /\ Len(chunk) \in Nat /\ chunk \in Seq(Byte)
      /\ body = [off |-> body.off, len |-> body.len]
  BY ArenaAssumption, TextType DEF Span
<1>2. Lies(a, body, Len(a.mem)) /\ old \in Seq(Byte) /\ Len(old) = body.len
      /\ old = [i \in 1..body.len |-> Array(a)[body.off + i]]
  BY LiesNow, SliceResolves
<1> HIDE DEF old
<1>3. text \in Seq(Byte) /\ n = Len(text) /\ n \in Nat
  BY <1>1, <1>2, ConcatProperties
<1>4. CASE End(body) # a.len
  <2>1. w = [arena |-> Filled(a, n, text), body |-> SpanOf(a.len, n)]
    BY <1>4 DEF Lengthened, old
  <2>2. Fits(a, n)
    BY <1>4
  <2> HIDE DEF n, text
  <2> DEFINE b == Filled(a, n, text)
             s == SpanOf(a.len, n)
  <2>3. Sized(b) /\ Extends(a, b) /\ Lies(b, s, Len(b.mem)) /\ Resolve(b, s) = text
    BY <1>3, <2>2, FilledText
  <2>4. w.arena = b /\ w.body = s
    BY <2>1
  <2> HIDE DEF b, s, w
  <2>5. s \in Span /\ s.off + s.len <= b.len
    BY <2>3 DEF Lies
  <2> QED
    BY <2>3, <2>4, <2>5 DEF text, old, w
<1>5. CASE End(body) = a.len
  <2> DEFINE b == Appended(a, chunk)
             s == [off |-> body.off, len |-> n]
             sp == SpanOf(a.len, Len(chunk))
  <2>1. w.arena = b /\ w.body = s
    <3>1. w = [arena |-> b, body |-> [body EXCEPT !.len = n]]
      BY <1>5 DEF Lengthened
    <3>2. [body EXCEPT !.len = n] = s
      <4> HIDE DEF n
      <4> QED
        BY <1>1
    <3> QED
      BY <3>1, <3>2
  <2>2. Fits(a, Len(chunk))
    BY <1>5
  <2>3. a.len \in Nat /\ a.len < SpanMod /\ SpanMod \in Nat
    BY SizedParts, ArenaAssumption
  <2>4. body.off + body.len = a.len
    <3>1. body.off + body.len \in Nat /\ body.off + body.len < SpanMod
      BY <1>1, <2>3
    <3>2. \A k \in Nat : k < SpanMod => k % SpanMod = k
      BY <2>3
    <3>3. (body.off + body.len) % SpanMod = body.off + body.len
      BY <3>1, <3>2
    <3> QED
      BY <1>5, <3>3 DEF End
  <2>5. /\ Sized(b) /\ Extends(a, b) /\ b.len = a.len + Len(chunk)
        /\ sp = [off |-> a.len, len |-> Len(chunk)]
        /\ Lies(b, sp, Len(b.mem)) /\ Resolve(b, sp) = chunk
    BY <2>2, AppendedExtends
  <2> HIDE DEF b, sp, w
  <2>6. s \in Span /\ s.off + s.len <= b.len
    <3>1. b.len \in Nat /\ b.len < SpanMod /\ body.off + n = b.len
      <4>1. b.len \in Nat /\ b.len <= Limit /\ Limit \in Nat
        BY <2>5, SizedParts, ArenaAssumption
      <4>2. b.len < SpanMod
        BY <2>3, <4>1, ArenaAssumption
      <4>3. body.off + n = b.len
        BY <1>1, <2>3, <2>4, <2>5
      <4> QED
        BY <4>1, <4>2, <4>3
    <3>2. body.off \in 0..(SpanMod - 1) /\ n \in 0..(SpanMod - 1)
      BY <1>1, <1>3, <2>3, <3>1
    <3> QED
      BY <1>3, <3>1, <3>2 DEF Span
  <2>7. Resolve(b, s) = [i \in 1..n |-> Array(b)[body.off + i]]
    <3>1. Lies(b, s, Len(b.mem))
      BY <2>5, <2>6, LiesNow
    <3>2. Resolve(b, s) = [i \in 1..s.len |-> Array(b)[s.off + i]]
      BY <2>5, <3>1, SliceResolves
    <3> HIDE DEF n
    <3> QED
      BY <3>2
  <2>8. chunk = [i \in 1..Len(chunk) |-> Array(b)[a.len + i]]
    <3>1. Resolve(b, sp) = [i \in 1..sp.len |-> Array(b)[sp.off + i]]
      BY <2>5, SliceResolves
    <3> QED
      BY <2>5, <3>1
  <2>9. \A i \in 1..n : text[i] = Array(b)[body.off + i]
    <3> TAKE i \in 1..n
    <3>1. CASE i <= body.len
      <4>1. i \in 1..body.len /\ body.off + i \in 1..a.len
        BY <1>1, <1>3, <2>4, <3>1
      <4>2. text[i] = old[i] /\ old[i] = Array(a)[body.off + i]
        BY <1>1, <1>2, <4>1, ConcatProperties
      <4>3. Array(b)[body.off + i] = Array(a)[body.off + i]
        BY <2>5, <4>1 DEF Extends
      <4> QED
        BY <4>2, <4>3
    <3>2. CASE i > body.len
      <4>1. i - body.len \in 1..Len(chunk) /\ a.len + (i - body.len) = body.off + i
        BY <1>1, <1>3, <2>4, <3>2
      <4>2. text[i] = chunk[i - body.len]
        BY <1>1, <1>2, <1>3, <3>2, <4>1, ConcatProperties
      <4>3. chunk[i - body.len] = Array(b)[a.len + (i - body.len)]
        BY <2>8, <4>1
      <4> QED
        BY <4>1, <4>2, <4>3
    <3> QED
      BY <1>1, <1>3, <3>1, <3>2
  <2> HIDE DEF text
  <2>10. text = [i \in 1..n |-> text[i]]
    <3>1. text = [i \in 1..Len(text) |-> text[i]]
      BY <1>3
    <3> QED
      BY <1>3, <3>1
  <2>11. Resolve(b, s) = text
    BY <2>7, <2>9, <2>10
  <2> HIDE DEF s
  <2> QED
    BY <2>1, <2>5, <2>6, <2>11 DEF text, old, w
<1> QED
  BY <1>4, <1>5

\* The body begun: its key lies before it, and nothing of it yet.
LEMMA StartedExtends ==
  ASSUME Reads, NEW chunk \in Texts, Fits(Arena, Len(BodyKey))
  PROVE  LET a == Started(Arena, chunk) k == SpanOf(len, Len(BodyKey))
         IN /\ Sized(a) /\ Extends(Arena, a)
            /\ k \in Span /\ k.off + k.len <= a.len /\ Resolve(a, k) = BodyKey
<1> DEFINE keyed == Appended(Arena, BodyKey)
           n == Max({reply.declared, Len(chunk)})
           k == SpanOf(len, Len(BodyKey))
           a == Started(Arena, chunk)
<1>1. Sized(Arena) /\ BodyKey \in Seq(STRING) /\ chunk \in Seq(STRING) /\ Arena.len = len
  BY ArenaAssumption DEF Reads, Arena
<1>2. n \in Nat
  <2>1. Len(chunk) \in Nat /\ reply.declared \in Nat
    BY <1>1 DEF Reads, Inv
  <2> QED
    BY <2>1, MaxOfTwo
<1>3. k = SpanOf(Arena.len, Len(BodyKey)) /\ a = Grown(keyed, n)
  BY <1>1 DEF Started
<1> HIDE DEF k, n, a
<1>4. /\ Sized(keyed) /\ Extends(Arena, keyed)
      /\ Lies(keyed, k, Len(keyed.mem)) /\ Resolve(keyed, k) = BodyKey
  BY <1>1, <1>3, AppendedExtends
<1> HIDE DEF keyed
<1>5. Sized(a) /\ Extends(keyed, a)
  BY <1>2, <1>3, <1>4, GrownExtends
<1>6. k \in Span /\ k.off + k.len <= keyed.len
  BY <1>4 DEF Lies
<1>7. k.off + k.len <= a.len /\ Resolve(a, k) = BodyKey
  BY <1>4, <1>5, <1>6, SpanKept
<1>8. Extends(Arena, a)
  BY <1>1, <1>4, <1>5, ExtendsTwice
<1> QED
  BY <1>5, <1>6, <1>7, <1>8 DEF a, k

\* A response that a chunk was written to, or that had no room for it.
LEMMA BodyWritten ==
  ASSUME Reads, Inv', NEW chunk \in Texts,
         NEW b, Becomes([arena |-> b, values |-> values]), Sized(b), Extends(Arena, b),
         BodyLies(b, reply'), Resolve(b, reply'.body) \in {Body, Body \o chunk}
  PROVE  Reads' /\ Store!WriteBody(chunk)
<1> DEFINE t == [arena |-> b, values |-> values]
<1>1. t.arena = b /\ t.values = values /\ Whole(t) /\ Becomes(t)
  BY DEF Whole
<1> HIDE DEF t
<1>2. Means(t.arena, t.values, Read)
  BY <1>1, MeansKept DEF Reads
<1>3. Arena' = b /\ Read' = Read /\ Sized(Arena)' /\ Means(Arena, values, Read)'
  BY <1>1, <1>2, BecomesRead
<1>4. BodyLies(Arena, reply)' /\ Body' = Resolve(b, reply'.body)
  BY <1>3 DEF BodyLies, Body, Resolve, Bytes, Array
<1>5. Store!WriteBody(chunk)
  <2>1. Body' \in {Body, Body \o chunk}
    BY <1>4
  <2> QED
    BY <1>3, <2>1 DEF Store!WriteBody, Read, Body
<1> QED
  BY <1>3, <1>4, <1>5 DEF Reads

LEMMA WriteBodyReads ==
  ASSUME Reads, Inv', NEW chunk \in Texts, WriteResponseBody(chunk)
  PROVE  Reads' /\ Store!WriteBody(chunk)
<1> DEFINE first == reply.body.len = 0
           keyFits == Fits(Arena, Len(BodyKey))
           a == IF ~first THEN Arena ELSE IF keyFits THEN Started(Arena, chunk) ELSE Arena
           need == IF ~first /\ End(reply.body) # len THEN reply.body.len + Len(chunk)
                   ELSE Len(chunk)
           whole == IF first THEN [arena |-> Appended(a, chunk), body |-> SpanOf(a.len, Len(chunk))]
                    ELSE Lengthened(a, reply.body, chunk)
           room == Fits(a, need) /\ (first => keyFits)
           key == IF first /\ keyFits THEN SpanOf(len, Len(BodyKey)) ELSE reply.key
           body == IF room THEN whole.body ELSE reply.body
           b == IF room THEN whole.arena ELSE a
<1>1. /\ Becomes([arena |-> b, values |-> values])
      /\ reply' = [reply EXCEPT !.key = key, !.body = body]
  BY DEF WriteResponseBody
<1>2. /\ Sized(Arena) /\ Arena.len = len /\ chunk \in Seq(STRING) /\ Len(chunk) \in Nat
      /\ BodyLies(Arena, reply)
      /\ reply = [key |-> reply.key, body |-> reply.body, declared |-> reply.declared]
  BY ArenaAssumption DEF Reads, Inv, Arena
<1>3. reply'.key = key /\ reply'.body = body
  <2> HIDE DEF key, body
  <2> QED
    BY <1>1, <1>2
<1>4. /\ reply.key \in Span /\ reply.key.off + reply.key.len <= Arena.len
      /\ reply.body \in Span /\ reply.body.off + reply.body.len <= Arena.len
      /\ ~first => Resolve(Arena, reply.key) = BodyKey
  BY <1>2 DEF BodyLies
\* The key, in the arena that the chunk is to go to.
<1>5. /\ Sized(a) /\ Extends(Arena, a)
      /\ key \in Span /\ key.off + key.len <= a.len
      /\ (~first \/ keyFits) => Resolve(a, key) = BodyKey
  <2>1. CASE first /\ keyFits
    <3>1. a = Started(Arena, chunk) /\ key = SpanOf(len, Len(BodyKey))
      BY <2>1
    <3> HIDE DEF a, key
    <3> QED
      BY <2>1, <3>1, StartedExtends
  <2>2. CASE ~(first /\ keyFits)
    <3>1. a = Arena /\ key = reply.key
      BY <2>2
    <3> HIDE DEF a, key, first, keyFits
    <3> QED
      BY <1>2, <1>4, <2>2, <3>1, ExtendsSelf
  <2> QED
    BY <2>1, <2>2
<1>6. /\ reply.body.off + reply.body.len <= a.len /\ Resolve(a, reply.body) = Body
  <2> HIDE DEF a
  <2> QED
    BY <1>2, <1>4, <1>5, SpanKept DEF Body
<1>7. first => Body = <<>>
  <2>1. Lies(Arena, reply.body, Len(Arena.mem))
    BY <1>2, <1>4, LiesNow
  <2>2. Body \in Seq(Byte) /\ Len(Body) = reply.body.len
    BY <1>2, <2>1, SliceResolves DEF Body
  <2> HIDE DEF Body
  <2> QED
    BY <2>2, EmptySeq
<1>8. CASE ~room
  <2>1. b = a /\ body = reply.body
    BY <1>8
  <2>2. reply.body.len # 0 => ~first
    OBVIOUS
  <2> HIDE DEF a, b, body, key, first, keyFits, room
  <2>3. BodyLies(b, reply')
    BY <1>3, <1>4, <1>5, <1>6, <2>1, <2>2 DEF BodyLies
  <2>4. Resolve(b, reply'.body) = Body
    BY <1>3, <1>6, <2>1
  <2> QED
    BY <1>1, <1>5, <2>1, <2>3, <2>4, BodyWritten
<1>9. CASE room
  <2>1. b = whole.arena /\ body = whole.body /\ Resolve(a, key) = BodyKey /\ Fits(a, need)
    BY <1>5, <1>9
  <2>2. /\ Sized(whole.arena) /\ Extends(a, whole.arena)
        /\ whole.body \in Span /\ whole.body.off + whole.body.len <= whole.arena.len
        /\ Resolve(whole.arena, whole.body) = Body \o chunk
    <3>1. CASE first
      <4> DEFINE c == Appended(a, chunk)
                 s == SpanOf(a.len, Len(chunk))
      <4>1. whole.arena = c /\ whole.body = s /\ Fits(a, Len(chunk))
        BY <2>1, <3>1
      <4> HIDE DEF a, whole
      <4>2. Sized(c) /\ Extends(a, c) /\ Lies(c, s, Len(c.mem)) /\ Resolve(c, s) = chunk
        BY <1>2, <1>5, <4>1, AppendedExtends
      <4> HIDE DEF c, s
      <4>3. s \in Span /\ s.off + s.len <= c.len
        BY <4>2 DEF Lies
      <4>4. Body \o chunk = chunk
        BY <1>2, <1>7, <3>1
      <4> QED
        BY <4>1, <4>2, <4>3, <4>4
    <3>2. CASE ~first
      <4>1. whole = Lengthened(a, reply.body, chunk) /\ a = Arena
        BY <3>2
      <4>2. Fits(a, IF End(reply.body) # a.len THEN reply.body.len + Len(chunk) ELSE Len(chunk))
        BY <1>2, <2>1, <3>2, <4>1
      <4> HIDE DEF a, whole
      <4> QED
        BY <1>2, <1>4, <1>5, <1>6, <4>1, <4>2, Lengthens
    <3> QED
      BY <3>1, <3>2
  <2> HIDE DEF a, b, body, key, first, keyFits, room, whole
  <2>3. Extends(Arena, b) /\ Sized(b)
    BY <1>2, <1>5, <2>1, <2>2, ExtendsTwice
  <2>4. key.off + key.len <= b.len /\ Resolve(b, key) = BodyKey
    BY <1>5, <2>1, <2>2, SpanKept
  <2>5. BodyLies(b, reply') /\ Resolve(b, reply'.body) = Body \o chunk
    BY <1>3, <1>5, <2>1, <2>2, <2>4 DEF BodyLies
  <2> QED
    BY <1>1, <2>3, <2>5, BodyWritten
<1> QED
  BY <1>8, <1>9

\* An arena that holds nothing, in whatever array it keeps.
LEMMA EmptyArena ==
  ASSUME NEW a, ArenaOK(a), NEW array \in Seq(Byte), a.mem = <<array>>, a.len = 0
  PROVE  Sized(a)
<1>1. <<array>> \in Seq(Seq(Byte)) /\ 0 <= Limit
  BY ArenaAssumption
<1> QED
  BY <1>1 DEF Sized

LEMMA FreshBytes == Fresh \in Seq(Byte)
<1>1. Fresh = [i \in 1..DefaultSize |-> Fresh[i]] /\ \A i \in 1..DefaultSize : Fresh[i] \in Byte
  BY DEF Fresh, Byte
<1> QED
  BY <1>1, SequenceOf, ArenaAssumption

\* A transaction that recorded nothing: no values and no body.
LEMMA NothingReads ==
  ASSUME NEW a, Sized(a), NEW r, r = [key |-> Empty, body |-> Empty, declared |-> 0]
  PROVE  BodyLies(a, r) /\ Resolve(a, r.body) = <<>>
<1>1. Empty \in Span /\ Lies(a, Empty, Len(a.mem)) /\ Resolve(a, Empty) = <<>>
  BY EmptyReads
<1>2. Empty.off + Empty.len <= a.len /\ Empty.len = 0
  BY <1>1 DEF Lies, Empty
<1> QED
  BY <1>1, <1>2 DEF BodyLies

LEMMA RecycleReads ==
  ASSUME Reads, Inv', Recycle
  PROVE  Reads' /\ Store!Recycle
<1> DEFINE a == Reset(Arena)
           array == IF Cap(Arena) > MaxRetained THEN Fresh ELSE Array(Arena)
           t == [arena |-> a, values |-> <<>>]
<1>1. Becomes(t) /\ reply' = [key |-> Empty, body |-> Empty, declared |-> 0]
  BY DEF Recycle
<1>2. a = [mem |-> <<array>>, len |-> 0]
  BY DEF Reset
<1>3. array \in Seq(Byte)
  BY FreshBytes, SizedParts DEF Reads
<1> HIDE DEF array
<1>4. ArenaOK(a)
  <2>1. Arena' = a
    BY <1>1, <1>2 DEF Becomes, Arena
  <2>2. ArenaOK(Arena)'
    BY DEF Inv
  <2> QED
    BY <2>1, <2>2 DEF ArenaOK, Array, Cap
<1>5. Sized(a)
  BY <1>2, <1>3, <1>4, EmptyArena
<1>6. t.arena = a /\ t.values = <<>> /\ Whole(t)
  BY DEF Whole
<1> HIDE DEF a, t
<1>7. Means(t.arena, t.values, <<>>)
  BY <1>6, MeansNothing
<1>8. /\ Arena' = a /\ Read' = <<>> /\ Sized(Arena)' /\ Means(Arena, values, Read)'
  BY <1>1, <1>5, <1>6, <1>7, BecomesRead
<1>9. BodyLies(a, reply') /\ Resolve(a, reply'.body) = <<>>
  BY <1>1, <1>5, NothingReads
<1>10. BodyLies(Arena, reply)' /\ Body' = <<>>
  BY <1>8, <1>9 DEF BodyLies, Body, Resolve, Bytes, Array
<1>11. Store!Recycle
  BY <1>8, <1>10 DEF Store!Recycle, Read, Body
<1> QED
  BY <1>8, <1>10, <1>11 DEF Reads

LEMMA InitReads == Init => Reads /\ Store!Init
<1> SUFFICES ASSUME Init PROVE Reads /\ Store!Init
  OBVIOUS
<1>1. Inv
  BY InitOK
<1>2. Arena.mem = <<Fresh>> /\ Arena.len = 0 /\ values = <<>>
      /\ reply = [key |-> Empty, body |-> Empty, declared |-> 0]
  BY DEF Init, Arena
<1>3. Sized(Arena)
  BY <1>1, <1>2, FreshBytes, EmptyArena DEF Inv
<1>4. Read = <<>>
  BY <1>2 DEF Read
<1>5. Means(Arena, values, Read)
  BY <1>2, <1>4, MeansNothing
<1>6. BodyLies(Arena, reply) /\ Body = <<>>
  BY <1>2, <1>3, NothingReads DEF Body
<1>7. Store!Init
  BY <1>4, <1>6 DEF Store!Init, Read, Body
<1> QED
  BY <1>1, <1>3, <1>5, <1>6, <1>7 DEF Reads

\* Every step of the arena is a step of the store, or none.
LEMMA StoreStep == Reads /\ [Next]_vars => Reads' /\ [Store!Next]_(Store!vars)
<1> SUFFICES ASSUME Reads, [Next]_vars PROVE Reads' /\ [Store!Next]_(Store!vars)
  OBVIOUS
<1>0. Inv'
  BY Step DEF Reads
<1>a. Len(Read) = Len(values)
  BY StateReady
<1>b. \A from, to \in 0..Len(values) : Store!Copy(from, to) => Store!Next
  BY <1>a DEF Store!Next, Read
<1>c. \A end \in 0..Len(values) : (Store!Join(end) \/ Store!SplitCookies(end)) => Store!Next
  BY <1>a DEF Store!Next, Read
<1>1. ASSUME NEW kind \in Kinds, NEW key \in Keys, NEW data \in Texts, Record(kind, key, data)
      PROVE  Reads' /\ Store!Next
  BY <1>0, <1>1, RecordReads DEF Store!Next
<1>2. ASSUME NEW parent \in Keys, NEW key \in Keys, RecordArgName(parent, key)
      PROVE  Reads' /\ Store!Next
  BY <1>0, <1>2, RecordArgNameReads DEF Store!Next
<1>3. ASSUME NEW from \in 0..Len(values), NEW to \in 0..Len(values), CopyArgs(from, to)
      PROVE  Reads' /\ Store!Next
  BY <1>0, <1>3, <1>b, CopyArgsReads
<1>4. ASSUME NEW end \in 0..Len(values), JoinArgs(end) PROVE Reads' /\ Store!Next
  BY <1>0, <1>4, <1>c, JoinArgsReads
<1>5. ASSUME NEW end \in 0..Len(values), RecordCookies(end) PROVE Reads' /\ Store!Next
  BY <1>0, <1>5, <1>c, RecordCookiesReads
<1>6. ASSUME NEW n \in Declared, Declare(n) PROVE Reads' /\ UNCHANGED Store!vars
  BY <1>0, <1>6, DeclareReads
<1>7. ASSUME NEW chunk \in Texts, WriteResponseBody(chunk) PROVE Reads' /\ Store!Next
  BY <1>0, <1>7, WriteBodyReads DEF Store!Next
<1>8. CASE RecordResponseBody
  BY <1>0, <1>8, RecordBodyReads DEF Store!Next
<1>9. CASE RefreshValues
  <2>1. Reads' /\ Store!Extend(<<>>)
    BY <1>0, <1>9, RefreshReads
  <2>2. Read \o <<>> = Read
    BY StateReady, NothingAdded
  <2>3. UNCHANGED Store!vars
    BY <2>1, <2>2 DEF Store!Extend, Store!vars, Read
  <2> QED
    BY <2>1, <2>3
<1>10. CASE Recycle
  BY <1>0, <1>10, RecycleReads DEF Store!Next
<1>11. CASE UNCHANGED vars
  <2>1. Arena' = Arena /\ Read' = Read /\ Body' = Body /\ values' = values /\ reply' = reply
    BY <1>11 DEF vars, Arena, Read, Contents, Body, Resolve, Bytes, Array
  <2>2. Sized(Arena)' /\ Means(Arena, values, Read)' /\ BodyLies(Arena, reply)'
    <3>1. Sized(Arena) /\ Means(Arena, values, Read) /\ BodyLies(Arena, reply)
      BY DEF Reads
    <3>2. Sized(Arena') /\ Means(Arena', values', Read') /\ BodyLies(Arena', reply')
      BY <2>1, <3>1
    <3> QED
      BY <3>2 DEF Sized, ArenaOK, Array, Cap, Means, Alike, Pairing, Holds, Lies, ReadIn, Slice,
                  Bytes, BodyLies, Resolve
  <2>3. UNCHANGED Store!vars
    BY <2>1 DEF Store!vars, Read, Body
  <2> QED
    BY <1>0, <2>2, <2>3 DEF Reads
<1> QED
  BY <1>1, <1>2, <1>3, <1>4, <1>5, <1>6, <1>7, <1>8, <1>9, <1>10, <1>11 DEF Next

(* The arena implements the store: whatever growth, moves and reuse of memory *)
(* do, a recorded value reads what was recorded until the arena is recycled,  *)
(* a view, a join and a cookie read exactly the bytes they were cut from, and *)
(* the response body is its chunks in the order they were written (reserve,   *)
(* Grow, copyArgs, joinArgs, recordCookies, appendResponseChunk,              *)
(* refreshValues).                                                            *)
THEOREM StoreRefined == Spec => StoreImplemented
<1>1. Init => Reads /\ Store!Init
  BY InitReads
<1>2. Reads /\ [Next]_vars => Reads' /\ [Store!Next]_(Store!vars)
  BY StoreStep
<1> QED
  BY <1>1, <1>2, PTL DEF Spec, StoreImplemented, Store!Spec
=============================================================================
