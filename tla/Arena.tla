------------------------------- MODULE Arena --------------------------------
(***************************************************************************)
(* A transaction's arena: memz.Arena, the spans of types/span.go, and the  *)
(* methods of transaction.go and views.go that record values in it.        *)
(*                                                                         *)
(* A recorded value is a pair of spans (offset, length) into the arena and *)
(* a pair of slices cut from the backing array the arena had when it was   *)
(* recorded.  Growing the arena copies it to a new array, so a slice cut   *)
(* earlier points into the abandoned one until refreshValues cuts it again.*)
(* Nothing zeroes memory: a recycled array still holds its old bytes.      *)
(***************************************************************************)
EXTENDS Integers, Sequences, SequencesExt

CONSTANTS
  Kinds, Keys, Texts,   \* the collections, and the keys, values and chunks handed over
  CookieKeys, PositionalKeys, BodyKey,
  DefaultSize, MaxRetained,   \* DefaultArenaSize, maxRetainedSize
  Limit,           \* Limits.MaxArenaSize
  SpanMod,         \* one more than the largest value of a span's fields (2^32)
  Declared,        \* the response lengths an origin declares
  MaxValueLen, MaxPairs,      \* Limits.MaxValueLen, Limits.MaxArgs
  MaxCalls         \* bound: calls on the arena over all its transactions

(* Spans address the whole arena without wrapping, and a recycled array is  *)
(* kept when it is no larger than a fresh one.                               *)
ASSUME ArenaAssumption ==
  /\ {DefaultSize, Limit, MaxRetained, SpanMod} \subseteq Nat \ {0}
  /\ {MaxValueLen, MaxPairs, MaxCalls} \subseteq Nat /\ Declared \subseteq Nat
  /\ Limit < SpanMod /\ DefaultSize <= MaxRetained /\ BodyKey # <<>>
  /\ Keys \cup Texts \cup CookieKeys \cup PositionalKeys \cup {BodyKey, <<".">>}
       \subseteq Seq(STRING)
  /\ Kinds \subseteq STRING

VARIABLES
  mem,      \* every backing array since the last recycling; the last is the arena's
  len,      \* len(a.buf)
  values,   \* the recorded values: see Value
  reply,    \* [key, body : Span, declared]: respKeySpan, respBodySpan, respDeclared
  calls     \* calls so far

vars == <<mem, len, values, reply, calls>>

Span  == [off : 0..(SpanMod - 1), len : 0..(SpanMod - 1)]
Value == [kind : Kinds \cup {"name", "view", "joined", "cookie", "cookiename", "respbody"},
          key : Span, data : Span,
          at : Nat]      \* the array the key and data slices were cut from

Empty == [off |-> 0, len |-> 0]
SpanOf(off, n) == [off |-> off % SpanMod, len |-> n % SpanMod]
End(s) == (s.off + s.len) % SpanMod

\* Span.Bytes: a span that does not lie within the buffer is empty.
Bytes(s, array, n) ==
  IF s.off + s.len > n THEN <<>> ELSE [i \in 1..s.len |-> array[s.off + i]]

-----------------------------------------------------------------------------
(* The arena: a is [mem, len] *)

Arena == [mem |-> mem, len |-> len]
Array(a) == a.mem[Len(a.mem)]
Cap(a) == Len(Array(a))
Resolve(a, s) == Bytes(s, Array(a), a.len)

\* make([]byte, n, size) and copy.
Moved(a, size) ==
  [a EXCEPT !.mem =
     Append(@, [i \in 1..size |-> IF i <= a.len THEN Array(a)[i] ELSE "0"])]

\* Twice the capacity, doubled until it holds need; the limit when that is less.
NewCap(a, need) ==
  LET base == Max({2 * Cap(a), DefaultSize})
      doublings == {c \in need..Limit : \E k \in 0..c : c = base * 2^k}
  IN IF doublings = {} THEN Limit ELSE Min(doublings)

Fits(a, n) == a.len + n <= Limit

\* Arena.reserve, when it fits.
Reserved(a, n) ==
  IF a.len + n <= Cap(a) THEN a ELSE Moved(a, NewCap(a, a.len + n))

\* Arena.Grow: exactly what is asked for, or nothing.
Grown(a, n) ==
  IF Fits(a, n) /\ a.len + n > Cap(a) THEN Moved(a, a.len + n) ELSE a

\* Arena.Alloc of n bytes followed by the copy that overwrites the whole span.
Filled(a, n, text) ==
  LET r == Reserved(a, n)
      array == [i \in DOMAIN Array(r) |->
                 IF i - r.len \in 1..n THEN text[i - r.len] ELSE Array(r)[i]]
  IN [mem |-> [r.mem EXCEPT ![Len(r.mem)] = array], len |-> r.len + n]

Appended(a, text) == Filled(a, Len(text), text)

Fresh == [i \in 1..DefaultSize |-> "0"]

\* Mutation of Reset: the array is kept whatever its size.
ResetKeeping(a) == [mem |-> <<Array(a)>>, len |-> 0]

\* Arena.Reset: an array that grew too large is dropped, its bytes stay otherwise.
Reset(a) == [mem |-> <<IF Cap(a) > MaxRetained THEN Fresh ELSE Array(a)>>, len |-> 0]

-----------------------------------------------------------------------------
(* Recording: s is [arena, values] *)

\* appendValue cuts the slices from the array the arena has now.
Noted(s, kind, key, data) ==
  [s EXCEPT !.values = Append(@, [kind |-> kind, key |-> key, data |-> data,
                                  at |-> Len(s.arena.mem)])]

\* recordString, recordBytes: the key may find room where the data does not,
\* and then stays behind unused.
Put(s, kind, key, data) ==
  LET keyed == [s EXCEPT !.arena = Appended(s.arena, key)]
      full  == [s EXCEPT !.arena = Appended(keyed.arena, data)]
  IN IF Len(data) > MaxValueLen \/ ~Fits(s.arena, Len(key)) THEN s
     ELSE IF ~Fits(keyed.arena, Len(data)) THEN keyed
     ELSE Noted(full, kind, SpanOf(s.arena.len, Len(key)),
                SpanOf(keyed.arena.len, Len(data)))

\* recordArgName: under a positional key the path is recorded too, one span
\* serving as its key and its data.
PutName(s, parent, key) ==
  LET bare == Put(s, "name", parent, key)
      path == parent \o <<".">> \o key
      at   == SpanOf(bare.arena.len, Len(path))
  IN IF \/ parent = <<>> \/ key \notin PositionalKeys
        \/ Len(path) > MaxValueLen \/ ~Fits(bare.arena, Len(path))
     THEN bare
     ELSE Noted([bare EXCEPT !.arena = Appended(@, path)], "name", at, at)

IsArg(v) == v.kind = "arg"

\* The arguments among values, in their order.
Args(vs) == FlattenSeq([i \in DOMAIN vs |-> IF IsArg(vs[i]) THEN <<vs[i]>> ELSE <<>>])

\* copyArgs: the view's values share the spans of the arguments.
PutCopies(s, from, to) ==
  LET args == Args(SubSeq(s.values, from + 1, to))
  IN [s EXCEPT !.values = @ \o [k \in DOMAIN args |->
                [args[k] EXCEPT !.kind = "view", !.at = Len(s.arena.mem)]]]

\* The bytes that several values take.
SizeOf(vs) ==
  LET sum[k \in 0..Len(vs)] == IF k = 0 THEN 0 ELSE sum[k - 1] + vs[k].data.len
  IN sum[Len(vs)]

\* joinArgs: room for the whole is allocated first, and the sources are resolved
\* against the arena as it is then.
PutJoined(s, end) ==
  LET args  == Args(SubSeq(s.values, 1, end))
      total == SizeOf(args)
      room  == Reserved(s.arena, total)
      whole == FlattenSeq([k \in DOMAIN args |-> Resolve(room, args[k].data)])
  IN IF total \notin 1..MaxValueLen \/ ~Fits(s.arena, total) THEN s
     ELSE Noted([s EXCEPT !.arena = Filled(room, total, whole)], "joined", Empty,
                SpanOf(s.arena.len, total))

-----------------------------------------------------------------------------
(* Cookies: pieces of a header value, by offset *)

Blanks == {" ", "\t"}
Separator == ";"

SubSpan(base, from, to) == [off |-> (base.off + from) % SpanMod, len |-> to - from]

\* trimOWSRange on the bytes after from, up to to.
TrimmedRange(data, from, to) ==
  LET inked == {i \in (from + 1)..to : data[i] \notin Blanks}
  IN IF inked = {} THEN [from |-> to, to |-> to]
     ELSE [from |-> Min(inked) - 1, to |-> Max(inked)]

\* recordCookiePair, for the piece [from, to] of a header value.
CookieValues(base, data, piece, at) ==
  LET eq    == {i \in (piece.from + 1)..piece.to : data[i] = "="}
      name  == IF eq = {} THEN piece ELSE TrimmedRange(data, piece.from, Min(eq) - 1)
      value == IF eq = {} THEN piece ELSE TrimmedRange(data, Min(eq), piece.to)
      Cut(r) == SubSpan(base, r.from, r.to)
  IN <<[kind |-> "cookie", key |-> Cut(name), data |-> Cut(value), at |-> at],
       [kind |-> "cookiename", key |-> Cut(name), data |-> Cut(name), at |-> at]>>

\* The trimmed pieces between separators that are not empty.
CookieRanges(data) ==
  LET stops == {j \in 1..(Len(data) + 1) : j = Len(data) + 1 \/ data[j] = Separator}
      Piece(j) == TrimmedRange(data, Max({0} \cup {i \in stops : i < j}), j - 1)
  IN FlattenSeq([j \in 1..(Len(data) + 1) |->
       IF j \in stops /\ Piece(j).from < Piece(j).to THEN <<Piece(j)>> ELSE <<>>])

\* recordCookies: the header's bytes are read from the slices its value holds,
\* and the cookies are cut out of its span; past MaxArgs pairs it gives up.
PutCookies(s, end) ==
  LET slice(v, span) == Bytes(span, s.arena.mem[v.at], Len(s.arena.mem[v.at]))
      IsCookie(v) == v.kind = "header" /\ slice(v, v.key) \in CookieKeys
      Cut(v, data) == LET ranges == CookieRanges(data)
                      IN [j \in DOMAIN ranges |->
                           CookieValues(v.data, data, ranges[j], Len(s.arena.mem))]
      headers == SubSeq(s.values, 1, end)
      pairs == FlattenSeq([i \in DOMAIN headers |->
                 IF IsCookie(headers[i]) THEN Cut(headers[i], slice(headers[i], headers[i].data))
                 ELSE <<>>])
  IN [s EXCEPT !.values = @ \o FlattenSeq(SubSeq(pairs, 1, Min({Len(pairs), MaxPairs})))]

-----------------------------------------------------------------------------
(* Actions *)

State == [arena |-> Arena, values |-> values]

Becomes(s) ==
  /\ calls < MaxCalls
  /\ calls' = calls + 1
  /\ mem' = s.arena.mem /\ len' = s.arena.len /\ values' = s.values

\* A call that supplies a header, an argument, a body field or a resolved value.
Record(kind, key, data) == Becomes(Put(State, kind, key, data)) /\ UNCHANGED reply

RecordArgName(parent, key) == Becomes(PutName(State, parent, key)) /\ UNCHANGED reply

CopyArgs(from, to) == Becomes(PutCopies(State, from, to)) /\ UNCHANGED reply

JoinArgs(end) == Becomes(PutJoined(State, end)) /\ UNCHANGED reply

RecordCookies(end) == Becomes(PutCookies(State, end)) /\ UNCHANGED reply

\* AddResponseHeader of a Content-Length: a hint about the body's size.
Declare(n) ==
  /\ calls < MaxCalls /\ calls' = calls + 1
  /\ reply' = [reply EXCEPT !.declared = n]
  /\ UNCHANGED <<mem, len, values>>

\* startResponseBody: the key goes first, and the arena is sized once.
Started(a, chunk) ==
  Grown(Appended(a, BodyKey), Max({reply.declared, Len(chunk)}))

\* Mutation of Lengthened: the body is always taken to be the last thing appended.
LengthenedAnyway(a, body, chunk) ==
  [arena |-> Appended(a, chunk), body |-> [body EXCEPT !.len = @ + Len(chunk)]]

\* appendResponseChunk on a body already started: one contiguous span, moved to
\* the end when something was recorded after it.
Lengthened(a, body, chunk) ==
  IF End(body) # a.len
  THEN [arena |-> Filled(a, body.len + Len(chunk), Resolve(a, body) \o chunk),
        body  |-> SpanOf(a.len, body.len + Len(chunk))]
  ELSE [arena |-> Appended(a, chunk), body |-> [body EXCEPT !.len = @ + Len(chunk)]]

\* WriteResponseBody within MaxBodySize.  A chunk the arena has no room for is
\* refused whole, though the key of a first one may stay behind.
WriteResponseBody(chunk) ==
  LET started == Started(Arena, chunk)
      first == reply.body.len = 0
      a     == IF ~first THEN Arena ELSE IF Fits(Arena, Len(BodyKey)) THEN started ELSE Arena
      need  == IF ~first /\ End(reply.body) # len THEN reply.body.len + Len(chunk)
               ELSE Len(chunk)
      whole == IF first THEN [arena |-> Appended(a, chunk), body |-> SpanOf(a.len, Len(chunk))]
               ELSE Lengthened(a, reply.body, chunk)
      room  == Fits(a, need) /\ (first => Fits(Arena, Len(BodyKey)))
  IN /\ chunk # <<>>
     /\ Becomes([arena |-> IF room THEN whole.arena ELSE a, values |-> values])
     /\ reply' = [reply EXCEPT
          !.key = IF first /\ Fits(Arena, Len(BodyKey)) THEN SpanOf(len, Len(BodyKey)) ELSE @,
          !.body = IF room THEN whole.body ELSE @]

\* recordResponseBody: the body is a value where it already lies.
RecordResponseBody ==
  /\ reply.body.len \in 1..MaxValueLen
  /\ Becomes(Noted(State, "respbody", reply.key, reply.body))
  /\ UNCHANGED reply

\* refreshValues, before a phase is evaluated.
RefreshValues ==
  /\ Becomes([arena |-> Arena,
              values |-> [i \in DOMAIN values |-> [values[i] EXCEPT !.at = Len(mem)]]])
  /\ UNCHANGED reply

\* Close, and the reset of the next transaction to own the arena.
Recycle ==
  LET a == Reset(Arena)
  IN /\ Becomes([arena |-> a, values |-> <<>>])
     /\ reply' = [key |-> Empty, body |-> Empty, declared |-> 0]

-----------------------------------------------------------------------------
Init ==
  /\ mem = <<Fresh>> /\ len = 0 /\ values = <<>> /\ calls = 0
  /\ reply = [key |-> Empty, body |-> Empty, declared |-> 0]

Next ==
  \/ \E kind \in Kinds, key \in Keys, data \in Texts : Record(kind, key, data)
  \/ \E parent, key \in Keys : RecordArgName(parent, key)
  \/ \E from, to \in 0..Len(values) : CopyArgs(from, to)
  \/ \E end \in 0..Len(values) : JoinArgs(end) \/ RecordCookies(end)
  \/ \E n \in Declared : Declare(n)
  \/ \E chunk \in Texts : WriteResponseBody(chunk)
  \/ RecordResponseBody
  \/ RefreshValues
  \/ Recycle

Spec == Init /\ [][Next]_vars

-----------------------------------------------------------------------------
(* Properties *)

\* What the rules read of a value: the bytes of its slices.
Contents(v) ==
  LET array == mem[v.at]
      Slice(s) == Bytes(s, array, Len(array))
  IN [kind |-> v.kind, key |-> Slice(v.key), data |-> Slice(v.data)]

(* The arena implements the store: no growth, move or reuse of memory ever   *)
(* changes what a recorded value reads, through slices of an array since     *)
(* abandoned as well as through its spans once refreshValues has resolved    *)
(* them, and every derived value and the response body read exactly the      *)
(* bytes they are made of.                                                   *)
Store == INSTANCE ValueStore
  WITH entries <- [i \in DOMAIN values |-> Contents(values[i])],
       body    <- Resolve(Arena, reply.body)
StoreImplemented == Store!Spec

(* One transaction never takes more than the limit, and what it leaves in   *)
(* the pool is no larger than maxRetainedSize (reserve, Grow, Reset).        *)
CapacityBounded ==
  /\ Cap(Arena) <= Max({Limit, DefaultSize})
  /\ len = 0 => Cap(Arena) <= MaxRetained
=============================================================================
