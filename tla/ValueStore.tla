----------------------------- MODULE ValueStore -----------------------------
(***************************************************************************)
(* What a transaction's arena promises, with no arena in it: every value   *)
(* recorded keeps the key and the bytes it was recorded with until the     *)
(* transaction is recycled, a derived collection holds exactly the bytes   *)
(* it is cut from, and the response body is its chunks in the order they   *)
(* were written.  A call that finds no room changes nothing.               *)
(***************************************************************************)
EXTENDS Integers, Sequences, SequencesExt

CONSTANTS
  Kinds, Keys, Texts,   \* the collections, and the keys, values and chunks handed over
  CookieKeys,     \* the header names that read "cookie"
  PositionalKeys, \* the member names whose danger depends on their parent
  BodyKey,        \* responseBodyKey
  MaxPairs        \* Limits.MaxArgs, as a bound on cookie pairs

VARIABLES
  entries,   \* the recorded values, by content: see Entry
  body       \* the response body accumulated so far

vars == <<entries, body>>

Entry(kind, key, data) == [kind |-> kind, key |-> key, data |-> data]

-----------------------------------------------------------------------------
(* Cookies *)

Blanks == {" ", "\t"}
Separator == ";"

\* A text without its leading and trailing blanks.
Trimmed(t) ==
  LET inked == {i \in DOMAIN t : t[i] \notin Blanks}
  IN IF inked = {} THEN <<>> ELSE SubSeq(t, Min(inked), Max(inked))

\* Where the pieces of a text end: at its separators and at its end.
Stops(t) == {j \in 1..(Len(t) + 1) : j = Len(t) + 1 \/ t[j] = Separator}

\* The piece that ends at a stop, from the stop before it, without its blanks.
Pair(t, stop) ==
  Trimmed(SubSeq(t, Max({0} \cup {i \in Stops(t) : i < stop}) + 1, stop - 1))

\* "name=value", or a pair without "=" as both its name and its value.
CookieEntries(pair) ==
  LET eq    == {i \in DOMAIN pair : pair[i] = "="}
      name  == IF eq = {} THEN pair ELSE Trimmed(SubSeq(pair, 1, Min(eq) - 1))
      value == IF eq = {} THEN pair ELSE Trimmed(SubSeq(pair, Min(eq) + 1, Len(pair)))
  IN <<Entry("cookie", name, value), Entry("cookiename", name, name)>>

CookiePairs(t) ==
  FlattenSeq([j \in 1..(Len(t) + 1) |->
    IF j \in Stops(t) /\ Pair(t, j) # <<>> THEN <<Pair(t, j)>> ELSE <<>>])

\* Every pair of every Cookie header among s, up to MaxPairs of them.
Cookies(s) ==
  LET IsCookie(e) == e.kind = "header" /\ e.key \in CookieKeys
      pairs == FlattenSeq([i \in DOMAIN s |->
                 IF IsCookie(s[i]) THEN CookiePairs(s[i].data) ELSE <<>>])
      kept  == SubSeq(pairs, 1, Min({Len(pairs), MaxPairs}))
  IN FlattenSeq([k \in DOMAIN kept |-> CookieEntries(kept[k])])

-----------------------------------------------------------------------------
(* Operations *)

\* The arguments of s, in their order.
Args(s) == FlattenSeq([i \in DOMAIN s |-> IF s[i].kind = "arg" THEN <<s[i]>> ELSE <<>>])

Extend(more) == entries' = entries \o more /\ UNCHANGED body

Record(kind, key, data) ==
  \E more \in {<<>>, <<Entry(kind, key, data)>>} : Extend(more)

\* A member name, and under a positional key its path as well.
RecordName(parent, key) ==
  LET path == parent \o <<".">> \o key
  IN \E bare \in {<<>>, <<Entry("name", parent, key)>>},
        full \in {<<>>, <<Entry("name", path, path)>>} :
       /\ full # <<>> => parent # <<>> /\ key \in PositionalKeys
       /\ Extend(bare \o full)

Copy(from, to) ==
  Extend([k \in DOMAIN Args(SubSeq(entries, from + 1, to)) |->
           [Args(SubSeq(entries, from + 1, to))[k] EXCEPT !.kind = "view"]])

Join(end) ==
  LET args  == Args(SubSeq(entries, 1, end))
      whole == FlattenSeq([k \in DOMAIN args |-> args[k].data])
  IN \E more \in {<<>>, <<Entry("joined", <<>>, whole)>>} : Extend(more)

SplitCookies(end) == Extend(Cookies(SubSeq(entries, 1, end)))

WriteBody(chunk) == body' \in {body, body \o chunk} /\ UNCHANGED entries

RecordBody == body # <<>> /\ Extend(<<Entry("respbody", BodyKey, body)>>)

Recycle == entries' = <<>> /\ body' = <<>>

-----------------------------------------------------------------------------
Init == entries = <<>> /\ body = <<>>

Next ==
  \/ \E kind \in Kinds, key \in Keys, data \in Texts : Record(kind, key, data)
  \/ \E parent, key \in Keys : RecordName(parent, key)
  \/ \E from, to \in 0..Len(entries) : Copy(from, to)
  \/ \E end \in 0..Len(entries) : Join(end) \/ SplitCookies(end)
  \/ \E chunk \in Texts : WriteBody(chunk)
  \/ RecordBody
  \/ Recycle

Spec == Init /\ [][Next]_vars
=============================================================================
