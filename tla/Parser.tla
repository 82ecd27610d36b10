------------------------------- MODULE Parser -------------------------------
(***************************************************************************)
(* What the parsers of internal/body share: bytes, looking at them, and a  *)
(* parser's own state.                                                     *)
(*                                                                         *)
(* A word is a body, one symbol for each byte or for a group of            *)
(* bytes that the parsers treat as one (a media type, four hex digits).    *)
(* Positions count from 1; a position behind the end is where a scan that  *)
(* found nothing stops.                                                    *)
(***************************************************************************)
EXTENDS Integers, Sequences, SequencesExt, FiniteSetsExt, TLC

\* The symbol at a position, "" behind the end.
At(s, i) == IF i \in DOMAIN s THEN s[i] ELSE ""

\* The first of the positions found in s, or the end.
FirstIn(s, found) == IF found = {} THEN Len(s) + 1 ELSE Min(found)

\* The first position at or after i that holds one of cs, or that does not.
Seek(s, i, cs) == FirstIn(s, {k \in i..Len(s) : s[k] \in cs})
Skip(s, i, cs) == FirstIn(s, {k \in i..Len(s) : s[k] \notin cs})

\* Where pat first lies in s at or after i; 0 when nowhere.
Find(s, i, pat) ==
  LET found == {k \in i..(Len(s) - Len(pat) + 1) : SubSeq(s, k, k + Len(pat) - 1) = pat}
  IN  IF found = {} THEN 0 ELSE Min(found)

LiesAt(s, i, pat) == i + Len(pat) - 1 <= Len(s) /\ SubSeq(s, i, i + Len(pat) - 1) = pat

From(s, i) == SubSeq(s, i, Len(s))
Upto(s, n) == SubSeq(s, 1, IF n < Len(s) THEN n ELSE Len(s))

\* A set of positions in order.
Ordered(S) == [k \in 1..Cardinality(S) |-> CHOOSE n \in S : Cardinality({m \in S : m < n}) = k - 1]

\* The parts of s between the occurrences of c.
Split(s, c) ==
  LET cuts == {0, Len(s) + 1} \cup {k \in DOMAIN s : s[k] = c}
      ends == Ordered(cuts)
  IN  [k \in 1..(Len(ends) - 1) |-> SubSeq(s, ends[k] + 1, ends[k + 1] - 1)]

NonEmpty(parts) == SelectSeq(parts, LAMBDA p : p # <<>>)

\* s without the symbols of cs at both of its ends.
Trim(s, cs) ==
  LET kept == {k \in DOMAIN s : s[k] \notin cs}
  IN  IF kept = {} THEN <<>> ELSE SubSeq(s, Min(kept), Max(kept))

-----------------------------------------------------------------------------
(***************************************************************************)
(* internal/body/binary.go: telling text from binary, the printable runs   *)
(* of binary content, text in wide characters, and base64.                 *)
(*                                                                         *)
(* The symbols: "#0".."#18" are the bytes of these values, "ff"            *)
(* and "fe" bytes above 0x7f, "b:c" the base64 of the symbol c, any other  *)
(* symbol is printable.  base64 is taken symbol by symbol, so its padding  *)
(* and its length modulo four are left out.                                *)
(***************************************************************************)
CONSTANTS
  MinTextRun, MaxTextRuns,          \* minTextRun, maxTextRuns
  WideTextMinChars,                 \* wideTextMinChars
  MinBase64Run, MinBase64Text,      \* minBase64Run, minBase64Text
  MinBase64Body,                    \* minBase64Body
  Encoded                           \* what some "b:" symbol stands for

NUL == "#0"
Controls == {"#" \o ToString(n) : n \in (1..18) \ {9, 10, 13}}
Breaks == {"\t", "\n", "\r"}
High == {"ff", "fe"}

Text(c) == c # NUL /\ c \notin Controls
Printable(c) == Text(c) /\ c \notin Breaks /\ c \notin High

\* On a prefix of 1024 bytes, which no word here is longer than.
IsBinary(data) ==
  \/ Contains(data, NUL)
  \/ Cardinality({k \in DOMAIN data : ~Text(data[k])}) * 3 > Len(data)

\* recoverWideText: the data without its padding, if most of it is padded text.
Unmarked(data) == IF Upto(data, 2) \in {<<"ff", "fe">>, <<"fe", "ff">>} THEN From(data, 3) ELSE data

IsWide(data) ==
  LET Mostly(n, nuls, printable) ==
        printable >= WideTextMinChars /\ nuls >= printable /\ (n - nuls - printable) * 8 <= n
      Padded(body) == Mostly(Len(body), Cardinality({k \in DOMAIN body : body[k] = NUL}),
                             Cardinality({k \in DOMAIN body : Printable(body[k]) \/ body[k] \in Breaks}))
  IN  Len(data) >= WideTextMinChars * 2 /\ Padded(Unmarked(data))

Narrow(data) == IF IsWide(data) THEN SelectSeq(Unmarked(data), LAMBDA c : c # NUL) ELSE data

LongEnough(n) == n >= MinTextRun

\* ExtractText: the longest runs of printable symbols, in order, with their
\* offsets; at most room of them, the fields the parser has left.
Runs(data, room) ==
  LET Beginning(text, i) == Printable(text[i]) /\ (i > 1 => ~Printable(text[i - 1]))
      EndOf(text, i) == FirstIn(text, {k \in i..Len(text) : ~Printable(text[k])}) - 1
      Cut(text, long) == [k \in 1..Min({Len(long), MaxTextRuns, room}) |->
                            [at |-> long[k] - 1, value |-> SubSeq(text, long[k], EndOf(text, long[k]))]]
      Of(text) == Cut(text, Ordered({i \in DOMAIN text : Beginning(text, i) /\ LongEnough(EndOf(text, i) - i + 1)}))
  IN  Of(Narrow(data))

-----------------------------------------------------------------------------
(* base64 *)

\* Letters and digits are base64 as well, of bytes that are no text.
Letters == {"a", "x", "n", "A", "1", "+", "-", "/"}
Plain == [t \in {"b:" \o c : c \in Encoded} |-> CHOOSE c \in Encoded : t = "b:" \o c]
           @@ [t \in Letters |-> "#1"]

Alphabet(data) == data # <<>> /\ \A k \in DOMAIN data : data[k] \in DOMAIN Plain

DecodeBase64(data) == [k \in DOMAIN data |-> Plain[data[k]]]

IsBase64(data) == Len(data) >= MinBase64Run /\ Alphabet(data)

IsBase64Body(data) == Len(data) >= MinBase64Body /\ Alphabet(data)

\* A short run counts only if what it decodes to is text.
IsBase64Text(data) ==
  /\ Len(data) \in MinBase64Text..(MinBase64Run - 1) /\ Alphabet(data)
  /\ \A k \in DOMAIN data : Printable(Plain[data[k]]) \/ Plain[data[k]] \in Breaks

-----------------------------------------------------------------------------
(***************************************************************************)
(* internal/body/body.go: what the parsers share.  A parser's state is the *)
(* record st: the position at, the path of where it is, the paths it will  *)
(* pop back to, the fields it counted, what it emitted and why it gave up. *)
(***************************************************************************)
CONSTANTS MaxDepth, MaxFields, MaxKeyLen, MaxValueLen, MaxTotalSize   \* Limits

Start == [at |-> 1, path |-> <<>>, stack |-> <<>>, fields |-> 0, out |-> <<>>, err |-> ""]

Fail(st, why) == [st EXCEPT !.err = why]

\* pushPath, popPath.
Child(path, name) == IF path = <<>> THEN name ELSE path \o <<".">> \o name
Element(path, idx) == path \o <<"[", ToString(idx), "]">>

Push(st, path) ==
  IF Len(path) > MaxKeyLen THEN Fail(st, "large")
  ELSE [st EXCEPT !.stack = Append(@, Len(st.path)), !.path = path]

Pop(st) ==
  IF st.stack = <<>> THEN st
  ELSE [st EXCEPT !.path = Upto(@, Last(st.stack)), !.stack = Front(@)]

(* What the callback leaves of the parser, which it uses itself to extract   *)
(* the text of a value that is base64 of binary content: the path is then    *)
(* that of the last run, and every run is a field.                           *)
Inner(value) ==
  IF IsBase64(value) /\ IsBinary(DecodeBase64(value)) THEN DecodeBase64(value) ELSE <<>>

EmittedRuns(st, value, kind, room, runs) ==
  [st EXCEPT !.out = Append(@, [name |-> st.path, value |-> value, kind |-> kind, room |-> room]),
             !.fields = @ + Len(runs),
             !.path = IF runs = <<>> THEN @ ELSE @ \o <<"@", ToString(Last(runs).at)>>]

\* Emitted: text is what of the value is extracted as text, room the fields left.
EmittedWith(st, value, kind, text) ==
  LET room == MaxFields - st.fields
  IN  EmittedRuns(st, value, kind, room, IF text = <<>> THEN <<>> ELSE Runs(text, room))

Emitted(st, value, kind) ==
  EmittedWith(st, value, kind, IF kind = "string" THEN Inner(value) ELSE <<>>)

\* emit: counts first, then looks at the length.
Emit(st, value, kind) ==
  LET counted == [st EXCEPT !.fields = @ + 1]
  IN  IF counted.fields > MaxFields THEN Fail(counted, "fields")
      ELSE IF Len(value) > MaxValueLen THEN Fail(counted, "large")
      ELSE Emitted(counted, value, kind)

\* A field the form and multipart parsers name themselves, without a look at
\* its length.
Field(st, name, value, kind) ==
  IF st.err # "" THEN st
  ELSE IF st.fields + 1 > MaxFields THEN Fail([st EXCEPT !.fields = @ + 1], "fields")
  ELSE Emitted([st EXCEPT !.fields = @ + 1, !.path = name], value, kind)
=============================================================================
