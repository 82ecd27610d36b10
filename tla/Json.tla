-------------------------------- MODULE Json --------------------------------
(***************************************************************************)
(* internal/body/json.go: ParseJSON walks a document and emits every name  *)
(* and every leaf.  A \u escape's four digits are one symbol.              *)
(***************************************************************************)
EXTENDS Parser

Spaces == {" ", "\t", "\n", "\r"}
Quote == "\""
Digits == {"0", "1"}
Literals == {"true", "false", "null"}

\* parseUnicodeEscape: what the digits at i stand for.
Hex == [d \in {"0061", "0078", "d800", "dc00"} |->
          CASE d = "0061" -> "a" [] d = "0078" -> "x" [] d = "d800" -> "hi" [] d = "dc00" -> "lo"]

UnicodeEscape(src, i) ==
  LET paired == /\ At(src, i + 1) = "\\" /\ At(src, i + 2) = "u" /\ At(src, i + 3) = "dc00"
  IN  CASE At(src, i) \notin DOMAIN Hex -> [ok |-> FALSE, end |-> i, c |-> ""]
        [] Hex[src[i]] = "hi" /\ paired -> [ok |-> TRUE, end |-> i + 4, c |-> "pair"]
        [] Hex[src[i]] \in {"hi", "lo"} -> [ok |-> TRUE, end |-> i + 1, c |-> "FFFD"]
        [] OTHER -> [ok |-> TRUE, end |-> i + 1, c |-> Hex[src[i]]]

\* parseString from the symbol after the quote, what is unescaped in acc.
RECURSIVE Chars(_, _, _)
Chars(src, j, acc) ==
  LET c == At(src, j)  e == At(src, j + 1)  u == UnicodeEscape(src, j + 2)
  IN  CASE Len(acc) > MaxValueLen -> [err |-> "large", end |-> j, value |-> <<>>]
        [] c = Quote -> [err |-> "", end |-> j + 1, value |-> acc]
        [] c = "\\" /\ e \in {Quote, "\\", "/"} -> Chars(src, j + 2, Append(acc, e))
        [] c = "\\" /\ e \in {"n", "t"} ->
             Chars(src, j + 2, Append(acc, IF e = "n" THEN "\n" ELSE "\t"))
        [] c = "\\" /\ e = "u" /\ u.ok -> Chars(src, u.end, Append(acc, u.c))
        [] c \notin {"", "\\"} /\ Text(c) /\ c \notin Breaks -> Chars(src, j + 1, Append(acc, c))
        [] OTHER -> [err |-> "malformed", end |-> j, value |-> <<>>]

String(src, i) ==
  IF At(src, i) # Quote THEN [err |-> "malformed", end |-> i, value |-> <<>>]
  ELSE Chars(src, i + 1, <<>>)

\* parseNumber: sign, integer without a leading zero, fraction, exponent; 0 if
\* there is no number at i.
NumberEnd(src, i) ==
  LET Behind(k, end) == IF end > k THEN end ELSE 0
      Some(k) == Behind(k, Skip(src, k, Digits))
      Integer(k) == IF At(src, k) = "0" THEN k + 1 ELSE Some(k)
      Fraction(k) == IF k > 0 /\ At(src, k) = "." THEN Some(k + 1) ELSE k
      Exponent(k) ==
        IF k > 0 /\ At(src, k) = "e" THEN Some(IF At(src, k + 1) \in {"+", "-"} THEN k + 2 ELSE k + 1) ELSE k
  IN  Exponent(Fraction(Integer(IF At(src, i) = "-" THEN i + 1 ELSE i)))

\* A string, a literal or a number: its unescaped value and where it ends.
Scalar(src, i) ==
  LET Number(end) == [err |-> IF end > 0 THEN "" ELSE "malformed", end |-> end, value |-> SubSeq(src, i, end - 1)]
  IN  CASE At(src, i) = Quote -> String(src, i)
        [] At(src, i) \in Literals -> [err |-> "", end |-> i + 1, value |-> <<src[i]>>]
        [] OTHER -> Number(NumberEnd(src, i))

Space(src, st) == [st EXCEPT !.at = Skip(src, @, Spaces)]
Past(st) == [st EXCEPT !.at = @ + 1]

RECURSIVE Value(_, _, _), Members(_, _, _), Elements(_, _, _, _)

\* After a member or an element: the next one, or the end of the list; idx is
\* that of the next element, 0 between members.
Rest(src, inner, close, depth, idx) ==
  LET After(st) ==
        IF At(src, st.at) = close THEN Past(st)
        ELSE IF At(src, st.at) # "," THEN Fail(st, "malformed")
        ELSE IF close = "}" THEN Members(src, Past(st), depth) ELSE Elements(src, Past(st), depth, idx)
  IN  IF inner.err # "" THEN inner ELSE After(Space(src, Pop(inner)))

\* parseValue.
Value(src, st, depth) ==
  LET Object(first) == IF At(src, first.at) = "}" THEN Past(first) ELSE Members(src, first, depth)
      Array(first) == IF At(src, first.at) = "]" THEN Past(first) ELSE Elements(src, first, depth, 0)
      Leaf(scalar) ==
        IF scalar.err # "" THEN Fail(st, scalar.err)
        ELSE Emit([st EXCEPT !.at = scalar.end], scalar.value, IF At(src, st.at) = Quote THEN "string" ELSE "literal")
  IN  IF depth > MaxDepth THEN Fail(st, "deep")
      ELSE CASE At(src, st.at) = "{" -> Object(Space(src, Past(st)))
             [] At(src, st.at) = "[" -> Array(Space(src, Past(st)))
             [] OTHER -> Leaf(Scalar(src, st.at))

\* parseObject: the name is emitted before the path is extended by it.
Members(src, before, depth) ==
  LET Colon(st) == IF At(src, st.at) # ":" THEN Fail(st, "malformed")
                   ELSE Rest(src, Value(src, Space(src, Past(st)), depth + 1), "}", depth, 0)
      Inside(st) == IF st.err # "" THEN st ELSE Colon(Space(src, st))
      Named(st, key) == Push(Emit([st EXCEPT !.at = key.end], key.value, "key"), Child(st.path, key.value))
      Key(st, key) == IF key.err # "" THEN Fail(st, key.err) ELSE Inside(Named(st, key))
      Member(st) == Key(st, String(src, st.at))
  IN  Member(Space(src, before))

\* parseArray.
Elements(src, st, depth, idx) ==
  LET Inside(inner) ==
        IF inner.err # "" THEN inner
        ELSE Rest(src, Value(src, Space(src, inner), depth + 1), "]", depth, idx + 1)
  IN  Inside(Push(st, Element(st.path, idx)))

\* Mutation of Whole: what follows the document is ignored.
WholeEnough(src, st) == TRUE

Whole(src, st) == Skip(src, st.at, Spaces) > Len(src)

ParseJSON(src) ==
  LET Document(st) == IF st.err = "" /\ ~Whole(src, st) THEN Fail(st, "malformed") ELSE st
  IN  IF Len(src) > MaxTotalSize THEN Fail(Start, "large") ELSE Document(Value(src, Space(src, Start), 0))

\* A document opens with a brace or a bracket.
SniffJSON(data) == At(data, Skip(data, 1, Spaces)) \in {"{", "["}
=============================================================================
