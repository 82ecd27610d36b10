----------------------------- MODULE Transforms -----------------------------
(***************************************************************************)
(* rules/transform: the normalizations a rule applies to a value before    *)
(* its operator.  Each first looks for what it would change, and says that *)
(* it changed nothing when there is none; Slow is what it does otherwise.  *)
(***************************************************************************)
EXTENDS Octets

FoldCase(s) == [i \in DOMAIN s |-> Fold(s[i])]

RemoveWhitespace(s) == Those(s, Range(s) \ Blanks)

URLDecode(s) ==
  Rewrite([i \in DOMAIN s |->
    IF s[i] = Plus THEN Put(<<Space>>, 1)
    ELSE IF EscapeAt(s, i) THEN Put(<<Escaped(s, i)>>, 3) ELSE Copy(s, i)])

CompressWhitespace(s) ==
  Rewrite([i \in DOMAIN s |->
    IF s[i] \in Blanks THEN Put(<<Space>>, RunEnd(s, i, Blanks) - i) ELSE Copy(s, i)])

-----------------------------------------------------------------------------
\* Mutation of ClosedSegment: a climb above the start can be popped again.
ClosedPoppable(st, absolute) ==
  LET n == Len(st.dst)
      popped == Max({st.base} \cup {k \in (st.base + 1)..(n - 1) : st.dst[k] = Slash})
      next == IF st.seg \in {<<>>, <<Dot>>} THEN st
              ELSE IF st.seg # <<Dot, Dot>> THEN [st EXCEPT !.dst = @ \o st.seg \o <<Slash>>]
              ELSE IF n > st.base THEN [st EXCEPT !.dst = SubSeq(@, 1, popped)]
              ELSE IF ~absolute THEN [st EXCEPT !.dst = @ \o <<Dot, Dot, Slash>>]
              ELSE st
  IN  [next EXCEPT !.seg = <<>>]

\* One segment closed: base is where ".." can pop no further.
ClosedSegment(st, absolute) ==
  LET n == Len(st.dst)
      popped == Max({st.base} \cup {k \in (st.base + 1)..(n - 1) : st.dst[k] = Slash})
      next == IF st.seg \in {<<>>, <<Dot>>} THEN st
              ELSE IF st.seg # <<Dot, Dot>> THEN [st EXCEPT !.dst = @ \o st.seg \o <<Slash>>]
              ELSE IF n > st.base THEN [st EXCEPT !.dst = SubSeq(@, 1, popped)]
              ELSE IF ~absolute THEN [st EXCEPT !.dst = @ \o <<Dot, Dot, Slash>>, !.base = n + 3]
              ELSE st
  IN  [next EXCEPT !.seg = <<>>]

Separators == {Slash, Backslash}

NormalizePath(s) ==
  LET absolute == s # <<>> /\ s[1] \in Separators
      start == IF absolute THEN [dst |-> <<Slash>>, base |-> 1, seg |-> <<>>]
               ELSE [dst |-> <<>>, base |-> 0, seg |-> <<>>]
      read == FoldLeft(LAMBDA st, b : IF b \in Separators THEN ClosedSegment(st, absolute)
                                      ELSE [st EXCEPT !.seg = Append(@, b)], start, s)
      dst == ClosedSegment(read, absolute).dst
  IN  IF Len(dst) > 1 /\ Last(dst) = Slash /\ Last(s) \notin Separators THEN Front(dst) ELSE dst

-----------------------------------------------------------------------------
\* "\xHH" and "\uHHHH" at i: how many digits, 0 when it is none of them.
NumericWidth(s, i) ==
  IF ~HasAt(s, i, 2) \/ s[i + 1] \notin OctetSet("xu") THEN 0
  ELSE IF s[i + 1] = Code["u"] THEN 4 ELSE 2
NumericAt(s, i) == HexAt(s, i + 2, NumericWidth(s, i))
Numeric(s, i) ==
  Put(Utf8(Spelled(SubSeq(s, i + 2, i + 1 + NumericWidth(s, i)), 16)), 2 + NumericWidth(s, i))

\* simpleEscape; "\0" is read as octal before it is looked up here.
SimpleEscape ==
  [b \in OctetSet("nrtvfb0") |->
     CASE b = Code["n"] -> Newline [] b = Code["r"] -> Return [] b = Code["t"] -> 9
       [] b = Code["v"] -> 11 [] b = Code["f"] -> 12 [] b = Code["b"] -> 8 [] OTHER -> 0]

EscapeDecode(s) ==
  Rewrite([i \in DOMAIN s |->
    IF s[i] # Backslash \/ ~HasAt(s, i, 2) THEN Copy(s, i)
    ELSE IF NumericWidth(s, i) > 0 THEN IF NumericAt(s, i) THEN Numeric(s, i) ELSE Copy(s, i)
    ELSE IF s[i + 1] \in Octal
      THEN LET j == Min({RunEnd(s, i + 1, Octal), i + 4})
           IN  Put(<<Min({Spelled(SubSeq(s, i + 1, j - 1), 8), 255})>>, j - i)
    ELSE IF s[i + 1] \in DOMAIN SimpleEscape THEN Put(<<SimpleEscape[s[i + 1]]>>, 2)
    ELSE Put(<<s[i + 1]>>, 2)])

HexEscapeDecode(s) ==
  Rewrite([i \in DOMAIN s |->
    IF s[i] = Backslash /\ NumericWidth(s, i) > 0 /\ NumericAt(s, i) THEN Numeric(s, i) ELSE Copy(s, i)])

\* Behind one optional newline, a pair counting as one.
BehindNewline(s, i) == IF PairAt(s, i, Return, Newline) THEN i + 2 ELSE i + 1

CSSDecode(s) ==
  Rewrite([i \in DOMAIN s |->
    LET j == Min({RunEnd(s, i + 1, HexDigits), i + 7})
        delimited == HasAt(s, j, 1) /\ s[j] \in Blanks \ {11}
    IN  IF s[i] # Backslash \/ ~HasAt(s, i, 2) THEN Copy(s, i)
        ELSE IF s[i + 1] \in {Newline, Return} THEN Put(<<>>, BehindNewline(s, i + 1) - i)
        ELSE IF s[i + 1] \notin HexDigits THEN Put(<<s[i + 1]>>, 2)
        ELSE Put(<<Spelled(SubSeq(s, i + 1, j - 1), 16) % 256>>,
                 (IF delimited THEN BehindNewline(s, j) ELSE j) - i)])

-----------------------------------------------------------------------------
ShellSyntax == OctetSet("\\\"'^")
CmdChar(b) == IF b \in OctetSet(",;") \cup Blanks THEN Space ELSE Fold(b)

WithoutTrailingSpace(s) == IF s # <<>> /\ Last(s) = Space THEN Front(s) ELSE s

CmdLine(s) ==
  LET step(dst, b) ==
        LET c == CmdChar(b)
        IN  IF b \in ShellSyntax \/ (c = Space /\ (dst = <<>> \/ Last(dst) = Space)) THEN dst
            ELSE Append(IF c \in OctetSet("/(") THEN WithoutTrailingSpace(dst) ELSE dst, c)
  IN  WithoutTrailingSpace(FoldLeft(step, <<>>, s))

\* Behind the comment that opens at i; one that is not closed runs to the end.
CommentEnd(s, i) ==
  LET ends == {k \in (i + 2)..Len(s) : PairAt(s, k, Code["*"], Slash)}
  IN  IF ends = {} THEN Len(s) + 1 ELSE Min(ends) + 2

ReplaceComments(s) ==
  Rewrite([i \in DOMAIN s |->
    IF PairAt(s, i, Slash, Code["*"]) THEN Put(<<Space>>, CommentEnd(s, i) - i) ELSE Copy(s, i)])

\* How many bytes the comment mark at i takes, 0 when there is none.
CommentMark(s, i) ==
  IF s[i] = Code["#"] THEN 1
  ELSE IF \/ PairAt(s, i, Code["-"], Code["-"])
          \/ PairAt(s, i, Slash, Code["*"])
          \/ PairAt(s, i, Code["*"], Slash) THEN 2 ELSE 0
RemoveCommentsChar(s) ==
  Rewrite([i \in DOMAIN s |-> IF CommentMark(s, i) > 0 THEN Put(<<>>, CommentMark(s, i)) ELSE Copy(s, i)])

Base64Decode(s) ==
  FoldLeft(LAMBDA st, c :
    LET acc == st.acc * 64 + Base64Value[c]
        bits == st.bits + 6
    IN  IF c \notin DOMAIN Base64Value THEN st
        ELSE IF bits < 8 THEN [st EXCEPT !.acc = acc, !.bits = bits]
        ELSE [acc |-> acc % OneLeft[bits - 7], bits |-> bits - 8,
              out |-> Append(st.out, acc \div OneLeft[bits - 7])],
    [acc |-> 0, bits |-> 0, out |-> <<>>], s).out

-----------------------------------------------------------------------------
\* All, and HexEscapeDecode.
TransformNames == {"lowercase", "remove_whitespace", "compress_whitespace", "url_decode",
                   "normalize_path", "escape_decode", "css_decode", "cmd_line",
                   "replace_comments", "remove_comments_char", "base64_decode", "hex_escape_decode"}

Slow(t, s) ==
  CASE t = "lowercase" -> FoldCase(s)
    [] t = "remove_whitespace" -> RemoveWhitespace(s)
    [] t = "compress_whitespace" -> CompressWhitespace(s)
    [] t = "url_decode" -> URLDecode(s)
    [] t = "normalize_path" -> NormalizePath(s)
    [] t = "escape_decode" -> EscapeDecode(s)
    [] t = "css_decode" -> CSSDecode(s)
    [] t = "cmd_line" -> CmdLine(s)
    [] t = "replace_comments" -> ReplaceComments(s)
    [] t = "remove_comments_char" -> RemoveCommentsChar(s)
    [] t = "base64_decode" -> Base64Decode(s)
    [] t = "hex_escape_decode" -> HexEscapeDecode(s)

\* The look that comes first; the last ones compare the output instead.
Needed(t, s) ==
  LET at(P(_)) == \E i \in DOMAIN s : P(i)
  IN  CASE t = "lowercase" -> at(LAMBDA i : s[i] \in UpperCase)
        [] t = "remove_whitespace" -> at(LAMBDA i : s[i] \in Blanks)
        [] t = "compress_whitespace" ->
             at(LAMBDA i : s[i] \in Blanks /\ (s[i] # Space \/ (i > 1 /\ s[i - 1] \in Blanks)))
        [] t = "url_decode" -> at(LAMBDA i : s[i] \in {Percent, Plus})
        [] t = "normalize_path" ->
             at(LAMBDA i : s[i] \in {Backslash, Dot} \/ (s[i] = Slash /\ i > 1 /\ s[i - 1] = Slash))
        [] t \in {"escape_decode", "css_decode"} -> at(LAMBDA i : s[i] = Backslash)
        [] t = "hex_escape_decode" ->
             at(LAMBDA i : s[i] = Backslash /\ NumericWidth(s, i) > 0 /\ NumericAt(s, i))
        [] t = "replace_comments" -> at(LAMBDA i : PairAt(s, i, Slash, Code["*"]))
        [] t = "remove_comments_char" -> at(LAMBDA i : CommentMark(s, i) > 0)
        [] t \in {"cmd_line", "base64_decode"} -> Slow(t, s) # s

\* MaxOutputLen, and the length dst reaches on the way to the result.
MaxOutputLen(t, n) == IF t = "normalize_path" THEN n + 1 ELSE n
=============================================================================
