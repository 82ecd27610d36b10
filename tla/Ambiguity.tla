------------------------------ MODULE Ambiguity ------------------------------
(***************************************************************************)
(* internal/interpret: Detect finds which classes of ambiguity a value     *)
(* shows, and Set.Build enumerates its readings, one decoding per class,   *)
(* without the ones that say nothing new.                                  *)
(***************************************************************************)
EXTENDS Octets

CONSTANTS MaxReadings,   \* MaxReadings
          MaxEntityLen   \* maxEntityLen

\* The Class constants, in the order Build tries them.
Classes == <<"double_encoded", "multi_encoded", "percent_u", "string_concat", "best_fit",
             "separator", "null_truncate", "overlong_utf8", "utf7", "utf16", "html_entity">>

Quotes == OctetSet("'\"")
AmbiguityLead == OctetSet("%\\+&'\"") \cup {0, 192, 193, 202, 226, 239}

\* bestFitASCII.
BestFitASCII ==
     8725 :> Slash @@ 8260 :> Slash @@ 65295 :> Slash @@ 65340 :> Backslash @@ 65294 :> Dot
  @@ 65287 :> Code["'"] @@ 8242 :> Code["'"] @@ 700 :> Code["'"] @@ 65308 :> Code["<"]
  @@ 65310 :> Code[">"] @@ 65288 :> Code["("] @@ 65289 :> Code[")"] @@ 65309 :> Code["="]
  @@ 65372 :> Code["|"] @@ 65307 :> Code[";"] @@ 65286 :> Code["&"] @@ 65284 :> Code["$"]
  @@ 65344 :> Backquote

-----------------------------------------------------------------------------
\* percentByteAt: a byte written as "%XX" or as itself, and its width; 0 for a
\* malformed escape and behind the end.
ByteAt(s, i) ==
  IF i > Len(s) THEN [byte |-> 0, width |-> 0]
  ELSE IF s[i] # Percent \/ ~HasAt(s, i, 3) THEN [byte |-> s[i], width |-> 1]
  ELSE IF HexAt(s, i + 1, 2) THEN [byte |-> Escaped(s, i), width |-> 3]
  ELSE [byte |-> 0, width |-> 0]

RawAt(s, i) == IF i > Len(s) THEN [byte |-> 0, width |-> 0] ELSE [byte |-> s[i], width |-> 1]

EscapedByte(s, i, b) == s[i] = Percent /\ ByteAt(s, i) = [byte |-> b, width |-> 3]

\* percentRuneAt, decodeRune: the two- and three-byte forms of UTF-8.
Trails(r) == r.width > 0 /\ r.byte \in 128..191

RuneRead(s, i, Read(_, _)) ==
  LET a == Read(s, i)
      b == Read(s, i + a.width)
      c == Read(s, i + a.width + b.width)
      none == [rune |-> 0, width |-> 0]
  IN  IF a.width = 0 THEN none
      ELSE IF a.byte \in 224..239 THEN
        IF Trails(b) /\ Trails(c)
        THEN [rune |-> (a.byte % 16) * 4096 + (b.byte % 64) * 64 + (c.byte % 64),
              width |-> a.width + b.width + c.width]
        ELSE none
      ELSE IF a.byte \in 192..223 /\ Trails(b)
        THEN [rune |-> (a.byte % 32) * 64 + (b.byte % 64), width |-> a.width + b.width]
      ELSE none

DecodeRune(s, i) == RuneRead(s, i, RawAt)
PercentRuneAt(s, i) == RuneRead(s, i, ByteAt)

Folds(r) == r.width > 0 /\ r.rune \in DOMAIN BestFitASCII

\* utf7RunEnd: behind the base64 run that follows the shift at i.
Utf7RunEnd(s, i) == Min({RunEnd(s, i + 1, DOMAIN Base64Value), i + MaxEntityLen + 1})
ShiftEnds(s, j) == j <= Len(s) /\ s[j] = Code["-"]

\* A quote, an operator and a quote of cs: the position of the second; 0 if none.
JoinAt(s, i, cs) ==
  LET op == RunEnd(s, i, {Space, 9})
      next == RunEnd(s, op + 1, {Space, 9})
  IN  IF op <= Len(s) /\ s[op] \in {Dot, Plus} /\ next <= Len(s) /\ s[next] \in cs
      THEN next ELSE 0

HasBOM(s) == HasAt(s, 1, 2) /\ SubSeq(s, 1, 2) \in {<<255, 254>>, <<254, 255>>}

PrintAt(s, i) == i \in DOMAIN s /\ s[i] \in 32..126
NulAt(s, i) == i \in DOMAIN s /\ s[i] = 0
Interleaved(s, i) == (PrintAt(s, i - 1) \/ PrintAt(s, i + 1)) /\ (NulAt(s, i - 2) \/ NulAt(s, i + 2))

-----------------------------------------------------------------------------
\* "%25", where the 5 may also be the byte 32 below it.
EncodedPercent(s, i) == HasAt(s, i, 2) /\ s[i] = Code["2"] /\ s[i + 1] \in {Code["5"], Code["5"] - 32}

\* What Detect claims at position i, whose byte may begin an ambiguous sequence.
ClaimedAt(c, s, i) ==
  CASE c = "double_encoded" -> s[i] = Percent /\ (EncodedPercent(s, i + 1) \/ PairAt(s, i, Percent, Percent))
    [] c = "multi_encoded" -> s[i] = Percent /\ EncodedPercent(s, i + 1) /\ EncodedPercent(s, i + 3)
    [] c = "percent_u" -> s[i] = Percent /\ HexAt(s, i + 2, 4) /\ s[i + 1] \in OctetSet("uU")
    [] c = "string_concat" ->
         \/ s[i] \in Quotes /\ JoinAt(s, i + 1, Quotes) > 0
         \/ s[i] = Backslash /\ HasAt(s, i, 2)
            /\ ((s[i + 1] \in OctetSet("xX") /\ HexAt(s, i + 2, 2)) \/ s[i + 1] \in Octal)
    [] c = "best_fit" ->
         \/ s[i] = Percent /\ Folds(PercentRuneAt(s, i))
         \/ s[i] \in {202, 226, 239} /\ Folds(DecodeRune(s, i))
    [] c = "separator" -> s[i] = Backslash \/ EscapedByte(s, i, Backslash)
    [] c = "null_truncate" -> s[i] = 0 \/ (s[i] = Percent /\ PairAt(s, i + 1, Code["0"], Code["0"]))
    [] c = "overlong_utf8" ->
         s[i] \in {192, 193} \/ (EscapeAt(s, i) /\ Escaped(s, i) \in {192, 193, 224})
    [] c = "utf7" ->
         \/ s[i] = Plus /\ Utf7RunEnd(s, i) > i + 1 /\ ShiftEnds(s, Utf7RunEnd(s, i))
         \/ EscapedByte(s, i, Plus) /\ ShiftEnds(s, Utf7RunEnd(s, i + 3))
    [] c = "utf16" -> s[i] = 0 /\ Interleaved(s, i)
    [] c = "html_entity" ->
         \/ s[i] = Code["&"] /\ HasAt(s, i, 2) /\ s[i + 1] \in Alphabetic \cup {Code["#"]}
         \/ EscapedByte(s, i, Code["&"]) /\ ByteAt(s, i + 3).byte \in Alphabetic \cup {Code["#"]}

\* Detect.
Detect(s) ==
  {c \in Range(Classes) : \/ c = "utf16" /\ HasBOM(s)
                          \/ \E i \in DOMAIN s : s[i] \in AmbiguityLead /\ ClaimedAt(c, s, i)}

-----------------------------------------------------------------------------
\* urlDecodeInto, urlDecodeInPlace (which leaves "+" alone).
Unescape(s, i) == IF EscapeAt(s, i) THEN Put(<<Escaped(s, i)>>, 3) ELSE Copy(s, i)
UrlDecodeInto(s) ==
  Rewrite([i \in DOMAIN s |-> IF s[i] = Plus THEN Put(<<Space>>, 1) ELSE Unescape(s, i)])
UrlDecodeInPlace(s) == Rewrite([i \in DOMAIN s |-> Unescape(s, i)])

\* urlDecodeRepeatedInto: four passes; a pass that has nothing to decode changes nothing.
UrlDecodeRepeatedInto(s) == UrlDecodeInPlace(UrlDecodeInPlace(UrlDecodeInPlace(UrlDecodeInto(s))))

\* What runs on the bytes behind a percent-encoding, when there is one.
Unwrapped(s) == IF Percent \in Range(s) THEN UrlDecodeInto(s) ELSE s

\* decodePercentUInto: as IIS reads "%uXXXX", narrowed to a byte.
DecodePercentUInto(s) ==
  Rewrite([i \in DOMAIN s |->
    IF s[i] = Percent /\ HexAt(s, i + 2, 4) /\ s[i + 1] \in OctetSet("uU")
    THEN LET v == Spelled(SubSeq(s, i + 2, i + 5), 16)
         IN  Put(<<IF v >= 128 /\ v \in DOMAIN BestFitASCII THEN BestFitASCII[v] ELSE v % 256>>, 6)
    ELSE Copy(s, i)])

\* foldBestFitInto.
FoldBestFitInto(s) ==
  Rewrite([i \in DOMAIN s |->
    LET p == PercentRuneAt(s, i)
        r == DecodeRune(s, i)
    IN  IF Folds(p) THEN Put(<<BestFitASCII[p.rune]>>, p.width)
        ELSE IF Folds(r) THEN Put(<<BestFitASCII[r.rune]>>, r.width)
        ELSE IF r.width > 0 THEN Put(SubSeq(s, i, i + r.width - 1), r.width)
        ELSE Copy(s, i)])

\* backslashToSlashInto.
BackslashToSlashInto(s) ==
  Rewrite([i \in DOMAIN s |->
    IF EscapedByte(s, i, Backslash) THEN Put(<<Slash>>, 3)
    ELSE IF s[i] = Backslash THEN Put(<<Slash>>, 1) ELSE Copy(s, i)])

\* truncateAtNullInto.
TruncateAtNullInto(s) ==
  LET nuls == {i \in DOMAIN s : ClaimedAt("null_truncate", s, i)}
  IN  IF nuls = {} THEN s ELSE SubSeq(s, 1, Min(nuls) - 1)

\* decodeOverlongInto.
Trail(s, i) == s[i] \in 128..191
DecodeOverlongInto(s) ==
  LET t == Unwrapped(s)
  IN  Rewrite([i \in DOMAIN t |->
        IF t[i] \in {192, 193} /\ HasAt(t, i, 2) /\ Trail(t, i + 1)
        THEN Put(<<(t[i] % 32) * 64 + (t[i + 1] % 64)>>, 2)
        ELSE IF t[i] = 224 /\ HasAt(t, i, 3) /\ t[i + 1] \in {128, 129} /\ Trail(t, i + 2)
        THEN Put(<<(t[i + 1] % 64) * 64 + (t[i + 2] % 64)>>, 3)
        ELSE Copy(t, i)])

\* decodeUTF16Into.
DecodeUTF16Into(s) ==
  Those(IF HasBOM(s) THEN SubSeq(s, 3, Len(s)) ELSE s, Range(s) \ {0})

\* decodeUTF7Run: six bits a character, sixteen a unit; the units that are ASCII.
DecodeUTF7Run(run) ==
  FoldLeft(LAMBDA st, c :
    LET acc == st.acc * 64 + Base64Value[c]
        bits == st.bits + 6
        unit == acc \div OneLeft[bits - 15]
    IN  IF bits < 16 THEN [st EXCEPT !.acc = acc, !.bits = bits]
        ELSE [acc |-> acc % OneLeft[bits - 15], bits |-> bits - 16,
              out |-> IF unit < 128 THEN Append(st.out, unit) ELSE st.out],
    [acc |-> 0, bits |-> 0, out |-> <<>>], run).out

\* decodeUTF7Into, utf7Decode.
DecodeUTF7Into(s) ==
  LET t == Unwrapped(s)
  IN  Rewrite([i \in DOMAIN t |->
        LET j == Utf7RunEnd(t, i)
        IN  IF t[i] # Plus THEN Copy(t, i)
            ELSE IF HasAt(t, i, 2) /\ t[i + 1] = Code["-"] THEN Put(<<Plus>>, 2)
            ELSE IF j = i + 1 THEN Copy(t, i)
            ELSE Put(DecodeUTF7Run(SubSeq(t, i + 1, j - 1)), (IF ShiftEnds(t, j) THEN j + 1 ELSE j) - i)])

-----------------------------------------------------------------------------
\* namedEntities.
NamedEntities ==
  Octets("&quot;") :> Code["\""] @@ Octets("&apos;") :> Code["'"] @@ Octets("&amp;") :> Code["&"]
  @@ Octets("&lt;") :> Code["<"] @@ Octets("&gt;") :> Code[">"] @@ Octets("&#39;") :> Code["'"]
  @@ Octets("&sol;") :> Slash @@ Octets("&bsol;") :> Backslash @@ Octets("&colon;") :> Code[":"]
  @@ Octets("&lpar;") :> Code["("] @@ Octets("&rpar;") :> Code[")"] @@ Octets("&period;") :> Dot
  @@ Octets("&NewLine;") :> Newline @@ Octets("&Tab;") :> 9

\* Both tables are written as text, which TLC spells out.
ASSUME AmbiguityAssumption ==
  /\ MaxReadings \in Nat \ {0} /\ MaxEntityLen \in Nat
  /\ \A r \in DOMAIN BestFitASCII : BestFitASCII[r] \in Nat
  /\ \A e \in DOMAIN NamedEntities : e \in Seq(Nat) \ {<<>>} /\ NamedEntities[e] \in Nat

\* 0x10FFFF, the last rune.
MaxRune == 1114111

\* decodeEntityAt, with what its callers write for it; used 0 when it is none.
\* Eight hex digits from "8" on leave a 32-bit rune negative, which is written
\* as its low byte.
NumericEntity(s, i) ==
  LET base == IF HasAt(s, i, 3) /\ s[i + 2] \in OctetSet("xX") THEN 16 ELSE 10
      start == IF base = 16 THEN i + 3 ELSE i + 2
      j == Min({RunEnd(s, start, IF base = 16 THEN HexDigits ELSE Decimal), start + 8})
      ds == SubSeq(s, start, j - 1)
      size == (IF HasAt(s, j, 1) /\ s[j] = Code[";"] THEN j + 1 ELSE j) - i
  IN  IF ds = <<>> THEN Put(<<>>, 0)
      ELSE IF base = 16 /\ Len(ds) = 8 /\ Digit[ds[1]] >= 8
        THEN Put(<<Spelled(SubSeq(ds, 7, 8), 16)>>, size)
      ELSE IF Spelled(ds, base) > MaxRune THEN Put(<<>>, 0)
      ELSE Put(Utf8(Spelled(ds, base)), size)

DecodeEntityAt(s, i) ==
  LET names == {e \in DOMAIN NamedEntities : LiesAt(s, i, e)}
  IN  IF s[i] # Code["&"] \/ ~HasAt(s, i, 3) THEN Put(<<>>, 0)
      ELSE IF s[i + 1] = Code["#"] THEN NumericEntity(s, i)
      ELSE IF names = {} THEN Put(<<>>, 0)
      ELSE LET e == CHOOSE e \in names : TRUE IN Put(<<NamedEntities[e]>>, Len(e))

\* decodeEntitiesInto, decodeEntitiesInPlace.
DecodeEntitiesInto(s) ==
  LET t == Unwrapped(s)
  IN  Rewrite([i \in DOMAIN t |->
        LET e == DecodeEntityAt(t, i) IN IF e.used > 0 THEN e ELSE Copy(t, i)])

\* hasRawMarkup: "<" and a letter, or "</" and a letter, through escapes.
HasRawMarkup(s) ==
  \E i \in DOMAIN s :
    LET lt == ByteAt(s, i)
        c == ByteAt(s, i + lt.width)
        d == IF c.byte = Slash /\ c.width > 0 THEN ByteAt(s, i + lt.width + c.width) ELSE c
    IN  lt.width > 0 /\ lt.byte = Code["<"] /\ d.width > 0 /\ d.byte \in Alphabetic

-----------------------------------------------------------------------------
\* scanQuoted: behind the quoted run that opens at i, and whether it is closed.
ScanQuoted(s, i) ==
  LET to[j \in 1..(Len(s) + 1)] ==
        IF j > Len(s) \/ s[j] = s[i] THEN j
        ELSE IF s[j] = Backslash /\ HasAt(s, j, 2) THEN to[j + 2] ELSE to[j + 1]
      j == to[i + 1]
  IN  [end |-> IF j <= Len(s) THEN j + 1 ELSE j, closed |-> j <= Len(s),
       content |-> SubSeq(s, i + 1, j - 1)]

\* unescapeAt, appendUnescaped.
OctalEnd(s, i) == Min({RunEnd(s, i + 1, Octal), i + 4})
Unescaped(run) ==
  Rewrite([i \in DOMAIN run |->
    IF run[i] # Backslash \/ ~HasAt(run, i, 2) THEN Copy(run, i)
    ELSE IF run[i + 1] \in OctetSet("xX") /\ HexAt(run, i + 2, 2)
      THEN Put(<<Spelled(SubSeq(run, i + 2, i + 3), 16)>>, 4)
    ELSE IF run[i + 1] \in OctetSet("ntr")
      THEN Put(<<IF run[i + 1] = Code["n"] THEN Newline ELSE IF run[i + 1] = Code["t"] THEN 9 ELSE Return>>, 2)
    ELSE IF run[i + 1] \in Octal /\ Spelled(SubSeq(run, i + 1, OctalEnd(run, i) - 1), 8) < 256
      THEN Put(<<Spelled(SubSeq(run, i + 1, OctalEnd(run, i) - 1), 8)>>, OctalEnd(run, i) - i)
    ELSE Copy(run, i)])

\* foldStringConcatInto, quotedContent, joinedLiteralAt: the pieces of a
\* concatenation without their quotes, a literal of its own with them.
AllQuotes == Quotes \cup {Backquote}
FoldStringConcatInto(s) ==
  LET pieces[i \in 1..Len(s)] ==
        LET q == ScanQuoted(s, i)
            next == JoinAt(s, q.end, AllQuotes)
        IN  IF next = 0 THEN [out |-> Unescaped(q.content), end |-> q.end]
            ELSE [out |-> Unescaped(q.content) \o pieces[next].out, end |-> pieces[next].end]
  IN  Rewrite([i \in DOMAIN s |->
        IF s[i] \notin AllQuotes THEN Copy(s, i)
        ELSE LET q == ScanQuoted(s, i)
             IN  IF JoinAt(s, q.end, AllQuotes) > 0 THEN Put(pieces[i].out, pieces[i].end - i)
                 ELSE Put(<<s[i]>> \o Unescaped(q.content) \o (IF q.closed THEN <<s[i]>> ELSE <<>>),
                          q.end - i)])

-----------------------------------------------------------------------------
Decoded(c, s) ==
  CASE c = "double_encoded" -> UrlDecodeInto(s)
    [] c = "multi_encoded" -> UrlDecodeRepeatedInto(s)
    [] c = "percent_u" -> DecodePercentUInto(s)
    [] c = "string_concat" -> FoldStringConcatInto(s)
    [] c = "best_fit" -> FoldBestFitInto(s)
    [] c = "separator" -> BackslashToSlashInto(s)
    [] c = "null_truncate" -> TruncateAtNullInto(s)
    [] c = "overlong_utf8" -> DecodeOverlongInto(s)
    [] c = "utf7" -> DecodeUTF7Into(s)
    [] c = "utf16" -> DecodeUTF16Into(s)
    [] c = "html_entity" -> DecodeEntitiesInto(s)

\* Build, addDecoded: the verbatim reading, then one for each class claimed
\* while there is room, unless it repeats one; full when a class found no room.
AddReading(set, r) == IF r \in Range(set.readings) THEN set ELSE [set EXCEPT !.readings = Append(@, r)]

AddDecoded(set, s, c) ==
  IF Len(set.readings) >= MaxReadings THEN [set EXCEPT !.truncated = TRUE] ELSE AddReading(set, Decoded(c, s))

Build(s) ==
  LET claimed == Those(Classes, {c \in Detect(s) : c = "html_entity" => ~HasRawMarkup(s)})
  IN  FoldLeft(LAMBDA set, c : AddDecoded(set, s, c),
               [readings |-> <<s>>, truncated |-> FALSE], claimed)
=============================================================================
