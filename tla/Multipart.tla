------------------------------ MODULE Multipart -----------------------------
(***************************************************************************)
(* Forms, as pairs and as parts.                                           *)
(*                                                                         *)
(* internal/body/form.go: ParseForm, under both readings of ";".  The two  *)
(* digits of a percent escape are one symbol.                              *)
(***************************************************************************)
EXTENDS Parser

HexDigits == [d \in {"26", "3c", "78"} |-> CASE d = "26" -> "&" [] d = "3c" -> "<" [] d = "78" -> "x"]

\* formDecode; an escape that is none is kept as it is.
Escape(src, i) == At(src, i) = "%" /\ At(src, i + 1) \in DOMAIN HexDigits

FormDecode(src) ==
  LET inner == {i + 1 : i \in {k \in DOMAIN src : Escape(src, k)}}
      kept == Ordered(DOMAIN src \ inner)
  IN  [n \in DOMAIN kept |->
         LET k == kept[n]
         IN  IF Escape(src, k) THEN HexDigits[src[k + 1]] ELSE IF src[k] = "+" THEN " " ELSE src[k]]

\* emitPair: without a "=", the token is both the name and the value.
EmitPair(st, pair) ==
  LET eq == Seek(pair, 1, {"="})
      rawName == Upto(pair, eq - 1)
      rawValue == IF eq > Len(pair) THEN pair ELSE From(pair, eq + 1)
      name == FormDecode(rawName)
      value == FormDecode(rawValue)
  IN  IF st.err # "" THEN st
      ELSE IF Len(rawName) > MaxKeyLen \/ Len(value) > MaxValueLen THEN Fail(st, "large")
      ELSE Field(Field(st, name, name, "key"), name, value, "string")

\* A pair, and what other origins see in it.
Readings(pair) ==
  IF Contains(pair, ";") THEN <<pair>> \o NonEmpty(Split(pair, ";")) ELSE <<pair>>

ParseForm(src) ==
  LET pairs == NonEmpty(Split(src, "&"))
  IN  IF Len(src) > MaxTotalSize THEN Fail(Start, "large")
      ELSE FoldLeft(EmitPair, Start, FlattenSeq([k \in DOMAIN pairs |-> Readings(pairs[k])]))

-----------------------------------------------------------------------------
(***************************************************************************)
(* internal/body/multipart.go: ParseMultipart splits a body at its         *)
(* delimiter lines and emits the name, the file names and the content of   *)
(* each part.  Header and parameter names are one symbol each, the digits  *)
(* of a percent escape too.                                                *)
(***************************************************************************)
CONSTANTS MaxParts, MaxPartHeader, MaxFileContent

Blank == {" ", "\t"}
White == {" ", "\t", "\r", "\n"}

Dash(boundary) == <<"-", "-">> \o boundary

\* At the start of the body or of a line.
Delimits(src, k) == k = 1 \/ src[k - 1] = "\n"

\* indexDelimiter: 0 when there is none at or after i.
NextDelimiter(src, i, dash) ==
  LET found == {k \in i..(Len(src) - Len(dash) + 1) : LiesAt(src, k, dash) /\ Delimits(src, k)}
  IN  IF found = {} THEN 0 ELSE Min(found)

\* skipLineEnd: 0 when neither a line nor the body ends here.
LineEnd(src, i) ==
  LET j == Skip(src, i, Blank)
      k == IF At(src, j) = "\r" THEN j + 1 ELSE j
  IN  IF At(src, k) = "\n" THEN k + 1 ELSE IF k > Len(src) THEN k ELSE 0

\* trimTrailingLineEnd: the line end before a delimiter belongs to it.
WithoutLineEnd(part) ==
  IF part = <<>> \/ Last(part) # "\n" THEN part
  ELSE IF At(part, Len(part) - 1) = "\r" THEN Upto(part, Len(part) - 2) ELSE Front(part)

\* splitPartHeaders: at an empty line, or a part of headers only.
Halves(part) ==
  LET crlf == Find(part, 1, <<"\r", "\n", "\r", "\n">>)  lf == Find(part, 1, <<"\n", "\n">>)
      cut == IF crlf > 0 THEN crlf ELSE lf
  IN  IF cut = 0 THEN [headers |-> part, content |-> <<>>]
      ELSE [headers |-> Upto(part, cut - 1), content |-> From(part, cut + (IF crlf > 0 THEN 4 ELSE 2))]

-----------------------------------------------------------------------------
(* Header parameters *)

\* headerParam: the value of the first param= at a boundary, in a sequence; <<>> if none.
HeaderParam(value, param) ==
  LET AfterName(i) == Skip(value, i + 1, Blank)
      found == {i \in DOMAIN value :
                  /\ value[i] = param /\ (i > 1 => value[i - 1] \in {";"} \cup Blank)
                  /\ At(value, AfterName(i)) = "="}
      j == Skip(value, AfterName(Min(found)) + 1, Blank)
      EndQuote == LET end[k \in j + 1..Len(value) + 2] ==
                        IF k > Len(value) THEN Len(value) + 1
                        ELSE IF value[k] = "\"" THEN k
                        ELSE IF value[k] = "\\" /\ k < Len(value) THEN end[k + 2] ELSE end[k + 1]
                  IN  end[j + 1]
  IN  IF found = {} \/ j > Len(value) THEN <<>>
      ELSE IF value[j] = "\"" THEN <<SubSeq(value, j + 1, EndQuote - 1)>>
      ELSE <<SubSeq(value, j, Seek(value, j, {";"} \cup Blank) - 1)>>

\* percentDecode: as formDecode, but for "+".
PercentDecode(src) ==
  LET plus == FormDecode([k \in DOMAIN src |-> IF src[k] = "+" THEN "plus" ELSE src[k]])
  IN  [k \in DOMAIN plus |-> IF plus[k] = "plus" THEN "+" ELSE plus[k]]

\* headerParamExt: what follows the second apostrophe, decoded.
HeaderParamExt(value) ==
  LET raw == FlattenSeq(HeaderParam(value, "filename*"))
      first == Seek(raw, 1, {"'"})
      second == Seek(raw, first + 1, {"'"})
  IN  <<PercentDecode(IF second > Len(raw) THEN raw ELSE From(raw, second + 1))>>

\* parsePartHeaders: the first name and file names that are not empty, the
\* last media type and charset.
Info(headers) ==
  LET lines == NonEmpty(Split(headers, "\n"))
      NameOf(l) == Trim(Upto(l, Seek(l, 1, {":"}) - 1), White)
      ValueOf(l) == Trim(From(l, Seek(l, 1, {":"}) + 1), White)
      Values(name) == LET ls == SelectSeq(lines, LAMBDA l : Contains(l, ":") /\ NameOf(l) = <<name>>)
                      IN  [k \in DOMAIN ls |-> ValueOf(ls[k])]
      dispositions == Values("content-disposition")
      types == Values("content-type")
      FirstOf(values) == LET some == NonEmpty(values) IN IF some = <<>> THEN <<>> ELSE some[1]
      LastOf(values) == IF values = <<>> THEN <<>> ELSE Last(values)
      OfEach(values, Get(_)) == FlattenSeq([k \in DOMAIN values |-> Get(values[k])])
      Media(v) == Trim(Upto(v, Seek(v, 1, {";"}) - 1), White)
  IN  [name |-> FirstOf(OfEach(dispositions, LAMBDA v : HeaderParam(v, "name"))),
       filename |-> FirstOf(OfEach(dispositions, LAMBDA v : HeaderParam(v, "filename"))),
       extended |-> FirstOf(OfEach(dispositions, HeaderParamExt)),
       type |-> IF types = <<>> THEN <<>> ELSE Media(Last(types)),
       charset |-> LastOf(OfEach(types, LAMBDA v : HeaderParam(v, "charset")))]

-----------------------------------------------------------------------------
(* Parts *)

\* A value of a part: binary content is extracted as text by the callback.
PartField(st, name, value) ==
  IF st.err # "" \/ st.fields + 1 > MaxFields THEN Field(st, name, value, "string")
  ELSE EmittedWith([st EXCEPT !.fields = @ + 1, !.path = name], value, "string",
                   IF IsBinary(value) THEN value ELSE Inner(value))

\* The content, as far as it is looked at.
Inspected(info, content) ==
  Upto(content, IF info.filename # <<>> THEN Min({MaxFileContent, MaxValueLen}) ELSE MaxValueLen)

\* onPart: what a part declares is recorded as headers.
Declared(info) ==
  [k \in 1..2 |-> [name |-> <<IF k = 1 THEN "content-type" ELSE "charset">>,
                   value |-> IF k = 1 THEN info.type ELSE info.charset, kind |-> "header", room |-> 0]]

\* The name, the file names and the content of a part, in this order.
PartFields(told, info, name, content) ==
  LET file == name \o <<".filename">>
      Filed(named) == IF info.filename = <<>> THEN named ELSE PartField(named, file, info.filename)
      Extended(filed) == IF info.extended \in {<<>>, info.filename} THEN filed
                         ELSE PartField(filed, file, info.extended)
  IN  IF Len(name) > MaxKeyLen THEN Fail(told, "large")
      ELSE PartField(Extended(Filed(Field(told, name, name, "key"))), name, Inspected(info, content))

\* parsePart; the media type and the charset go to the callback for parts.
ParsePart(st, part, idx) ==
  LET Told(info, content) ==
        PartFields([st EXCEPT !.out = @ \o SelectSeq(Declared(info), LAMBDA f : f.value # <<>>)],
                   info, IF info.name = <<>> THEN <<ToString(idx), ".unnamed">> ELSE info.name, content)
      Halved(h) == IF Len(h.headers) > MaxPartHeader THEN Fail(st, "large") ELSE Told(Info(h.headers), h.content)
  IN  Halved(Halves(part))

\* One part after the other, from behind a delimiter.
RECURSIVE Parts(_, _, _, _, _)
Parts(src, st, i, dash, idx) ==
  LET first == LineEnd(src, i)
      next == NextDelimiter(src, first, dash)
  IN  IF st.err # "" THEN st
      ELSE IF idx >= MaxParts THEN Fail(st, "parts")
      ELSE IF LiesAt(src, i, <<"-", "-">>) THEN st
      ELSE IF first = 0 \/ next = 0 THEN Fail(st, "malformed")
      ELSE Parts(src, ParsePart(st, WithoutLineEnd(SubSeq(src, first, next - 1)), idx),
                 next + Len(dash), dash, idx + 1)

ParseMultipart(src, boundary) ==
  LET dash == Dash(boundary)  i == NextDelimiter(src, 1, dash)
  IN  IF Len(src) > MaxTotalSize THEN Fail(Start, "large")
      ELSE IF boundary = <<>> \/ i = 0 THEN Fail(Start, "boundary")
      ELSE Parts(src, Start, i + Len(dash), dash, 0)

\* SniffMultipart: the boundary of a body that opens with a delimiter line and
\* has a part header; <<>> if it is none.
SniffMultipart(data) ==
  LET end == Seek(data, 3, {"\r", "\n"})
      boundary == Trim(<<"|">> \o SubSeq(data, 3, end - 1), {" "})
      legal == Letters \cup {"B", "'", "(", ")", "_", ",", ".", ":", "=", "?"}
  IN  IF /\ LiesAt(data, 1, <<"-", "-">>) /\ end <= Len(data)
         /\ Len(boundary) > 1 /\ ToSet(Tail(boundary)) \subseteq legal
         /\ Find(data, 1, <<"content-disposition", ":">>) > 0
      THEN Tail(boundary) ELSE <<>>
=============================================================================
