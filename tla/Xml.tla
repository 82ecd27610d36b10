--------------------------------- MODULE Xml --------------------------------
(***************************************************************************)
(* internal/body/xml.go: ParseXML emits element names, attributes and the  *)
(* text inside elements, and expands nothing.  "!--", "![CDATA[" and       *)
(* "?xml" are one symbol each, as are "--" and "]]" before a ">".          *)
(***************************************************************************)
EXTENDS Parser

XmlSpaces == {" ", "\t", "\n", "\r"}
NameEnds == XmlSpaces \cup {">", "/", "=", "<"}
Quotes == {"\"", "'"}

Went(st, i) == [st EXCEPT !.at = i]

\* The text from st.at up to stop, inside an element only.
TextTo(st, text, stop) ==
  IF st.stack = <<>> \/ text = <<>> THEN Went(st, stop) ELSE Emit(Went(st, stop), text, "string")

\* skipUntil: behind the next pat, or the end.
Behind(src, i, pat) ==
  IF Find(src, i, pat) = 0 THEN Len(src) + 1 ELSE Find(src, i, pat) + Len(pat)

\* skipDeclaration: behind the first ">" outside brackets.
DeclarationEnd(src, i) ==
  LET depth[k \in (i - 1)..Len(src)] ==
        IF k = i - 1 THEN 0
        ELSE depth[k - 1] + (IF src[k] = "[" THEN 1 ELSE IF src[k] = "]" /\ depth[k - 1] > 0 THEN -1 ELSE 0)
      ends == {k \in i..Len(src) : src[k] = ">" /\ depth[k] = 0}
  IN  IF ends = {} THEN Len(src) + 1 ELSE Min(ends) + 1

\* An attribute's value: quoted, or up to a space or the end of the tag.
AttributeValue(src, i) ==
  LET quoted == At(src, i) \in Quotes
      close == IF quoted THEN Seek(src, i + 1, {src[i]}) ELSE Seek(src, i, XmlSpaces \cup {">"})
  IN  [value |-> SubSeq(src, IF quoted THEN i + 1 ELSE i, close - 1),
       end |-> IF quoted THEN Min({close + 1, Len(src) + 1}) ELSE close]

\* An attribute is named element@attribute and is no child of it.
WithValue(st, attr, value) ==
  LET inside == [st EXCEPT !.path = @ \o <<"@">> \o attr]
  IN  IF Len(inside.path) > MaxKeyLen THEN Fail(st, "large")
      ELSE [Emit(inside, value, "string") EXCEPT !.path = st.path]

\* The attributes of a start tag from st.at on, up to its end.
RECURSIVE Attributes(_, _, _)
Attributes(src, st, closing) ==
  LET j == Skip(src, st.at, XmlSpaces)
      end == Seek(src, j, NameEnds)
      attr == SubSeq(src, j, end - 1)
      named == Emit(Went(st, end), attr, "key")
      equals == Skip(src, end, XmlSpaces)
      v == AttributeValue(src, Skip(src, equals + 1, XmlSpaces))
      valued == WithValue(named, attr, v.value)
  IN  CASE st.err # "" -> st
        [] st.err = "" /\ (j > Len(src) \/ At(src, j) = ">") ->
             LET done == Went(st, Min({j + 1, Len(src) + 1})) IN IF closing THEN Pop(done) ELSE done
        [] st.err = "" /\ At(src, j) = "/" -> Attributes(src, Went(st, j + 1), TRUE)
        [] st.err = "" /\ j \in DOMAIN src /\ At(src, j) \notin {">", "/"} /\ attr = <<>> ->
             Attributes(src, Went(st, j + 1), closing)
        [] OTHER ->
             IF Len(attr) > MaxKeyLen THEN Fail(st, "large")
             ELSE IF named.err # "" \/ At(src, equals) # "=" THEN Attributes(src, Went(named, equals), closing)
             ELSE Attributes(src, Went(valued, v.end), closing)

\* parseElement.
ParseElement(src, st) ==
  LET end == Seek(src, st.at + 1, NameEnds)
      name == SubSeq(src, st.at + 1, end - 1)
      inside == Push(st, Child(st.path, name))
  IN  IF name = <<>> THEN Went(st, st.at + 1)
      ELSE IF Len(name) > MaxKeyLen THEN Fail(st, "large")
      ELSE IF Len(st.stack) >= MaxDepth THEN Fail(st, "deep")
      ELSE IF inside.err # "" THEN inside
      ELSE Attributes(src, Emit(Went(inside, end), name, "key"), FALSE)

RECURSIVE Walk(_, _)
Walk(src, st) ==
  LET i == st.at
      open == Seek(src, i, {"<"})
      next == At(src, i + 1)
      cdata == IF Find(src, i, <<"]]", ">">>) = 0 THEN Len(src) + 1 ELSE Find(src, i, <<"]]", ">">>)
  IN  IF st.err # "" \/ i > Len(src) THEN st
      ELSE IF open > i THEN Walk(src, TextTo(st, Trim(SubSeq(src, i, open - 1), XmlSpaces), open))
      ELSE IF next = "" THEN st
      ELSE Walk(src,
             CASE next = "!--" -> Went(st, Behind(src, i + 2, <<"--", ">">>))
               [] next = "![CDATA[" ->
                    TextTo(st, SubSeq(src, i + 2, cdata - 1), Min({cdata + 2, Len(src) + 1}))
               [] next = "!" -> Went(st, DeclarationEnd(src, i + 2))
               [] next = "?xml" -> Went(st, Behind(src, i + 2, <<"?", ">">>))
               [] next = "/" -> Went(Pop(st), Min({Seek(src, i + 2, {">"}) + 1, Len(src) + 1}))
               [] OTHER -> ParseElement(src, st))

ParseXML(src) == IF Len(src) > MaxTotalSize THEN Fail(Start, "large") ELSE Walk(src, Start)

\* SniffXML: a declaration, or a start tag with a plausible name.
SniffXML(data) ==
  LET i == Skip(data, 1, XmlSpaces)
      end == Skip(data, i + 1, Letters \ {"+", "/"})
  IN  /\ At(data, i) = "<"
      /\ \/ At(data, i + 1) \in {"?xml", "!"}
         \/ /\ At(data, i + 1) \in Letters \ {"+", "/", "-", "1"}
            /\ At(data, end) \in XmlSpaces \cup {">", "/"}
=============================================================================
