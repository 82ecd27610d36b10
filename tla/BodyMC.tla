------------------------------- MODULE BodyMC -------------------------------
(* Model values for Body: documents as trees, how a client writes them down, *)
(* and what of them is to be found again.                                    *)
EXTENDS Body

MCEncoded == {"x", "a", "1", "\"", "{", "}", ":", "#0", "#1", "#2", "#3", "#4", "#5", "#6", "#8", "\n", "#18", "n", "b:x", "b:a"}

Leaf(target, name, value) == [target |-> target, name |-> name, value |-> value]
Name(path, key) == Leaf("argname", path, key)
Arg(path, value) == Leaf("arg", path, value)

\* JSON: a scalar [s], a number [n], an object [o] of pairs, an array [a].
RECURSIVE Written(_), Told(_, _)
Written(t) ==
  LET List(parts) == FlattenSeq([k \in DOMAIN parts |-> IF k = 1 THEN parts[k] ELSE <<",">> \o parts[k]])
  IN  CASE "s" \in DOMAIN t -> <<"\"">> \o t.s \o <<"\"">>
        [] "n" \in DOMAIN t -> t.n
        [] "o" \in DOMAIN t -> <<"{">> \o List([k \in DOMAIN t.o |->
              <<"\"">> \o t.o[k][1] \o <<"\"", ":">> \o Written(t.o[k][2])]) \o <<"}">>
        [] OTHER -> <<"[">> \o List([k \in DOMAIN t.a |-> Written(t.a[k])]) \o <<"]">>
Told(t, path) ==
  CASE "s" \in DOMAIN t -> <<Arg(path, t.s)>>
    [] "n" \in DOMAIN t -> <<Arg(path, t.n)>>
    [] "o" \in DOMAIN t -> FlattenSeq([k \in DOMAIN t.o |->
          <<Name(path, t.o[k][1])>> \o Told(t.o[k][2], Child(path, t.o[k][1]))])
    [] OTHER -> FlattenSeq([k \in DOMAIN t.a |-> Told(t.a[k], Element(path, k - 1))])

S(v) == [s |-> v]
N(v) == [n |-> v]
O(pairs) == [o |-> pairs]
A(elements) == [a |-> elements]

\* XML: an element of one name, at most one attribute, and children or text.
RECURSIVE Marked(_), Found(_, _)
Marked(e) == <<"<", e.name>> \o (IF e.attr = <<>> THEN <<>> ELSE <<" ", "n", "=", "\"">> \o e.attr \o <<"\"">>)
             \o <<">">> \o e.text \o FlattenSeq([k \in DOMAIN e.kids |-> Marked(e.kids[k])])
             \o <<"<", "/", e.name, ">">>
Found(e, path) ==
  LET here == Child(path, <<e.name>>)
  IN  <<Name(here, <<e.name>>)>>
      \o (IF e.attr = <<>> THEN <<>> ELSE <<Name(here, <<"n">>), Arg(here \o <<"@", "n">>, e.attr)>>)
      \o (IF e.text = <<>> THEN <<>> ELSE <<Arg(here, e.text)>>)
      \o FlattenSeq([k \in DOMAIN e.kids |-> Found(e.kids[k], here)])

E(name, attr, text, kids) == [name |-> name, attr |-> attr, text |-> text, kids |-> kids]

\* Forms and multipart forms: pairs.
Joined(pairs) == FlattenSeq([k \in DOMAIN pairs |->
                   (IF k = 1 THEN <<>> ELSE <<"&">>) \o pairs[k][1] \o <<"=">> \o pairs[k][2]])
Pairs(pairs) == FlattenSeq([k \in DOMAIN pairs |-> <<Name(pairs[k][1], pairs[k][1]), Arg(pairs[k][1], pairs[k][2])>>])

Line == <<"\r", "\n">>
Part(pair) == <<"-", "-", "B">> \o Line \o <<"content-disposition", ":", ";", "name", "=", "\"">> \o pair[1]
              \o <<"\"">> \o Line \o Line \o pair[2] \o Line
PartedBody(pairs) == FlattenSeq([k \in DOMAIN pairs |-> Part(pairs[k])]) \o <<"-", "-", "B", "-", "-">> \o Line

\* protobuf: field 1 or 2, text or a message.
RECURSIVE Packed(_), Unpacked(_, _)
Size(n) == CHOOSE c \in DOMAIN Bytes : Bytes[c] = n
Packed(m) == FlattenSeq([k \in DOMAIN m |->
  LET value == IF "m" \in DOMAIN m[k] THEN Packed(m[k].m) ELSE m[k].s
  IN  <<IF m[k].field = 1 THEN "\n" ELSE "#18", Size(Len(value))>> \o value])
Unpacked(m, path) == FlattenSeq([k \in DOMAIN m |->
  LET name == Child(path, <<ToString(m[k].field)>>)
  IN  IF "m" \in DOMAIN m[k] THEN Unpacked(m[k].m, name) ELSE <<Arg(name, m[k].s)>>])

F(field, s) == [field |-> field, s |-> s]
M(field, m) == [field |-> field, m |-> m]

\* What a body is wrapped in.
Gzipped(b) == <<"gz">> \o b \o <<"end">>
Base64(b) == [k \in DOMAIN b |-> "b:" \o b[k]]
Framed(b) == <<"#0", Size(Len(b))>> \o b
Packet(b) == <<"#1", Size(Len(b) + 2)>> \o Gzipped(b)

Ask(media, bytes, leaves) ==
  [media |-> media, boundary |-> IF media = "multipart" THEN <<"B">> ELSE <<>>, encoding |-> "", grpc |-> "",
   bytes |-> bytes, symbols |-> {}, edits |-> 0, leaves |-> leaves]

-----------------------------------------------------------------------------
JsonTrees ==
  {O(<<<<k, v>>, <<l, w>>>>) : k \in {<<"a">>, <<"__proto__">>}, l \in {<<"a">>, <<"n">>},
      v \in {S(<<"x">>), O(<<<<<<"a">>, N(<<"1">>)>>>>), A(<<S(<<>>), S(<<"x">>)>>)},
      w \in {S(<<"a", "n">>), A(<<O(<<<<<<"x">>, S(<<"n">>)>>>>), N(<<"-", "1">>)>>)}}
   \cup {S(<<"x">>), A(<<S(Base64(<<"x", "a">>)), S(Base64(<<"x", "a", "1", "x">>))>>)}
JsonBodies == {Ask(media, Written(t), Told(t, <<>>)) : t \in JsonTrees \ {S(<<"x">>)}, media \in {"json", "form", "other"}}
          \cup {Ask("json", Written(S(<<"x">>)), Told(S(<<"x">>), <<>>))}
          \cup {[Ask("json", Gzipped(Written(t)), Told(t, <<>>)) EXCEPT !.encoding = enc] : t \in JsonTrees, enc \in {"", "x-gzip"}}

XmlTrees == {E("a", attr, text, kids) : attr \in {<<>>, <<"x">>}, text \in {<<>>, <<"n">>},
               kids \in {<<>>, <<E("n", <<>>, <<"x">>, <<>>), E("n", <<"a">>, <<"1">>, <<>>)>>,
                         <<E("n", <<"a">>, <<>>, <<E("x", <<>>, <<>>, <<>>)>>)>>}}
XmlBodies == {Ask(media, Marked(e), Found(e, <<>>)) : e \in XmlTrees, media \in {"xml", "other"}}

PairLists == {<<<<k, v>>, <<l, w>>>> : k, l \in {<<"a">>, <<"n", "x">>},
                v \in {<<>>, <<"x">>, <<"a", "1">>}, w \in {<<"n">>, Base64(<<"x", "a", "1", "x">>)}}
Forms == {Ask("form", Joined(ps), Pairs(ps)) : ps \in PairLists}
\* Under both readings of a semicolon.
Mixed == LET one == <<"x", ";", "n", "=", "1">>
         IN  {Ask("form", <<"a", "=">> \o one, <<Arg(<<"a">>, one), Arg(<<"a">>, <<"x">>), Arg(<<"n">>, <<"1">>)>>)}
Files == {<<"-", "-", "B">>, Line \o <<"-", "-", "x">>, <<"x", "-", "-", "B", "x">>}
Multiparts == {Ask(media, PartedBody(ps), Pairs(ps)) : media \in {"multipart", "form", "json"},
                 ps \in PairLists \cup {<<<<<<"a">>, v>>, <<<<"n">>, <<"x">>>>>> : v \in Files \ {<<"-", "-", "B">>}}}

Messages == {<<F(1, <<"x">>)>>, <<F(1, <<"a", "n">>), F(2, <<"x", "n">>)>>, <<M(2, <<F(1, <<"x">>)>>), F(1, <<"a">>)>>,
             <<M(1, <<F(2, <<"#2", "#1">>)>>), F(1, <<"a", "#1">>)>>, <<F(1, <<"\n", "#1", "a">>), F(1, <<"x">>)>>}
Calls == UNION {{[Ask("other", Framed(Packed(m)), Unpacked(m, <<>>)) EXCEPT !.grpc = "identity"],
                 [Ask("other", Framed(Packed(m)) \o Packet(Packed(m)), Unpacked(m, <<>>) \o Unpacked(m, <<>>))
                    EXCEPT !.grpc = "gzip"],
                 [Ask("other", Base64(Framed(Packed(m))), Unpacked(m, <<>>)) EXCEPT !.grpc = "identity"]}
                : m \in Messages}

\* Bodies that are edited until they are broken.
Broken(media, bytes, symbols, edits) == [Ask(media, bytes, <<>>) EXCEPT !.symbols = symbols, !.edits = edits]
Edits ==
  {Broken(media, Written(O(<<<<<<"a">>, A(<<S(<<"x">>)>>)>>>>)), {"\"", "}", "\\", ","}, 2) : media \in {"json", "form", "other"}}
   \cup {Broken(media, Marked(E("a", <<"x">>, <<"x">>, <<>>)), {"<", ">", "\"", "/", "!--"}, 2) : media \in {"xml", "other"}}
   \cup {Broken("form", Joined(<<<<<<"a">>, <<"x">>>>, <<<<"n">>, <<>>>>>>), {"&", "=", ";", "%", "78", "x"}, 2),
         Broken("other", <<"{", "x", "<", "a">>, {"x", ">", "{", "#1", "b:x"}, 2),
         Broken("other", Base64(<<"x", "a", "x">>), {"x", "b:x", "+", "b:#0"}, 2),
         Broken("multipart", PartedBody(<<<<<<"a">>, <<"x">>>>>>), {"-", "\n", "\"", "x"}, 1),
         [Broken("json", Gzipped(Written(S(<<"x">>))), {"bad", "*", "x"}, 1) EXCEPT !.encoding = "gzip"],
         [Broken("other", Framed(Packed(<<F(1, <<"x">>)>>)), {"#0", "#1", "x"}, 2) EXCEPT !.grpc = "identity"]}

\* Every word of JSON symbols of this length and shorter.
WordBodies == {Broken("json", <<>>, {"{", "}", "[", "]", "\"", ":", ",", "1", "0", "-", " "}, 4),
           Broken("json", Written(O(<<<<<<"a">>, N(<<"1">>)>>>>)), {"\"", "}", ",", ".", "e", " "}, 2)}

\* At and beyond the limits.
Limits ==
  {Ask("json", Written(A(<<A(<<A(<<S(<<"x">>)>>)>>)>>)), <<>>), Ask("json", Written(A(<<A(<<A(<<A(<<S(<<"x">>)>>)>>)>>)>>)), <<>>),
   Ask("form", Joined([k \in 1..7 |-> <<<<"a">>, <<"x">>>>]), <<>>),
   Ask("json", Written(S([k \in 1..13 |-> IF k = 13 THEN "x" ELSE "a"])), <<>>),
   [Ask("json", Gzipped([k \in 1..30 |-> IF k = 1 THEN "x" ELSE "*"]), <<>>) EXCEPT !.encoding = "gzip"],
   [Ask("json", Gzipped(Written(S(<<"x">>))), <<>>) EXCEPT !.encoding = "br"],
   Ask("other", [k \in 1..65 |-> "x"], <<>>)}

MCRequests == JsonBodies \cup XmlBodies \cup Forms \cup Mixed \cup Multiparts \cup Calls \cup Edits \cup WordBodies \cup Limits

-----------------------------------------------------------------------------
(* The grammar of JSON, as splits of a word *)

RECURSIVE IsValue(_)
IsString(s) ==
  LET Escaped(k) == (k - 1 - Max({n \in 0..k - 1 : n = 0 \/ s[n] # "\\"})) % 2 = 1
  IN  /\ Len(s) >= 2 /\ s[1] = "\"" /\ Last(s) = "\"" /\ ~Escaped(Len(s))
      /\ \A k \in 2..Len(s) - 1 :
           /\ Text(s[k]) /\ s[k] \notin Breaks
           /\ IF Escaped(k) THEN s[k] \in {"\"", "\\", "/", "n", "t"} ELSE s[k] # "\""
IsNumber(s) ==
  LET unsigned == IF s # <<>> /\ s[1] = "-" THEN Tail(s) ELSE s
      Some(d) == d # <<>> /\ ToSet(d) \subseteq Jsons!Digits
      Integer(d) == Some(d) /\ (d[1] = "0" => Len(d) = 1)
      Frac(d) == Integer(d) \/ \E k \in DOMAIN d : d[k] = "." /\ Integer(Upto(d, k - 1)) /\ Some(From(d, k + 1))
      Exp(d) == Some(IF d # <<>> /\ d[1] \in {"+", "-"} THEN Tail(d) ELSE d)
  IN  Frac(unsigned) \/ \E k \in DOMAIN unsigned :
                          unsigned[k] = "e" /\ Frac(Upto(unsigned, k - 1)) /\ Exp(From(unsigned, k + 1))
Inside(s) == SubSeq(s, 2, Len(s) - 1)
Pair(s) == \E k \in DOMAIN s : /\ s[k] = ":" /\ IsString(Trim(Upto(s, k - 1), {" "}))
                               /\ IsValue(From(s, k + 1))
ListOf(s, Item(_)) ==
  \E cuts \in SUBSET {k \in DOMAIN s : s[k] = ","} :
    LET ends == Ordered(cuts \cup {0, Len(s) + 1})
    IN  \A n \in 1..Len(ends) - 1 : Item(SubSeq(s, ends[n] + 1, ends[n + 1] - 1))
IsValue(word) ==
  LET s == Trim(word, {" "})
  IN  \/ IsString(s) \/ IsNumber(s)
      \/ Len(s) >= 2 /\ s[1] = "{" /\ Last(s) = "}" /\ (Trim(Inside(s), {" "}) = <<>> \/ ListOf(Inside(s), Pair))
      \/ Len(s) >= 2 /\ s[1] = "[" /\ Last(s) = "]" /\ (Trim(Inside(s), {" "}) = <<>> \/ ListOf(Inside(s), IsValue))

(* A body declared as JSON is taken for parsed exactly if it is a document, so *)
(* that no fallback is skipped for one that a parser would reject, and none is *)
(* run for one that it would accept (ParseJSON, SetRequestBody).               *)
AcceptsExactly ==
  given /\ req.media = "json" /\ req.encoding = "" /\ SniffMultipart(req.bytes) = <<>> /\ req.bytes # <<>>
        /\ At(req.bytes, 1) # "gz" =>
    /\ tx.err = "" => IsValue(req.bytes)
    /\ tx.err = "malformed" => ~IsValue(req.bytes)
=============================================================================
