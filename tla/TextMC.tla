------------------------------- MODULE TextMC -------------------------------
(***************************************************************************)
(* Two kinds of values for Text: payloads in every spelling that a class   *)
(* of ambiguity names, as a client writes them, and short words over the   *)
(* bytes that a transform treats specially.                                *)
(***************************************************************************)
EXTENDS Text

Mapped(s, Op(_)) == FlattenSeq([i \in DOMAIN s |-> Op(s[i])])
OneOf(set) == CHOOSE x \in set : TRUE

Lower(n) == IF n < 10 THEN 48 + n ELSE 87 + n
Hex2(b) == <<Lower(b \div 16), Lower(b % 16)>>
PercentByte(b) == <<Percent>> \o Hex2(b)
PercentEncoded(s) == Mapped(s, PercentByte)
\* A browser leaves letters, digits and a few marks alone.
OnTheWire(s) ==
  Mapped(s, LAMBDA b : IF b \in Alphabetic \cup Decimal \cup OctetSet(".-_") THEN <<b>> ELSE PercentByte(b))

\* The fullwidth or other character that narrows to b, when there is one.
Wide(b) == {r \in DOMAIN BestFitASCII : BestFitASCII[r] = b}
Base64Char(v) == CHOOSE c \in DOMAIN Base64Value : Base64Value[c] = v

NestedEscape(b) == <<Percent>> \o PercentEncoded(Hex2(b))
UEscape(b) == Octets("%u00") \o Hex2(b)
Overlong2(b) == <<192 + (b \div 64), 128 + (b % 64)>>
Shifted(b) == <<Plus, Base64Char(0), Base64Char(b \div 16), Base64Char((b % 16) * 4), Code["-"]>>
HexEntity(b) == Octets("&#x") \o Hex2(b) \o Octets(";")
DecEntity(b) == Octets("&#") \o DecimalOf(b) \o Octets(";")
NamedEntity(b) ==
  LET names == {e \in DOMAIN NamedEntities : NamedEntities[e] = b} IN IF names = {} THEN <<b>> ELSE OneOf(names)
WideUtf8(b) == IF Wide(b) = {} THEN <<b>> ELSE Utf8(Max(Wide(b)))
WideU(b) == IF Wide(b) = {} THEN <<b>> ELSE Octets("%u") \o Hex2(Max(Wide(b)) \div 256) \o Hex2(Max(Wide(b)) % 256)
Quoted(b) == Octets("'") \o <<b>> \o Octets("'")
QuotedHex(b) == Octets("'\\x") \o Hex2(b) \o Octets("'")
Little(b) == <<b, 0>>
Big(b) == <<0, b>>

Concatenated(s, Piece(_)) ==
  FoldLeft(LAMBDA out, b : IF out = <<>> THEN Piece(b) ELSE out \o Octets(" . ") \o Piece(b), <<>>, s)

\* What a URL decoder before the origin undoes is sent as it is; everything
\* else also percent-encoded.
UrlSpellings(p) ==
  {PercentEncoded(p), PercentEncoded(PercentEncoded(p)), OnTheWire(OnTheWire(PercentEncoded(p))),
   Mapped(p, NestedEscape), Mapped(p, UEscape), Mapped(p, WideU)}
Spellings(p) ==
  {p, Mapped(p, Overlong2), Mapped(p, Shifted), Mapped(p, HexEntity), Mapped(p, DecEntity),
   Mapped(p, NamedEntity), Mapped(p, WideUtf8), p \o <<0>> \o Octets(".jpg")}
RawSpellings(p) ==
  {Concatenated(p, Quoted), Concatenated(p, QuotedHex), Mapped(p, Little), Mapped(p, Big),
   <<255, 254>> \o Mapped(p, Little), <<254, 255>> \o Mapped(p, Big)}

Payloads == {Octets("<b"), Octets("../a"), Octets("a;b"), Octets("|id")}

Spoken ==
  UNION {{[wire |-> w, chain |-> <<"url_decode">>, means |-> p] :
            w \in UrlSpellings(p) \cup Spellings(p) \cup RawSpellings(p) \cup {OnTheWire(w) : w \in Spellings(p)}} :
         p \in Payloads}
  \cup {[wire |-> w, chain |-> <<"url_decode", "normalize_path">>, means |-> Octets("/a")] :
          w \in {Octets("\\x\\..\\a"), Octets("/x%5c..%5Ca"), Octets("%252fx%252f..%252fa")}}

-----------------------------------------------------------------------------
AllWords(symbols, n) == UNION {[1..k -> symbols] : k \in 0..n}

Special ==
  ("lowercase" :> OctetSet("aA1")) @@ ("remove_whitespace" :> {32, 9, 97})
  @@ ("compress_whitespace" :> {32, 9, 13, 97}) @@ ("url_decode" :> OctetSet("%+4fg"))
  @@ ("normalize_path" :> OctetSet("/\\.a")) @@ ("escape_decode" :> OctetSet("\\x417n"))
  @@ ("css_decode" :> OctetSet("\\6g ") \cup {10, 13}) @@ ("cmd_line" :> OctetSet("\\A ;/"))
  @@ ("replace_comments" :> OctetSet("/*a")) @@ ("remove_comments_char" :> OctetSet("/*-#a"))
  @@ ("base64_decode" :> OctetSet("QU=")) @@ ("hex_escape_decode" :> OctetSet("\\xu41"))

Longest == [t \in TransformNames |-> IF t = "normalize_path" THEN 6 ELSE 4]

Arbitrary ==
  UNION {{[wire |-> w, chain |-> <<t>>, means |-> Unknown] : w \in AllWords(Special[t], Longest[t])} :
         t \in TransformNames}

-----------------------------------------------------------------------------
\* The spellings of an address, part by part; the last one holds the rest.
Addresses == {<<12, 0, 0, 1>>, <<10, 9, 0, 8>>}
RECURSIVE InBase(_, _)
InBase(v, base) == IF v < base THEN <<Lower(v)>> ELSE InBase(v \div base, base) \o <<Lower(v % base)>>
PartSpellings(v) == {DecimalOf(v), Octets("0") \o InBase(v, 8), Octets("0x") \o InBase(v, 16)}

Rest(a, k) == FoldLeft(LAMBDA v, b : v * ByteRange + b, 0, SubSeq(a, k, 4))
Dotted(a) ==
  UNION {{w1 \o Octets(".") \o w2 : w1 \in PartSpellings(a[1]), w2 \in PartSpellings(Rest(a, 2))},
         {w1 \o Octets(".") \o w2 \o Octets(".") \o w3 :
            w1 \in PartSpellings(a[1]), w2 \in PartSpellings(a[2]), w3 \in PartSpellings(Rest(a, 3))},
         {w1 \o Octets(".") \o w2 \o Octets(".") \o w3 \o Octets(".") \o w4 :
            w1 \in PartSpellings(a[1]), w2 \in PartSpellings(a[2]),
            w3 \in PartSpellings(a[3]), w4 \in PartSpellings(a[4])},
         {Octets("0x") \o InBase(Rest(a, 1), 16)}}

HostRequests ==
  UNION {{[wire |-> Octets(pre) \o w \o Octets(post), chain |-> <<"numeric_host">>,
           means |-> Octets(pre) \o DottedQuad(a) \o Octets(post)] :
            w \in Dotted(a), pre \in {"", "//", "u@"}, post \in {"", "/x", ":1"}} : a \in Addresses}
  \cup {[wire |-> Octets(w), chain |-> <<"numeric_host">>, means |-> Octets(w)] :
          w \in {"price 1.5", "v1.2.3", "1234", "1.2.3.4.5", "1.2.3.", "1.16.0.0", "0x", "12.x", "1.5,2.5"}}

MCRequests == Spoken \cup Arbitrary \cup HostRequests
=============================================================================
