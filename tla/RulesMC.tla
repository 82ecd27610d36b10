------------------------------ MODULE RulesMC -------------------------------
(***************************************************************************)
(* Files of up to three statements out of a menu that exercises every      *)
(* directive, operator and way of writing one, and the rules of a Go       *)
(* program.                                                                *)
(***************************************************************************)
EXTENDS Rules

o(text) == Octets(text)

NotNewline == Class(<< <<0, 9>>, <<11, 255>> >>)
DotStar == Star(NotNewline)
Below(low, high) == Class(<< <<Code[low], Code[high]>> >>)

MCSyntax ==
  ("(?i)union.*select" :> Cat(<<Folded(o("union")), DotStar, Folded(o("select"))>>)
   @@ "[\"'] or [0-9]" :> Cat(<<Class(<< <<34, 34>>, <<39, 39>> >>), Lit(o(" or ")), Below("0", "9")>>)
   @@ "a#b" :> Lit(o("a#b"))
   @@ "\\.(?:php[345]?|phtml)$" :>
        Cat(<<Lit(o(".")), Lit(o("ph")),
              Alt(<<Cat(<<Lit(o("p")), Quest(Below("3", "5"))>>), Lit(o("tml"))>>), End>>)
   @@ "^[a-z.]+$" :> Cat(<<Begin, PlusOf(Class(<< <<46, 46>>, <<97, 122>> >>)), End>>)
   @@ "(?:sleep|wait)\\(" :> Cat(<<Alt(<<Lit(o("sleep")), Lit(o("wait"))>>), Lit(o("("))>>)
   @@ "x{1,2}y" :> Cat(<<Lit(o("x")), Quest(Lit(o("x"))), Lit(o("y"))>>))

MCDetectors ==
  ("detectsqli" :> [holds |-> Cat(<<Class(<< <<34, 34>>, <<39, 39>> >>), DotStar, Lit(o(" or "))>>),
                    literals |-> <<o("'"), o("\"")>>]
   @@ "detectxss" :> [holds |-> Lit(o("<b")), literals |-> <<o("<")>>])

MCDataFiles == "words.data" :> <<o("# the words"), o(""), o("  rm -r "), o("nc -l"), o("c++")>>

\* A statement that does nothing, in the lines it is written in.
Text(lines) ==
  [lines |-> [k \in DOMAIN lines |-> o(lines[k])], kind |-> "other", id |-> 0, chained |-> FALSE, level |-> 0,
   marker |-> "", removes |-> {}, reads |-> {}, want |-> NoPattern, negated |-> FALSE, steps |-> <<>>, escaped |-> FALSE]
Collections(kinds) == {[kind |-> k, key |-> <<>>] : k \in kinds}
RuleText(id, reads, want, lines) ==
  [Text(lines) EXCEPT !.kind = "rule", !.id = id, !.reads = reads, !.want = want]
Not(statement) == [statement EXCEPT !.negated = TRUE]
Through(steps, statement) == [statement EXCEPT !.steps = steps]
HeadOf(statement) == [statement EXCEPT !.chained = TRUE]

Plain == {
  RuleText(1, Collections({"ARGS"}), MCSyntax["(?i)union.*select"],
    <<"SecRule ARGS|!ARGS:ok \"@rx (?i)union.*select\" \\",
      "    \"id:1,phase:1,deny,t:none,msg:'no, # no',severity:'CRITICAL',tag:'sql'\"">>),
  RuleText(2, Collections({"ARGS", "ARGS_NAMES"}), MCSyntax["a#b"],
    <<"SecRule ARGS|ARGS_NAMES 'a#b' \"id:2,phase:request_body,pass\" # said">>),
  Through(<<"cmd_line">>, RuleText(3, Collections({"REQUEST_PATH"}), MCSyntax["\\.(?:php[345]?|phtml)$"],
    <<"secrule REQUEST_FILENAME \"@rx \\.(?:php[345]?|phtml)$\" \"phase:1,id:3,allow,t:cmdLine\"">>)),
  Not(RuleText(4, {[kind |-> "REQUEST_HEADERS", key |-> o("host")]}, MCSyntax["^[a-z.]+$"],
    <<"SecRule REQUEST_HEADERS:Host \"!@rx ^[a-z.]+$\" \"id:4,phase:1,block\"">>)),
  Not(RuleText(5, Collections({"ARGS"}), Cat(<<Begin, Lit(o("safe")), End>>),
    <<"SecRule ARGS \"!@streq safe\" \"id:5,phase:2,deny\"">>)),
  RuleText(6, Collections({"ARGS"}), Cat(<<Lit(o(".bak")), End>>),
    <<"SecRule ARGS|&ARGS \"@endsWith .bak\" \"id:6,phase:2\"">>),
  Through(<<"cmd_line">>, RuleText(7, Collections({"REQUEST_BODY", "ARGS"}), Alt(<<Folded(o("rm -r")), Folded(o("nc -l")), Folded(o("c++"))>>),
    <<"SecRule XML:/*|ARGS \"@pmFromFile words.data\" \"id:7,phase:2,deny,t:cmdLine\"">>)),
  Through(<<"lowercase">>, RuleText(8, Collections({"REQUEST_LINE"}), Alt(<<Lit(o("trace")), Lit(o("track"))>>),
    <<"SecRule REQUEST_LINE \"@pm trace track\" \"id:8,phase:1,t:lowercase\"">>)) }

More == {
  Through(<<"remove_nulls", "html_entity_decode">>, RuleText(9, Collections({"ARGS"}), MCDetectors["detectsqli"].holds,
    <<"SecRule ARGS \"@detectSQLi\" \"id:9,phase:2,deny,t:removeNulls,t:htmlEntityDecode\"">>)),
  Through(<<"lowercase">>, RuleText(10, Collections({"REQUEST_HEADERS"}), MCSyntax["(?:sleep|wait)\\("],
    <<"SecRule REQUEST_HEADERS \"(?:sleep|wait)\\(\" \"id:10,phase:1,deny,t:lowercase\"">>)),
  Through(<<"trim">>, RuleText(13, Collections({"ARGS"}), Cat(<<Boundary, Lit(o("id")), Boundary>>),
    <<"SecRule ARGS \"@containsWord id\" \"id:13,phase:2,t:trim\"">>)),
  RuleText(14, Collections({"RESPONSE_HEADERS"}), Lit(o("php")),
    <<"SecRule RESPONSE_HEADERS \"@contains php\" \"id:14,phase:3,deny\"">>),
  Through(<<"url_decode">>, RuleText(15, Collections({"ARGS"}), Cat(<<Begin, Lit(o("php:"))>>),
    <<"SecRule ARGS \"@beginsWith php:\" \"id:15,phase:1,drop,t:urlDecodeUni,severity:3\"">>)),
  RuleText(16, Collections({"ARGS"}), Lit(o("%{tx.a}")),
    <<"SecRule ARGS \"@contains %{tx.a}\" \"id:16,phase:2\"">>),
  RuleText(17, Collections({"ARGS"}), Cat(<<Begin, End>>),
    <<"SecRule ARGS \"@streq \" \"id:17,phase:2\"">>),
  RuleText(18, Collections({"ARGS"}), MCSyntax["x{1,2}y"],
    <<"SecRule ARGS \"@rx (x)\\1\" \"id:18,phase:2\"">>),
  Through(<<"trim">>, RuleText(19, Collections({"ARGS"}), Cat(<<Begin, Lit(o("safe")), End>>),
    <<"SecRule ARGS \"@streq safe\" \"id:19,phase:2,t:trim\"">>)),
  [RuleText(20, Collections({"ARGS"}), Lit(o("\"x")), <<"SecRule ARGS \"@contains \\\"x\" \"id:20,phase:2\"">>)
     EXCEPT !.escaped = TRUE],
  Through(<<"lowercase", "remove_whitespace">>, RuleText(21, Collections({"ARGS", "REQUEST_HEADERS"}), MCSyntax["(?:sleep|wait)\\("],
    <<"SecRule ARGS|REQUEST_HEADERS \"@rx (?:sleep|wait)\\(\" \"id:21,phase:2,t:cmdLine,t:none,t:lowercase,t:removeWhitespace\"">>)) }

ChainHead == HeadOf(RuleText(11, {}, NoPattern, <<"SecRule ARGS \"@rx a#b\" \"id:11,chain,deny\"">>))
Link == RuleText(0, {}, NoPattern, <<"SecRule REQUEST_METHOD \"@streq POST\"">>)
Chain == {ChainHead, Link}

Gate(level, marker, lines) == [Text(lines) EXCEPT !.kind = "gate", !.level = level, !.marker = marker]
Marker(marker, lines) == [Text(lines) EXCEPT !.kind = "marker", !.marker = marker]
Gates == {
  Gate(2, "END-2", <<"SecRule TX:DETECTION_PARANOIA_LEVEL \"@lt 2\" \"id:30,phase:1,pass,nolog,skipAfter:END-2\"">>),
  Gate(4, "END-4", <<"SecRule TX:BLOCKING_PARANOIA_LEVEL \"@lt 4\" \"id:31,phase:1,skipAfter:'END-4'\"">>) }
Markers == {Marker("END-2", <<"SecMarker \"end-2\"">>), Marker("END-4", <<"SecMarker END-4">>)}

Removal == [Text(<<"SecRuleRemoveById 1 3-4">>) EXCEPT !.removes = {1, 3, 4}]
Others == {
  Removal,
  Text(<<"SecRuleUpdateTargetById 1 \"!REQUEST_COOKIES:_ga|!ARGS:/x/\"">>),
  Text(<<"SecDefaultAction \"phase:1,log,deny,t:lowercase\"">>),
  Text(<<"SecAction \"id:90,setvar:tx.a=1\"">>),
  Text(<<"SecRuleRemoveByTag sql">>),
  Text(<<"SecRule ARGS \"@rx open">>),
  [Text(<<"# SecRule ARGS x", "">>) EXCEPT !.kind = "comment"] }

Menu == Plain \cup More \cup Chain \cup Gates \cup Markers \cup Others
Some == {s \in Plain \cup More : s.id \in {1, 4, 7}}

MCFiles ==
  {<<s>> : s \in Menu} \cup {<<s, t>> : s \in Menu, t \in Menu}
  \cup {<<g, m, s>> : g \in Gates \cup Markers, m \in Gates \cup Markers \cup Some, s \in Some}
  \cup {<<ChainHead, a, b>> : a \in Some \cup Chain, b \in Some \cup Gates}
  \cup {<<s, t, Removal>> : s \in Some, t \in Plain}

MCSettings == {
  [prefix |-> 0, conf |-> 3, strict |-> FALSE, maxRules |-> 9, maxBytes |-> 999, least |-> 0],
  [prefix |-> 100, conf |-> 4, strict |-> TRUE, maxRules |-> 1, maxBytes |-> 200, least |-> 2],
  [prefix |-> 0, conf |-> 5, strict |-> FALSE, maxRules |-> 9, maxBytes |-> 70, least |-> 0] }

Written1(id, phase, targets, op, confidence) ==
  [id |-> id, from |-> 0, phase |-> phase, targets |-> targets, chain |-> <<"url_decode">>, op |-> op,
   action |-> "block", severity |-> 3, confidence |-> confidence, msg |-> <<>>, tags |-> <<>>]
Ecole == <<195, 137>> \o o("cole")   \* a capital E with an acute accent, in UTF-8
Key(kind, name) == [kind |-> kind, name |-> o(name)]

MCAuthored == <<
  Written1(1001, 1, <<All("ARGS")>>, ContainsOne(o("<B")), 4),
  Written1(1002, 1, <<All("ARGS_NAMES")>>, Equals(o("a#b")), 3),
  Written1(1003, 1, <<Key("ARGS", "q"), All("REQUEST_HEADERS")>>, ContainsAny(<<o("<b"), o(""), o("sleep")>>), 1),
  Written1(1004, 3, <<All("RESPONSE_HEADERS")>>, HasPrefix(o("php")), 4),
  Written1(1005, 1, <<All("ARGS"), All("ARGS_NAMES"), Key("RESOLVED", "geo.country")>>, Rx(MCSyntax["a#b"], FALSE), 2),
  Written1(1006, 1, <<Key("RESOLVED", "geo")>>, Equals(o("xy")), 3),
  Written1(1007, 1, <<All("REQUEST_HEADERS")>>, Rx(Lit(Ecole), FALSE), 3) >>

Probe(kind, key, text) == [kind |-> kind, key |-> o(key), bytes |-> o(text)]
MCProbes == {
  Probe("ARGS", "q", "%55NION%20select"), Probe("ARGS", "q", "a%23b"), Probe("ARGS_NAMES", "", "a#b"),
  Probe("REQUEST_PATH", "", "/x.php4"), Probe("REQUEST_PATH", "", "/x.phtml"),
  Probe("REQUEST_HEADERS", "hOST", "A.b"), Probe("REQUEST_HEADERS", "X", "sleep(1"),
  Probe("ARGS", "q", "safe"), Probe("ARGS", "q", "<b>.bak"), Probe("ARGS", "r", "a;rm -r"),
  Probe("REQUEST_BODY", "", "<a>nc -l</a>"), Probe("REQUEST_BODY", "", "a#b <b"), Probe("REQUEST_LINE", "", "TRACK / HTTP/1.1"),
  Probe("ARGS", "r", "' or 1"), Probe("ARGS", "r", "a%20id"), Probe("ARGS", "r", "PHP:x"), Probe("ARGS", "r", "%"),
  Probe("RESPONSE_HEADERS", "X", "php 8"), Probe("RESPONSE_BODY", "", "PHP"),
  Probe("ARGS", "r", "a;r^m%20-r"), Probe("ARGS", "q", " safe"), Probe("ARGS", "q", "SLEEP%20%20(1"), Probe("ARGS", "q", "\"x"),
  Probe("REQUEST_HEADERS", "X", "SLEEP (1"), Probe("REQUEST_BODY", "", "c++"), Probe("ARGS", "r", "C%2b%2b"), Probe("ARGS", "r", "php%253ax"),
  [Probe("REQUEST_HEADERS", "X", "") EXCEPT !.bytes = Ecole],
  Probe("RESOLVED", "geo.country", "xy"), Probe("RESOLVED", "geo.country", "a#b"), Probe("RESOLVED", "geo", "xy") }

\* The files of the run are read as they are written.
ASSUME FilesAssumption == ReadAsWritten

=============================================================================
