------------------------------ MODULE Seclang -------------------------------
(***************************************************************************)
(* seclang/compile.go and transform.go: what one directive becomes.  What  *)
(* cannot be said in gwaf's rules is refused with a reason.  The syntax    *)
(* tree of a pattern is regexp/syntax's; a text outside Syntax is one that *)
(* RE2 does not take.                                                      *)
(***************************************************************************)
EXTENDS Lexer, Compiler

CONSTANTS
  Syntax,         \* Syntax[text]: the tree of a pattern
  Detectors,      \* Detectors[name]: what a structural detector finds, and its literals
  DataFiles,      \* DataFiles[name]: the lines of a phrase list
  PatternLimit    \* MaxPatternBytes

ASSUME SeclangAssumption ==
  /\ \A text \in DOMAIN Syntax : Tree(Syntax[text])
  /\ {"detectsqli", "detectxss"} \subseteq DOMAIN Detectors
  /\ \A name \in DOMAIN Detectors : Tree(Detectors[name].holds) /\ Detectors[name].literals \in Seq(Seq(Int))
  /\ \A file \in DOMAIN DataFiles : DataFiles[file] \in Seq(Seq(Int))

Number(s) == IF s # <<>> /\ \A i \in DOMAIN s : s[i] \in Decimal THEN Spelled(s, 10) ELSE -1

ArgAt(d, k) == IF k \in DOMAIN d.args THEN d.args[k] ELSE <<>>

\* SecRule's actions are its third argument.
ActsOf(d) == ActionsOf(ArgAt(d, 3))

HasAction(acts, name) == \E k \in DOMAIN acts : acts[k].name = name

\* The value of the last action of the name: the defaults come first.
ActionValue(acts, name, otherwise) ==
  LET own == {k \in DOMAIN acts : acts[k].name = name}
  IN  IF own = {} THEN otherwise ELSE acts[Max(own)].value

\* The first id action of any argument; 0 for none.
RuleIDOf(d) ==
  LET acts == FlattenSeq([k \in DOMAIN d.args |-> ActionsOf(d.args[k])])
      ids == {k \in DOMAIN acts : acts[k].name = "id" /\ Number(acts[k].value) >= 0}
  IN  IF ids = {} THEN 0 ELSE Number(acts[Min(ids)].value)

-----------------------------------------------------------------------------
\* The markers that the arguments behind the operator jump to.
SkipsTo(d) ==
  LET byte(st, b) == IF b = Comma THEN Cut(st) ELSE With(st, b)
      parts(k) == Cut(FoldLeft(byte, Start, d.args[k])).out
      jumps == SelectSeq(FlattenSeq([k \in 1..(Len(d.args) - 2) |-> parts(k + 2)]),
                         LAMBDA p : LiesAt(p, 1, Octets("skipAfter:")))
  IN  [k \in DOMAIN jumps |-> Trim(Rest(jumps[k], 10), Quotes)]

\* "@lt N" on a paranoia level, with a marker to skip to: 0 when d is no such gate.
GateLevel(d) ==
  LET variable == Written(Raised(ArgAt(d, 1)))
      test == TrimSpace(ArgAt(d, 2))
      n == Number(TrimSpace(Rest(test, 4)))
  IN  IF /\ Len(d.args) >= 3
         /\ \E level \in {"TX:DETECTION_PARANOIA_LEVEL", "TX:BLOCKING_PARANOIA_LEVEL"} :
              \E i \in 1..Len(variable) : LiesAt(variable, i, level)
         /\ LiesAt(Lowercased(test), 1, Octets("@lt ")) /\ n \in 1..4
         /\ SkipsTo(d) # <<>>
      THEN n ELSE 0

\* ConfidenceFromParanoiaLevel, in types' numbers.
TierOfLevel(level) == CASE level = 1 -> 3 [] level = 2 -> 2 [] level = 3 -> 1 [] OTHER -> 0

-----------------------------------------------------------------------------
Named(names, kind) == [name \in names |-> kind]

TargetKindOf ==
  [name \in {"ARGS_NAMES", "ARGS_GET", "ARGS_POST", "REQUEST_URI", "REQUEST_METHOD", "REQUEST_PROTOCOL",
             "REQUEST_HEADERS", "REQUEST_LINE", "REQUEST_BODY", "REQUEST_COOKIES", "REMOTE_ADDR",
             "RESPONSE_BODY", "RESPONSE_HEADERS", "RESPONSE_STATUS"} |-> name]
  @@ Named({"ARGS", "ARGS_COMBINED_SIZE"}, "ARGS") @@ Named({"ARGS_GET_NAMES"}, "ARGS_NAMES")
  @@ Named({"REQUEST_URI_RAW", "QUERY_STRING"}, "REQUEST_URI")
  @@ Named({"REQUEST_FILENAME", "REQUEST_BASENAME"}, "REQUEST_PATH")
  @@ Named({"REQUEST_HEADERS_NAMES"}, "REQUEST_HEADER_NAMES")
  @@ Named({"REQUEST_COOKIES_NAMES"}, "REQUEST_COOKIE_NAMES")
  @@ Named({"MULTIPART_FILENAME", "FILES", "FILES_NAMES"}, "REQUEST_BODY")

WholeXML == {"", "/*", "//@*", "/*|//@*"}

\* A variable that is read, as a target; refused when a target cannot say it.
TargetOf(variable) ==
  LET name == Written(Raised(TrimSpace(Before(variable, Colon))))
      qualifier == TrimSpace(Behind(variable, Colon))
  IN  IF name = "XML"
      THEN [ok |-> Written(qualifier) \in WholeXML, target |-> [kind |-> "REQUEST_BODY", name |-> <<>>]]
      ELSE IF name \in DOMAIN TargetKindOf /\ ~HasPrefixByte(Behind(variable, Colon), Slash)
      THEN [ok |-> TRUE, target |-> [kind |-> TargetKindOf[name], name |-> qualifier]]
      ELSE [ok |-> FALSE, target |-> [kind |-> "", name |-> <<>>]]

\* parseExclusion: the variable and the exact key of an exception.
ExclusionOf(variable) ==
  LET name == Written(TrimSpace(Before(TrimSpace(variable), Colon)))
      key == TrimSpace(Behind(variable, Colon))
      pattern == Len(key) > 1 /\ key[1] = Slash /\ Last(key) = Slash
  IN  [ok |-> name \in DOMAIN TargetKindOf /\ ~pattern, key |-> key,
       kind |-> IF name \in DOMAIN TargetKindOf THEN TargetKindOf[name] ELSE ""]

\* The variables of a rule: those read, and those excluded.
TargetsOf(variables) ==
  LET banged == {v \in Range(variables) : HasPrefixByte(v, Bang)}
      excluded == Those(variables, banged)
      read == Those(variables, Range(variables) \ banged)
      targets == [k \in DOMAIN read |-> TargetOf(read[k])]
      out == [k \in DOMAIN excluded |-> ExclusionOf(Rest(excluded[k], 1))]
  IN  [ok |-> /\ \A k \in DOMAIN targets : targets[k].ok /\ ~HasPrefixByte(read[k], Code["&"])
              /\ \A k \in DOMAIN out : out[k].ok,
       targets |-> [k \in DOMAIN targets |-> targets[k].target],
       exclusions |-> {[kind |-> out[k].kind, key |-> out[k].key] : k \in DOMAIN out}]

-----------------------------------------------------------------------------
Refused == [ok |-> FALSE]
Accepted(op) == [ok |-> TRUE, op |-> op]

Unnegatable == {"streq", "beginswith", "pm", "pmf", "pmfromfile", "within", "detectsqli", "detectxss"}

\* A "%{...}" that no request will ever contain.
HasMacro(arg) ==
  \E i \in DOMAIN arg : PairAt(arg, i, Percent, Code["{"]) /\ \E j \in i..Len(arg) : arg[j] = Code["}"]

\* The phrases of a .data file: whole lines, without comments.
PhraseList(lines) ==
  LET trimmed == [k \in DOMAIN lines |-> TrimSpace(lines[k])]
  IN  Those(trimmed, {p \in Range(trimmed) : p # <<>> /\ p[1] # Hash})

Phrases(name, arg) ==
  IF name \in {"pm", "within"} THEN Fields(arg)
  ELSE IF Written(arg) \in DOMAIN DataFiles THEN PhraseList(DataFiles[Written(arg)]) ELSE <<>>

\* The operator of a rule.
OperatorOf(name, arg, negated) ==
  CASE Len(arg) > PatternLimit \/ HasMacro(arg) \/ (negated /\ name \in Unnegatable) -> Refused
    [] name = "rx" /\ Written(arg) \in DOMAIN Syntax -> Accepted(Rx(Syntax[Written(arg)], negated))
    [] name = "endswith" -> Accepted(Rx(Cat(<<Lit(arg), End>>), negated))
    [] name = "contains" /\ ~negated -> Accepted(ContainsOne(arg))
    [] name = "containsword" /\ ~negated -> Accepted(Rx(Cat(<<Boundary, Lit(arg), Boundary>>), FALSE))
    [] name = "streq" -> Accepted(Equals(arg))
    [] name = "beginswith" -> Accepted(HasPrefix(arg))
    [] name \in {"pm", "pmf", "pmfromfile", "within"} /\ Phrases(name, arg) # <<>> ->
         Accepted(ContainsAny(Phrases(name, arg)))
    [] name \in {"detectsqli", "detectxss"} -> Accepted(FuncOf(Detectors[name].holds, Detectors[name].literals))
    [] OTHER -> Refused

-----------------------------------------------------------------------------
SecTransforms ==
  [token \in {"lowercase"} |-> "lowercase"] @@ Named({"urldecode", "urldecodeuni"}, "url_decode")
  @@ Named({"removewhitespace"}, "remove_whitespace") @@ Named({"compresswhitespace"}, "compress_whitespace")
  @@ Named({"normalizepath", "normalizepathwin", "normalisepath"}, "normalize_path")
  @@ Named({"jsdecode", "escapeseqdecode"}, "escape_decode") @@ Named({"cssdecode"}, "css_decode")
  @@ Named({"cmdline"}, "cmd_line") @@ Named({"replacecomments"}, "replace_comments")
  @@ Named({"removecommentschar"}, "remove_comments_char")
  @@ Named({"base64decode", "base64decodeext"}, "base64_decode")

\* Mutation of DroppedTransforms: a transformation that no reading makes up for.
DroppedMore == {"trim", "trimleft", "trimright", "removenulls", "utf8tounicode", "htmlentitydecode", "cmdline"}

DroppedTransforms == {"trim", "trimleft", "trimright", "removenulls", "utf8tounicode", "htmlentitydecode"}

Tokens(acts) ==
  LET named == Those(acts, {a \in Range(acts) : a.name = "t"}) IN [k \in DOMAIN named |-> Word(named[k].value)]

\* The chain of the t: actions behind the last t:none.
TransformsOf(acts) ==
  LET tokens == Tokens(acts)
      kept == Those(SubSeq(tokens, Max({0} \cup {k \in DOMAIN tokens : tokens[k] = "none"}) + 1, Len(tokens)),
                    Range(tokens) \ DroppedTransforms)
  IN  [ok |-> \A k \in DOMAIN tokens : tokens[k] \in {"none"} \cup DroppedTransforms \cup DOMAIN SecTransforms,
       chain |-> [k \in DOMAIN kept |-> IF kept[k] \in DOMAIN SecTransforms THEN SecTransforms[kept[k]] ELSE ""]]

\* The collections ModSecurity decodes while it fills them.
DecodedKinds == {"ARGS", "ARGS_GET", "ARGS_POST", "ARGS_NAMES", "ARGS_JOINED", "REQUEST_COOKIES",
                 "REQUEST_COOKIE_NAMES", "REQUEST_BODY", "FILES_NAMES"}

WithArgDecoding(targets, chain) ==
  IF (\E k \in DOMAIN targets : targets[k].kind \in DecodedKinds) /\ (chain = <<>> \/ chain[1] # "url_decode")
  THEN <<"url_decode">> \o chain ELSE chain

-----------------------------------------------------------------------------
PhaseOf(acts) ==
  LET v == Word(ActionValue(acts, "phase", <<>>))
  IN  CASE v \in {"1", "request_headers"} -> 1 [] v \in {"3", "response_headers"} -> 3
        [] v \in {"4", "response_body"} -> 4 [] OTHER -> 2

ActionOf(acts) ==
  IF \E name \in {"deny", "drop", "redirect"} : HasAction(acts, name) THEN "block"
  ELSE IF HasAction(acts, "allow") THEN "allow" ELSE "score"

SeverityOf(acts) ==
  LET v == Word(Trim(ActionValue(acts, "severity", Octets("WARNING")), Quotes))
  IN  CASE v \in {"0", "emergency", "1", "alert", "2", "critical"} -> 3
        [] v \in {"3", "error"} -> 2 [] v \in {"4", "warning"} -> 1 [] OTHER -> 0

TagsOf(acts) ==
  LET tags == Those(acts, {a \in Range(acts) : a.name = "tag" /\ a.value # <<>>}) IN [k \in DOMAIN tags |-> tags[k].value]

\* The rule put together from a SecRule's own actions, those with the defaults,
\* its id, variables, operator and transformations; or why there is none.
Assembled(d, acts, all, id, read, op, tf, prefix, tier) ==
  LET why == IF Len(d.args) < 2 THEN "SecRule"
             ELSE IF HasAction(acts, "chain") THEN "chain"
             ELSE IF ~read.ok THEN "refused variable"
             ELSE IF read.targets = <<>> THEN "no variable"
             ELSE IF ~op.ok THEN "operator" ELSE IF ~tf.ok THEN "transformation"
             ELSE IF prefix + id = 0 THEN "id" ELSE ""
  IN  [why |-> why, id |-> id,
       exceptions |-> IF why \in {"SecRule", "chain", "refused variable"} THEN {}
                      ELSE {[id |-> id, kind |-> e.kind, key |-> e.key] : e \in read.exclusions},
       rule |-> IF why # "" THEN <<>>
                ELSE <<[id |-> prefix + id, from |-> 0, phase |-> PhaseOf(all), targets |-> read.targets,
                        chain |-> WithArgDecoding(read.targets, tf.chain), op |-> op.op,
                        action |-> ActionOf(all), severity |-> SeverityOf(all), confidence |-> tier,
                        msg |-> ActionValue(all, "msg", <<>>), tags |-> TagsOf(all)]>>]

\* The rule of one SecRule, or what it cannot be.
Translated(d, defaults, prefix, tier) ==
  LET Meant(said) == OperatorOf(said.name, said.arg, said.negated)
      OfActs(acts) == Assembled(d, acts, defaults \o acts, RuleIDOf(d), TargetsOf(SplitVariables(ArgAt(d, 1))),
                                Meant(ParseOperator(ArgAt(d, 2))), TransformsOf(acts), prefix, tier)
  IN  OfActs(ActsOf(d))

\* Mutation of Consumed: everything up to the next directive of another kind is the chain.
ConsumedOn(ds, i) ==
  LET ends == {j \in (i + 1)..Len(ds) : ds[j].name # "secrule"}
      last == IF ends = {} THEN Len(ds) ELSE Min(ends) - 1
  IN  IF Len(ds[i].args) >= 2 /\ HasAction(ActsOf(ds[i]), "chain") THEN last - i ELSE 0

\* A chain is skipped whole: the SecRules behind its head up to the first without "chain".
Consumed(ds, i) ==
  LET ends == {j \in (i + 1)..Len(ds) : ds[j].name # "secrule" \/ ~HasAction(ActsOf(ds[j]), "chain")}
      last == IF ends = {} THEN Len(ds) ELSE IF ds[Min(ends)].name = "secrule" THEN Min(ends) ELSE Min(ends) - 1
  IN  IF Len(ds[i].args) >= 2 /\ HasAction(ActsOf(ds[i]), "chain") THEN last - i ELSE 0

\* As many numbers as a range removes at most.
RangeLimit == 100000

\* The numbers that SecRuleRemoveById names, one by one or as a range.
Removals(d) ==
  LET parts == FlattenSeq([k \in DOMAIN d.args |-> Fields(d.args[k])])
      dash == Code["-"]
      of(p) == LET lo == Number(Before(p, dash))
                   hi == IF \E i \in DOMAIN p : p[i] = dash THEN Number(Behind(p, dash)) ELSE lo
               IN  IF lo < 0 THEN {} ELSE lo..Min({hi, lo + RangeLimit - 1})
  IN  UNION {of(parts[k]) : k \in DOMAIN parts}

\* SecRuleUpdateTargetById: each exclusion is an exception; anything else is refused.
Updates(d) ==
  LET id == Number(TrimSpace(ArgAt(d, 1)))
      variables == SplitVariables(ArgAt(d, 2))
      of(v) == ExclusionOf(Rest(v, 1))
      good == {v \in Range(variables) : HasPrefixByte(v, Bang) /\ of(v).ok}
  IN  IF Len(d.args) < 2 \/ id < 0 THEN [exceptions |-> {}, refused |-> TRUE]
      ELSE [exceptions |-> {[id |-> id, kind |-> of(v).kind, key |-> of(v).key] : v \in good},
            refused |-> good # Range(variables)]
=============================================================================
