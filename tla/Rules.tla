------------------------------- MODULE Rules --------------------------------
(***************************************************************************)
(* Rules: the life of a ruleset.  A SecLang file is read, its removals are *)
(* collected, its directives translated one by one, the rules rendered as  *)
(* Go source and built again, or taken as they are, and compiled with the  *)
(* rules written in Go and their counterparts.                             *)
(*                                                                         *)
(* A file is a sequence of statements [lines, ...]; what a statement is    *)
(* meant to do is the statement's own record, which only the properties    *)
(* read.                                                                   *)
(***************************************************************************)
EXTENDS Seclang

CONSTANTS
  Files,      \* the files: sequences of statements
  Settings,   \* [prefix, conf, strict, maxRules, maxBytes, least]; conf is DefaultConfidence
  Authored,   \* the rules written in Go
  Probes      \* the values that the compiled rules are asked about

ASSUME RulesAssumption ==
  /\ \A f \in Files : /\ Len(f) \in Nat /\ DOMAIN f = 1..Len(f)
                     /\ \A k \in DOMAIN f : f[k].lines \in Seq(Seq(Int))
  /\ \A o \in Settings : o.prefix \in Nat /\ o.conf \in 1..5 /\ o.least \in Int
  /\ Authored \in Seq(Range(Authored))
  /\ \A r \in Range(Authored) : RuleShape(r) /\ r.from = 0
  /\ \A value \in Probes : value.bytes \in Seq(Int) /\ value.key \in Seq(Int)

VARIABLES
  file,
  opts,
  stage,        \* where the import is
  ds,           \* the directives
  at,           \* the next one
  removed,      \* compiler.removed
  exceptions,   \* report.Exceptions
  skipped,      \* report.Skipped: the directives left out, and why
  defaults,     \* SecDefaultAction
  gate,         \* the paranoia level, and the marker that ends it
  imported,     \* the rules so far
  ready,        \* the set that New compiles
  plan
vars == <<file, opts, stage, ds, at, removed, exceptions, skipped, defaults, gate, imported, ready, plan>>

NoGate == [level |-> 0, marker |-> <<>>]

Init ==
  /\ file \in Files
  /\ opts \in Settings
  /\ stage = "read" /\ ds = <<>> /\ at = 1
  /\ removed = {} /\ exceptions = {} /\ skipped = {} /\ defaults = <<>> /\ gate = NoGate
  /\ imported = <<>> /\ ready = <<>> /\ plan = <<>>

-----------------------------------------------------------------------------
LinesOf(f) == FlattenSeq([k \in DOMAIN f |-> f[k].lines])
SizeOf(lines) == FoldLeft(LAMBDA n, line : n + Len(line) + 1, 0, lines)

\* checkSize and parseAll.
Read ==
  LET parsed == Parse(LinesOf(file))
  IN  /\ stage = "read"
      /\ IF SizeOf(LinesOf(file)) <= opts.maxBytes /\ parsed.ok
         THEN stage' = "collect" /\ ds' = parsed.directives
         ELSE stage' = "refused" /\ ds' = <<>>
      /\ UNCHANGED <<file, opts, at, removed, exceptions, skipped, defaults, gate, imported, ready, plan>>

Skip(i, why) == [at |-> i, why |-> why]

\* Removals and exceptions may stand behind the rules they are about.
Collect ==
  LET named(names) == {i \in DOMAIN ds : ds[i].name \in names}
      updates == named({"secruleupdatetargetbyid"})
  IN  /\ stage = "collect"
      /\ stage' = "translate"
      /\ removed' = UNION {Removals(ds[i]) : i \in named({"secruleremovebyid"})}
      /\ exceptions' = UNION {Updates(ds[i]).exceptions : i \in updates}
      /\ skipped' = {Skip(i, "removal") : i \in named({"secruleremovebytag", "secruleremovebymsg"})}
                    \cup {Skip(i, "update") : i \in {j \in updates : Updates(ds[j]).refused}}
      /\ UNCHANGED <<file, opts, ds, at, defaults, gate, imported, ready, plan>>

-----------------------------------------------------------------------------
Reading(names) == stage = "translate" /\ at <= Len(ds) /\ ds[at].name \in names
Here == ds[at]
Onward(n) == at' = at + n /\ UNCHANGED <<file, opts, stage, ds, removed, ready, plan>>

Opened(d) == [level |-> GateLevel(d), marker |-> SkipsTo(d)[1]]

\* The rules up to the marker belong to the level; the gate is no rule itself.
OpenGate ==
  /\ Reading({"secrule"}) /\ GateLevel(Here) > 0
  /\ gate' = Opened(Here)
  /\ Onward(1)
  /\ UNCHANGED <<exceptions, skipped, defaults, imported>>

\* The cast keeps the number of the caller's tier, and seclang counts its tiers
\* from one where types counts from zero.
Tier == IF gate.level > 0 THEN TierOfLevel(gate.level) ELSE opts.conf

SecRule ==
  /\ Reading({"secrule"}) /\ GateLevel(Here) = 0
  /\ \E said \in {Translated(Here, defaults, opts.prefix, Tier)} :
       /\ imported' = imported \o said.rule
       /\ exceptions' = exceptions \cup said.exceptions
       /\ skipped' = IF said.why = "" THEN skipped ELSE skipped \cup {Skip(at, said.why)}
  /\ Onward(1 + Consumed(ds, at))
  /\ UNCHANGED <<defaults, gate>>

SecDefaultAction ==
  /\ Reading({"secdefaultaction"})
  /\ defaults' = IF Here.args = <<>> THEN defaults ELSE ActionsOf(Last(Here.args))
  /\ Onward(1)
  /\ UNCHANGED <<exceptions, skipped, gate, imported>>

\* Mutation of Closes: the first marker of any name ends the block.
ClosesAny(d, g) == d.args # <<>> /\ g.marker # <<>>

Closes(d, g) ==
  d.args # <<>> /\ g.marker # <<>> /\ Lowercased(Trim(d.args[1], Quotes)) = Lowercased(g.marker)

SecMarker ==
  /\ Reading({"secmarker"})
  /\ gate' = IF Closes(Here, gate) THEN NoGate ELSE gate
  /\ Onward(1)
  /\ UNCHANGED <<exceptions, skipped, defaults, imported>>

\* What the first pass has seen to.
Collected ==
  /\ Reading({"secruleremovebyid", "secruleremovebytag", "secruleremovebymsg"})
  /\ Onward(1)
  /\ UNCHANGED <<exceptions, skipped, defaults, gate, imported>>

Translatable == {"secrule", "secdefaultaction", "secmarker", "secruleremovebyid", "secruleremovebytag", "secruleremovebymsg"}

\* SecAction, configuration, inclusion, and everything unknown.
Untranslatable ==
  /\ stage = "translate" /\ at <= Len(ds) /\ Here.name \notin Translatable
  /\ skipped' = skipped \cup {Skip(at, "directive")}
  /\ Onward(1)
  /\ UNCHANGED <<exceptions, defaults, gate, imported>>

Spared(set, gone, prefix) == Those(set, {r \in Range(set) : r.id - prefix \notin gone})

\* Removals win; then checkRules, and what ParseStrict asks for.
Imported ==
  LET kept == Spared(imported, removed, opts.prefix)
  IN  /\ stage = "translate" /\ at > Len(ds)
      /\ imported' = kept
      /\ stage' = IF Len(kept) > opts.maxRules \/ (opts.strict /\ skipped # {}) THEN "refused" ELSE "imported"
      /\ UNCHANGED <<file, opts, ds, at, removed, exceptions, skipped, defaults, gate, ready, plan>>

-----------------------------------------------------------------------------
(* generate.go: an operator as the call that builds it.                      *)
Call(make, words, re) == [make |-> make, words |-> words, re |-> re]
NoCall == Call("", <<>>, NoPattern)

\* Mutation of Rendered: a negated pattern is written like a plain one.
RenderedPlain(op) ==
  LET lits == Literals(op)
  IN  CASE op.name = "rx" -> Call("MustRegex", <<>>, op.re)
        [] op.name \in {"contains", "equals", "has_prefix"} /\ Len(lits) = 1 -> Call(op.name, lits, NoPattern)
        [] op.name = "contains_any" /\ lits # <<>> -> Call(op.name, lits, NoPattern)
        [] op.name = "func" -> Call("detector", op.words, op.re)
        [] OTHER -> NoCall

Rendered(op) ==
  LET lits == Literals(op)
  IN  CASE op.name = "rx" -> Call(IF op.negated THEN "MustRegexNegated" ELSE "MustRegex", <<>>, op.re)
        [] op.name \in {"contains", "equals", "has_prefix"} /\ Len(lits) = 1 -> Call(op.name, lits, NoPattern)
        [] op.name = "contains_any" /\ lits # <<>> -> Call(op.name, lits, NoPattern)
        [] op.name = "func" -> Call("detector", op.words, op.re)
        [] OTHER -> NoCall

Called(call) ==
  CASE call.make \in {"MustRegex", "MustRegexNegated"} -> Rx(call.re, call.make = "MustRegexNegated")
    [] call.make = "contains" -> ContainsOne(call.words[1])
    [] call.make = "contains_any" -> ContainsAny(call.words)
    [] call.make = "equals" -> Equals(call.words[1])
    [] call.make = "has_prefix" -> HasPrefix(call.words[1])
    [] call.make = "detector" -> FuncOf(call.re, call.words)

Renderable(rule) ==
  Rendered(rule.op) # NoCall /\ \A k \in DOMAIN rule.chain : rule.chain[k] \in Range(SecTransforms)

\* The constants that the generated source names.
Regenerated(rule) ==
  [rule EXCEPT !.op = Called(Rendered(rule.op)),
               !.phase = IF rule.phase \in 1..4 THEN rule.phase ELSE 2,
               !.severity = IF rule.severity \in 1..3 THEN rule.severity ELSE 0,
               !.confidence = IF rule.confidence \in 1..4 THEN rule.confidence ELSE 0,
               !.action = IF rule.action \in {"block", "allow", "log"} THEN rule.action ELSE "score"]

\* gwaf-seclang convert, and the Go compiler on what it wrote.
Generate ==
  /\ stage = "imported"
  /\ IF \A k \in DOMAIN imported : Renderable(imported[k])
     THEN stage' = "generated" /\ ready' = [k \in DOMAIN imported |-> Regenerated(imported[k])]
     ELSE stage' = "refused" /\ ready' = <<>>
  /\ UNCHANGED <<file, opts, ds, at, removed, exceptions, skipped, defaults, gate, imported, plan>>

\* gwaf.New with the rules as they were read, or as they were generated.
New ==
  LET own == IF stage = "generated" THEN ready ELSE imported
      set == SelectByConfidence(WithResponsePhase(WithBodyPhase(Authored)) \o own, opts.least)
  IN  /\ stage \in {"imported", "generated"}
      /\ ready' = set
      /\ IF Valid(set, FALSE) THEN stage' = "compiled" /\ plan' = Compile(set) ELSE stage' = "refused" /\ plan' = <<>>
      /\ UNCHANGED <<file, opts, ds, at, removed, exceptions, skipped, defaults, gate, imported>>

Next ==
  \/ Read \/ Collect
  \/ OpenGate \/ SecRule \/ SecDefaultAction \/ SecMarker \/ Collected \/ Untranslatable
  \/ Imported \/ Generate \/ New

Spec == Init /\ [][Next]_vars

-----------------------------------------------------------------------------
(* What a file says, statement by statement, whatever its text looks like.   *)
StatementsOf(f) == SelectSeq(f, LAMBDA s : s.kind # "comment")
Statements == StatementsOf(file)
IsRule(k) == Statements[k].kind = "rule"
ChainLink(k) == \E j \in 1..(k - 1) : \A i \in j..(k - 1) : IsRule(i) /\ Statements[i].chained
TakenOut == UNION {Statements[k].removes : k \in DOMAIN Statements}
Numbered(set, id) == {k \in DOMAIN set : set[k].id = opts.prefix + id}

\* A file read as it is written: a directive for every statement, each of the
\* kind, the number, the level and the removals that the statement has, and
\* the marker of a gate spelled like the gate's in the markers that end it.
SaysSo(d, s) ==
  /\ d.name = "secrule" <=> s.kind \in {"rule", "gate"}
  /\ d.name = "secmarker" <=> s.kind = "marker"
  /\ s.kind = "rule" => GateLevel(d) = 0 /\ RuleIDOf(d) = s.id /\ (s.chained => Len(d.args) >= 2)
  /\ s.kind = "gate" => GateLevel(d) = s.level /\ s.level > 0 /\ SkipsTo(d)[1] # <<>>
  /\ s.kind = "marker" => d.args # <<>>
  /\ d.name = "secrule" => (HasAction(ActsOf(d), "chain") <=> s.kind = "rule" /\ s.chained)
  /\ d.name = "secruleremovebyid" => Removals(d) = s.removes
  /\ s.removes # {} => d.name = "secruleremovebyid"

ReadsAs(said, statements) ==
  /\ DOMAIN said = DOMAIN statements
  /\ \A k \in DOMAIN statements : SaysSo(said[k], statements[k])
  /\ \A g, k \in DOMAIN statements :
       statements[g].kind = "gate" /\ statements[k].kind = "marker" =>
         (Lowercased(Trim(said[k].args[1], Quotes)) = Lowercased(SkipsTo(said[g])[1])
            <=> statements[k].marker = statements[g].marker)

Readings == {[file |-> f, said |-> Parse(LinesOf(f))] : f \in Files}
ReadAsWritten == \A r \in Readings : r.said.ok => ReadsAs(r.said.directives, StatementsOf(r.file))

\* The tier of types that has the name of a tier of seclang's.
InTypes(conf) == conf - 1

\* The level of the last gate before k whose block is still open; 0 for none.
LevelAt(k) ==
  LET gates == {g \in 1..(k - 1) : Statements[g].kind = "gate" /\ ~ChainLink(g)}
      g == Max(gates)
      closed == \E i \in (g + 1)..(k - 1) :
                  Statements[i].kind = "marker" /\ Statements[i].marker = Statements[g].marker
  IN  IF gates = {} \/ closed THEN 0 ELSE Statements[g].level

\* ModSecurity fills these collections with decoded values.
FilledKinds == {"ARGS", "ARGS_NAMES"}
Filled(value) == IF value.kind \in FilledKinds THEN Slow("url_decode", value.bytes) ELSE value.bytes

\* The transformations of a statement, of those that the import leaves to the
\* readings of a value only whether they have anything to do.
ReadingSteps == {"remove_nulls", "html_entity_decode"}

Step(t, bytes) ==
  CASE t = "trim" -> TrimSpace(bytes) [] t \in ReadingSteps -> bytes [] OTHER -> Slow(t, bytes)
Touches(t, bytes) ==
  CASE t = "remove_nulls" -> 0 \in Range(bytes)
    [] t = "html_entity_decode" -> Code["&"] \in Range(bytes)
    [] OTHER -> Step(t, bytes) # bytes

Applied(steps, bytes) == FoldLeft(LAMBDA v, t : Step(t, v), bytes, steps)

\* What the statement is meant to match.
Meant(s, value) ==
  /\ \E t \in s.reads : t.kind = value.kind /\ t.key \in {<<>>, Lower(value.key)}
  /\ Matches(s.want, Applied(s.steps, Filled(value))) # s.negated

Anchored(re) == \E k \in DOMAIN re : re[k].op \in {"begin", "end"}

\* Where the import is narrower and a comment says that it is not, or leaves it
\* to the readings: nulls, entities and a second decoding; a trim that matters
\* after all, before an anchored or negated operator or a further step; a raw
\* collection decoded because the rule reads a decoded one as well; and an
\* escaped quote that stays in the argument of @contains.
Excepted(s, value) ==
  \/ s.escaped
  \/ /\ value.kind \notin FilledKinds /\ \E t \in s.reads : t.kind \in DecodedKinds
     /\ Touches("url_decode", value.bytes)
  \/ \E k \in DOMAIN s.steps :
       /\ Touches(s.steps[k], Applied(SubSeq(s.steps, 1, k - 1), Filled(value)))
       /\ \/ s.steps[k] \in ReadingSteps
          \/ s.steps[k] = "url_decode" /\ k = 1 /\ value.kind \in FilledKinds
          \/ s.steps[k] = "trim" /\ (Anchored(s.want) \/ s.negated \/ k < Len(s.steps))

Compiled == stage = "compiled"

\* A rule that was imported fires on everything its directive was written to
\* match after its own transformations, the named exceptions aside: what cannot
\* be said is refused, never approximated (operator, transforms,
\* withArgDecoding, lexArgs and the plan behind them).
NeverNarrower ==
  Compiled =>
    \A k \in DOMAIN Statements : \A n \in Numbered(ready, Statements[k].id) : \A value \in Probes :
      (IsRule(k) /\ Meant(Statements[k], value) /\ ~Excepted(Statements[k], value) /\ AsciiKeyed(ready[n].op)) =>
        ready[n].id \in Fired(plan, ready[n].phase, value)

\* A rule behind a paranoia gate carries the tier of the gate's level until
\* the marker of that gate, and no longer; any other carries the tier above the
\* one that the caller named, since the cast keeps the number (run, confidence).
ParanoiaTier ==
  \A k \in DOMAIN Statements : \A n \in Numbered(imported, Statements[k].id) :
    (IsRule(k) /\ Cardinality({j \in DOMAIN Statements : Statements[j].id = Statements[k].id}) = 1) =>
      imported[n].confidence = IF LevelAt(k) > 0 THEN TierOfLevel(LevelAt(k)) ELSE InTypes(opts.conf) + 1

\* Every rule of the file is imported, removed, part of a chain or reported;
\* none that the file removes is imported, wherever the removal stands; and a
\* strict import that succeeds has left nothing out (collectRemovals, secRule,
\* skip, ParseSourcesStrict).
EveryRuleAccounted ==
  stage \in {"imported", "generated", "compiled"} =>
    /\ \A k \in DOMAIN Statements : (IsRule(k) /\ ~ChainLink(k)) =>
         \/ Numbered(imported, Statements[k].id) # {}
         \/ Statements[k].id \in TakenOut
         \/ ~opts.strict /\ \E s \in skipped : s.at = k
    /\ \A id \in TakenOut : Numbered(imported, id) = {}

\* The plan fires the rules that hold by themselves and no others: neither the
\* literals the prefilter keys on, nor the groups, nor a resolver that is not
\* asked lose one, but for a pattern with a literal beyond ASCII, which may be
\* keyed on bytes that no match contains (Compile, Literals, extractLiterals).
PlanExact ==
  Compiled =>
    \A value \in Probes : \A phase \in Phases :
      LET holding == {r \in Range(ready) : r.phase = phase /\ Holds(r, value)}
      IN  /\ Fired(plan, phase, value) \subseteq {r.id : r \in holding}
          /\ {r.id : r \in {q \in holding : AsciiKeyed(q.op)}} \subseteq Fired(plan, phase, value)

\* The generated source is the imported ruleset: the same numbers, phases and
\* tiers, and every operator decides every value alike (Generate, renderOperator).
\* A tier that types does not have is written as the lowest.
GeneratedSame ==
  stage = "generated" =>
    /\ Len(ready) = Len(imported)
    /\ \A k \in DOMAIN ready :
         /\ [ready[k] EXCEPT !.op = NoPattern, !.confidence = 0] = [imported[k] EXCEPT !.op = NoPattern, !.confidence = 0]
         /\ ready[k].confidence = IF imported[k].confidence \in 0..4 THEN imported[k].confidence ELSE 0
         /\ \A value \in Probes : Eval(ready[k].op, value.bytes) = Eval(imported[k].op, value.bytes)

\* The counterpart of a rule fires on a body for what the rule itself is after
\* in a query string, and for no more: values where it reads values, names
\* where it reads names (bodyTargetsFor, withBodyPhase, withResponsePhase).
\* Patterns with literals beyond ASCII are PlanExact's exception here too.
CounterpartExact ==
  Compiled =>
    \A value \in Probes : \A r \in {q \in Range(Authored) : q.confidence >= opts.least /\ AsciiKeyed(q.op)} :
      LET holds == Eval(r.op, Transformed(r.chain, value.bytes))
      IN  /\ (r.phase = 1 /\ ReadsArgs(r)) =>
               (r.id + BodyOffset \in Fired(plan, 2, value)
                <=> holds /\ \/ ReadsValues(r) /\ value.kind \in {"ARGS", "REQUEST_BODY"}
                             \/ ReadsNames(r) /\ value.kind = "ARGS_NAMES")
          /\ (r.phase = 1 /\ ~ReadsArgs(r)) => \A q \in Range(ready) : q.from # r.id
          /\ r.phase = 3 =>
               (r.id + ResponseOffset \in Fired(plan, 4, value)
                <=> holds /\ value.kind \in {"RESPONSE_HEADERS", "RESPONSE_BODY"})

=============================================================================
