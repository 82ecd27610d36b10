------------------------------ MODULE Compiler ------------------------------
(***************************************************************************)
(* rules/compile.go: a set of rules validated, ordered and laid out as a   *)
(* plan: per phase the groups of rules that share a transform chain, each  *)
(* with its literals and the rules that run regardless.  A rule is         *)
(* [id, from, phase, targets, chain, op, action, severity, confidence,     *)
(* msg, tags].                                                             *)
(***************************************************************************)
EXTENDS Operators, Transforms

CONSTANT UserMin   \* the first number an embedder's rules may have

Phases == 1..5   \* request headers and body, response headers and body, logging

\* The phase in which a kind first holds data.
BodyKinds == {"ARGS_POST", "REQUEST_BODY", "FILES_NAMES", "ARGS_JOINED"}
ResponseKinds == {"RESPONSE_STATUS", "RESPONSE_HEADERS", "RESPONSE_HEADER_NAMES"}
EarlyKinds == {"REQUEST_METHOD", "REQUEST_URI", "REQUEST_PATH", "REQUEST_PROTOCOL", "REQUEST_LINE",
               "REQUEST_HEADERS", "REQUEST_HEADER_NAMES", "ARGS", "ARGS_NAMES", "ARGS_GET",
               "REQUEST_COOKIES", "REQUEST_COOKIE_NAMES", "REMOTE_ADDR", "RESOLVED"}
Kinds == EarlyKinds \cup BodyKinds \cup ResponseKinds \cup {"RESPONSE_BODY"}

KindPhase(kind) ==
  IF kind \in BodyKinds THEN 2 ELSE IF kind \in ResponseKinds THEN 3
  ELSE IF kind = "RESPONSE_BODY" THEN 4 ELSE 1

CaseInsensitiveKeys(kind) ==
  kind \in {"REQUEST_HEADERS", "REQUEST_HEADER_NAMES", "RESPONSE_HEADERS", "RESPONSE_HEADER_NAMES",
            "REQUEST_COOKIES", "REQUEST_COOKIE_NAMES"}

\* A resolved name selects a whole collection or one key of it.
MatchesBytes(target, key) ==
  \/ target.name = <<>>
  \/ IF target.kind = "RESOLVED"
     THEN key = target.name \/ LiesAt(key, 1, Append(target.name, Dot))
     ELSE IF CaseInsensitiveKeys(target.kind) THEN Lower(key) = Lower(target.name)
     ELSE key = target.name

TargetMatches(rule, value) ==
  \E k \in DOMAIN rule.targets :
    rule.targets[k].kind = value.kind /\ MatchesBytes(rule.targets[k], value.key)

\* What the Go types of a rule's fields say of them.
RuleShape(r) ==
  /\ r \in [id: Int, from: Int, phase: Int, targets: Seq([kind: STRING, name: Seq(Int)]), chain: Seq(STRING),
             op: Operations, action: STRING, severity: Int, confidence: Int, msg: Seq(Int), tags: Seq(Seq(Int))]
  /\ OperatorShape(r.op)

-----------------------------------------------------------------------------
\* What validate finds wrong with the rule at k.
Faults(set, k, userOnly) ==
  LET r == set[k]
      kinds == {r.targets[t].kind : t \in DOMAIN r.targets}
  IN  IF r.id = 0 \/ \E j \in 1..(k - 1) : set[j].id = r.id THEN {"ID"}
      ELSE {f \in {"ID", "Phase", "Targets", "Op", "Transforms", "Severity", "Confidence"} :
              CASE f = "ID" -> userOnly /\ r.id < UserMin
                [] f = "Phase" -> r.phase \notin Phases
                [] f = "Targets" -> r.targets = <<>> \/ ~(kinds \subseteq Kinds)
                                    \/ (r.phase \in Phases /\ \E kind \in kinds : KindPhase(kind) > r.phase)
                [] f = "Op" -> r.op.name = "nil"
                [] f = "Transforms" -> \E t \in DOMAIN r.chain : r.chain[t] \notin TransformNames
                [] f = "Severity" -> r.severity \notin 0..3
                [] f = "Confidence" -> r.confidence \notin 0..4}

Valid(set, userOnly) == \A k \in DOMAIN set : Faults(set, k, userOnly) = {}

\* By phase and then by number, however the set was assembled.
Precedes(a, b) == a.phase < b.phase \/ (a.phase = b.phase /\ a.id < b.id)
Placed(sorted, r) == InsertAt(sorted, 1 + Max({0} \cup {k \in DOMAIN sorted : ~Precedes(r, sorted[k])}), r)
Sorted(set) == FoldLeft(Placed, <<>>, set)

KindsOf(rule) == {rule.targets[t].kind : t \in DOMAIN rule.targets}

\* The rules of one phase and one chain, in order, with what the prefilter knows of them.
Group(rules, chain) ==
  LET own == Those(rules, {r \in Range(rules) : r.chain = chain})
  IN  [chain |-> chain, rules |-> own, keys |-> [k \in DOMAIN own |-> Literals(own[k].op)],
       unconditional |-> {k \in DOMAIN own : Literals(own[k].op) = <<>>},
       targets |-> UNION {KindsOf(own[k]) : k \in DOMAIN own}]

\* Every rule of the phase does what a rule of an earlier phase did.
AllMirrors(rules, set, phase) ==
  /\ rules # <<>>
  /\ \A k \in DOMAIN rules : \E j \in DOMAIN set :
       /\ set[j].id = rules[k].from /\ set[j].phase < phase
       /\ set[j].op = rules[k].op /\ set[j].chain = rules[k].chain

ResolverSegment(name) == SubSeq(name, 1, FirstIn(name, {Dot}) - 1)

PhasePlan(set, phase) ==
  LET rules == Those(Sorted(set), {r \in Range(set) : r.phase = phase})
      resolved(r) == {ResolverSegment(r.targets[t].name) :
                        t \in {u \in DOMAIN r.targets : r.targets[u].kind = "RESOLVED"}}
  IN  [groups |-> {Group(rules, rules[k].chain) : k \in DOMAIN rules},
       resolved |-> UNION {resolved(rules[k]) : k \in DOMAIN rules},
       mirrorsOnly |-> AllMirrors(rules, set, phase)]

Compile(set) == [phase \in Phases |-> PhasePlan(set, phase)]

NeedsResolver(plan, phase, name) == plan[phase].resolved \cap {name, <<>>} # {}

-----------------------------------------------------------------------------
\* stages.apply: a transform that does not apply leaves the value.
Transformed(chain, bytes) ==
  FoldLeft(LAMBDA v, t : IF Needed(t, v) THEN Slow(t, v) ELSE v, bytes, chain)

\* What the prefilter lets through: rules one of whose literals is in the value, and the others.
Candidates(group, bytes) ==
  group.unconditional
  \cup {k \in DOMAIN group.rules : \E l \in DOMAIN group.keys[k] :
          group.keys[k][l] # <<>> /\ IndexFold(bytes, Lower(group.keys[k][l])) > 0}

\* A resolver is asked for its values only when the phase has a rule for them.
Present(plan, phase, value) ==
  value.kind = "RESOLVED" => NeedsResolver(plan, phase, ResolverSegment(value.key))

\* The rules that fire on a value through the plan, by number.
Fired(plan, phase, value) ==
  LET fires(g) == LET bytes == Transformed(g.chain, value.bytes)
                  IN  {g.rules[k].id : k \in {c \in Candidates(g, bytes) :
                         TargetMatches(g.rules[c], value) /\ Eval(g.rules[c].op, bytes)}}
  IN  UNION {fires(g) : g \in {h \in plan[phase].groups : value.kind \in h.targets /\ Present(plan, phase, value)}}

\* The rule taken by itself.
Holds(rule, value) ==
  TargetMatches(rule, value) /\ Eval(rule.op, Transformed(rule.chain, value.bytes))

-----------------------------------------------------------------------------
(***************************************************************************)
(* What is made of a set of rules before it is compiled: core.go gives a   *)
(* rule that reads arguments a counterpart in the body phase and a         *)
(* response rule one for the response body; waf.go leaves out rules below  *)
(* the least confidence and reports rules that see less than they seem to. *)
(***************************************************************************)
BodyOffset == 900
ResponseOffset == 100

All(kind) == [kind |-> kind, name |-> <<>>]

ReadsValues(rule) == \E k \in DOMAIN rule.targets : rule.targets[k] = All("ARGS")
ReadsNames(rule) == \E k \in DOMAIN rule.targets : rule.targets[k].kind = "ARGS_NAMES"
ReadsArgs(rule) == ReadsValues(rule) \/ ReadsNames(rule)

\* Mutation of BodyTargetsFor: every counterpart reads all there is.
BodyTargets(rule) == <<All("ARGS"), All("REQUEST_BODY"), All("ARGS_NAMES")>>

\* Never more than the original read.
BodyTargetsFor(rule) ==
  (IF ReadsValues(rule) THEN <<All("ARGS"), All("REQUEST_BODY")>> ELSE <<>>)
  \o (IF ReadsNames(rule) THEN <<All("ARGS_NAMES")>> ELSE <<>>)

MirrorToBody(rule) ==
  [rule EXCEPT !.id = @ + BodyOffset, !.from = rule.id, !.phase = 2, !.targets = BodyTargetsFor(rule)]

Mirrors(chosen, Mirror(_)) == [k \in DOMAIN chosen |-> Mirror(chosen[k])]

WithBodyPhase(set) ==
  set \o Mirrors(Those(set, {r \in Range(set) : r.phase = 1 /\ ReadsArgs(r)}), MirrorToBody)

MirrorToResponse(rule) ==
  [rule EXCEPT !.id = @ + ResponseOffset, !.phase = 4,
               !.targets = <<All("RESPONSE_HEADERS"), All("RESPONSE_BODY")>>]

WithResponsePhase(set) ==
  set \o Mirrors(Those(set, {r \in Range(set) : r.phase = 3}), MirrorToResponse)

SelectByConfidence(set, least) == Those(set, {r \in Range(set) : r.confidence >= least})
=============================================================================
