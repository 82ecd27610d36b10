---------------------------- MODULE Transaction ----------------------------
(***************************************************************************)
(* One request (and its response) inspected by gwaf: the type Transaction  *)
(* of transaction.go and the derived collections of views.go.              *)
(*                                                                         *)
(* An embedder hands over the parts of a request by calling the methods    *)
(* below, and asks for a decision at four phase boundaries.  Every method  *)
(* is one action.  What a rule would find in a value is the value's        *)
(* "content"; the engine's walk over the values is the operator Eval (its  *)
(* own steps are the module Engine).  The bytes themselves, their keys and *)
(* the wording of a decision are abstracted away.                          *)
(***************************************************************************)
EXTENDS Integers, Sequences, FiniteSets, SequencesExt

CONSTANTS
  Configs,          \* the deployments: see Config
  MaxHeaders, MaxArgs, MaxBodySize, MaxValueLen,    \* Limits of options.go
  Threshold,        \* the anomaly score that blocks
  JoinScanLimit,    \* joinArgScanLimit
  Lines, Headers, Arguments, Bodies,   \* what a client sends
  Chunks, Samples,  \* what an origin answers and a resolver supplies
  MaxCalls,         \* bound: calls that hand over data, per request
  MaxAnyCalls       \* bound: calls of any kind by an embedder without an order

(* What rules find in a value: nothing, half of a payload, a scoring rule, a    *)
(* terminal block or allow rule, or more readings than the engine enumerates. *)
Severities == {"benign", "half", "score", "block", "allow", "ambiguous"}
RequestPhases  == {"RequestHeaders", "RequestBody"}
ResponsePhases == {"ResponseHeaders", "ResponseBody"}
Phases == RequestPhases \cup ResponsePhases
ResponseKinds == {"status", "respheader", "respbody"}
Views == {"argsget", "argspost", "joined", "cookie"}

(* mode, failMode, schema and excepted (the rules an exception suppresses)  *)
(* come from WAF options; mirrorsOnly, views (the derived collections some  *)
(* rule reads) and resolvedIn (the phases with a rule reading the resolver) *)
(* from the compiled ruleset.  ordered says whether the embedder follows    *)
(* the documented order of calls or calls anything at any time.             *)
Config == [mode : {"blocking", "detection_only"},
           failMode : {"fail_closed", "fail_open"},
           schema : {"none", "open", "closed"},
           excepted : SUBSET {"score", "block", "allow"},
           mirrorsOnly : BOOLEAN, views : SUBSET Views,
           resolvedIn : SUBSET Phases,
           arena : Nat,      \* MaxArenaSize
           fuel : Nat,       \* the fuel limit; 0 is unmetered
           ordered : BOOLEAN]

(* An operation of the schema: whether it declares fields of a body, the    *)
(* names it requires there, whether undeclared fields are refused, whether  *)
(* a body is.                                                               *)
Operation == [strict : BOOLEAN, noBody : BOOLEAN, typed : BOOLEAN,
              required : SUBSET STRING]

(* One argument or body field; the name may be empty, as in "?=value".      *)
(* field: how it relates to its declaration.                                *)
(* key: what a rule finds in its name.  hidden: what base64 in it decodes   *)
(* to ("none" when it is not base64); the query does not decode.            *)
Argument == [name : STRING, content : Severities, size : Nat,
             field : {"undeclared", "invalid", "inert", "text"},
             key : Severities, hidden : Severities \cup {"none"}]

Line   == [bodyless : BOOLEAN, op : SUBSET Operation, content : Severities,
           args : Seq(Argument)]
Header == [name : STRING,
           framing : {"none", "zero", "length", "badlength", "transfer", "badtransfer"},
           content : Severities, size : Nat, cookies : Nat]
Body   == [size : Nat, undecodable : BOOLEAN, fields : Seq(Argument),
           raw : Seq(Severities)]
Chunk  == [size : Nat, content : Severities]     \* also a resolved value, a response header

ASSUME ConstantsAssumption ==
  /\ \A c \in Configs : c \in Config
  /\ {MaxHeaders, MaxArgs, MaxBodySize, MaxValueLen, JoinScanLimit, MaxCalls,
      MaxAnyCalls} \subseteq Nat
  /\ Threshold \in Nat \ {0}
  /\ Lines \subseteq Line /\ Headers \subseteq Header /\ Arguments \subseteq Argument
  /\ Bodies \subseteq Body /\ Chunks \subseteq Chunk /\ Samples \subseteq Chunk

VARIABLES
  cfg,         \* the configuration in force (rigid)
  stage,       \* where an ordered embedder stands
  calls,       \* calls that handed over data
  store,       \* [values, arena, oversize, unkeyed, dropped]: the recorded values, the
               \* bytes of the arena, and the kinds of the values found too large for
               \* MaxValueLen under a key, under an empty key, or refused by the arena
               \* (history, but for what Noted reads)
  counts,      \* [headers, args, body]: headerCount, argCount, bodyLen
  framing,     \* [bodyless, lengths, first, transfer, conflict, heard]
  route,       \* [op, violation, seen]: matched operation, violation, bodySeen
  marks,       \* [body, query, headerViews, bodyViews]: bodyStart, queryEnd, ...
  undecodable, \* a content encoding could not be undone
  reply,       \* [start, len, total, end, truncated, content]: response body
  resolver,    \* [state, content, size]
  fuel,        \* fuel spent
  score,       \* anomaly score
  decided, decision,   \* the recorded terminal decision
  returned,    \* what the last phase call returned
  inspected    \* per phase, the values some rule was run on (history)

vars == <<cfg, stage, calls, store, counts, framing, route, marks, undecodable,
          reply, resolver, fuel, score, decided, decision, returned, inspected>>

-----------------------------------------------------------------------------
(* Decisions *)

NoMatch == [verdict |-> "allow", reason |-> "no_match"]

\* blockDecision, framingAmbiguous, schemaViolation: softened by the mode only.
Refuse(reason) ==
  [verdict |-> IF cfg.mode = "detection_only" THEN "allow" ELSE "block", reason |-> reason]

\* Mutation of Undone: the fail mode forgotten.
UndoneAllows(reason) == [verdict |-> "allow", reason |-> reason]

\* limitExceeded, oversizeExceeded, undecodableBody, undecidable, budgetExhausted:
\* analysis was not completed, so the fail mode decides.
Undone(reason) ==
  [verdict |-> IF cfg.failMode = "fail_closed" /\ cfg.mode = "blocking"
               THEN "block" ELSE "allow",
   reason  |-> reason]

Finish(d) == decided' = TRUE /\ decision' = d /\ returned' = d

Decision == IF decided THEN decision ELSE NoMatch

-----------------------------------------------------------------------------
(* Recording values *)

Value(kind, content, size) ==
  [kind |-> kind, content |-> content, size |-> size, inert |-> FALSE,
   name |-> "", cookies |-> 0, of |-> 0, from |-> "call"]

Push(s, v) == [s EXCEPT !.values = Append(@, v)]

\* The key a value is recorded under is not empty: the line, the address, the status and
\* a body inspected whole have none, an argument, field or header has its own name.
Keyed(v) ==
  /\ v.kind \notin {"line", "addr", "body", "status"}
  /\ v.kind \in {"arg", "header"} => v.name # ""

\* noteOversize, called with the key of a value too large: an empty key is no note.
NoteOversize(s, v) ==
  IF Keyed(v) THEN [s EXCEPT !.oversize = @ \cup {v.kind}]
  ELSE [s EXCEPT !.unkeyed = @ \cup {v.kind}]

\* recordString, recordBytes, recordFieldBytes: too large is noted, no room in
\* the arena is not.
Put(s, v) ==
  IF v.size > MaxValueLen THEN NoteOversize(s, v)
  ELSE IF s.arena + v.size > cfg.arena THEN [s EXCEPT !.dropped = @ \cup {v.kind}]
  ELSE Push([s EXCEPT !.arena = @ + v.size], v)

\* Mutation of Noted: a value too large is forgotten.
NotedNever(s) == FALSE

\* oversizeKey # "": some value was found too large under a key.
Noted(s) == s.oversize # {}

PutAll(s, items) ==
  LET put[k \in 0..Len(items)] == IF k = 0 THEN s ELSE Put(put[k - 1], items[k])
  IN  put[Len(items)]

\* The members of vs at the places S, in their order.
Picked(vs, S) ==
  LET pick[k \in 0..Len(vs)] ==
        IF k = 0 THEN <<>>
        ELSE IF k \in S THEN Append(pick[k - 1], vs[k]) ELSE pick[k - 1]
  IN  pick[Len(vs)]

\* What rules find in several values laid end to end: two halves of a payload
\* make a whole one.
Combined(contents) ==
  LET In(c) == \E i \in DOMAIN contents : contents[i] = c
      halves == {i \in DOMAIN contents : contents[i] = "half"}
  IN  IF In("block") \/ Cardinality(halves) > 1 THEN "block"
      ELSE IF In("ambiguous") THEN "ambiguous"
      ELSE IF In("score") THEN "score"
      ELSE IF In("allow") THEN "allow"
      ELSE IF In("half") THEN "half" ELSE "benign"

SizeOf(group) ==
  LET sum[k \in 0..Len(group)] == IF k = 0 THEN 0 ELSE sum[k - 1] + group[k].size
  IN  sum[Len(group)]

ContentsOf(group) == [i \in DOMAIN group |-> group[i].content]

\* Mutation of Joined: the reading of an origin that keeps the last value only.
JoinedLast(kind, group) ==
  IF group = <<>> THEN Value(kind, "benign", 0)
  ELSE Value(kind, group[Len(group)].content, group[Len(group)].size)

Joined(kind, group) ==
  Value(kind, Combined(ContentsOf(group)), SizeOf(group))

IsArg(v) == v.kind = "arg"

\* joinDuplicateArgs: one more argument per name that occurs twice or more, its values
\* joined with commas.
Duplicates(vs) ==
  LET lo == IF marks.body < 0 THEN 0 ELSE marks.body
      Same(i) == {j \in lo + 1 .. Len(vs) : IsArg(vs[j]) /\ vs[j].name = vs[i].name}
      firsts == {i \in lo + 1 .. Len(vs) :
                   /\ IsArg(vs[i]) /\ vs[i].name # "" /\ Same(i) # {i}
                   /\ \A j \in Same(i) : i <= j}
      joined == [i \in DOMAIN vs |->
                   LET group == Picked(vs, Same(i))
                   IN  [Joined("arg", group) EXCEPT
                          !.size = @ + Len(group) - 1, !.name = vs[i].name, !.from = "join"]]
  IN  IF Len(vs) - lo > JoinScanLimit THEN <<>> ELSE Picked(joined, firsts)

-----------------------------------------------------------------------------
(* The schema: checkSchema and checkBodySchema *)

\* The operation as checkBodySchema consults it: not at all without body fields.
BodyOf(op) == {o \in op : o.typed}

Offends(a, op) == \E o \in op : a.field = "invalid" \/ (a.field = "undeclared" /\ o.strict)

AnyOffends(args, op) == \E i \in DOMAIN args : Offends(args[i], op)

ArgValue(a, op, from) ==
  [Value("arg", a.content, a.size) EXCEPT
     !.inert = (op # {} /\ a.field = "inert"), !.name = a.name, !.from = from]

NameValue(a) == Value("argname", a.key, 1)

\* AddArgument, over a sequence of arguments: past MaxArgs they are only counted.
Kept(args) == SubSeq(args, 1, Min({Len(args), MaxArgs - counts.args}))

ArgItems(args, op, from) ==
  FlattenSeq([i \in DOMAIN args |-> <<ArgValue(args[i], op, from), NameValue(args[i])>>])

\* recordArgName and recordValueBytes: what base64 hides is recorded too.
FieldItems(fields, op) ==
  FlattenSeq([i \in DOMAIN fields |->
    LET a == fields[i]
    IN  <<NameValue(a)>>
        \o (IF a.hidden = "none" THEN <<>>
            ELSE <<[Value("arg", a.hidden, a.size) EXCEPT !.name = a.name, !.from = "body"]>>)
        \o <<ArgValue(a, op, "body")>>])

-----------------------------------------------------------------------------
(* The derived collections of views.go *)

View(vs, i, kind) == [vs[i] EXCEPT !.kind = kind, !.of = i, !.from = "view"]

PushAll(s, items) == [s EXCEPT !.values = @ \o items]

\* Mutation of QueryCut: the header phase leaves no mark.
QueryCutAtEnd(query, n) == n

\* queryCut, given queryEnd and the number of values.
QueryCut(query, n) ==
  LET end == IF query < 0 THEN n ELSE query
  IN  IF marks.body >= 0 /\ marks.body < end THEN marks.body ELSE end

\* copyArgs over values[from:to].
Copies(vs, from, to, kind) ==
  Picked([i \in DOMAIN vs |-> View(vs, i, kind)], {i \in from + 1 .. to : IsArg(vs[i])})

\* recordCookies over values[:end].
Cookies(vs, end) ==
  FlattenSeq([i \in 1..end |->
    [k \in 1..vs[i].cookies |-> [View(vs, i, "cookie") EXCEPT !.cookies = 0]]])

TooManyCookies(s, query) ==
  /\ ~marks.headerViews /\ "cookie" \in cfg.views
  /\ Len(Cookies(s.values, QueryCut(query, Len(s.values)))) > MaxArgs

HeaderViews(s, query) ==
  LET end == QueryCut(query, Len(s.values))
      cookies == Cookies(s.values, end)
  IN  IF marks.headerViews THEN s
      ELSE PushAll(s,
             (IF "argsget" \in cfg.views THEN Copies(s.values, 0, end, "argsget") ELSE <<>>)
             \o (IF "cookie" \in cfg.views
                 THEN SubSeq(cookies, 1, Min({Len(cookies), MaxArgs})) ELSE <<>>))

BodyViews(s, query) ==
  LET vs   == s.values
      whole == Joined("joined", Picked(vs, {i \in DOMAIN vs : IsArg(vs[i])}))
      post == IF "argspost" \in cfg.views
              THEN Copies(vs, QueryCut(query, Len(vs)), Len(vs), "argspost") ELSE <<>>
  IN  IF marks.bodyViews THEN s
      ELSE IF "joined" \in cfg.views /\ whole.size > 0 THEN Put(PushAll(s, post), whole)
      ELSE PushAll(s, post)

-----------------------------------------------------------------------------
(* Evaluating a phase *)

\* The rules of a phase read the collections of its side of the exchange.
Reads(phase, kind) ==
  IF kind = "resolved" THEN phase \in cfg.resolvedIn
  ELSE (kind \in ResponseKinds) <=> (phase \in ResponsePhases)

(* Evaluator.Eval over vs[lo+1..]: values in order, one unit of fuel each,   *)
(* until the fuel is out, a value is too ambiguous to read, or a terminal   *)
(* rule fires.  seen are the values some rule was run on.                   *)
Eval(phase, vs, lo) ==
  LET live == {i \in lo + 1 .. Len(vs) : ~vs[i].inert}
      Starved(i) == cfg.fuel > 0
                    /\ fuel + Cardinality({j \in live : j <= i}) > cfg.fuel
      Fires(i, c) == vs[i].content = c /\ Reads(phase, vs[i].kind)
      Ends(i) == Starved(i) \/ vs[i].content = "ambiguous"
                 \/ Fires(i, "block") \/ Fires(i, "allow")
      ends == {i \in live : Ends(i)}
      stop == IF ends = {} THEN Len(vs) + 1 ELSE Min(ends)
      why == IF ends = {} THEN "end"
             ELSE IF Starved(stop) THEN "exhausted" ELSE vs[stop].content
      seen == {i \in live : i < stop \/ (i = stop /\ why \in {"block", "allow"})}
  IN  [why |-> why, seen |-> seen,
       score |-> Cardinality({i \in seen : Fires(i, "score")}),
       spent |-> Cardinality({i \in live : i <= stop})]

\* What runPhase makes of a result once applyExceptions has dropped the
\* suppressed hits; total is the anomaly score including this phase.
Outcome(r, total) ==
  IF r.why = "exhausted" THEN Undone("budget")
  ELSE IF r.why = "ambiguous" THEN Undone("undecidable")
  ELSE IF r.why = "allow" /\ "allow" \notin cfg.excepted
       THEN [verdict |-> "allow", reason |-> "rule"]
  ELSE IF r.why = "block" /\ "block" \notin cfg.excepted THEN Refuse("rule")
  ELSE IF total >= Threshold THEN Refuse("threshold")
  ELSE NoMatch

\* Mutations of Window: the body phase starts one value late, or at the start
\* although its rules only mirror the header phase.
WindowLate(phase, start) ==
  IF phase \in ResponsePhases THEN start
  ELSE IF phase = "RequestBody" /\ marks.body > 0 /\ cfg.mirrorsOnly THEN marks.body + 1
  ELSE 0

WindowWhole(phase, start) == IF phase \in ResponsePhases THEN start ELSE 0

\* Where the values of a phase start: the slices runPhase takes.
Window(phase, start) ==
  IF phase \in ResponsePhases THEN start
  ELSE IF phase = "RequestBody" /\ marks.body > 0 /\ cfg.mirrorsOnly THEN marks.body
  ELSE 0

\* runPhase, runResolvers included, over the recorded values s.
RunPhase(phase, s, start) ==
  IF decided
  THEN /\ store' = s /\ returned' = decision
       /\ UNCHANGED <<resolver, fuel, score, decided, decision, inspected>>
  ELSE LET asks == resolver.state = "registered" /\ phase \in cfg.resolvedIn
           t == IF asks THEN Put(s, Value("resolved", resolver.content, resolver.size)) ELSE s
           r == Eval(phase, t.values, Window(phase, start))
           total == score + (IF "score" \in cfg.excepted THEN 0 ELSE r.score)
           d == Outcome(r, total)
       IN  /\ store' = t
           /\ resolver' = IF asks THEN [resolver EXCEPT !.state = "done"] ELSE resolver
           /\ fuel' = IF cfg.fuel = 0 THEN 0 ELSE fuel + r.spent
           /\ score' = total
           /\ inspected' = [inspected EXCEPT ![phase] = @ \cup r.seen]
           /\ IF d = NoMatch
              THEN returned' = d /\ UNCHANGED <<decided, decision>>
              ELSE Finish(d)

\* A phase that ends before its rules: s is what it recorded until then.
Stop(d, s) ==
  /\ Finish(d) /\ store' = s
  /\ UNCHANGED <<resolver, fuel, score, inspected>>

-----------------------------------------------------------------------------
(* The embedder *)

At(stages) == cfg.ordered => stage \in stages

\* A call that hands over data.
Supply(stages) ==
  /\ At(stages)
  /\ calls < (IF cfg.ordered THEN MaxCalls ELSE MaxAnyCalls)
  /\ calls' = calls + 1

\* A call that asks for a decision; an ordered embedder stops when refused.
Ask(from, to) ==
  /\ At({from})
  /\ IF cfg.ordered THEN calls' = calls ELSE calls < MaxAnyCalls /\ calls' = calls + 1
  /\ stage' = IF ~cfg.ordered THEN stage
              ELSE IF returned'.verdict = "block" THEN "done" ELSE to

Judgement == <<resolver, fuel, score, decided, decision, returned, inspected>>

SetRemoteAddr ==
  /\ Supply({"line"})
  /\ store' = Put(store, Value("addr", "benign", 1))
  /\ UNCHANGED <<cfg, stage, counts, framing, route, marks, undecodable, reply, Judgement>>

SetRequestLine(l) ==
  LET found == cfg.schema # "none" /\ l.op # {}
      op    == IF found THEN l.op ELSE route.op
      args  == Kept(l.args)
      put   == PutAll(Put(store, Value("line", l.content, 1)), ArgItems(args, op, "line"))
  IN  /\ Supply({"line"})
      /\ stage' = IF cfg.ordered THEN "headers" ELSE stage
      /\ store' = PutAll(put, Duplicates(put.values))
      /\ counts' = [counts EXCEPT !.args = @ + Len(l.args)]
      /\ framing' = [framing EXCEPT !.bodyless = l.bodyless]
      /\ route' = [route EXCEPT !.op = op,
                     !.violation = @ \/ (cfg.schema = "closed" /\ ~found) \/ AnyOffends(args, op)]
      /\ UNCHANGED <<cfg, marks, undecodable, reply, Judgement>>

AddArgument(a) ==
  LET args == Kept(<<a>>)
  IN  /\ Supply({"headers"})
      /\ store' = PutAll(store, ArgItems(args, route.op, "call"))
      /\ counts' = [counts EXCEPT !.args = @ + 1]
      /\ route' = [route EXCEPT !.violation = @ \/ AnyOffends(args, route.op)]
      /\ UNCHANGED <<cfg, stage, framing, marks, undecodable, reply, Judgement>>

\* noteFraming; heard keeps every framing header received, for the properties.
NoteFraming(kind) ==
  CASE kind = "none" -> framing
    [] kind = "transfer" -> [framing EXCEPT !.transfer = TRUE]
    [] kind = "badtransfer" -> [framing EXCEPT !.transfer = TRUE, !.conflict = TRUE]
    [] kind = "badlength" -> [framing EXCEPT !.lengths = @ + 1, !.conflict = TRUE]
    [] kind \in {"zero", "length"} ->
         IF framing.lengths = 0
         THEN [framing EXCEPT !.lengths = 1, !.first = kind]
         ELSE [framing EXCEPT !.lengths = @ + 1, !.conflict = @ \/ kind # framing.first]

AddRequestHeader(h) ==
  /\ Supply({"headers"})
  /\ counts' = [counts EXCEPT !.headers = @ + 1]
  /\ LET noted == IF counts.headers >= MaxHeaders THEN framing ELSE NoteFraming(h.framing)
     IN  framing' = [noted EXCEPT !.heard = @ \cup {h.framing}]
  /\ store' = IF counts.headers >= MaxHeaders THEN store
              ELSE Put(store, [Value("header", h.content, h.size) EXCEPT
                                 !.name = h.name, !.cookies = h.cookies])
  /\ UNCHANGED <<cfg, stage, route, marks, undecodable, reply, Judgement>>

AddResolver(c) ==
  /\ Supply({"headers"})
  /\ resolver.state = "none"
  /\ resolver' = [state |-> "registered", content |-> c.content, size |-> c.size]
  /\ UNCHANGED <<cfg, stage, store, counts, framing, route, marks, undecodable, reply,
                 fuel, score, decided, decision, returned, inspected>>

\* Mutation of Ambiguous: the method is compared in the wrong case.
AmbiguousAnyMethod == framing.conflict \/ (framing.transfer /\ framing.lengths > 0)

\* The conflicts ProcessRequestHeaders adds to those noteFraming recorded.
Ambiguous ==
  \/ framing.conflict
  \/ framing.transfer /\ framing.lengths > 0
  \/ framing.bodyless /\ (framing.transfer \/ (framing.lengths > 0 /\ framing.first = "length"))

ProcessRequestHeaders ==
  LET query == IF marks.query < 0 THEN Len(store.values) ELSE marks.query
      viewed == HeaderViews(store, query)
      Enter(built) == marks' = [marks EXCEPT !.query = query, !.headerViews = @ \/ built]
  IN  /\ IF counts.headers > MaxHeaders THEN Enter(FALSE) /\ Stop(Undone("limit"), store)
         ELSE IF Ambiguous THEN Enter(FALSE) /\ Stop(Refuse("desync"), store)
         ELSE IF Noted(store) THEN Enter(FALSE) /\ Stop(Undone("limit"), store)
         ELSE IF route.violation THEN Enter(FALSE) /\ Stop(Refuse("schema"), store)
         ELSE IF TooManyCookies(store, query) THEN Enter(TRUE) /\ Stop(Undone("limit"), viewed)
         ELSE Enter(TRUE) /\ RunPhase("RequestHeaders", viewed, 0)
      /\ framing' = [framing EXCEPT
                       !.conflict = @ \/ (counts.headers <= MaxHeaders /\ Ambiguous)]
      /\ Ask("headers", "body")
      /\ UNCHANGED <<cfg, counts, route, undecodable, reply>>

SetRequestBody(b) ==
  LET op == BodyOf(route.op)
      Declared(i) == op # {} /\ b.fields[i].field # "undeclared"
  IN  /\ Supply({"body"})
      /\ cfg.ordered => marks.body < 0
      /\ marks' = [marks EXCEPT !.body = IF @ < 0 THEN Len(store.values) ELSE @]
      /\ counts' = [counts EXCEPT !.body = b.size]
      /\ IF b.size > MaxBodySize
         THEN UNCHANGED <<store, route, undecodable>>
         ELSE /\ undecodable' = (undecodable \/ b.undecodable)
              /\ store' = PutAll(store, FieldItems(b.fields, op)
                           \o [i \in DOMAIN b.raw |-> Value("body", b.raw[i], b.size)])
              /\ route' = [route EXCEPT
                    !.violation = @ \/ AnyOffends(b.fields, op),
                    !.seen = @ \cup {b.fields[i].name : i \in
                               {k \in DOMAIN b.fields : Declared(k)}}]
      /\ UNCHANGED <<cfg, stage, framing, reply, Judgement>>

ProcessRequestBody ==
  LET missing == \E o \in BodyOf(route.op) : ~(o.required \subseteq route.seen)
      invalid == route.violation \/ missing
      viewed  == HeaderViews(store, marks.query)
      both    == BodyViews(viewed, marks.query)
      Built(header, body) ==
        marks' = [marks EXCEPT !.headerViews = @ \/ header, !.bodyViews = @ \/ body]
      Checked(v) == route' = [route EXCEPT !.violation = v]
  IN  /\ IF counts.body > MaxBodySize
         THEN Built(FALSE, FALSE) /\ UNCHANGED route /\ Stop(Undone("limit"), store)
         ELSE IF counts.body > 0 /\ \E o \in route.op : o.noBody
         THEN /\ Built(FALSE, FALSE) /\ UNCHANGED route
              /\ Stop([verdict |-> "block", reason |-> "schema"], store)
         ELSE IF invalid
         THEN Built(FALSE, FALSE) /\ Checked(TRUE) /\ Stop(Refuse("schema"), store)
         ELSE IF counts.args > MaxArgs
         THEN Built(FALSE, FALSE) /\ UNCHANGED route /\ Stop(Undone("limit"), store)
         ELSE IF TooManyCookies(store, marks.query)
         THEN Built(TRUE, FALSE) /\ UNCHANGED route /\ Stop(Undone("limit"), viewed)
         ELSE /\ Built(TRUE, TRUE) /\ UNCHANGED route
              /\ IF Noted(both) THEN Stop(Undone("limit"), both)
                 ELSE IF undecodable THEN Stop(Undone("undecidable"), both)
                 ELSE RunPhase("RequestBody", both, 0)
      /\ Ask("body", "response")
      /\ UNCHANGED <<cfg, counts, framing, undecodable, reply>>

-----------------------------------------------------------------------------
(* The response *)

\* Mutation of Marked: the window moves with every call.
MarkedAgain == [reply EXCEPT !.start = Len(store.values)]

\* markResponse
Marked == [reply EXCEPT !.start = IF @ < 0 THEN Len(store.values) ELSE @]

SetResponseStatus(c) ==
  /\ Supply({"response"})
  /\ reply' = Marked
  /\ store' = Put(store, Value("status", c.content, 1))
  /\ UNCHANGED <<cfg, stage, counts, framing, route, marks, undecodable, Judgement>>

\* Also between two chunks, where a trailer arrives.
AddResponseHeader(c) ==
  /\ Supply({"response", "chunks"})
  /\ reply' = Marked
  /\ store' = Put(store, Value("respheader", c.content, c.size))
  /\ UNCHANGED <<cfg, stage, counts, framing, route, marks, undecodable, Judgement>>

ProcessResponseHeaders ==
  /\ reply' = Marked
  /\ RunPhase("ResponseHeaders", store, Marked.start)
  /\ Ask("response", "chunks")
  /\ UNCHANGED <<cfg, counts, framing, route, marks, undecodable>>

\* The body is kept one span: anything recorded since the last chunk makes
\* appendResponseChunk copy it to the end of the arena.
WriteResponseBody(c) ==
  LET total == reply.total + c.size
      moved == reply.len > 0 /\ reply.end # store.arena
      need  == IF moved THEN reply.len + c.size ELSE c.size
  IN  /\ Supply({"chunks"})
      /\ IF total > MaxBodySize \/ store.arena + need > cfg.arena
         THEN /\ reply' = [Marked EXCEPT !.total = total, !.truncated = TRUE]
              /\ store' = store
              /\ Finish(Undone("limit"))
         ELSE /\ reply' = [Marked EXCEPT !.total = total, !.len = @ + c.size,
                             !.end = store.arena + need,
                             !.content = Combined(<<@, c.content>>)]
              /\ store' = [store EXCEPT !.arena = @ + need]
              /\ returned' = Decision
              /\ UNCHANGED <<decided, decision>>
      /\ stage' = IF cfg.ordered /\ returned'.verdict = "block" THEN "done" ELSE stage
      /\ UNCHANGED <<cfg, counts, framing, route, marks, undecodable,
                     resolver, fuel, score, inspected>>

ProcessResponseBody ==
  /\ reply' = Marked
  /\ IF reply.truncated THEN Stop(Undone("limit"), store)
     ELSE LET recorded ==
                IF reply.len = 0 THEN store
                ELSE IF reply.len > MaxValueLen THEN [store EXCEPT !.oversize = @ \cup {"respbody"}]
                ELSE Push(store, Value("respbody", reply.content, reply.len))
          IN  RunPhase("ResponseBody", recorded, Marked.start)
  /\ Ask("chunks", "done")
  /\ UNCHANGED <<cfg, counts, framing, route, marks, undecodable>>

-----------------------------------------------------------------------------
NewStore == [values |-> <<>>, arena |-> 0, oversize |-> {}, unkeyed |-> {}, dropped |-> {}]
NewFraming == [bodyless |-> FALSE, lengths |-> 0, first |-> "none", transfer |-> FALSE,
               conflict |-> FALSE, heard |-> {}]
NewRoute == [op |-> {}, violation |-> FALSE, seen |-> {}]
NewMarks == [body |-> -1, query |-> -1, headerViews |-> FALSE, bodyViews |-> FALSE]
NewReply == [start |-> -1, len |-> 0, total |-> 0, end |-> 0, truncated |-> FALSE,
             content |-> "benign"]

Init ==
  /\ cfg \in Configs
  /\ stage = "line" /\ calls = 0
  /\ store = NewStore
  /\ counts = [headers |-> 0, args |-> 0, body |-> 0]
  /\ framing = NewFraming /\ route = NewRoute /\ marks = NewMarks
  /\ undecodable = FALSE /\ reply = NewReply
  /\ resolver = [state |-> "none", content |-> "benign", size |-> 0]
  /\ fuel = 0 /\ score = 0
  /\ decided = FALSE /\ decision = NoMatch /\ returned = NoMatch
  /\ inspected = [p \in Phases |-> {}]

\* Close, and the reset NewTransaction does when the pool hands the transaction
\* out again.
Reset ==
  /\ stage' = "line" /\ calls' = 0
  /\ store' = NewStore
  /\ counts' = [headers |-> 0, args |-> 0, body |-> 0]
  /\ framing' = NewFraming /\ route' = NewRoute /\ marks' = NewMarks
  /\ undecodable' = FALSE /\ reply' = NewReply
  /\ resolver' = [state |-> "none", content |-> "benign", size |-> 0]
  /\ fuel' = 0 /\ score' = 0
  /\ decided' = FALSE /\ decision' = NoMatch /\ returned' = NoMatch
  /\ inspected' = [p \in Phases |-> {}]
  /\ UNCHANGED cfg

Next ==
  \/ SetRemoteAddr
  \/ \E l \in Lines : SetRequestLine(l)
  \/ \E h \in Headers : AddRequestHeader(h)
  \/ \E a \in Arguments : AddArgument(a)
  \/ \E c \in Samples : AddResolver(c)
  \/ ProcessRequestHeaders
  \/ \E b \in Bodies : SetRequestBody(b)
  \/ ProcessRequestBody
  \/ \E c \in Samples : SetResponseStatus(c)
  \/ \E c \in Samples : AddResponseHeader(c)
  \/ ProcessResponseHeaders
  \/ \E c \in Chunks : WriteResponseBody(c)
  \/ ProcessResponseBody
  \/ Reset

Spec == Init /\ [][Next]_vars
-----------------------------------------------------------------------------
(* Properties *)

Verdicts == [verdict : {"allow", "block"},
             reason : {"no_match", "rule", "threshold", "limit", "budget",
                       "undecidable", "desync", "schema"}]

\* The request phases are over and the request goes on to the origin.
Forwarded == cfg.ordered /\ stage \in {"response", "chunks"}

Enforcing == cfg.mode = "blocking"
Strictest == Enforcing /\ cfg.failMode = "fail_closed"

\* Values too large for MaxValueLen that no request phase answers for: those of the
\* response and those a resolver supplies, which runPhase records after the check.
Unanswered == ResponseKinds \cup {"resolved"}

\* A request the embedder described beyond what gwaf may inspect in full.  Two losses no
\* boundary sees are excepted: a value too large under an empty key (TooLargeIsDecision
\* says more) and a value the arena has no room for.
Breach ==
  \/ counts.headers > MaxHeaders \/ counts.args > MaxArgs \/ counts.body > MaxBodySize
  \/ undecodable \/ route.violation
  \/ store.oversize \ Unanswered # {}

\* Every value of the request was looked at by some rule or is inert.
NothingUnread ==
  \A i \in DOMAIN store.values :
    LET v == store.values[i]
    IN  v.inert \/ v.kind \in ResponseKinds \/ \E p \in Phases : i \in inspected[p]

\* When ProcessRequestBody reports no_match, nothing recorded of the request went unread
\* and nothing the limits, the decoders or the schema stopped was quietly passed over,
\* but for the losses Breach excepts.
\* An exception for a terminal rule is left out: the walk stops there all the same.
CleanMeansInspected ==
  Forwarded /\ ~decided /\ cfg.excepted \cap {"allow", "block"} = {} =>
    ~Breach /\ NothingUnread

\* With fail-closed blocking no breach reaches the origin, whatever rule,
\* exception or allow decision came before it.
FailClosedRefuses == Strictest /\ Forwarded => ~Breach

\* Findings a rule reports once: the header phase and a body phase made of
\* generated counterparts never count the same value twice (compile.go:147).  The two
\* response phases, whose rules are no counterparts, are left out.
Evidence == {i \in DOMAIN store.values :
               store.values[i].content = "score" /\ ~store.values[i].inert}

BeforeResponse == cfg.ordered /\ cfg.mirrorsOnly /\ inspected["ResponseBody"] = {}

CountedOnce == BeforeResponse /\ marks.body > 0 => score <= Cardinality(Evidence)

\* Two readers of the headers received can end the request at different bytes.
TwoBoundaries ==
  LET H == framing.heard
  IN  \/ {"badlength", "badtransfer"} \cap H # {}
      \/ {"zero", "length"} \subseteq H
      \/ "transfer" \in H /\ {"zero", "length"} \cap H # {}
      \/ framing.bodyless /\ {"transfer", "length"} \cap H # {}

\* An ambiguous boundary is refused before the body is read in every fail mode,
\* provided the headers fit the limit.
FramingNotSoftened ==
  cfg.ordered /\ Enforcing /\ counts.headers <= MaxHeaders /\ TwoBoundaries =>
    stage \in {"line", "headers", "done"}

\* options.go:25: detection-only reports and does not enforce.  The one refusal
\* left is a body sent to an operation that declares none.
DetectionOnlyForwards ==
  cfg.ordered /\ cfg.mode = "detection_only" /\ decision.verdict = "block" =>
    /\ decision.reason = "schema" /\ counts.body > 0 /\ \E o \in route.op : o.noBody

\* ARGS_GET and ARGS_POST split the arguments between them: never both, in any
\* order of calls, and always one of them for a request that was forwarded clean.
ViewsPartitionArguments ==
  LET Viewed(i, kind) ==
        \E k \in DOMAIN store.values : store.values[k].kind = kind /\ store.values[k].of = i
  IN  \A i \in {k \in DOMAIN store.values : IsArg(store.values[k])} :
        /\ ~(Viewed(i, "argsget") /\ Viewed(i, "argspost"))
        /\ Forwarded /\ ~decided /\ {"argsget", "argspost"} \subseteq cfg.views =>
             Viewed(i, "argsget") \/ Viewed(i, "argspost")

\* A payload split over two arguments is found: over any two when some rule reads
\* ARGS_JOINED, over two of one name in the query always.
SplitPayloadRefused ==
  LET Half(i) == LET v == store.values[i] IN IsArg(v) /\ v.content = "half" /\ v.size > 0
      Meet(i, j) == \/ "joined" \in cfg.views
                    \/ /\ store.values[i].name = store.values[j].name /\ store.values[i].name # ""
                       /\ store.values[i].from = "line" /\ store.values[j].from = "line"
  IN  Forwarded /\ Enforcing /\ ~decided /\ store.dropped = {}
        /\ Len(store.values) <= JoinScanLimit /\ cfg.excepted \cap {"allow", "block"} = {} =>
      \A i, j \in DOMAIN store.values : i # j /\ Half(i) /\ Half(j) => ~Meet(i, j)

\* A response reported clean was read whole: its status and headers in some
\* response phase, and every byte the origin wrote as one body, however trailers
\* were interleaved with its chunks.
ResponseReadWhole ==
  /\ cfg.ordered /\ stage = "done" /\ ~decided /\ store.oversize \cap ResponseKinds = {}
  /\ cfg.excepted \cap {"allow", "block"} = {} /\ store.dropped = {}
  => LET read == inspected["ResponseHeaders"] \cup inspected["ResponseBody"]
     IN  /\ \A i \in DOMAIN store.values : store.values[i].kind \in ResponseKinds => i \in read
         /\ reply.total > 0 =>
              \E i \in read : /\ store.values[i].kind = "respbody"
                              /\ store.values[i].size = reply.total

\* In the strictest deployment a refusal stands until the transaction is reused,
\* whatever is called after it and in whatever order.
RefusalIsFinal ==
  [][Strictest /\ decided /\ decision.verdict = "block" =>
       Reset \/ (decided' /\ decision'.verdict = "block")]_vars

\* options.go:85, MaxValueLen: "Exceeding it is a decision, never a truncation"; of the
\* values of the request, recorded before its last boundary.
TooLargeIsDecision ==
  Forwarded /\ ~decided => (store.oversize \cup store.unkeyed) \ Unanswered = {}

=============================================================================
