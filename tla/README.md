# A verification project for gwaf

gwaf is an embeddable web application firewall: a Go library that is handed the
parts of an HTTP exchange, evaluates rules over them and answers with a
decision.  This directory holds TLA+ models of it, TLC configurations that check
them on small instances, and theorems about them that TLAPS checks for every
instance.  Paths below are relative to `src/`.

Running it:

    tlc -workers 2 -config Transaction.cfg TransactionMC
    tlapm TransactionProofs.tla

## Inventory

| component | state | operations | what makes it hard | correct when |
|---|---|---|---|---|
| Transaction (`transaction.go`, `views.go`) | recorded values, counters, framing notes, matched operation, marks into the values, response body, score, decision | the setters, four `Process…`, `WriteResponseBody`, `Close` | an embedder may call anything at any time; every phase has up to seven early returns; indexes into the values are taken in one call and used in another; two modes and two fail modes soften different decisions | a clean verdict means everything was inspected; a breach is never forwarded when failing closed; a refusal stands |
| WAF (`waf.go`) | active ruleset (atomic pointer), `sync.Pool` of transactions | `New`, `SwapRuleset`, `NewTransaction`, `Close` | goroutines, swaps between any two steps, buffers recycled across rulesets | one owner per transaction and no more than its calls of `Close` make, one plan per request, nothing carried over |
| Evaluator, fuel (`internal/engine`, `internal/budget`) | readings, stages of the transform chains, candidate set, meter, result | `Eval`, `evalRule`, `stages.apply`, `Reset`, `Spend` | intermediate results shared between chains by position, buffers reused by every value, three ways to stop early, charges at the boundary | findings are those of a naive evaluation; work is bounded |
| Arena, spans (`internal/memz`, `types/span.go`, `refreshValues`) | a backing array that doubles, values as spans and as slices of it | `Alloc`, `Append`, `Grow`, `Reset`, the `record…` methods | growth abandons the array that slices point to; a recycled array is dirty; a response body is one span that must move | nothing recorded ever changes; nothing above the limit |
| Prefilter, bitset (`internal/prefilter`, `internal/bitset`) | automaton; words and their bounds | `Add`, `Build`, `Scan`; `Grow`, `Add`, `Union`, `Reset`, `All` | failure and dictionary links; bounds that hide a bit | exactly the rules with a literal in the value |
| Scan windows (`internal/scan`) | position in a value | `Windows`, the detectors' `Eval` | a match across two windows; a step of zero | nothing near is missed; it ends |
| Readings (`internal/interpret`) | list of readings, truncated | `Detect`, `Build` | runs on bytes still percent-encoded; a cap | an encoding named by a class hides nothing |
| Transforms (`rules/transform`) | – | 20 `Apply`, `MaxOutputLen` | the quick look must agree with the slow path; rewriting in one pass | output bounded; a path, an address in one form |
| Body parsers, decompression (`internal/body`, `recordBody`) | path, stack, counts, what was emitted | one per format, `Decompress`, `ExtractText` | malformed input; limits in the middle; wrapping in any order | every leaf recorded, or the whole read as text |
| Operators, patterns (`rules/op`, `rules/op/rx`) | – | `Eval`, `Literals`, `requiredLiterals` | a literal that is not required keeps a rule from running | a match always has one of the literals |
| Compiler, counterparts (`rules/compile.go`, `ruleset/core`) | plan per phase | `Compile`, `validate`, `WithBodyPhase`, … | order of groups, mirrors, unconditional rules | the plan fires what the rules say |
| SecLang importer (`seclang`) | position, defaults, gate, removals, report | `parse`, `run`, `secRule`, `Generate` | directives act on others before or behind them; whatever cannot be said must be refused | nothing imported is narrower but where it is known to be, nothing dropped in silence |
| net/http middleware (`middleware/http.go`) | response buffer, blocked, passthrough, header written | `serve`, `captureBody`, the writer's methods | the handler mixes calls freely; verdicts come at five moments; bodies around the limit | the handler sees the whole request, the client the whole response or the block page only |
| Telemetry, audit (`telemetry`, `audit`) | atomic counters, maps under a mutex; sinks | `Observe`, `Snapshot`, `Reset`; `Write` | goroutines, a failing sink | every decision counted once and written everywhere |
| Schema (`schema`) | operations, fields | `Lookup`, `FieldFor`, `Validate`, `MissingRequired` | defaults of unknown fields | declared means checked |
| Detectors, tables of rules, importers, calibration, adapters, proxy, command line | – | functions, tables, wiring | – | – |

**Interaction.** An adapter or the middleware asks the WAF for a transaction,
hands it the request, asks at each phase boundary and obeys the answer.  A body
is unwrapped and parsed into values; values are recorded in the arena.  A phase
of the transaction records derived views, slices its values and calls its
evaluator, which walks values × readings × chain groups of the compiled plan,
lets the prefilter choose the rules and charges the transaction's meter.  The
transaction turns the result into a decision by its mode and fail mode, and tells
`OnDecision`, behind which telemetry and audit usually stand.  The only state
shared by goroutines is the ruleset pointer, the pool, the metrics and the sinks.
The rules come from Go or from SecLang files, and pass through the same compiler.

## Modules

| run | modules, from the top | proofs |
|---|---|---|
| `transaction`, `oversize` | `TransactionMC`, `Transaction` | `TransactionProofs` |
| `pool` | `PoolMC`, `Pool` | `ReportingProofs`, second part |
| `engine` | `EngineMC`, `Engine` | `EngineProofs` |
| `middleware` | `MiddlewareMC`, `Middleware` | `EngineProofs`, second part |
| `arena` | `ArenaMC`, `Arena`, which implements `ValueStore` | `ArenaProofs` |
| `prefilter` | `PrefilterMC`, `Prefilter` with `Bitset`, which implements `Candidates` | `PrefilterProofs` |
| `scanning` | `ScanningMC`, `Scanning` | `PrefilterProofs`, second part |
| `reporting` | `ReportingMC`, `Reporting` | `ReportingProofs` |
| `body` | `BodyMC`, `Body`, `Multipart` (forms too), `Framing` (compression, gRPC, protobuf), `Json`, `Xml`, `Parser` (what they share, and text in binaries) | – |
| `text` | `TextMC`, `Text`, `Ambiguity`, `Transforms`, `Hosts`, `Octets` | `TextProofs`, over `TransformsProofs` |
| `rules` | `RulesMC`, `Rules`, `Seclang`, `Lexer`, `Compiler` (counterparts too), `Operators` (patterns too), `Transforms`, `Octets` | `RulesProofs`, over `TransformsProofs` |

Two models that are proved about in one module have different names for what both have:
`ScanSpec`, `PoolSpec` and `ExchangeSpec` are the specifications of `Scanning`, `Pool` and
`Middleware`, with `scanVars`, `poolVars`, `exchangeVars` and so on.

### Transaction

One action per exported method that changes state, each the whole method.  The
variables are groups of the struct's fields: `store` the values, the bytes taken
of the arena and the kinds found too large; `counts` the three counters; `framing` what
`noteFraming` remembers; `route` the matched operation, `violation` and
`bodySeen`; `marks` the indexes `bodyStart` and `queryEnd` and the two done
flags of the views; `reply` the response's mark and body; `resolver`, `fuel`,
`score`, `decided`, `decision`.  `inspected`, `returned`, `store.dropped`,
`store.unkeyed` and `framing.heard` are history that only properties read.

The note of a value too large is the key it has (`NoteOversize`), so one without a key
leaves none.  `Keyed` says which have one: not the request line, the address, the status or
a body inspected whole, and not an argument, form or JSON value or header whose
name is empty, which clients may send.  `Noted` is whether `oversizeKey` is set.

What the rules would find in a value is the value's `content`: nothing, half of
a payload that only makes a whole one with another half, something that scores,
something that blocks or allows at once, or more readings than the evaluator
enumerates.  This is what lets the model tell inspecting a value from not
inspecting it.  `Eval` is the evaluator's walk in one step, a unit of fuel a
value; its own steps are the module `Engine`, the parsers' are `Body`.  Bodies
arrive as the fields their parser emits, headers as the framing they declare.
A key is empty or not and has no size; the name of an argument, recorded as a value of its own, is
one byte, so that an over-long name is not modelled; nested base64 is one level deep.  A request is described by one
operation of the schema at most.

An embedder is *ordered* when it follows the documented sequence and stops when
refused, as the middleware does, or calls anything at any time, as the library
allows (`cfg.ordered`).  Properties of what is forwarded to the origin speak of
the ordered one; `RefusalIsFinal` of both.

### Pool

`NewTransaction` is two steps and `Close` is two, because `sync.Pool` and the
atomic pointer are separate operations that other goroutines may come between.
`Drop` is the garbage collector.  `pooled` counts how often a transaction lies in the pool,
because every `Close` puts it there: after its first, its owner may call `Close` again, as
the comment allows, up to `MaxRepeats` times, while another goroutine may have taken it already.
A phase of a transaction that another owner has closed meets a nil plan, and the program
panics; the model stops there.  Values carry the goroutine that recorded
them, so a leak from one request to another is visible.  `room` is the capacity
of the candidate bitset, the one thing a pooled transaction keeps on purpose.

### Engine

`pc` is where `Eval` stands in its three nested loops.  `stages.step[n]` names
the buffer that holds the state after `n` transforms: that a transform which
changes nothing leaves its result in an earlier buffer, or in the source, is
what makes the sharing of prefixes delicate, and the model keeps it.  Bytes are
members of `Data`; transforms, decodings, automaton and operators are functions
of it given as constants, with the one assumption the code states about them: a
literal an operator declares is found wherever the operator matches.  (The run `rules`
shows that the operators keep it, `prefilter` that the automaton does.)  The plan is one phase's; the evaluator is used again for the next phase
and the next transaction with whatever its buffers hold.

### Middleware

The four phases answer with any verdict the transaction could give.  A request is the bytes
that arrive of its body, its `Content-Length`, if it has one, and whether the body breaks off.
`conn` is the body on the connection, `buf` what `captureBody` has of it, read byte by byte
(`ReadAll`) to one byte over the limit, and `body` the request's `Body` and `ContentLength`:
what it holds in memory, whether the connection follows, the length.  `Captured` is the rest of
`captureBody` with `restore`.  The handler reads the body a byte at a time (`ReadBody`, into
`got`), where it likes and as far as it likes.  It
writes chunks numbered by `sent`, in any mixture with `Flush`,
`Hijack`, `ReadFrom` and `WriteHeader`.  `wire` is what the client is sent;
`reports` what `OnDecision` hears.  `streamed` records that the handler used one
of the calls that give up inspection (`Flush`, `Hijack`, `ReadFrom`).

### Arena and ValueStore

`Arena` is `memz.Arena` with its users.  Memory is a sequence of backing arrays:
growing appends one, and a value recorded before keeps slices (`at`) into an
older one until `RefreshValues`, which is why a phase calls it first.  A byte
that was never written in this array is whatever the array held.  Offsets are
taken modulo `SpanMod`, the width of `types.Span`.  `ValueStore` is the store an
embedder imagines: values that keep what they were recorded with, cookies and
joins that are cut from them, a response body that is its chunks.  Under the
mapping `Store`, which reads each value *through its recorded slices*, every
step of `Arena` is a step of `ValueStore` (`StoreImplemented`, proved for every
size of the arena in `ArenaProofs`).  A slice left
pointing into an abandoned or recycled array, a copy that loses bytes, or a
moved response body break it.

### Prefilter, Bitset and Candidates

A state of the automaton is the text that leads to it, so that goto, failure and
dictionary links can be compared with their definition; `Build` still computes
the links breadth first, and `Scan` follows them, byte by byte.  `Bitset` keeps
the words and the bounds `loWord` and `hiWord`; the model's set outlives a scan,
is grown, united and cleared.  `Candidates` has neither: it is the set of the
rules one of whose literals occurs in the value, as far as the set has room.
`CandidatesImplemented` is the refinement.

### Scanning

`Windows` and `OverlapFor` are arithmetic; `Analyze` is one turn of a detector's
`Eval`.  A signal is local to where it lies and is seen by a window that holds it
whole.

### Reporting

Each atomic add, load and compare-and-swap of `Observe`, each line under the
mutex, each sink's lock and each half of a line is a step.  `Order` in which a
snapshot reads the counters and a reset stores them is a constant, as the struct
and the code fix it.

### Body

A client builds a body symbol by symbol; `SetRequestBody` undoes the content
encoding, chooses a parser, and falls back to text.  A parser works on a
record of its position, path, depth, counts, emissions and error, and stops
where the code stops.  A symbol is one byte, or a few that the parsers only ever
treat as one (a media type, four hex digits, a varint); each module's head lists
its own.  The parsers are recursive operators, so these modules have no theorems.

### Text

`Detect`, `Build` and every transform over bytes, driven as the evaluator drives
them: a value's readings one by one, each through a rule's chain, compared with
what the origin means by the bytes.  `Hosts` reads addresses with parts of
`ByteRange` values in place of 256.

### Rules

The life of a ruleset: lines of SecLang are lexed byte by byte, removals and
target updates are collected in a first pass, the second translates a directive a
step; then the set is rendered as Go and read back, or taken as it is, joined with
rules written in Go and their counterparts, validated and compiled to a plan.
A statement carries, beside its lines, what its author means by it
(`reads`, `want`, `negated`, `steps`, `level`, `removes`), which only the properties read;
`steps` are its own transformations, which `Meant` applies before it asks for `want`.
`opts.conf` is the tier the caller names, with the numbers seclang gives tiers, 1 to 5.
A pattern is a syntax tree, written as the sequence of its nodes with each node behind the
nodes under it, so that a walk over the tree is a fold over the sequence: `Ends` says what a
node matches from what the nodes before it match, and `RequiredAt` and `PrefixesAt` are the
code's walk, node by node and for every depth it can have.  `Those` picks the elements of
a sequence that lie in a set.

## Runs and properties

| run | checks | bounds |
|---|---|---|
| `transaction` | `CleanMeansInspected`, `FailClosedRefuses`, `CountedOnce`, `FramingNotSoftened`, `ViewsPartitionArguments`, `SplitPayloadRefused`, `ResponseReadWhole`, `RefusalIsFinal` | four calls that hand over data; limits of two headers, two arguments, four body bytes, three bytes a value; seven deployments |
| `pool` | `OneOwner`, `PlanIsCurrent`, `CandidatesFit` | two goroutines, two transactions, each closed once more at most, two plans of different size |
| `engine` | `StepsSound`, `FindingsExact`, `WorkBounded` | six data, three transforms, chains up to three, seven fuel limits, two phases |
| `middleware` | `BodyIntact`, `NothingUnseen`, `ResponseInOrder`, `InspectedFirst`, `OutcomeReported` | bodies of 0 to 4 bytes around a limit of 2, with a length and without, breaking off within the limit and beyond, read by the handler anywhere; chunks of 1 and 2 around a buffer of 3, four writes |
| `arena` | `CapacityBounded`, `StoreImplemented` | arrays of 3, 6, 12 under a limit of 14, retained up to 8, four calls |
| `prefilter` | `CandidatesImplemented` | every value up to four characters, four literals a set, words of two bits |
| `scanning` | `NothingMissed`, `ScanEnds` | lengths to 29, windows of 0 to 26, overlaps of 1 to 3, signals at every place |
| `reporting` | `CountedExactly`, `RecordedEverywhere`, `EverythingReported` | two goroutines, three decisions, one of them allowed with a score and no rule, two sinks, one snapshot at a time, one reset |
| `body` | `LeavesRecorded`, `PayloadSeen`, `AcceptsExactly` | documents in every format, bare and wrapped, each edit of one symbol, all JSON words up to a length, every limit met and passed |
| `text` | `EncodedRead`, `TransformContract`, `PathResolved`, `HostCanonical` | four payloads in every spelling of every class, all short words over each transform's special bytes, every address in every base and number of parts |
| `rules` | `NeverNarrower`, `ParanoiaTier`, `EveryRuleAccounted`, `PlanExact`, `GeneratedSame`, `CounterpartExact` | files of one to three statements from a menu with every directive and operator, three option sets, seven authored rules, 31 probes |
| `oversize` | `TooLargeIsDecision`, violated | as `transaction`, one deployment |

What they say, beyond their comments in the modules:

* **Inspection.**  `CleanMeansInspected`: `no_match` at the end of the request means
  every value was looked at or is inert and no limit, decoder or schema stopped
  anything.  Two losses that no boundary sees are excepted, here and from
  `FailClosedRefuses`: a value above `MaxValueLen` under an empty key, which the run
  `oversize` is about, and one that the arena has no room for.  `CountedOnce`: the header and the body phase do not count a value twice.
  `NothingUnseen`, `InspectedFirst`: no byte passes the middleware before its verdict
  unless the handler asked for that.  `BodyIntact`: whatever was read of a body to inspect it,
  the handler reads the bytes that arrived, each once, in order and in the end all.
* **Ownership.**  `OneOwner`: every repeated `Close` adds one owner at most, and nothing else adds
  any; a transaction that nobody closed again has one owner, which finds in it exactly what it
  recorded.  `PlanIsCurrent` and `CandidatesFit` say of such a transaction that its phases ran
  against a plan that was active while it was opened, with room for every rule.
* **Reporting.**  `OutcomeReported`: the last report is what the client got, or, of a body that
  could not be read, what had been decided before.  `RecordedEverywhere`: a sink has the
  records its comments promise (`Wants`), whole and once, and no others, but for those that
  `RelevantOnly` misjudges.
* **Refusal.**  `FailClosedRefuses`: fail-closed, no breach is forwarded whatever
  decision came before.  `FramingNotSoftened`: an ambiguous boundary is refused in
  either fail mode.  `RefusalIsFinal`, an action property: no call replaces a refusal.
* **Reconstruction.**  `SplitPayloadRefused`, `ViewsPartitionArguments`,
  `ResponseReadWhole`, `StoreImplemented`, `LeavesRecorded`, `NothingMissed`: a payload
  in pieces, moved, wrapped or across windows is read as the whole it is.
* **Evasion by form.**  `EncodedRead`, `PayloadSeen`, `PathResolved`, `HostCanonical`,
  `AcceptsExactly`: what the origin would read is among what the rules read, or the
  value is reported undecidable.  `AcceptsExactly` compares the JSON parser with a
  grammar written as splits of a word.
* **Shortcuts.**  `StepsSound`, `FindingsExact`, `CandidatesImplemented`, `PlanExact`,
  `TransformContract`: sharing, prefiltering, grouping and quick looks change no
  finding.  `PlanExact` and `FindingsExact` compare with definitions that know none of
  them.  The one finding lost, in `PlanExact`, is that of a pattern whose required literal is
  not ASCII (`AsciiKeyed`).
* **Migration.**  `NeverNarrower`: an imported rule matches everything its statement is
  meant to, after the statement's own transformations; where it does not (`Excepted`) is
  listed below.  `EveryRuleAccounted`: every rule statement is imported, removed or
  reported, and none that a removal names is imported.  `ParanoiaTier`: a rule has the tier
  of the gate it stands behind, and otherwise one above the one the caller named.
  `GeneratedSame`: the Go source says the same rules.  `CounterpartExact`: a counterpart
  finds in a body what its rule finds in a query string, and no more.
* **Resources.**  `WorkBounded`, `CapacityBounded`, `CandidatesFit`.
* **Liveness.**  `ScanEnds`, `EverythingReported`.

### Why the bounds are enough

* *Transaction.*  Every limit can be met and passed within four calls, together with
  one other event.  Two resolver samples and two chunks reach the value limit, the
  body limit and the move of a span.  `JoinScanLimit` (12) is above what four calls
  record, so joins do happen.  The deployments (`MCConfigs`) are: the defaults;
  fail-open with mirroring body rules and every view; a closed schema with little fuel
  and the query and body views; detection only with an open schema and an exception
  for blocking rules; mirroring rules with joined arguments, an exception for allow
  rules and a resolver read in two phases; a small arena under fail-open; and an
  embedder that keeps no order.
* *Pool, Reporting.*  One more goroutine adds no kind of interleaving, and one repeated `Close`
  is enough to give a transaction a second owner; the pool's proofs hold for any number of both.
* *Middleware.*  A limit of 2 has bodies below, at, one above and further above it; the
  handler's buffer of 3 is met and passed by chunks of 1 and 2.
* *Arena.*  Three sizes of array, so that the array doubles, jumps past a double,
  fills up, is retained or dropped, and is reused dirty.
* *Prefilter.*  The literals overlap, contain and repeat one another, one is empty;
  rules lie in different words; the set is too small for some.
* *Engine, Scanning.*  Limits that run out at each kind of charge, a value with more
  readings than `MaxReadings`; windows below, at and above the overlap, and values that
  end at, before and behind a window's end.
* *Body, Text, Rules.*  These have no interleaving: a run is the bounded input space
  times the sequence of steps, and the inputs are enumerated from what the code
  distinguishes.

`CHECK_DEADLOCK FALSE` is set where the program ends: an exchange, an evaluator's phases,
an arena's calls, a value, a ruleset.

### Fairness

`Scanning`: weak fairness of `Analyze`.  The scan runs on its caller's goroutine and
waits for nothing.  `Reporting`: strong fairness of each goroutine's steps, because a
`sync.Mutex` that is free again and again is given to whoever waits for it (Go's mutex
hands over to a waiter that starved for a millisecond); none for the snapshot, the
reset or any sink's success.  `EverythingReported` must hold although the
compare-and-swap loop on the maximum may be made to retry.  Everything else is safety:
the library runs on its caller's goroutine and waits for nothing.

### Where the code and its comments differ

One disagreement has a run of its own, because it is a path through the whole
request: `oversize`.  `options.go:85` says of a value above `MaxValueLen` that the
limit is a decision and not a truncation; the note of what was too large is the key of
the value (`transaction.go:1781`, `:1785`), and a value under an empty key leaves none: it
is dropped, nothing is noted, and the verdict is `no_match`.  A body that is inspected whole
has an empty key, and so have the request line, the remote address, the status, an argument
without a name (`?=AAAA…`), a form or JSON value under an empty name, and a member name
at the top of a body that is too long itself.

The others were met while the code was translated.  The models do what the code does,
and the properties say what holds nevertheless.

*Transaction and evaluator.*
* `decision.go:72`, `transaction.go:1217`: the header count is judged before the framing,
  and under fail-open allows (`FramingNotSoftened` speaks of requests within the limit).
* `rules/compile.go:147`: with no body, the body phase that mirrors the header phase counts
  every finding again (`CountedOnce` speaks of requests with one).
* `options.go:70`: a value for which the arena has no room is dropped and the verdict stays
  clean (`Breach` and the other properties of what was read except it).
* `schema/schema.go:188`: required query fields are not looked for.
* `options.go:269`: an excepted terminal rule still ends the walk.
* `transaction.go:223` says of `Close` that "it is safe to call more than once", but each call
  pools the transaction, as `tx.waf` stays set: from then on two requests may share it, mix
  their values and close it under each other, and a phase may meet a nil plan.  The model has
  the repeated call; `OneOwner` counts what it costs, and the rest of the pool's properties
  speaks of transactions nobody closed again (`Unrepeated`).
* A body sent to an operation that declares none is refused in detection-only mode too
  (`DetectionOnlyForwards`).
* Of the values above `MaxValueLen`, those of the response are noted but no response phase
  looks at the note, and one a resolver supplies in the body phase is noted after it was
  looked at (`Unanswered`).
* Rules without literals see the value as sent only, as a comment in `eval.go` says, though
  `interpret.go:18` promises every reading (`Expected`).

*Middleware and adapters.*
* `middleware/http.go:345`: `ReadFrom` reaches the client after a refusal.
* `middleware/http.go:183`: for a body that breaks off the client gets the block page, while
  `OnDecision` hears what had been decided until then, an allow too (`OutcomeReported`).
* The gin adapter runs `c.Next()` after the wrapped handler returned; the fiber adapter
  calls `OnBlock` without `OnDecision` for response phases; the proxy's shutdown waits 20 s,
  its writes may take 30 s.

*Bodies.*
* `transaction.go:932` says that what decoded before an error is still inspected, but
  `Decompress` returns nothing on an error.
* `recordBody` decodes base64 into the array of `tx.decodeBuf` (`transaction.go:957`), which
  `IsBase64Text` (`:1705`) overwrites while frames still read it.
* `ExtractText`, called from an emitting parser, leaves its path behind; it and
  `walkProtobuf` stop at their limits without a word, although `body.go:25` promises one;
  a multipart value is cut at `MaxValueLen` in silence (`multipart.go:220`).
* A binary protobuf value that parses as a message is recorded as one only.
* `xml.go`: "A '<' that opens nothing is text", but the parser stops there;
  `multipart.go`: "Keeping the first and inspecting both names", but the second is not kept.

*Readings and transforms.*
* `hexescape.go:51` describes an output that the code does not have; `URLDecode` and
  `NormalizePath` report a change where nothing changed.
* An overlong lead byte 0xE0 sent raw, quotes between backquotes or percent-encoded, and
  percent-encoded UTF-16 belong to no class of `Detect`; `maxHostToken` does not count
  padding zeros; a character reference above 2^32 wraps.

*Rules and SecLang.*
* `seclang.Confidence` counts from one and `types.Confidence` from zero; `confidence()`
  keeps the number (`compile.go:891`), so a default tier arrives one higher than it was set,
  although `seclang.go:172` says that they match and `compile.go:885` that the caller's
  applies: `High` as `Certain`, and `Certain` as a number that is no tier, which `gwaf.New`
  refuses and `gwaf-seclang` generates as `Heuristic` (`generate.go:292`).  `ParanoiaTier` says
  what arrives, and `GeneratedSame` has the exception.
* `SecDefaultAction`'s action overrides a rule's own pass or allow.
* A translated `SecRuleUpdateTargetById` is reported as skipped as well, so a strict
  import refuses it; an exception keeps the bare number while rules get the prefix.
* Paranoia gates do not nest, and what follows a block has the default tier, not that of
  level 1; a chain is skipped whole, although the package comment says it becomes a rule.
* `withResponsePhase` does not set `DerivedFrom`; `allMirrors` does not compare targets;
  names-only rules get no diagnosis; a resolver whose name has a dot is never asked.
* Where an import is narrower than its statement, and `NeverNarrower` has an exception:
  `t:trim` is dropped, as "every operator gwaf offers is position-independent" (`transform.go:86`), although
  `@streq`, `@beginsWith` and `@endsWith`, a negated operator and a further transformation
  depend on it; a backslash before a quote stays in the arguments of `@contains` and `@pm`; a
  raw collection is decoded as well when the rule also reads a decoded one (`compile.go:304`);
  `t:removeNulls`, `t:htmlEntityDecode` and a second decoding are left to the readings, which a
  single value does not show.  The transformations of a `SecDefaultAction` are not inherited
  (`compile.go:645` reads the rule's own); `Meant` does not ask for them.
* `@within` is imported as a search; `@streq ""` is imported but cannot be generated.
* `ExtractLiterals` lowers with `strings.ToLower` (`rx.go:159`), which knows Unicode, while the
  automaton and its scan fold ASCII only (`automaton.go:33`): `@rx École` is keyed on `école`, bytes
  that no match contains, and never runs.  The model has both, with the letters of Latin-1 for
  Unicode's; `PlanExact`, `CounterpartExact` and `NeverNarrower` except the patterns with such a
  literal (`AsciiKeyed`), and one of the authored rules and its probe are that case.
* `(?i)` of Go also matches the Kelvin sign for `k` and the long s for `s`, whose bytes hold
  neither, so such a match is lost as well; keys of a collection are compared with Unicode's
  `EqualFold` (`types/target.go:192`).  The model ignores the case of ASCII letters only.

*Detectors and telemetry.*
* `ldapi.go:228` counts parentheses per window, which `window.go:42` does not allow for;
  `nosqli` truncates names at 1 KiB.
* A snapshot is not "one increment apart" when several decisions are between their
  additions (`telemetry.go:124`, `:164`).
* `RelevantOnly` "drops records for requests that were neither blocked nor scored"
  (`audit.go:279`), but the code asks whether a rule is named (`:290`): a request that was allowed
  with a score below the threshold has none (`transaction.go:1980`), and its record is lost, while
  one that a rule allowed without a score is kept.  `Wants` is what the comment says, `Misjudged` the
  records for which the code differs, `RecordedEverywhere` everything else.
* `NewRecord` leaves method, address, route and
  message unbounded.

## Proofs

All theorems hold for every value of the constants that satisfies the modules' named
assumptions, which say no more than the types of the constants, that `Threshold` and limits
are positive, that chains are no longer than `Depth` and belong to one group each, that
declared literals are found, that a request which declares no body has none, that the
decisions and sinks are finitely many, and for the arena that spans can address all of it,
that the key of a response body is not empty and that a fresh array is one that is kept.
For the three modules about text: a request's bytes are a sequence of numbers and its chain names
transforms there are (`TextAssumption`); a part of an address has at most 256 values
(`HostsAssumption`); the lines of a file are bytes, the caller names one of seclang's five tiers, and a rule written in Go
has the types of its fields (`RulesAssumption`); the pattern behind a text is a tree, and the
predicates of libinjection are registered (`SeclangAssumption`).  `AmbiguityAssumption` says
of the tables of best-fit runes and named entities that they map to numbers and that a name
is not empty: TLC evaluates that on the tables as they are spelled in the module, and the
provers, which do not look into strings, take it from there.

| module | theorems | of the run's properties |
|---|---|---|
| `TransactionProofs` | `Typed`, `CleanInspected`, `BreachesRefused`, `CountedOnceHolds`, `FramingRefused`, `ViewsPartition`, `SplitRefused`, `ResponseRead`, `RefusalStands`, `DetectionForwards` | all |
| `ReportingProofs`, on `Pool` | `PoolTypes`, `OneOwnerHolds`, `PlanIsCurrentHolds`, `CandidatesFitHolds`, `PlanKeptHolds` | all |
| `EngineProofs` | `Types`, `StepsSoundHolds`, `FindingsExactHolds`, `WorkBoundedHolds` | all |
| `EngineProofs`, on `Middleware` | `BodyIntactHolds`, `NothingUnseenHolds`, `ResponseInOrderHolds`, `InspectedFirstHolds`, `OutcomeReportedHolds` | all |
| `ArenaProofs` | `CapacityTheorem`, `BytesKept`, `StoreRefined` | all; `StoreImplemented` is a refinement |
| `PrefilterProofs` | `BoundsTheorem`, `AllIsMembers`, `CandidatesTheorem` | `CandidatesImplemented`, a refinement |
| `PrefilterProofs`, on `Scanning` | `NothingMissedTheorem`, `Forward` | `NothingMissed` |
| `ReportingProofs` | `CountedExactlyHolds`, `RecordedEverywhereHolds` | all but `EverythingReported` |
| `RulesProofs` | `Typing`, `Generating`, `Planning`, `Counterparts`, `Accounting`, `Tiers`; `ExtractSound`, `EvalKeyed`, `PlanFires` | all but `NeverNarrower` |
| `TextProofs` | `Contract` | `TransformContract` |
| `TextProofs` | `Resolving` | `PathResolved` |
| `TransformsProofs` | lemmas for the two above | – |

* **Transaction.**  `Typed` comes first: it bounds what the folds of the views compute and
  says that the marks are places of the values.  Every method then either only adds values
  of certain kinds behind the others (`Grown`) or runs a phase (`RunPhase`, whose window
  starts at a mark), and the invariants are about what that keeps.  `CleanInspected` rests
  on `ReadInv`: past the header phase every value before `bodyStart` was read, past the
  body phase every value.  `BreachesRefused` rests on `BreachInv`: the calls the order
  allows past a boundary add no breach the boundary would have refused.  `CountedOnceHolds`
  rests on `CountInv`, by which the windows of the phases do not overlap, so the score is no
  more than the scoring values before `CountedTo`.  `ViewsPartition` rests on `ViewsInv`, by
  which views of one kind point before the cut and those of the other behind it, and
  `CoverInv`, by which each argument on a side has its view.  `SplitRefused` rests on
  `SplitInv`: two halves of a payload are found joined or too large by the time the request
  line returns, and a request that went on had none; the lemmas under it say what
  `joinDuplicateArgs` and `joinArgs` combine, by induction over their recursion.
  `ResponseRead` rests on `AnswerInv`: what the response recorded lies behind `reply.start`,
  and the body kept is the body written until something is decided.  `FramingInv`: what
  `noteFraming` keeps is enough to recognise every ambiguity among the headers in `heard`, as
  long as none was past the limit.  `DetectionInv`: a block recorded in detection-only mode
  has one origin.  `RefusalStands` needs no invariant: each action keeps a refusal or
  replaces it by another.
* **Pool.**  `OneOwnerHolds` is a count (`HomeInv`): the times a transaction lies in the pool and
  the goroutines that hold it are together one more than the repeated calls of its `Close` at
  most, as taking it moves it from one to the other and a repeated `Close` makes its caller a
  holder again.  No bound on the calls is assumed.  Of a transaction nobody closed
  again it follows that a goroutine which has it open is its only holder, and
  `DataInv` adds that it then holds its goroutine's values and a plan from `loaded`, and that
  every phase so far found room.  `PlanKeptHolds` follows from both, as only another owner could
  begin or close an open transaction.
* **Engine.**  `StepsSoundHolds` rests on `Kept`: the buffer a step refers to is of its own
  depth or a lesser one, so that writing the buffer of a greater depth disturbs no step
  already kept, and the transform under way continues from the last of them.  The property
  alone is not inductive because it does not say which buffers are shared.
  `WorkBoundedHolds` rests on `Metered`: while the meter is not exhausted, work and what
  remains add up to the limit.  `FindingsExactHolds` adds what the loops have behind them.
  `ReadingsInv`: the readings are distinct, begin with the value as sent, and once paid for
  are all there are.  `ChainInv`: what the rules of a group are given is the whole chain of
  the reading under way (by `Kept`, whichever transforms were shared).  `TodoInv`: what is
  left of a group is rules of it, each once.  `HitsInv`: the findings are the reports of
  the rules the evaluator is `Past`, no more and no fewer; a value, a reading or a group that is passed over has
  no rule that is `Due`.  A rule's reports are new when it comes up, because chains,
  readings and what is left of a group repeat nothing, so the score counts each once.
* **Middleware.**  The writer's operators are proved first, over any record of its state:
  `Sound` says that between the client and the buffer nothing is lost, that nothing is
  buffered after a refusal or in passthrough, and that a writer that is not blocked has no
  refusing transaction; each of `HeaderDone`, `Passed`, `ToClient`, `Written` and `Finished`
  keeps it, and `Finished` leaves the buffer empty, from which `ResponseInOrder` follows.
  `Sound` has the handler's streaming as a parameter: a handler that streams may be stopped
  after its header went out, one that does not may not.  Before the handler, `Untouched` and
  `Shown` carry what `captureBody` did to the step that judges it.  `BodyIntactHolds` rests on
  `BodyKept`: what `captureBody` read is all that was taken from the connection, in order
  (`InOrder`); from then on the bytes read by the handler, those held and those still on
  the connection are the body, each once (`Joined`), whichever of the two bodies was put in
  place; and the connection is closed only where nothing is left to follow (`Unread`).  `InspectedFirstHolds`
  rests on `Owed`: until the handler is done the body was not read, a header that is written
  was, and nothing left the buffer before it was full.
* **Arena.**  The invariant keeps the length within the array in use, that array within
  `Bound`, and an empty arena's within `MaxRetained`; `BytesKept` is an action property: growth
  copies what there was, and a write fills only what lies behind.  `StoreRefined` is the
  refinement.  It rests on `Reads`: besides the capacity, every value's spans lie within the
  arena and within the array its slices were cut from and show the same bytes in both
  (`Means`), the store holds those bytes, and once a body is begun the response value's key and
  body lie in the arena (`BodyLies`).  Each way to record (`PutDoes`, `PutNameDoes`,
  `PutCopiesDoes`, `PutJoinedDoes`, `PutCookiesDoes`, `Lengthens`) only `Extends` the arena,
  which changes no byte an earlier value reads in any array, and adds exactly the store's
  entries, or nothing where the store may drop one.  The cookies of a header are compared as
  the ranges cut from it (`Stands`) before as the texts read there.  No span wraps, as `Limit`
  is less than `SpanMod`.  Where the code iterates, the iteration is shown to exist and is
  unfolded a step at a time (`IterationExists`, `FlattenUnfolds`), and the two sides are
  matched entry by entry (`FlattenAlike`).
* **Prefilter.**  `BoundsTheorem` says that each set bit lies between `loWord` and `hiWord`,
  through `Grow`, `Add`, `Union` and `Reset`; `AllIsMembers`, that in such a set `All` lists
  what `Has` answers for.  Minima and maxima of finite sets of numbers come from the
  library's facts about well-founded orders.  `CandidatesTheorem` is the refinement: breadth
  first, failure links are longest proper suffixes and dictionary links the next that ends a
  literal; a scan is at the longest suffix of what it read that is a state, so it
  meets every literal where it ends; and each operation of the set is that of `Candidates`
  on its members and its room.
* **Scanning.**  `Forward`: the step is positive, at most the window, and leaves exactly
  `OverlapFor(window)` shared.  `NothingMissedTheorem` rests on the invariant `Scanned`: every
  place behind the next window was seen by a window that reaches an overlap's length
  further, and no window that was passed over held enough.

* **Reporting.**  `Inv` says which goroutine is inside which lock, and what every counter,
  map and line holds in terms of who is past which step: `Verdicts`, `Reasons`, `Longest`
  and `Matches` as long as nothing was reset, `Balance` (the two maps differ by the match
  under way), `Resting` (a half line is the last, and its writer's) and `Once`.  A step moves
  one decision past one counter, so the lemmas are about sets that gain one element and
  sums that gain one term.

* **Rules.**  `IInv` is `Typed` (every directive, rule, report and generated statement in hand has
  the types of its fields, wherever the import stands), `Generated` and `Planned`.
  `Generating`: an operator that a statement can be translated to is one of a short list of
  constructions (`Constructions`); rendering each as a call and reading the call back gives an
  operator that decides alike (`CalledIs`, `RegeneratedIs`), so the generated set is the
  imported one.  `ExtractSound` is the argument that `rx.go` makes in its comments, for
  patterns whose required literals are ASCII: only those does `strings.ToLower` change as the
  automaton folds them, and the theorems behind it carry that exception on.  By
  induction over the nodes of a tree, for ASCII literals, `Holding`: wherever a node matches, one of the strings
  it is said to require lies between the ends of the match; `Heads`, the same of the
  prefixes a match begins with, which extend a literal run; and `Carried` takes a
  concatenation part by part, with the run of literals in hand ending where the part begins.
  `EvalKeyed` adds the other operators, whose literals are their words, and `PlanFires` what
  `Compile` does with both: a rule that holds of a value is in exactly one group, its chain
  and its target are the group's, it is always on or one of its literals is in the value, and a
  resolver that none of its phase's rules names has no rule that would read it.  `Planning`
  is that for the set the import ends with, and `Counterparts` adds that numbers are unique in
  a valid set, so that a counterpart's number tells its rule.  Both have one hypothesis,
  `DetectorsKeep`: a predicate finds nothing in a value that has none of the literals declared
  with it.  The code does not check this; it asks it of whoever writes one
  (`docs/RULES.md`, "the hint is a promise"; `WithLiterals` in `op.go`) and fuzzes its own.  It
  speaks of every sequence of bytes, which TLC cannot enumerate, so it is a hypothesis and
  not an ASSUME of the module.
* **Import.**  `Accounting` and `Tiers` are about what `run` does with the directives of a file,
  in any order and number.  The invariant `AInv` says that every directive before `at` is dealt
  with (`Reached`: its rule is imported or reported, or it is a link of a chain), that `at`
  is not inside a chain, that the gate in hand is the last gate before `at` unless its marker
  came since (`GateIs`), and that each imported rule stems from a statement, with its number and the
  tier of its place (`Stemmed`), the default tier being the number that the caller's has.  The first two need `ConsumedWhole`: `Consumed` takes
  the links of a chain and nothing else, so no gate or marker is passed over, and a gate that is
  a link opens nothing.  The removals come at the end, and take just the rules that a statement
  took out.  Both have the hypothesis `ReadAsWritten`: a file that parses has a directive for
  each statement, which is of its kind and has its number, level, marker and removals.  That is
  what statements are written to mean, and for the run's files TLC evaluates it
  (`FilesAssumption` of `RulesMC`); that it holds of all text is not proved.
* **Text.**  `Contract` needs of every reading that it is a sequence of bytes: a value is
  transformed in each reading of it, so all the decoders of `Ambiguity` (percent, UTF-7, entities,
  quoted pieces, best-fit runes) are shown to make bytes, and `Build` to list such readings
  only (`DecodedIs`, `BuildIs`).  Then each transform is taken by itself (`SlowContract`): it
  returns bytes, as many as `MaxOutputLen` promises at most, and those it was given when `Needed`
  says no.  Most rewrite a run of bytes to no more bytes.  `NormalizePath` adds a separator at
  most, as what it has written and the segment under way are together no longer than what
  it has read.  `NumericHost` writes up to fifteen bytes for a token, but a token that spells
  an address without being a plain number has three at least, which is the factor of five
  that the code allows.  Functions defined by recursion are solved once (`Recursion`), and folds
  are unfolded a step at a time.
* **Paths.**  `Resolving` reads what `NormalizePath` has written the way it reads a path
  (`Cut`, byte after byte).  The invariant of its loop is `Laid`: the segments written are the
  stack that `Entered` makes of the segments read, each ends in one slash, none is empty or a
  dot, and none above `base` is a climb; `base` is the root, the start, or the end of a climb.
  It is needed because a ".." pops by looking back for a slash: above `base` that takes away
  one segment and never a climb (`LaidPop`), and at `base` the stack has nothing to pop
  (`LaidBase`).  A path the quick look leaves alone is what `NormalizePath` would write of it
  (`ApplyContract`), so it is resolved as well.

### What is only model-checked

* Liveness (`ScanEnds`, `EverythingReported`), which needs fairness and ENABLED.
* The run `body`.  The parsers are recursive operators, and the provers do not take a module
  that declares one; what they compute is an induction over documents.
* `NeverNarrower`.  It relates the operator, targets and transformations of a statement's text
  to what its author means by them, and the values as ModSecurity and as gwaf decode them: an
  induction over text on both sides.  So is `ReadAsWritten`, on which `Accounting` and `Tiers` rest.
* `EncodedRead` and `HostCanonical`.  What the origin means by a request is part of the request,
  as data; there is no definition of it that a proof could unfold.
* `oversize`, which is violated.

## Not modelled, and why

* **Detectors** (`detect/…`).  Grammars and tables of words for each class of attack, as
  functions of a value.  Their walk over windows is `Scanning`; what a rule sees of them is a
  pattern with declared literals.  Whether a table is right has no reference to compare it
  with but itself.
* **Core ruleset and profiles.**  Lists of rules; the counterparts derived from them are
  modelled in `Compiler`.
* **Schema.**  Its effect on a transaction is modelled (lookup, unknown fields, required
  fields, a body none declared); the matching of path templates and the validators of
  formats are functions that the transaction is given the result of.
* **Schema importers, calibration.**  Offline programs that read files and write a report.
* **Framework adapters, proxy, command line.**  They wrap the modelled middleware or make the
  modelled transaction's calls in the documented order.
* **Reading only.**  `Matches`, `Explain`, diagnostics, the audit record's wording.
* **Middleware.**  `Push` and the callback for undeclared routes.

`PROJECT.json` lists every part with its modules, and under `hazards` what is hard to test
in it and which property would notice.

## State of the project

The parts with state or interleaving are modelled and checked, and all of their safety
properties are proved, both refinements included; so are, of the parts that compute over text,
that prefiltering and compiling lose no rule, that an import drops none in silence and gives each
its tier, that what is generated is what was imported,
that every transform keeps its contract, and that a path is resolved as a stack of its
segments would be.  What could be added next: a transaction and the middleware in one module,
so that the middleware's verdicts are no longer arbitrary; `Schema`'s matching of templates
against a definition.
