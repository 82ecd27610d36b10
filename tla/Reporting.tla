------------------------------ MODULE Reporting -----------------------------
(***************************************************************************)
(* telemetry and audit: what happens to a decision after it was made.      *)
(* Goroutines count their decisions in one Metrics and write a record of   *)
(* each to the sinks of a Multi, while another takes a snapshot and        *)
(* another resets the counters.  Each atomic operation, each critical      *)
(* section's step and each half of a line written is a step of its own.    *)
(***************************************************************************)
EXTENDS Integers, Sequences, FiniteSetsExt

CONSTANTS
  Servers,     \* the goroutines that serve requests
  Decisions,   \* [Servers -> sequence of [blocked, reason, rule, severity, score,
               \* ns, path]]; rule is 0 when none matched or it only added to the score
  Sinks,       \* sequence of [nil, relevantOnly, min, fails]
  MaxPath,     \* MaxPathBytes
  Stored,      \* the counters Reset clears, in its order
  Read,        \* the counters Snapshot reads, in its order
  Resets       \* how often the counters are reset

Counters == {"requests", "blocked", "allowed", "errors", "exhausted", "nanos", "maxNs"}
Nobody == "nobody"

ASSUME ReportingAssumption ==
  /\ IsFiniteSet(Servers) /\ Nobody \notin Servers
  /\ \A p \in Servers : Decisions[p] \in
       Seq([blocked : BOOLEAN, reason : STRING, rule : Nat, severity : Nat, score : Nat, ns : Int,
            path : Seq(Nat \ {0})])
  /\ Sinks \in Seq([nil : BOOLEAN, relevantOnly : BOOLEAN, min : Nat, fails : BOOLEAN])
  /\ MaxPath \in Nat /\ Resets \in Nat
  /\ Stored \in Seq(Counters) /\ Read \in Seq(Counters)

VARIABLES
  counter,         \* the atomic counters of Metrics
  byRule, bySevere,
  metricsLock,     \* the holder of Metrics.mu, or Nobody
  at, nth, cur,    \* per server: its step, its decision, the maximum it loaded
  sink, first,     \* per server: the sink of Multi it is at, the first error
  sinkLock,        \* per sink: the holder of JSON.mu
  lines,           \* per sink: the halves of lines written
  reader, snap,    \* the scraper: its step, what it has read
  resetter, resets \* the operator's reset: its step, how many were begun

metrics == <<counter, byRule, bySevere, metricsLock>>
serving == <<at, nth, cur, sink, first>>
writing == <<sinkLock, lines>>
scraping == <<reader, snap>>
resetting == <<resetter, resets>>
vars == <<metrics, serving, writing, scraping, resetting>>

Errors == {"limit", "desync", "undecidable"}

Zero == [c \in Counters |-> 0]

Decision(p) == Decisions[p][nth[p]]

\* A map read at a key it may not hold.
Lookup(map, key) == IF key \in DOMAIN map THEN map[key] ELSE 0
Incremented(map, key) == [k \in DOMAIN map \cup {key} |-> Lookup(map, k) + (IF k = key THEN 1 ELSE 0)]

Init ==
  /\ counter = Zero /\ byRule = <<>> /\ bySevere = <<>> /\ metricsLock = Nobody
  /\ at = [p \in Servers |-> "idle"] /\ nth = [p \in Servers |-> 1]
  /\ cur = [p \in Servers |-> 0] /\ sink = [p \in Servers |-> 1]
  /\ first = [p \in Servers |-> 0]
  /\ sinkLock = [s \in DOMAIN Sinks |-> Nobody] /\ lines = [s \in DOMAIN Sinks |-> <<>>]
  /\ reader = 1 /\ snap = [counter |-> Zero, byRule |-> <<>>, bySevere |-> <<>>]
  /\ resetter = 0 /\ resets = 0

-----------------------------------------------------------------------------
(* Metrics.Observe *)

Goes(p, from, to) == at[p] = from /\ at' = [at EXCEPT ![p] = to]

Adds(name, n) == counter' = [counter EXCEPT ![name] = @ + n]

Count(p) ==
  /\ nth[p] <= Len(Decisions[p])
  /\ Goes(p, "idle", "verdict") /\ Adds("requests", 1)
  /\ UNCHANGED <<byRule, bySevere, metricsLock, nth, cur, sink, first, writing, scraping, resetting>>

CountVerdict(p) ==
  /\ Goes(p, "verdict", "reason")
  /\ Adds(IF Decision(p).blocked THEN "blocked" ELSE "allowed", 1)
  /\ UNCHANGED <<byRule, bySevere, metricsLock, nth, cur, sink, first, writing, scraping, resetting>>

CountReason(p) ==
  /\ Goes(p, "reason", IF Decision(p).ns > 0 THEN "nanos" ELSE "rule")
  /\ counter' = CASE Decision(p).reason = "budget" -> [counter EXCEPT !.exhausted = @ + 1]
                  [] Decision(p).reason \in Errors -> [counter EXCEPT !.errors = @ + 1]
                  [] OTHER -> counter
  /\ UNCHANGED <<byRule, bySevere, metricsLock, nth, cur, sink, first, writing, scraping, resetting>>

AddNanos(p) ==
  /\ Goes(p, "nanos", "load") /\ Adds("nanos", Decision(p).ns)
  /\ UNCHANGED <<byRule, bySevere, metricsLock, nth, cur, sink, first, writing, scraping, resetting>>

LoadMax(p) ==
  /\ Goes(p, "load", IF Decision(p).ns <= counter.maxNs THEN "rule" ELSE "swap")
  /\ cur' = [cur EXCEPT ![p] = counter.maxNs]
  /\ UNCHANGED <<metrics, nth, sink, first, writing, scraping, resetting>>

\* Mutation of Unchanged: a store instead of a compare and swap.
UnchangedAnyway(p) == TRUE

Unchanged(p) == counter.maxNs = cur[p]

\* Mutation of Again: the swap is tried again with the maximum loaded before.
AgainStale == "swap"

Again == "load"

\* CompareAndSwap, again from the load when it fails.
SwapMax(p) ==
  /\ IF Unchanged(p)
     THEN Goes(p, "swap", "rule") /\ counter' = [counter EXCEPT !.maxNs = Decision(p).ns]
     ELSE Goes(p, "swap", Again) /\ UNCHANGED counter
  /\ UNCHANGED <<byRule, bySevere, metricsLock, nth, cur, sink, first, writing, scraping, resetting>>

Free == metricsLock = Nobody

LockRules(p) ==
  /\ Goes(p, "rule", IF Decision(p).rule = 0 THEN "sink" ELSE "byRule")
  /\ IF Decision(p).rule = 0 THEN UNCHANGED metricsLock ELSE Free /\ metricsLock' = p
  /\ UNCHANGED <<counter, byRule, bySevere, nth, cur, sink, first, writing, scraping, resetting>>

CountRule(p) ==
  /\ Goes(p, "byRule", "bySevere")
  /\ byRule' = Incremented(byRule, Decision(p).rule)
  /\ UNCHANGED <<counter, bySevere, metricsLock, nth, cur, sink, first, writing, scraping, resetting>>

CountSeverity(p) ==
  /\ Goes(p, "bySevere", "sink")
  /\ bySevere' = Incremented(bySevere, Decision(p).severity) /\ metricsLock' = Nobody
  /\ UNCHANGED <<counter, byRule, nth, cur, sink, first, writing, scraping, resetting>>

-----------------------------------------------------------------------------
(* audit *)

\* bound: the longest prefix whose runes are at most n bytes wide as written;
\* a path is the widths of its runes, the marker of a cut is -1.
Width(path) == LET upto[i \in 0..Len(path)] == IF i = 0 THEN 0 ELSE upto[i - 1] + path[i]
               IN upto[Len(path)]

Bound(path, n) ==
  IF Width(path) <= n THEN path
  ELSE LET kept == Max({i \in 0..Len(path) : Width(SubSeq(path, 1, i)) <= n})
       IN Append(SubSeq(path, 1, kept), -1)

NewRecord(p) ==
  [by |-> p, nth |-> nth[p], blocked |-> Decision(p).blocked, rule |-> Decision(p).rule,
   severity |-> Decision(p).severity, score |-> Decision(p).score, path |-> Bound(Decision(p).path, MaxPath)]

\* A nil sink, SeverityAtLeast, RelevantOnly, which looks at the rule.
Dropped(s, rec) ==
  \/ s.nil
  \/ rec.rule # 0 /\ rec.severity < s.min
  \/ s.relevantOnly /\ ~rec.blocked /\ rec.rule = 0

\* Mutation of Next1: a failed sink is the last.
Next1Failing(p, failed) == IF failed THEN Len(Sinks) + 1 ELSE sink[p] + 1

Next1(p, failed) == sink[p] + 1

\* On to the next sink, keeping the first error.
Passed(p, failed) ==
  /\ sink' = [sink EXCEPT ![p] = Next1(p, failed)]
  /\ first' = [first EXCEPT ![p] = IF @ = 0 /\ failed THEN sink[p] ELSE @]

\* Multi.Write at a sink that drops the record.
SkipSink(p) ==
  /\ Goes(p, "sink", "sink") /\ sink[p] \in DOMAIN Sinks
  /\ Dropped(Sinks[sink[p]], NewRecord(p)) /\ Passed(p, FALSE)
  /\ UNCHANGED <<metrics, nth, cur, writing, scraping, resetting>>

LockSink(p) ==
  /\ Goes(p, "sink", "line") /\ sink[p] \in DOMAIN Sinks
  /\ ~Dropped(Sinks[sink[p]], NewRecord(p))
  /\ sinkLock[sink[p]] = Nobody /\ sinkLock' = [sinkLock EXCEPT ![sink[p]] = p]
  /\ UNCHANGED <<metrics, nth, cur, sink, first, lines, scraping, resetting>>

Writes(p, half) ==
  lines' = [lines EXCEPT ![sink[p]] = Append(@, [record |-> NewRecord(p), half |-> half])]

StartLine(p) ==
  /\ Goes(p, "line", "rest") /\ Writes(p, 1)
  /\ UNCHANGED <<metrics, nth, cur, sink, first, sinkLock, scraping, resetting>>

\* The line is finished, or the writer gives up within it.
EndLine(p) ==
  /\ Goes(p, "rest", "sink")
  /\ \/ Writes(p, 2) /\ Passed(p, FALSE)
     \/ Sinks[sink[p]].fails /\ UNCHANGED lines /\ Passed(p, TRUE)
  /\ sinkLock' = [sinkLock EXCEPT ![sink[p]] = Nobody]
  /\ UNCHANGED <<metrics, nth, cur, scraping, resetting>>

\* Multi.Write returns, and the server goes on to its next decision.
Finish(p) ==
  /\ sink[p] > Len(Sinks)
  /\ Goes(p, "sink", "idle") /\ nth' = [nth EXCEPT ![p] = @ + 1]
  /\ sink' = [sink EXCEPT ![p] = 1] /\ first' = [first EXCEPT ![p] = 0]
  /\ cur' = [cur EXCEPT ![p] = 0]
  /\ UNCHANGED <<metrics, writing, scraping, resetting>>

-----------------------------------------------------------------------------
(* Metrics.Snapshot and Reset *)

\* One counter after the other.
ReadCounter ==
  /\ reader \in DOMAIN Read
  /\ snap' = [snap EXCEPT !.counter[Read[reader]] = counter[Read[reader]]]
  /\ reader' = reader + 1
  /\ UNCHANGED <<metrics, serving, writing, resetting>>

\* Then both maps under the lock, which nobody can take in between.
ReadMaps ==
  /\ reader = Len(Read) + 1 /\ Free
  /\ snap' = [counter |-> snap.counter, byRule |-> byRule, bySevere |-> bySevere]
  /\ reader' = reader + 1
  /\ UNCHANGED <<metrics, serving, writing, resetting>>

BeginReset ==
  /\ resetter = 0 /\ resets < Resets
  /\ resetter' = 1 /\ resets' = resets + 1
  /\ UNCHANGED <<metrics, serving, writing, scraping>>

ResetCounter ==
  /\ resetter \in DOMAIN Stored
  /\ counter' = [counter EXCEPT ![Stored[resetter]] = 0]
  /\ resetter' = resetter + 1
  /\ UNCHANGED <<byRule, bySevere, metricsLock, serving, writing, scraping, resets>>

ResetMaps ==
  /\ resetter = Len(Stored) + 1 /\ Free
  /\ byRule' = <<>> /\ bySevere' = <<>> /\ resetter' = 0
  /\ UNCHANGED <<counter, metricsLock, serving, writing, scraping, resets>>

-----------------------------------------------------------------------------
Observe(p) ==
  \/ Count(p) \/ CountVerdict(p) \/ CountReason(p) \/ AddNanos(p)
  \/ LoadMax(p) \/ SwapMax(p) \/ LockRules(p) \/ CountRule(p) \/ CountSeverity(p)

Audit(p) == SkipSink(p) \/ LockSink(p) \/ StartLine(p) \/ EndLine(p) \/ Finish(p)

Snapshot == ReadCounter \/ ReadMaps

Reset == BeginReset \/ ResetCounter \/ ResetMaps

AllDone == \A p \in Servers : at[p] = "idle" /\ nth[p] > Len(Decisions[p])

\* Nothing is left to report.
Idle == AllDone /\ UNCHANGED vars

Next ==
  \/ \E p \in Servers : Observe(p) \/ Audit(p)
  \/ Snapshot \/ Reset \/ Idle

\* Every goroutine is scheduled again and again, and a mutex that is free again
\* and again is given to who waits for it.
Spec ==
  /\ Init /\ [][Next]_vars
  /\ \A p \in Servers : SF_vars(Observe(p)) /\ SF_vars(Audit(p))

-----------------------------------------------------------------------------
(* Properties *)

Order == <<"verdict", "reason", "nanos", "load", "swap", "rule", "byRule", "bySevere", "sink", "line", "rest">>
Place(step) == CHOOSE i \in DOMAIN Order : Order[i] = step

\* The decisions of all servers that are past a step.
Past(step) ==
  {d \in UNION {{<<p, i>> : i \in DOMAIN Decisions[p]} : p \in Servers} :
     \/ d[2] < nth[d[1]]
     \/ d[2] = nth[d[1]] /\ at[d[1]] # "idle" /\ Place(at[d[1]]) > Place(step)}

Of(d) == Decisions[d[1]][d[2]]
Counted(step, P(_)) == Cardinality({d \in Past(step) : P(Of(d))})

Total(map) == MapThenSumSet(LAMBDA k : map[k], DOMAIN map)

\* A snapshot's two views of the matches count the same matches, also while
\* decisions are observed and counters reset.
SnapshotWhole == reader = Len(Read) + 2 => Total(snap.byRule) = Total(snap.bySevere)

(* As long as nothing was reset, every decision that went through is in      *)
(* every counter it belongs to exactly once, and the maximum is the longest  *)
(* of them: no increment and no maximum is lost to another goroutine, and no *)
(* snapshot sees half a match (Observe, its compare and swap, its lock;      *)
(* Snapshot).                                                                *)
CountedExactly ==
  /\ SnapshotWhole
  /\ resets = 0 =>
      /\ counter.requests = counter.blocked + counter.allowed
                            + Cardinality({p \in Servers : at[p] = "verdict"})
      /\ counter.blocked = Counted("verdict", LAMBDA d : d.blocked)
      /\ counter.exhausted = Counted("reason", LAMBDA d : d.reason = "budget")
      /\ counter.errors = Counted("reason", LAMBDA d : d.reason \in Errors)
      /\ counter.maxNs = Max({0} \cup {Of(d).ns : d \in Past("swap")})
      /\ \A r \in DOMAIN byRule : byRule[r] = Counted("byRule", LAMBDA d : d.rule = r)

\* A written path without the marker of a cut.
Unmarked(path) ==
  IF path # <<>> /\ path[Len(path)] = -1 THEN SubSeq(path, 1, Len(path) - 1) ELSE path

\* The lines of a sink that its writer never failed are whole.
LinesWhole(s) ==
  \A i \in DOMAIN lines[s] : lines[s][i].half = 1 =>
    \/ i = Len(lines[s])
    \/ lines[s][i + 1] = [record |-> lines[s][i].record, half |-> 2]

\* What a sink is promised: with RelevantOnly what was blocked or scored, from
\* SeverityAtLeast what matched no rule or one that is severe enough.
Wants(s, d) ==
  /\ ~s.nil
  /\ s.relevantOnly => d.blocked \/ d.score > 0
  /\ d.rule # 0 => d.severity >= s.min

\* Where RelevantOnly does not keep the promise, as it asks for a rule and not for a
\* score: a request allowed with a score but no rule is lost, one allowed by a rule
\* without a score is kept.
Misjudged(s, d) == s.relevantOnly /\ ~d.blocked /\ ((d.score > 0) # (d.rule # 0))

(* Every sink that wants a decision's record has it, whole, once and bounded *)
(* by MaxPath, whatever the sinks before it did, and no sink has one it does *)
(* not want, but for the records RelevantOnly misjudges (Multi.Write,        *)
(* JSON.Write, bound).                                                       *)
RecordedEverywhere ==
  \A s \in DOMAIN Sinks : ~Sinks[s].fails =>
    /\ LinesWhole(s)
    /\ \A i \in DOMAIN lines[s] : Width(Unmarked(lines[s][i].record.path)) <= MaxPath
    /\ \A p \in Servers : \A n \in DOMAIN Decisions[p] :
         LET d == Decisions[p][n]
             whole == {i \in DOMAIN lines[s] : lines[s][i].half = 2
                         /\ lines[s][i].record.by = p /\ lines[s][i].record.nth = n}
         IN n < nth[p] /\ ~Misjudged(Sinks[s], d) =>
              Cardinality(whole) = (IF Wants(Sinks[s], d) THEN 1 ELSE 0)

(* Every decision is counted and recorded in the end: the compare and swap   *)
(* is retried only when another goroutine got ahead, and no lock is kept.    *)
EverythingReported == <>AllDone

=============================================================================
