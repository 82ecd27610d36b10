---------------------------- MODULE ReportingMC -----------------------------
(* Model values for Reporting: two goroutines with three decisions between   *)
(* them, one scored and allowed, and two sinks: one that fails and one for   *)
(* relevant and severe matches only.                                         *)
EXTENDS Reporting, TLC

D(blocked, reason, rule, severity, score, ns, path) ==
  [blocked |-> blocked, reason |-> reason, rule |-> rule, severity |-> severity, score |-> score,
   ns |-> ns, path |-> path]
MCDecisions ==
  "p" :> <<D(TRUE, "rule", 7, 4, 5, 3, <<1, 6>>)>>
  @@ "q" :> <<D(TRUE, "budget", 8, 2, 5, 2, <<6, 1, 1>>), D(FALSE, "none", 0, 0, 2, 0, <<>>)>>
S(nil, relevantOnly, min, fails) ==
  [nil |-> nil, relevantOnly |-> relevantOnly, min |-> min, fails |-> fails]
\* Of both orders the counter that a goroutine reads back.
MCStored == <<"maxNs">>
MCRead == <<"maxNs">>
MCSinks == <<S(FALSE, FALSE, 3, TRUE), S(FALSE, TRUE, 3, FALSE)>>
=============================================================================
