--------------------------- MODULE TransactionMC ---------------------------
(* Model values for Transaction: which deployments, and what a client sends. *)
EXTENDS Transaction

Base == [mode |-> "blocking", failMode |-> "fail_closed", schema |-> "none",
         excepted |-> {}, mirrorsOnly |-> FALSE, views |-> {}, resolvedIn |-> {},
         arena |-> 20, fuel |-> 0, ordered |-> TRUE]

MCConfigs ==
  { Base,
    [Base EXCEPT !.failMode = "fail_open", !.mirrorsOnly = TRUE, !.views = Views],
    [Base EXCEPT !.schema = "closed", !.views = {"argsget", "argspost"}, !.fuel = 7],
    [Base EXCEPT !.mode = "detection_only", !.schema = "open", !.excepted = {"block"}],
    [Base EXCEPT !.mirrorsOnly = TRUE, !.views = {"joined"}, !.excepted = {"allow"},
                 !.resolvedIn = {"RequestBody", "ResponseHeaders"}],
    [Base EXCEPT !.arena = 4, !.failMode = "fail_open"],
    [Base EXCEPT !.ordered = FALSE, !.schema = "open", !.views = Views] }

Arg(name, content, field) ==
  [name |-> name, content |-> content, size |-> 1, field |-> field,
   key |-> "benign", hidden |-> "none"]

Operation1 == [strict |-> TRUE, noBody |-> FALSE, typed |-> TRUE, required |-> {"b"}]
Operation2 == [strict |-> FALSE, noBody |-> TRUE, typed |-> FALSE, required |-> {}]

\* "?=AAAA": an argument without a name, above MaxValueLen.
Nameless ==
  [bodyless |-> TRUE, op |-> {}, content |-> "benign",
   args |-> <<[Arg("", "benign", "undeclared") EXCEPT !.size = 4]>>]

MCLines ==
  { Nameless,
    [bodyless |-> FALSE, op |-> {Operation1}, content |-> "benign",
     args |-> <<Arg("q", "half", "text"), Arg("q", "half", "text")>>],
    [bodyless |-> FALSE, op |-> {Operation1}, content |-> "benign",
     args |-> <<Arg("q", "half", "inert")>>],
    [bodyless |-> FALSE, op |-> {Operation2}, content |-> "score",
     args |-> <<Arg("q", "half", "text")>>] }

Plain(kind, content) ==
  [name |-> "h", framing |-> kind, content |-> content, size |-> 1, cookies |-> 0]

MCHeaders ==
  { Plain("length", "benign"), Plain("transfer", "benign"), Plain("zero", "score"),
    [name |-> "h", framing |-> "none", content |-> "ambiguous", size |-> 1, cookies |-> 2],
    [name |-> "h", framing |-> "none", content |-> "allow", size |-> 1, cookies |-> 3] }

MCArguments == { Arg("q", "half", "inert"), [Arg("x", "benign", "undeclared") EXCEPT !.size = 4] }

MCBodies ==
  { [size |-> 1, undecodable |-> FALSE, raw |-> <<>>,
     fields |-> <<[Arg("b", "half", "text") EXCEPT !.hidden = "score"]>>],
    [size |-> 1, undecodable |-> FALSE, raw |-> <<"block">>, fields |-> <<>>],
    [size |-> 1, undecodable |-> FALSE, raw |-> <<>>,
     fields |-> <<Arg("b", "benign", "text")>>],
    [size |-> 2, undecodable |-> TRUE, raw |-> <<"benign">>,
     fields |-> <<Arg("b", "benign", "inert")>>],
    [size |-> 4, undecodable |-> FALSE, raw |-> <<"score">>, fields |-> <<>>],
    [size |-> 4, undecodable |-> FALSE, raw |-> <<>>,
     fields |-> <<[Arg("b", "benign", "text") EXCEPT !.size = 4]>>],
    [size |-> 5, undecodable |-> FALSE, raw |-> <<>>, fields |-> <<>>] }

MCSamples == { [size |-> 1, content |-> "score"], [size |-> 4, content |-> "benign"] }

MCChunks == { [size |-> 1, content |-> "half"], [size |-> 2, content |-> "benign"] }

OversizeConfigs == {Base}
OversizeLines == {Nameless}
OversizeBodies ==
  {[size |-> 4, undecodable |-> FALSE, raw |-> <<"block">>, fields |-> <<>>]}
=============================================================================
