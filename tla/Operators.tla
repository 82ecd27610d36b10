----------------------------- MODULE Operators ------------------------------
(***************************************************************************)
(* The operators of rules, and the patterns of one of them.                *)
(*                                                                         *)
(* rules/op/rx: the literals a pattern cannot match without, read off the  *)
(* syntax tree that regexp/syntax makes of it.  A tree is the sequence of  *)
(* its nodes, each behind those of its subexpressions, the root last: a    *)
(* node's op and its literal s, its class ranges or the places sub of its  *)
(* subexpressions.  What a pattern matches is the library's; Ends says it  *)
(* position by position.                                                   *)
(***************************************************************************)
EXTENDS Octets

Lower(s) == [i \in DOMAIN s |-> Fold(s[i])]

\* strings.ToLower knows every letter there is: beyond ASCII those of Latin-1 here, in UTF-8.
ToLower(s) ==
  [i \in DOMAIN s |-> IF i > 1 /\ s[i - 1] = 195 /\ s[i] \in (128..158) \ {151} THEN s[i] + 32 ELSE Fold(s[i])]

Node(op) == [op |-> op, s |-> <<>>, fold |-> FALSE, ranges |-> <<>>, sub |-> <<>>]
Lit(s) == <<[Node("lit") EXCEPT !.s = s]>>
Folded(s) == <<[Node("lit") EXCEPT !.s = s, !.fold = TRUE]>>
Class(ranges) == <<[Node("class") EXCEPT !.ranges = ranges]>>
Begin == <<Node("begin")>>
End == <<Node("end")>>
Boundary == <<Node("word")>>

NodeNames == {"lit", "class", "cat", "alt", "star", "plus", "quest", "cap", "begin", "end", "word"}
Nodes == [op: NodeNames, s: Seq(Int), fold: BOOLEAN, ranges: Seq(Int \X Int), sub: Seq(Nat)]

\* What a syntax tree is.
Tree(re) ==
  /\ re \in Seq(Nodes) /\ re # <<>>
  /\ \A k \in DOMAIN re :
       /\ \A j \in DOMAIN re[k].sub : re[k].sub[j] \in 1..(k - 1)
       /\ re[k].op \in {"star", "plus", "quest", "cap"} => Len(re[k].sub) = 1

\* The nodes of re, n places further on.
Moved(re, n) == [k \in DOMAIN re |-> [re[k] EXCEPT !.sub = [j \in DOMAIN @ |-> @[j] + n]]]

\* The trees res one behind the other, and a node over them.
Laid(st, re) == [nodes |-> st.nodes \o Moved(re, Len(st.nodes)), roots |-> Append(st.roots, Len(st.nodes) + Len(re))]
Over(op, res) ==
  LET laid == FoldLeft(Laid, [nodes |-> <<>>, roots |-> <<>>], res)
  IN  Append(laid.nodes, [Node(op) EXCEPT !.sub = laid.roots])

Cat(res) == Over("cat", res)
Alt(res) == Over("alt", res)
Star(re) == Over("star", <<re>>)
Quest(re) == Over("quest", <<re>>)
PlusOf(re) == Over("plus", <<re>>)
Capture(re) == Over("cap", <<re>>)

\* What At makes of every node, from what it made of the nodes before it.
Upward(re, At(_, _)) ==
  LET upTo[k \in 0..Len(re)] ==
        LET Then(done) == Append(done, At(re[k], done)) IN IF k = 0 THEN <<>> ELSE Then(upTo[k - 1])
  IN  upTo[Len(re)]

-----------------------------------------------------------------------------
WordChars == Alphabetic \cup Decimal \cup {Code["_"]}
WordAt(v, i) == i \in DOMAIN v /\ v[i] \in WordChars

SameByte(node, a, b) == IF node.fold THEN Fold(a) = Fold(b) ELSE a = b

\* Where the matches of a subexpression that begin in at end.
After(ends, at) == UNION {ends[j] : j \in at}

\* Where a match of the node that begins at i can end.
EndsAt(node, done, v, i) ==
  LET grown == FoldLeft(LAMBDA at, b : at \cup After(done[node.sub[1]], at), {i}, v)
  IN  CASE node.op = "lit" ->
             IF HasAt(v, i, Len(node.s)) /\ \A k \in DOMAIN node.s : SameByte(node, v[i + k - 1], node.s[k])
             THEN {i + Len(node.s)} ELSE {}
        [] node.op = "class" ->
             IF i <= Len(v) /\ \E k \in DOMAIN node.ranges : v[i] \in node.ranges[k][1]..node.ranges[k][2]
             THEN {i + 1} ELSE {}
        [] node.op = "cat" -> FoldLeft(LAMBDA at, k : After(done[k], at), {i}, node.sub)
        [] node.op = "alt" -> UNION {done[node.sub[k]][i] : k \in DOMAIN node.sub}
        [] node.op = "quest" -> {i} \cup done[node.sub[1]][i]
        [] node.op = "cap" -> done[node.sub[1]][i]
        [] node.op = "star" -> grown
        [] node.op = "plus" -> After(done[node.sub[1]], grown)
        [] node.op = "begin" -> IF i = 1 THEN {i} ELSE {}
        [] node.op = "end" -> IF i = Len(v) + 1 THEN {i} ELSE {}
        [] node.op = "word" -> IF WordAt(v, i - 1) # WordAt(v, i) THEN {i} ELSE {}

Ends(re, v) == Upward(re, LAMBDA node, done : [i \in 1..(Len(v) + 1) |-> EndsAt(node, done, v, i)])

Matches(re, v) == \E i \in 1..(Len(v) + 1) : Ends(re, v)[Len(re)][i] # {}

-----------------------------------------------------------------------------
MinLiteral == 3
MaxLiteralDepth == 24
MaxPrefixSet == 16

\* A small class is an alternation of single bytes.
ClassLiterals(ranges) ==
  LET one(r) == [k \in 1..(r[2] - r[1] + 1) |-> <<r[1] + k - 1>>]
      all == FlattenSeq([k \in DOMAIN ranges |-> one(ranges[k])])
      plain == \A k \in DOMAIN ranges : ranges[k][1] >= 33 /\ ranges[k][2] <= 126
  IN  IF plain /\ Len(all) <= MaxPrefixSet THEN all ELSE <<>>

ExtendAll(prefix, suffixes) ==
  IF Len(suffixes) > MaxPrefixSet THEN <<>> ELSE [k \in DOMAIN suffixes |-> prefix \o suffixes[k]]

\* A union of branches says something only when every branch does.
Union(parts) == IF \E k \in DOMAIN parts : parts[k] = <<>> THEN <<>> ELSE FlattenSeq(parts)

\* A literal is what it matches.
Itself(s) == IF s = <<>> THEN <<>> ELSE <<s>>

\* Every string that the node matches begins with one of these; empty when
\* unknown.  depth is how far the search is from where it began.
PrefixesAt(re, node, done, depth) ==
  LET of(k) == done[node.sub[k]][depth + 1]
  IN  IF depth > MaxLiteralDepth THEN <<>>
      ELSE CASE node.op = "lit" -> Itself(node.s)
        [] node.op \in {"cap", "plus"} -> of(1)
        [] node.op = "class" -> ClassLiterals(node.ranges)
        [] node.op = "alt" ->
             LET all == Union([k \in DOMAIN node.sub |-> of(k)]) IN IF Len(all) > MaxPrefixSet THEN <<>> ELSE all
        [] node.op = "cat" /\ node.sub # <<>> ->
             LET first == re[node.sub[1]]
                 glued == IF first.op = "lit" /\ Len(node.sub) > 1 THEN ExtendAll(first.s, of(2)) ELSE <<>>
             IN  IF glued # <<>> THEN glued ELSE of(1)
        [] OTHER -> <<>>

Depths == 0..(MaxLiteralDepth + 1)

LiteralPrefixes(re) == Upward(re, LAMBDA node, done : [depth \in Depths |-> PrefixesAt(re, node, done, depth)])

Selectivity(ss) == Min({Len(ss[k]) : k \in DOMAIN ss}) * 8 - Len(ss)

\* The more selective of two sets; either may be unknown.
Considered(best, c) ==
  IF c # <<>> /\ (best = <<>> \/ Selectivity(c) > Selectivity(best)) THEN c ELSE best

\* A run of literals, glued to the prefixes of what follows it.
Flushed(st, next) ==
  LET glued == ExtendAll(st.run, next)
  IN  IF st.run = <<>> THEN st.best
      ELSE Considered(st.best, IF glued # <<>> THEN glued ELSE <<st.run>>)

\* Every string that the node matches contains one of these; empty when unknown.
RequiredAt(re, prefixes, node, done, depth) ==
  LET of(k) == done[k][depth + 1]
      part(st, k) ==
        IF re[k].op = "lit" THEN [st EXCEPT !.run = @ \o re[k].s]
        ELSE [run |-> <<>>, best |-> Considered(Flushed(st, prefixes[k][depth + 1]), of(k))]
  IN  IF depth > MaxLiteralDepth THEN <<>>
      ELSE CASE node.op = "lit" -> Itself(node.s)
        [] node.op \in {"cap", "plus"} -> of(node.sub[1])
        [] node.op = "alt" -> Union([k \in DOMAIN node.sub |-> of(node.sub[k])])
        [] node.op = "cat" ->
             Flushed(FoldLeft(part, [run |-> <<>>, best |-> <<>>], node.sub), <<>>)
        [] OTHER -> <<>>

RequiredLiterals(re) ==
  LET prefixes == LiteralPrefixes(re)
  IN  Upward(re, LAMBDA node, done : [depth \in Depths |-> RequiredAt(re, prefixes, node, done, depth)])

\* Mutation of Required: the parts of a concatenation are all taken together.
Pooled(re) ==
  Last(Upward(re, LAMBDA node, done :
    LET all == FlattenSeq([k \in DOMAIN node.sub |-> done[node.sub[k]]])
        best == {k \in DOMAIN all : \A j \in DOMAIN all : Len(all[j]) <= Len(all[k])}
    IN  CASE node.op = "lit" -> Itself(node.s)
          [] node.op \in {"cap", "plus"} -> done[node.sub[1]]
          [] node.op \in {"cat", "alt"} -> IF all = <<>> THEN <<>> ELSE <<all[Min(best)]>>
          [] OTHER -> <<>>))

Required(re) == RequiredLiterals(re)[Len(re)][0]

\* All or nothing: the set is a disjunction.
ExtractLiterals(re) ==
  LET lits == Required(re)
  IN  IF \E k \in DOMAIN lits : Len(lits[k]) < MinLiteral THEN <<>>
      ELSE [k \in DOMAIN lits |-> ToLower(lits[k])]

\* What the automaton folds is what ToLower folds.
AsciiLiterals(re) == \A lit \in Range(Required(re)) : \A i \in DOMAIN lit : lit[i] < 128

-----------------------------------------------------------------------------
(***************************************************************************)
(* rules/op and rules/op/rx: the operators a rule can have.  words are the *)
(* arguments; re is the syntax tree of a pattern.                          *)
(***************************************************************************)
Operator(name, words, re, negated) ==
  [name |-> name, words |-> words, re |-> re, negated |-> negated]

NoPattern == Cat(<<>>)

OperatorNames == {"contains", "contains_any", "equals", "has_prefix", "rx", "func", "nil"}
Operations == [name: OperatorNames, words: Seq(Seq(Int)), re: Seq(Nodes), negated: BOOLEAN]
OperatorShape(op) ==
  /\ op.name \in {"equals", "has_prefix"} => Len(op.words) = 1
  /\ op.name = "rx" => Tree(op.re)

ContainsOne(needle) == Operator("contains", <<needle>>, NoPattern, FALSE)
ContainsAny(needles) ==
  Operator("contains_any", Those(needles, Range(needles) \ {<<>>}), NoPattern, FALSE)
Equals(want) == Operator("equals", <<want>>, NoPattern, FALSE)
HasPrefix(prefix) == Operator("has_prefix", <<prefix>>, NoPattern, FALSE)
Rx(re, negated) == Operator("rx", <<>>, re, negated)

\* A predicate of the embedder's, with the literals it was said to require.
FuncOf(holds, literals) == Operator("func", literals, holds, FALSE)

EqualFold(a, lowered) == Lower(a) = lowered

\* The first place needle lies in haystack, ignoring the case of ASCII letters; 0 for none.
IndexFold(haystack, needle) ==
  LET at == {i \in 1..(Len(haystack) - Len(needle) + 1) :
               EqualFold(SubSeq(haystack, i, i + Len(needle) - 1), needle)}
  IN  IF needle = <<>> THEN 1 ELSE IF at = {} THEN 0 ELSE Min(at)

Eval(op, value) ==
  CASE op.name \in {"contains", "contains_any"} ->
         \E k \in DOMAIN op.words : op.words[k] # <<>> /\ IndexFold(value, Lower(op.words[k])) > 0
    [] op.name = "equals" -> value = op.words[1]
    [] op.name = "has_prefix" ->
         HasAt(value, 1, Len(op.words[1])) /\ EqualFold(SubSeq(value, 1, Len(op.words[1])), Lower(op.words[1]))
    [] op.name = "rx" -> Matches(op.re, value) # op.negated
    [] op.name = "func" -> Matches(op.re, value)

\* The literals without which the operator cannot match; none means it always runs.
Literals(op) ==
  CASE op.name \in {"equals", "has_prefix"} -> IF op.words[1] = <<>> THEN <<>> ELSE op.words
    [] op.name = "rx" -> IF op.negated THEN <<>> ELSE ExtractLiterals(op.re)
    [] OTHER -> op.words

\* A pattern is keyed on bytes beyond ASCII only when its letters are.
AsciiKeyed(op) == op.name = "rx" => AsciiLiterals(op.re)
=============================================================================
