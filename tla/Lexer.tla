------------------------------- MODULE Lexer --------------------------------
(***************************************************************************)
(* seclang/parse.go: lines of SecLang into directives, and the lists that  *)
(* the arguments of a directive are.  A piece of text is a sequence of     *)
(* bytes; the words that are looked up in a table are strings.             *)
(***************************************************************************)
EXTENDS Octets

Letters == {Code[c] : c \in DOMAIN Code}
Char == [b \in Letters |-> CHOOSE c \in DOMAIN Code : Code[c] = b]
Lowercased(s) == [i \in DOMAIN s |-> Fold(s[i])]
Raised(s) == [i \in DOMAIN s |-> IF s[i] \in LowerCase THEN s[i] - 32 ELSE s[i]]

Written(s) == FoldLeft(LAMBDA text, b : text \o Char[b], "", s)
Word(s) == Written(Lowercased(s))

TrimLeft(s, cs) == SubSeq(s, RunEnd(s, 1, cs), Len(s))
TrimRight(s, cs) == Reverse(TrimLeft(Reverse(s), cs))
Trim(s, cs) == TrimLeft(TrimRight(s, cs), cs)
TrimSpace(s) == Trim(s, Blanks)

Gaps == {Space, 9}
Quotes == {Code["'"], Code["\""]}
Hash == Code["#"]
Comma == Code[","]
Colon == Code[":"]
Bar == Code["|"]
Bang == Code["!"]

HasPrefixByte(s, b) == s # <<>> /\ s[1] = b
Rest(s, n) == SubSeq(s, n + 1, Len(s))

\* What lies before the first b, and behind it.
Before(s, b) == SubSeq(s, 1, FirstIn(s, {b}) - 1)
Behind(s, b) == Rest(s, FirstIn(s, {b}))

\* A backslash at the end of a line continues the directive on the next.
Continues(raw) == LET t == TrimRight(raw, Gaps) IN t # <<>> /\ Last(t) = Backslash

Joined(lines) ==
  FoldLeft(LAMBDA done, line :
             IF done # <<>> /\ Continues(Last(done))
             THEN Append(Front(done), Append(Front(TrimRight(Last(done), Gaps)), Space) \o TrimLeft(line, Gaps))
             ELSE Append(done, line),
           <<>>, lines)

-----------------------------------------------------------------------------
(* The machines that cut a text: out is what they have, cur the piece in     *)
(* hand, quote the quote that is open (0 for none), taken a byte that an     *)
(* escape took along.                                                        *)
Start == [out |-> <<>>, cur |-> <<>>, quote |-> 0, taken |-> FALSE, inCur |-> FALSE, depth |-> 0, over |-> FALSE]

With(st, b) == [st EXCEPT !.cur = Append(@, b), !.taken = FALSE, !.inCur = TRUE]

\* lexArgs: quotes hold blanks and '#', and the operator sees the backslashes.
ArgByte(st, b) ==
  CASE st.over -> st
    [] st.quote # 0 /\ st.taken -> With(st, b)
    [] st.quote # 0 /\ b = Backslash -> [With(st, b) EXCEPT !.taken = TRUE]
    [] st.quote # 0 /\ b = st.quote -> [st EXCEPT !.quote = 0]
    [] st.quote # 0 -> With(st, b)
    [] b \in Gaps -> IF st.inCur THEN [st EXCEPT !.out = Append(@, st.cur), !.cur = <<>>, !.inCur = FALSE] ELSE st
    [] b = Hash /\ ~st.inCur -> [st EXCEPT !.over = TRUE]
    [] b \in Quotes -> [st EXCEPT !.quote = b, !.inCur = TRUE]
    [] OTHER -> With(st, b)

LexArgs(line) ==
  LET st == FoldLeft(ArgByte, Start, line)
  IN  [ok |-> st.quote = 0, args |-> IF st.inCur THEN Append(st.out, st.cur) ELSE st.out]

\* The piece in hand, when it is more than blanks, is done.
Cut(st) ==
  LET piece == TrimSpace(st.cur)
  IN  [st EXCEPT !.out = IF piece = <<>> THEN @ ELSE Append(@, piece), !.cur = <<>>]

\* Commas outside quotes.
SplitActions(s) ==
  LET byte(st, b) ==
        CASE st.quote # 0 /\ st.taken -> With(st, b)
          [] st.quote # 0 /\ b = Backslash -> [With(st, b) EXCEPT !.taken = TRUE]
          [] st.quote # 0 -> [With(st, b) EXCEPT !.quote = IF b = @ THEN 0 ELSE @]
          [] b \in Quotes -> [With(st, b) EXCEPT !.quote = b]
          [] b = Comma -> Cut(st)
          [] OTHER -> With(st, b)
  IN  Cut(FoldLeft(byte, Start, s)).out

\* Bars outside brackets.
SplitVariables(s) ==
  LET byte(st, b) ==
        CASE b = Code["["] -> [With(st, b) EXCEPT !.depth = @ + 1]
          [] b = Code["]"] -> [With(st, b) EXCEPT !.depth = @ - 1]
          [] b = Bar /\ st.depth <= 0 -> Cut(st)
          [] OTHER -> With(st, b)
  IN  Cut(FoldLeft(byte, Start, s)).out

Fields(s) ==
  LET byte(st, b) == IF b \in Blanks THEN Cut(st) ELSE With(st, b)
  IN  Cut(FoldLeft(byte, Start, s)).out

Unquoted(v) ==
  IF Len(v) >= 2 /\ v[1] \in Quotes /\ Last(v) = v[1] THEN SubSeq(v, 2, Len(v) - 1) ELSE v

ParseAction(s) ==
  [name |-> Word(TrimSpace(Before(s, Colon))), value |-> Unquoted(TrimSpace(Behind(s, Colon)))]

ActionsOf(s) == LET parts == SplitActions(s) IN [k \in DOMAIN parts |-> ParseAction(parts[k])]

\* "!@rx x" is negated; a bare pattern means @rx.
ParseOperator(text) ==
  LET trimmed == TrimSpace(text)
      negated == HasPrefixByte(trimmed, Bang)
      s == IF negated THEN TrimSpace(Rest(trimmed, 1)) ELSE trimmed
  IN  IF ~HasPrefixByte(s, Code["@"]) THEN [name |-> "rx", arg |-> s, negated |-> negated]
      ELSE [name |-> Word(TrimSpace(Before(Rest(s, 1), Space))),
            arg |-> TrimSpace(Behind(Rest(s, 1), Space)), negated |-> negated]

\* The directives of a file, each with the line it begins on; none when a quote is left open.
Parse(lines) ==
  LET lexed == [k \in DOMAIN Joined(lines) |-> LexArgs(Joined(lines)[k])]
      said == Those(lexed, {d \in Range(lexed) : d.args # <<>>})
  IN  [ok |-> \A k \in DOMAIN lexed : lexed[k].ok,
       directives |-> [k \in DOMAIN said |-> [name |-> Word(said[k].args[1]), args |-> Tail(said[k].args)]]]
=============================================================================
