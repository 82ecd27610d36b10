------------------------------ MODULE EngineMC ------------------------------
(***************************************************************************)
(* Model values for Engine.  A value is encoded (e), has upper case (u),   *)
(* both (eu), is plain (p), an attack (x), or an attack spelt in upper     *)
(* case (xu).  Transform 1 is lower case, 2 undoes the encoding, 3 strips. *)
(***************************************************************************)
EXTENDS Engine

MCData == {"e", "eu", "u", "p", "x", "xu"}

MCSize == [d \in MCData |-> IF d \in {"e", "eu"} THEN 2 ELSE 1]

MCImage == <<
  [d \in MCData |-> CASE d = "u" -> "p" [] d = "xu" -> "x" [] d = "eu" -> "e" [] OTHER -> d],
  [d \in MCData |-> CASE d = "e" -> "x" [] d = "eu" -> "xu" [] OTHER -> d],
  [d \in MCData |-> IF d = "p" THEN "x" ELSE d] >>

MCDecoded == [d \in MCData |->
  CASE d = "e" -> <<"x">> [] d = "eu" -> <<"u", "xu", "x">> [] d = "u" -> <<"u", "p">>
    [] OTHER -> <<>>]

R(targets, matches, unconditional, actions) ==
  [targets |-> targets, matches |-> matches, found |-> matches \cup {"u"},
   unconditional |-> unconditional, cost |-> 1, actions |-> actions]

G(chain_, rules) == [chain |-> chain_, rules |-> rules]

MCRulesets == {
  { G(<<>>, <<R({"arg"}, {"xu", "u"}, FALSE, <<"log">>),
              R({"arg"}, {"p"}, TRUE, <<"log">>)>>),
    G(<<2, 1>>, <<R({"arg", "head"}, {"x"}, FALSE, <<"score">>),
                  R({"arg"}, {"p"}, TRUE, <<"score", "log">>)>>),
    G(<<2, 1, 3>>, <<R({"head"}, {"x"}, FALSE, <<"score">>)>>),
    G(<<2, 3>>, <<R({"arg"}, {"x", "xu"}, FALSE, <<"log">>)>>),
    G(<<1>>, <<R({"arg"}, {"e"}, FALSE, <<"log">>)>>) },
  { G(<<1, 2>>, <<R({"head"}, {"x"}, TRUE, <<"score", "block", "score">>),
                  R({"arg"}, {"p"}, TRUE, <<"score">>)>>),
    G(<<2, 3>>, <<R({"arg"}, {"x"}, FALSE, <<"block">>),
                  R({"head"}, {"x"}, FALSE, <<"score">>)>>),
    G(<<1>>, <<R({"arg"}, {"p"}, FALSE, <<"log">>)>>),
    G(<<2>>, <<R({"arg", "head"}, {"xu", "x"}, FALSE, <<"score">>)>>) } }

V(kind, d) == [kind |-> kind, data |-> d, inert |-> FALSE]

MCValues ==
  { <<V(k, d)>> : k \in {"arg", "head"}, d \in MCData }
  \cup { <<V("arg", "e"), V("head", "u")>>, <<V("head", "eu"), V("arg", "p")>>,
         <<[kind |-> "arg", data |-> "x", inert |-> TRUE], V("head", "e")>> }
=============================================================================
