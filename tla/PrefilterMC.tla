----------------------------- MODULE PrefilterMC ----------------------------
(* Model values for Prefilter: every value up to four characters, literals   *)
(* that are prefixes, suffixes and infixes of one another, two-bit words.    *)
EXTENDS Prefilter

MCFold == [c \in {"a", "b", "A"} |-> IF c = "A" THEN "a" ELSE c]
MCValues == UNION {[1..n -> {"a", "b", "A"}] : n \in 0..4}
L(literal, rule) == [literal |-> literal, rule |-> rule]
MCRulesets ==
  { <<L(<<"a", "b", "a", "b">>, 0), L(<<"b", "a">>, 1), L(<<"b">>, 3), L(<<"A">>, 4)>>,
    <<L(<<"b", "a", "b", "A">>, 3), L(<<"a">>, 2), L(<<"a", "b", "b">>, 2),
      L(<<"b", "b">>, 0)>>,
    <<L(<<>>, 0)>>,
    <<L(<<"a", "a", "b", "a">>, 0), L(<<"a", "b", "A", "b">>, 1), L(<<"b">>, 2)>>,
    <<L(<<"A", "a">>, 1), L(<<"a", "A">>, 1), L(<<"a", "a", "a", "b">>, 5), L(<<"a", "b">>, 2)>> }
MCOthers == {{}, {1}, {0, 5}, {2, 7}}
=============================================================================
