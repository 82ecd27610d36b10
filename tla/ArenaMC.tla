------------------------------ MODULE ArenaMC ------------------------------
(* Model values for Arena: a two-byte array that doubles, moves and fills up. *)
EXTENDS Arena

MCKinds == {"header", "arg"}
MCCookieKeys == {<<"c">>}
MCPositionalKeys == {<<"p">>}
MCKeys == {<<"c">>, <<"p">>}
MCTexts == {<<"c">>, <<"c", "=", "p", ";", "p">>, <<" ", ";", "c", " ">>}
MCBodyKey == <<"b">>
=============================================================================
