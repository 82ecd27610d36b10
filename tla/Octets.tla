------------------------------- MODULE Octets -------------------------------
(***************************************************************************)
(* Octets: values as sequences of bytes, for the code that decodes them.   *)
(* A byte is its number; Octets("...") writes a printable value down.      *)
(***************************************************************************)
EXTENDS Integers, Sequences, SequencesExt, FiniteSetsExt, TLC

Upper64 == " !\"#$%&'()*+,-./0123456789:;<=>?@ABCDEFGHIJKLMNOPQRSTUVWXYZ[\\]^_"
Lower30 == "abcdefghijklmnopqrstuvwxyz{|}~"

\* The code of every printable character but the backquote.
Coded(text, first) ==
  [c \in {SubSeq(text, k, k) : k \in 1..Len(text)} |->
     first + (CHOOSE k \in 1..Len(text) : SubSeq(text, k, k) = c) - 1]
Code == Coded(Upper64, 32) @@ Coded(Lower30, 97)

Octets(text) == [i \in 1..Len(text) |-> Code[SubSeq(text, i, i)]]
OctetSet(text) == {Code[SubSeq(text, i, i)] : i \in 1..Len(text)}

Space == 32
Percent == 37
Plus == 43
Dot == 46
Slash == 47
Backslash == 92
Backquote == 96
Newline == 10
Return == 13

Blanks == {Space, 9, 10, 11, 12, 13}
Decimal == 48..57
Octal == 48..55
UpperCase == 65..90
LowerCase == 97..122
Alphabetic == UpperCase \cup LowerCase
HexDigits == Decimal \cup 65..70 \cup 97..102

\* unhex, hexVal, digitValue, unhexDigit.
Digit == [b \in HexDigits |-> IF b \in Decimal THEN b - 48
                              ELSE IF b \in LowerCase THEN b - 87 ELSE b - 55]

\* The number that the digits of ds spell in base.
Spelled(ds, base) == FoldLeft(LAMBDA v, d : v * base + Digit[d], 0, ds)

\* The value of a base64 character.
Base64Value == [b \in Alphabetic \cup Decimal \cup {Plus, Slash} |->
                  IF b \in UpperCase THEN b - 65 ELSE IF b \in LowerCase THEN b - 71
                  ELSE IF b \in Decimal THEN b + 4 ELSE IF b = Plus THEN 62 ELSE 63]

\* 1 << n at n + 1.
OneLeft == <<1, 2, 4, 8, 16, 32>>

Fold(b) == IF b \in UpperCase THEN b + 32 ELSE b

\* The members of s that are chosen, in their order.
Those(s, chosen) == FoldLeft(LAMBDA out, x : IF x \in chosen THEN Append(out, x) ELSE out, <<>>, s)

\* The symbols of s at i and after, n of them, when s is that long.
HasAt(s, i, n) == i + n - 1 <= Len(s)
PairAt(s, i, a, b) == HasAt(s, i, 2) /\ s[i] = a /\ s[i + 1] = b
HexAt(s, i, n) == HasAt(s, i, n) /\ \A k \in i..(i + n - 1) : s[k] \in HexDigits
LiesAt(s, i, pat) == HasAt(s, i, Len(pat)) /\ SubSeq(s, i, i + Len(pat) - 1) = pat

\* The first position at or after i whose byte is not in cs.
RunEnd(s, i, cs) ==
  LET stops == {k \in i..Len(s) : s[k] \notin cs} IN IF stops = {} THEN Len(s) + 1 ELSE Min(stops)

\* The first position whose byte is in cs.
FirstIn(s, cs) ==
  LET found == {k \in DOMAIN s : s[k] \in cs} IN IF found = {} THEN Len(s) + 1 ELSE Min(found)

\* "%XX".
EscapeAt(s, i) == s[i] = Percent /\ HexAt(s, i + 1, 2)
Escaped(s, i) == 16 * Digit[s[i + 1]] + Digit[s[i + 2]]

\* A rune as UTF-8.
Utf8(r) ==
  IF r < 128 THEN <<r>>
  ELSE IF r < 2048 THEN <<192 + r \div 64, 128 + (r % 64)>>
  ELSE IF r < 65536 THEN <<224 + r \div 4096, 128 + ((r \div 64) % 64), 128 + (r % 64)>>
  ELSE <<(240 + r \div 262144) % 256, 128 + ((r \div 4096) % 64), 128 + ((r \div 64) % 64), 128 + (r % 64)>>

(* A scan of a value from its first byte: puts says for each position what   *)
(* to write and how many bytes that stands for.                              *)
Put(bytes, n) == [out |-> bytes, used |-> n]
Copy(s, i) == Put(<<s[i]>>, 1)

Rewrite(puts) ==
  LET rest[i \in 1..(Len(puts) + 1)] ==
        LET Then(p) == p.out \o rest[i + p.used] IN IF i > Len(puts) THEN <<>> ELSE Then(puts[i])
  IN  rest[1]
=============================================================================
