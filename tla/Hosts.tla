------------------------------- MODULE Hosts --------------------------------
(***************************************************************************)
(* rules/transform/numerichost.go: every spelling of an address that       *)
(* inet_aton reads, rewritten as its dotted quad.                          *)
(***************************************************************************)
EXTENDS Octets

CONSTANTS ByteRange,     \* how many values one part of a dotted quad has (256)
          MaxHostToken   \* maxHostToken

ASSUME HostsAssumption == ByteRange \in 2..256 /\ MaxHostToken \in Nat

\* What each byte of an address counts.
Weight == <<ByteRange * ByteRange * ByteRange, ByteRange * ByteRange, ByteRange, 1>>
AddressRange == ByteRange * Weight[1]

\* The bytes of an address that are no digits.
HexMarks == OctetSet("xX")
HostMarks == {Dot} \cup HexMarks

HasNumericHostCandidate(s) ==
  Range(s) \cap Decimal # {} /\ Range(s) \cap HostMarks # {}

HostTokenStart(s, i) == s[i] \in Decimal /\ (i = 1 \/ s[i - 1] \in OctetSet("/@:=,[(\"' ") \cup {9})
HostTokenEnd(s, i) == RunEnd(s, i, HexDigits \cup HostMarks)
InHostPosition(s, i, end) ==
  IF i = 1 THEN end > Len(s) \/ s[end] \in OctetSet("/:") ELSE s[i - 1] \in OctetSet("/@:[")

-----------------------------------------------------------------------------
\* parseHostPart at i: the value, the position behind it (i when there is no
\* part) and whether it is in hex.
NoPart(i) == [value |-> 0, end |-> i, hex |-> FALSE]

Digits(s, i, start, base) ==
  LET j == RunEnd(s, start, {d \in HexDigits : Digit[d] < base})
      ds == SubSeq(s, start, j - 1)
      value == FoldLeft(LAMBDA v, d : Min({v * base + Digit[d], AddressRange}), 0, ds)
  IN  IF j = start \/ value >= AddressRange THEN NoPart(i)
      ELSE [value |-> value, end |-> j, hex |-> base = 16]

\* Mutation of ParseHostPart: a leading zero is decimal.
ParseDecimalPart(s, i) ==
  IF s[i] \notin Decimal THEN NoPart(i)
  ELSE IF HasAt(s, i, 2) /\ s[i] = Code["0"] /\ s[i + 1] \in HexMarks THEN Digits(s, i, i + 2, 16)
  ELSE Digits(s, i, i, 10)

ParseHostPart(s, i) ==
  IF s[i] \notin Decimal THEN NoPart(i)
  ELSE IF s[i] # Code["0"] THEN Digits(s, i, i, 10)
  ELSE IF HasAt(s, i, 2) /\ s[i + 1] \in HexMarks THEN Digits(s, i, i + 2, 16)
  ELSE IF ~HasAt(s, i, 2) \/ s[i + 1] = Dot THEN [value |-> 0, end |-> i + 1, hex |-> FALSE]
  ELSE Digits(s, i, i + 1, 8)

\* The parts of a token, <<>> when it is not made of one to four parts and dots.
HostParts(tok) ==
  LET from[i \in 1..Len(tok)] ==
        LET p == ParseHostPart(tok, i)
        IN  IF p.end = i THEN <<>>
            ELSE IF p.end > Len(tok) THEN <<p>>
            ELSE IF tok[p.end] # Dot \/ p.end = Len(tok) THEN <<>>
            ELSE LET rest == from[p.end + 1] IN IF rest = <<>> THEN <<>> ELSE <<p>> \o rest
  IN  IF Len(from[1]) > 4 THEN <<>> ELSE from[1]

\* parseNumericHost: the last part spreads over the bytes the others left.
Address(parts, whole) ==
  LET n == Len(parts)
      last == parts[n].value
      hex == \E k \in 1..n : parts[k].hex
      room == ByteRange * Weight[n]
  IN  IF \/ n = 0
         \/ n = 1 /\ ~hex
         \/ \E k \in 1..(n - 1) : parts[k].value >= ByteRange
         \/ last >= room
         \/ n < 4 /\ ~hex /\ last < ByteRange /\ ~whole
      THEN <<>>
      ELSE [k \in 1..4 |-> IF k < n THEN parts[k].value ELSE (last \div Weight[k]) % ByteRange]

ParseNumericHost(tok, whole) == Address(IF Len(tok) > MaxHostToken THEN <<>> ELSE HostParts(tok), whole)

\* appendDottedQuad, appendUint.
DecimalOf(v) ==
  LET spelled[n \in 0..v] == IF n < 10 THEN <<48 + n>> ELSE spelled[n \div 10] \o <<48 + (n % 10)>>
  IN  spelled[v]

DottedQuad(addr) ==
  DecimalOf(addr[1]) \o <<Dot>> \o DecimalOf(addr[2]) \o <<Dot>> \o DecimalOf(addr[3])
  \o <<Dot>> \o DecimalOf(addr[4])

NumericHost(s) ==
  Rewrite([i \in DOMAIN s |->
    LET end == HostTokenEnd(s, i)
        tok == SubSeq(s, i, end - 1)
        Host(addr) == Put(IF addr = <<>> THEN tok ELSE DottedQuad(addr), end - i)
    IN  IF HostTokenStart(s, i) THEN Host(ParseNumericHost(tok, InHostPosition(s, i, end))) ELSE Copy(s, i)])

NumericHostNeeded(s) == HasNumericHostCandidate(s) /\ NumericHost(s) # s
NumericHostMaxOutput(n) == 5 * n + 16
=============================================================================
