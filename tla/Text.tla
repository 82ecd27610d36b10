-------------------------------- MODULE Text --------------------------------
(***************************************************************************)
(* One value on its way through the readings and a rule's transforms.  The *)
(* origin means something by the value it is sent; the firewall knows only *)
(* the bytes.  The rule looks for exactly what the origin means.           *)
(***************************************************************************)
EXTENDS Ambiguity, Transforms, Hosts

CONSTANTS Requests,   \* [wire, chain, means]: the bytes, the rule's transforms, what is meant
          Unknown     \* the meaning of bytes about which nothing is claimed

ASSUME TextAssumption ==
  \A r \in Requests : /\ r.wire \in Seq(Int)
                       /\ r.chain \in Seq(TransformNames \cup {"numeric_host"})

VARIABLES pc, request, readings, chain, before, value, applied, changed, matched

vars == <<pc, request, readings, chain, before, value, applied, changed, matched>>

NoRequest == [wire |-> <<>>, chain |-> <<>>, means |-> Unknown]

Init ==
  /\ pc = "idle" /\ request = NoRequest /\ readings = <<>> /\ chain = <<>>
  /\ before = <<>> /\ value = <<>> /\ applied = "" /\ changed = FALSE /\ matched = FALSE

Arrive ==
  /\ pc = "idle"
  /\ \E r \in Requests : request' = r
  /\ pc' = "detect"
  /\ UNCHANGED <<readings, chain, before, value, applied, changed, matched>>

\* Detect and Build; a value with more readings than there is room for is undecidable.
Enumerate ==
  /\ pc = "detect"
  /\ \E set \in {Build(request.wire)} :
       /\ readings' = set.readings
       /\ pc' = IF set.truncated THEN "undecidable" ELSE "reading"
  /\ UNCHANGED <<request, chain, before, value, applied, changed, matched>>

OpenReading ==
  /\ pc = "reading" /\ readings # <<>>
  /\ value' = Head(readings) /\ readings' = Tail(readings)
  /\ chain' = request.chain
  /\ applied' = "" /\ changed' = FALSE
  /\ pc' = "chain"
  /\ UNCHANGED <<request, before, matched>>

\* The two halves of Apply, for every transform.
\* Mutation of NeededBy: only a pair of spaces is worth compressing.
NeededPair(t, s) ==
  IF t = "compress_whitespace" THEN \E i \in DOMAIN s : PairAt(s, i, Space, Space) ELSE Needed(t, s)

NeededBy(t, s) == IF t = "numeric_host" THEN NumericHostNeeded(s) ELSE Needed(t, s)
Output(t, s) == IF t = "numeric_host" THEN NumericHost(s) ELSE Slow(t, s)
Bound(t, n) == IF t = "numeric_host" THEN NumericHostMaxOutput(n) ELSE MaxOutputLen(t, n)

Apply ==
  /\ pc = "chain" /\ chain # <<>>
  /\ chain' = Tail(chain) /\ applied' = Head(chain) /\ before' = value
  /\ changed' = NeededBy(Head(chain), value)
  /\ value' = IF changed' THEN Output(Head(chain), value) ELSE value
  /\ UNCHANGED <<pc, request, readings, matched>>

Compare ==
  /\ pc = "chain" /\ chain = <<>>
  /\ matched' = (value = request.means)
  /\ pc' = IF matched' THEN "done" ELSE "reading"
  /\ UNCHANGED <<request, readings, chain, before, value, applied, changed>>

Finish ==
  /\ pc = "reading" /\ readings = <<>>
  /\ pc' = "done"
  /\ UNCHANGED <<request, readings, chain, before, value, applied, changed, matched>>

Next == Arrive \/ Enumerate \/ OpenReading \/ Apply \/ Compare \/ Finish

Spec == Init /\ [][Next]_vars

-----------------------------------------------------------------------------
(* A value cannot hide its meaning in an encoding that one of the classes    *)
(* names, on the wire as such or percent-encoded: some reading, normalized,  *)
(* is what the origin means, or the value is reported as undecidable.        *)
EncodedRead ==
  pc = "done" /\ request.chain # <<"numeric_host">> /\ request.means # Unknown => matched

(* Transform: what Apply returns stays within MaxOutputLen, and the quick    *)
(* look that lets the engine keep the original bytes never overlooks bytes   *)
(* the transform would have changed.                                         *)
TransformContract ==
  applied # "" => /\ Len(value) <= Bound(applied, Len(before))
                  /\ ~changed => Output(applied, before) = before

\* A path read so far: the segments it names, and the one under way.
NamesOf(cut) == IF cut.seg \in {<<>>, <<Dot>>} THEN cut.names ELSE Append(cut.names, cut.seg)

CutAt(cut, b) ==
  IF b \in Separators THEN [names |-> NamesOf(cut), seg |-> <<>>]
  ELSE [cut EXCEPT !.seg = Append(@, b)]

\* A path as the segments it names, from the root or from wherever it starts.
Names(s) == NamesOf(FoldLeft(CutAt, [names |-> <<>>, seg |-> <<>>], s))

\* Where a segment leads from the ones before it.
Entered(stack, p, rooted) ==
  LET up == <<Dot, Dot>>
  IN  IF p # up THEN Append(stack, p)
      ELSE IF stack # <<>> /\ Last(stack) # up THEN Front(stack)
      ELSE IF rooted THEN stack ELSE Append(stack, up)

Resolved(s) ==
  LET rooted == s # <<>> /\ s[1] \in Separators
  IN  [rooted |-> rooted, names |-> FoldLeft(LAMBDA stack, p : Entered(stack, p, rooted), <<>>, Names(s))]

(* NormalizePath, whose ".." pops by looking back through its output, names  *)
(* what a stack of segments would: it neither climbs past the root nor loses *)
(* a climb above the start of a relative path, and a path it leaves alone    *)
(* was resolved already.                                                     *)
PathResolved ==
  applied = "normalize_path" =>
    /\ Names(value) = Resolved(before).names
    /\ Resolved(value).rooted = Resolved(before).rooted
    /\ \A i \in DOMAIN value : value[i] # Backslash /\ ~PairAt(value, i, Slash, Slash)

(* NumericHost: an address in a host position comes out as its dotted quad   *)
(* however inet_aton lets it be spelled, so that a rule needs one literal.   *)
HostCanonical ==
  pc = "done" /\ request.chain = <<"numeric_host">> /\ request.means # Unknown => matched
=============================================================================
