-------------------------------- MODULE Body --------------------------------
(***************************************************************************)
(* Transaction.SetRequestBody (transaction.go): what of a request body is  *)
(* recorded for the rules to read.  A client puts a body together, symbol  *)
(* by symbol, from one of the Requests; handing it over undoes the content *)
(* encoding, picks the parsers its type and its look call for, and falls   *)
(* back to the text of the whole.                                          *)
(*                                                                         *)
(* The schema and the arena are modules of their own, and the buffers the  *)
(* decoders reuse are values here.                                         *)
(***************************************************************************)
EXTENDS Framing, Multipart

Jsons == INSTANCE Json
Xmls == INSTANCE Xml

CONSTANTS
  Requests   \* [media, boundary, encoding, grpc, bytes, symbols, edits, leaves]

VARIABLES
  req,      \* the request; symbols may be written edits times more
  asked,    \* leaves: what the body holds, or <<>> once it was edited (history)
  tx,       \* [values, err, undecodable, noted, tooLarge]: what was recorded
  given     \* the body was handed over

vars == <<req, asked, tx, given>>

Fresh == [values |-> <<>>, err |-> "", undecodable |-> FALSE, noted |-> FALSE, tooLarge |-> FALSE]

Init == /\ req \in Requests /\ asked = req.leaves
        /\ tx = Fresh /\ given = FALSE

\* A client writes another symbol, drops one or replaces one.
Edited(bytes, i, c) ==
  {InsertAt(bytes, i, c)}
    \cup (IF i \in DOMAIN bytes THEN {RemoveAt(bytes, i), ReplaceAt(bytes, i, c)} ELSE {})

Edit ==
  /\ ~given /\ req.edits > 0
  /\ \E i \in 1..Len(req.bytes) + 1, c \in req.symbols :
       \E bytes \in Edited(req.bytes, i, c) :
         req' = [req EXCEPT !.bytes = bytes, !.edits = @ - 1]
  /\ asked' = <<>> /\ UNCHANGED <<tx, given>>

-----------------------------------------------------------------------------
(* Recording *)

Val(target, name, value) == [target |-> target, name |-> name, value |-> value]

\* recordFieldBytes, value after value; one that is too large is noted under its
\* key, so never without one.
RecordFields(t, vs) ==
  [t EXCEPT !.values = @ \o SelectSeq(vs, LAMBDA v : Len(v.value) <= MaxValueLen),
            !.noted = @ \/ \E k \in DOMAIN vs : Len(vs[k].value) > MaxValueLen /\ vs[k].name # <<>>]

RecordBody(t, b) == RecordFields(t, <<Val("body", <<>>, b)>>)

Positional == {<<"__proto__">>, <<"constructor">>}

\* recordArgName: a name whose danger is positional is recorded under its path too.
ArgName(parent, key) ==
  LET path == parent \o <<".">> \o key
  IN  <<Val("argname", parent, key)>>
      \o (IF parent # <<>> /\ key \in Positional /\ Len(path) <= MaxValueLen
          THEN <<Val("argname", path, path)>> ELSE <<>>)

\* Text extracted from binary content, under a name for each run.
TextRuns(target, key, runs) ==
  [k \in DOMAIN runs |-> Val(target, key \o <<"@", ToString(runs[k].at)>>, runs[k].value)]

\* recordNestedBase64: a second layer.
Nested(target, key, value) ==
  LET next == DecodeBase64(value)
  IN  IF (IsBase64(value) \/ IsBase64Text(value)) /\ ~IsBinary(next) THEN <<Val(target, key, next)>> ELSE <<>>

\* recordValueBytes: long base64 is decoded, short base64 is recorded both ways
\* if it decodes to text.
ValueBytes(target, f) ==
  LET raw == <<Val(target, f.name, f.value)>>
      Layers(decoded) == <<Val(target, f.name, decoded)>> \o Nested(target, f.name, decoded)
      Long(decoded) == IF IsBinary(decoded) THEN TextRuns(target, f.name, Runs(decoded, f.room))
                       ELSE Layers(decoded)
  IN  IF IsBase64(f.value) THEN Long(DecodeBase64(f.value))
      ELSE IF IsBase64Text(f.value) THEN Layers(DecodeBase64(f.value)) \o raw
      ELSE raw

\* What is recorded of what a parser emitted; an error is kept, and so is what
\* was emitted before it.
OfEmitted(t, vss, err) == [RecordFields(t, FlattenSeq(vss)) EXCEPT !.err = IF err = "" THEN @ ELSE err]

\* parseStructuredBody.
StructuredField(f) == IF f.kind = "key" THEN ArgName(f.name, f.value) ELSE ValueBytes("arg", f)

Structured(t, st) == OfEmitted(t, [k \in DOMAIN st.out |-> StructuredField(st.out[k])], st.err)

\* parseMultipartBody, file names under a target of their own.
PartedField(f) ==
  LET content == IF IsBinary(f.value) THEN TextRuns("arg", f.name, Runs(f.value, f.room)) ELSE ValueBytes("arg", f)
      filename == <<Val("filename", f.name, f.value)>>
  IN  CASE f.kind = "header" -> <<Val("header", f.name, f.value)>>
        [] f.kind = "key" -> ArgName(f.name, f.value)
        [] OTHER -> IF Last(f.name) = ".filename" THEN filename \o content ELSE content

Parted(t, st) == OfEmitted(t, [k \in DOMAIN st.out |-> PartedField(st.out[k])], st.err)

-----------------------------------------------------------------------------
(* Unstructured bodies: recordText, recordUnframed, recordBody *)

\* ExtractText with recordValueBytes as its callback, run after run, as long as
\* fields are left; a run that is base64 of binary content takes fields itself.
ExtractText(t, name, b) ==
  LET Cost(text, room) == IF text = <<>> THEN 1 ELSE 1 + Len(Runs(text, room))
      Taken(acc, run, room) ==
        IF room < 0 THEN acc
        ELSE [vs |-> acc.vs \o ValueBytes("body", [name |-> name \o <<"@", ToString(run.at)>>,
                                                  value |-> run.value, room |-> room]),
              fields |-> acc.fields + Cost(Inner(run.value), room)]
      All(runs) == LET past[n \in 0..Len(runs)] ==
                         LET More(acc) == Taken(acc, runs[n], MaxFields - acc.fields - 1)
                         IN  IF n = 0 THEN [vs |-> <<>>, fields |-> 0] ELSE More(past[n - 1])
                   IN  past[Len(runs)].vs
  IN  RecordFields(t, All(Runs(b, MaxFields)))

\* What a parser recorded, and whether that is enough of the body.
With(t, st) == [t |-> Structured(t, st), enough |-> st.err = ""]
Nothing(t) == [t |-> t, enough |-> FALSE]
Short(r) == [r EXCEPT !.enough = FALSE]

\* JSON or XML if it looks like it, whatever it is declared to be.
WithSniffedJSON(t, b) == IF Jsons!SniffJSON(b) THEN With(t, Jsons!ParseJSON(b)) ELSE Nothing(t)

WithSniffed(t, b) ==
  IF Jsons!SniffJSON(b) THEN With(t, Jsons!ParseJSON(b))
  ELSE IF Xmls!SniffXML(b) THEN Short(With(t, Xmls!ParseXML(b))) ELSE Nothing(t)

ProtobufValues(out) == [n \in DOMAIN out |-> Val("arg", out[n].name, out[n].value)]

RecordUnread(r, k, b) ==
  IF r.enough THEN r.t
  ELSE IF IsMessage(b, 0) THEN RecordFields(r.t, ProtobufValues(ParseProtobuf(b)))
  ELSE ExtractText(r.t, <<"body", "#", ToString(k - 1)>>, b)

\* A message of a frame: JSON, XML, protobuf or binary.
RecordMessage(t, k, b) == RecordUnread(WithSniffed(t, b), k, b)

\* The messages from the kth on, those left out that could not be read.
RECURSIVE RecordMessages(_, _, _)
RecordMessages(t, k, messages) ==
  IF k > Len(messages) THEN t
  ELSE RecordMessages(IF messages[k].err \/ messages[k].out = <<>> THEN t ELSE RecordMessage(t, k, messages[k].out),
                      k + 1, messages)

RecordFramed(t, messages) ==
  RecordMessages([t EXCEPT !.undecodable = @ \/ \E k \in DOMAIN messages : messages[k].err], 1, messages)

RecordText(t, b) == IF IsBinary(b) THEN ExtractText(t, <<"body">>, b) ELSE RecordBody(t, b)

RecordUnframed(t, b) ==
  IF IsGRPCFramed(b) THEN RecordFramed(t, Unframe(b, DetectGRPCEncoding(req.grpc))) ELSE RecordText(t, b)

\* Mutation of RecordWhole: frames are looked for before base64.
RecordWholeFramed(t, b) == RecordUnframed(t, b)

RecordWhole(t, b) ==
  RecordFields(RecordUnframed(t, IF IsBase64Body(b) THEN DecodeBase64(b) ELSE b),
               IF IsBase64Body(b) THEN <<Val("body", <<>>, b)>> ELSE <<>>)

-----------------------------------------------------------------------------
(* SetRequestBody *)

\* decompress: an encoding that cannot be undone is noted, and the bytes stay.
Decompressed(b) ==
  LET declared == DetectEncoding(req.encoding)
      enc == IF declared = "none" /\ SniffGzip(b) THEN "gzip" ELSE declared
      r == Decompress(b, enc)
  IN  CASE enc = "none" -> [b |-> b, undecodable |-> FALSE]
        [] enc # "none" /\ enc \notin Decodable -> [b |-> b, undecodable |-> TRUE]
        [] OTHER -> [b |-> IF r.err /\ r.out = <<>> THEN b ELSE r.out, undecodable |-> r.err]

\* Mutation of Fallback: a body that did not parse was looked at enough.
FallbackNever(t, b) == t

Fallback(t, b) == RecordWhole(t, b)

\* A body declared as multipart: its parts, and the whole if they are not enough.
WithParts(t, st) == [t |-> Parted(t, st), enough |-> st.err = ""]

DeclaredMultipart(t, b) ==
  IF req.boundary = <<>> THEN Nothing([t EXCEPT !.err = "boundary"])
  ELSE WithParts(t, ParseMultipart(b, req.boundary))

\* One that looks like multipart although it is not declared so is parsed as one first.
SniffedMultipart(t, b, boundary) == IF boundary = <<>> THEN Nothing(t) ELSE WithParts(t, ParseMultipart(b, boundary))

\* The parser for the declared type, if no other was enough; XML never is.
OrForm(r, b) == IF r.enough THEN r ELSE With(r.t, ParseForm(b))

ByType(r, b) ==
  CASE r.enough -> r
    [] ~r.enough /\ req.media = "json" -> With(r.t, Jsons!ParseJSON(b))
    [] ~r.enough /\ req.media = "xml" -> Short(With(r.t, Xmls!ParseXML(b)))
    [] ~r.enough /\ req.media = "form" -> OrForm(WithSniffedJSON(r.t, b), b)
    [] OTHER -> WithSniffed(r.t, b)

\* The whole is recorded unless a parser was enough.
Settled(r, b) == IF r.enough THEN r.t ELSE Fallback(r.t, b)
SettledAsText(r, b) == IF r.enough THEN r.t ELSE RecordBody(r.t, b)

Recorded(t, b) ==
  IF req.media = "multipart" THEN SettledAsText(DeclaredMultipart(t, b), b)
  ELSE Settled(ByType(SniffedMultipart(t, b, SniffMultipart(b)), b), b)

\* From a body that was decoded.
RecordedFrom(d) == Recorded([Fresh EXCEPT !.undecodable = d.undecodable], d.b)

SetRequestBody ==
  /\ ~given /\ given' = TRUE
  /\ tx' = IF Len(req.bytes) > MaxBodySize THEN [Fresh EXCEPT !.tooLarge = TRUE]
           ELSE RecordedFrom(Decompressed(req.bytes))
  /\ UNCHANGED <<req, asked>>

\* The transaction is over.
Done == given /\ UNCHANGED vars

Next == Edit \/ SetRequestBody \/ Done

Spec == Init /\ [][Next]_vars

-----------------------------------------------------------------------------
(* Properties *)

\* Decided otherwise than by the rules: ProcessRequestBody refuses or reports.
Flagged == tx.undecodable \/ tx.noted \/ tx.tooLarge

Arguments == SelectSeq(tx.values, LAMBDA v : v.target \in {"arg", "argname"})
Times(seq, v) == Cardinality({i \in DOMAIN seq : seq[i] = v})

(* Every name and every leaf of a body is recorded under its path exactly as   *)
(* often as it is there, decoded as the origin will decode it, whatever it is  *)
(* wrapped in; only protobuf, which two readings fit, may be recorded twice    *)
(* (the parsers, and the wrappers peeled by recordBody).                       *)
LeavesRecorded ==
  given /\ asked # <<>> =>
    \A i \in DOMAIN asked :
      IF req.grpc # "" THEN Times(Arguments, asked[i]) >= Times(asked, asked[i])
      ELSE Times(Arguments, asked[i]) = Times(asked, asked[i])

Holds(s, c) == Contains(s, c)

\* Multipart leaves what is outside of its parts to nobody, binary content
\* what is not text, and a body beyond MaxValueLen is the transaction's matter.
Readable(b) == ~IsBinary(b) /\ SniffMultipart(b) = <<>> /\ req.media # "multipart" /\ Len(b) <= MaxValueLen

(* Wherever the payload x stands in a body of text, and whatever was declared  *)
(* and however broken the body is, some value that rules read has it, or the   *)
(* body is reported as not inspected (the fallbacks of SetRequestBody).        *)
PayloadSeen ==
  LET b == Decompressed(req.bytes).b
  IN  given /\ Readable(b) /\ Holds(b, "x") =>
        Flagged \/ \E i \in DOMAIN tx.values : Holds(tx.values[i].value, "x")

=============================================================================
