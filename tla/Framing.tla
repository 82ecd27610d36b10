------------------------------- MODULE Framing ------------------------------
(***************************************************************************)
(* internal/body/compress.go, grpc.go and protobuf.go: what a payload is   *)
(* wrapped in.                                                             *)
(*                                                                         *)
(* A compressed stream is its header ("gz", "zl" or "df"), its symbols,    *)
(* and "end"; "*" stands for three symbols "a", "bad" for data that is no  *)
(* stream.  A gRPC header is two symbols, the flag and the length.  Every  *)
(* varint is one symbol, and fixed-width fields are two and one wide.      *)
(***************************************************************************)
EXTENDS Parser

CONSTANTS MaxFrames, MaxFrameLen, MaxProtoDepth, MaxProtoFields, MaxBodySize

Decodable == {"gzip", "deflate", "zlib"}

\* DetectEncoding and DetectGRPCEncoding: the last token of the header.
DetectEncoding(header) ==
  CASE header \in {"", "identity"} -> "none"
    [] header \in {"gzip", "x-gzip"} -> "gzip"
    [] header \in {"deflate", "zlib"} -> header
    [] header \in {"br", "brotli"} -> "br"
    [] OTHER -> "unknown"

DetectGRPCEncoding(header) ==
  CASE header \in {"", "identity"} -> "none"
    [] header \in {"gzip", "deflate"} -> header
    [] OTHER -> "unknown"

SniffGzip(data) == At(data, 1) = "gz"

Inflated(stream) ==
  FlattenSeq([k \in DOMAIN stream |-> IF stream[k] = "*" THEN <<"a", "a", "a">> ELSE <<stream[k]>>])

\* Nothing of a stream that broke is returned.
Kept(out) == <<>>

\* Decompress; what follows a stream is an error of gzip's only.
Decompress(data, enc) ==
  LET headers == CASE enc = "gzip" -> {"gz"} [] enc = "zlib" -> {"zl"} [] OTHER -> {"zl", "df"}
      end == Seek(data, 2, {"end", "bad"})
      out == Inflated(SubSeq(data, 2, end - 1))
  IN  IF enc \notin Decodable \/ At(data, 1) \notin headers THEN [err |-> TRUE, out |-> <<>>]
      ELSE IF Len(out) > MaxBodySize THEN [err |-> TRUE, out |-> <<>>]
      ELSE IF At(data, end) # "end" \/ (enc = "gzip" /\ end < Len(data)) THEN [err |-> TRUE, out |-> Kept(out)]
      ELSE [err |-> FALSE, out |-> out]

-----------------------------------------------------------------------------
(* gRPC *)

\* The value of a byte; printable ones are beyond any length here.
Bytes == [c \in Controls \cup {NUL} |-> CHOOSE n \in 0..18 : c = "#" \o ToString(n)]
           @@ ("\t" :> 9) @@ ("\n" :> 10) @@ ("\r" :> 13)
Byte(c) == IF c \in DOMAIN Bytes THEN Bytes[c] ELSE 97

\* The messages from i on: [flag, payload], with "bad" for a header that is none.
RECURSIVE Frames(_, _)
Frames(data, i) ==
  LET n == Byte(At(data, i + 1))
  IN  IF i > Len(data) THEN <<>>
      ELSE IF i + 1 > Len(data) \/ n > MaxFrameLen \/ i + 1 + n > Len(data)
           THEN <<[flag |-> "bad", payload |-> <<>>]>>
      ELSE <<[flag |-> data[i], payload |-> SubSeq(data, i + 2, i + 1 + n)]>>
           \o Frames(data, i + 2 + n)

\* IsGRPCFramed.
IsGRPCFramed(data) ==
  LET frames == Frames(data, 1)
  IN  /\ data # <<>> /\ Len(frames) <= MaxFrames
      /\ \A k \in DOMAIN frames : frames[k].flag \in {"#0", "#1"}

\* UnframeGRPC of framed data: the payloads, and those that could not be read.
Unframe(data, enc) ==
  LET frames == Frames(data, 1)
      Read(f) == IF f.flag = "#0" THEN [err |-> FALSE, out |-> f.payload] ELSE Decompress(f.payload, enc)
  IN  [k \in DOMAIN frames |-> Read(frames[k])]

-----------------------------------------------------------------------------
(* protobuf *)

\* Field number and wire type of a key.
KeyOf(c) ==
  CASE c = "\n" -> [field |-> 1, wire |-> "bytes"] [] c = "#18" -> [field |-> 2, wire |-> "bytes"]
    [] c = "#8" -> [field |-> 1, wire |-> "varint"] [] c = "x" -> [field |-> 15, wire |-> "varint"]
    [] c = "a" -> [field |-> 12, wire |-> "fixed64"] [] c = "\r" -> [field |-> 1, wire |-> "fixed32"]
    [] c = "\t" -> [field |-> 1, wire |-> "fixed64"]
    [] OTHER -> [field |-> 0, wire |-> "group"]

\* The fields from i on: [field, wire, value, end]; one of wire "bad" is the last.
RECURSIVE WireFields(_, _)
WireFields(data, i) ==
  LET key == KeyOf(At(data, i))
      size == Byte(At(data, i + 1))
      end == CASE key.wire = "varint" -> i + 1 [] key.wire = "fixed64" -> i + 2
               [] key.wire = "fixed32" -> i + 1 [] OTHER -> i + 1 + size
  IN  IF i > Len(data) THEN <<>>
      ELSE IF key.wire = "group" \/ i + 1 > Len(data) \/ end > Len(data)
           THEN <<[field |-> key.field, wire |-> "bad", value |-> <<>>]>>
      ELSE <<[field |-> key.field, wire |-> key.wire, value |-> SubSeq(data, i + 2, end)]>>
           \o WireFields(data, end + 1)

\* scanProtobuf: every field is valid and the last ends the message.
IsMessage(data, depth) ==
  LET fields == WireFields(data, 1)
  IN  /\ depth <= MaxProtoDepth /\ fields # <<>> /\ Len(fields) <= MaxProtoFields
      /\ \A k \in DOMAIN fields : fields[k].wire # "bad"

\* A message that could be a string as well is read as both.
Both(value) == ~IsBinary(value)

\* walkProtobuf: numbers are skipped; past MaxFields the walk ends, and is no
\* failure.
RECURSIVE WalkProtobuf(_, _, _), WalkFields(_, _, _)

\* What a field's bytes are read as, the message in them already walked.
WalkedField(walked, f, nested) ==
  IF (nested /\ ~Both(f.value)) \/ walked.err # "" THEN walked ELSE EmittedWith(walked, f.value, "string", <<>>)

WalkField(inside, f, depth, nested) ==
  WalkedField(IF nested THEN WalkProtobuf(inside, f.value, depth + 1) ELSE inside, f, nested)

WalkFields(st, fields, depth) ==
  IF fields = <<>> \/ st.err # "" THEN st
  ELSE IF st.fields + 1 > MaxFields THEN Fail(st, "full")
  ELSE WalkFields([WalkField([st EXCEPT !.fields = @ + 1, !.path = Child(@, <<ToString(Head(fields).field)>>)],
                             Head(fields), depth, depth < MaxProtoDepth /\ IsMessage(Head(fields).value, depth + 1))
                     EXCEPT !.path = st.path],
                  Tail(fields), depth)

WalkProtobuf(st, data, depth) == WalkFields(st, SelectSeq(WireFields(data, 1), LAMBDA f : f.wire = "bytes"), depth)

\* ParseProtobuf of a message.
ParseProtobuf(data) == WalkProtobuf(Start, data, 0).out
=============================================================================
