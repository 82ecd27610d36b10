----------------------------- MODULE Middleware -----------------------------
(***************************************************************************)
(* One exchange through middleware/http.go: serve, captureBody and the     *)
(* responseWriter a handler writes to.  The handler may call the writer in *)
(* any order and as often as it likes.  A phase of the transaction is      *)
(* represented by the verdict it returns, which stays once one is          *)
(* recorded; Transaction models how it comes about.  The writer of         *)
(* net/http underneath is external.                                        *)
(***************************************************************************)
EXTENDS Integers, Sequences, SequencesExt

CONSTANTS
  Limit,       \* Limits.MaxBodySize
  RespLimit,   \* maxRespBytes
  Requests,    \* bodies a client sends: see Request
  Sizes,       \* sizes of what a handler writes at once
  MaxWrites    \* bound: calls a handler makes

\* size is what arrives of the body and length its Content-Length, -1 when it has none;
\* after what arrives a read finds the end, or an error if the body fails.
Request == [size : Nat, length : Nat \cup {-1}, fails : BOOLEAN]

ASSUME MiddlewareAssumption ==
  /\ Limit \in Nat \ {0} /\ RespLimit \in Nat \ {0} /\ MaxWrites \in Nat
  /\ Requests \subseteq Request /\ Sizes \subseteq Nat \ {0}
  /\ \A r \in Requests : (r.length # -1 => r.length >= r.size) /\ (r.length > r.size => r.fails)

VARIABLES
  opts,        \* [inspect, failOpen]: WithResponseInspection; FailOpen or DetectionOnly (rigid)
  req,         \* the request (rigid)
  stage,       \* headers, capture, reading, body, handler, done
  conn,        \* the body on the connection: [read, closed, failed], the bytes read from
               \* it, whether it was closed, and whether captureBody met its error
  buf,         \* what captureBody has read
  body,        \* r.Body and r.ContentLength: [held, live, length], the bytes it holds in
               \* memory, whether the connection follows them, and the length
  got,         \* the bytes of the body the handler has read (history)
  tx,          \* [decided, fed, headersRead, bodyRead]: the recorded verdict, the bytes
               \* given to SetRequestBody (-1: none), whether ProcessResponseHeaders ran,
               \* and what ProcessResponseBody was given
  rw,          \* responseWriter: [buf, wroteHeader, blocked, passthrough]
  wire,        \* the client's side: [head, bytes, hijacked]
  sent,        \* what the handler wrote (history)
  streamed,    \* the handler called Flush, Hijack or ReadFrom (history)
  reports      \* verdicts handed to OnDecision

exchangeVars == <<opts, req, stage, conn, buf, body, got, tx, rw, wire, sent, streamed, reports>>

-----------------------------------------------------------------------------
(* The transaction *)

Verdicts == {"none", "allow", "block"}

LimitVerdict == IF opts.failOpen THEN "allow" ELSE "block"

\* What a phase may return: a recorded verdict stays.
Phase(v) == IF tx.decided = "none" THEN v \in Verdicts ELSE v = tx.decided

\* ProcessRequestBody: limits and the schema are checked before the recorded verdict is
\* looked at, and decide again.
BodyPhase(v) ==
  IF tx.fed > Limit THEN v = LimitVerdict
  ELSE v \in Verdicts /\ (tx.decided # "none" => v # "none")

Blocked(v) == v = "block"

\* What OnDecision is told of a verdict.
Told(v) == IF Blocked(v) THEN "block" ELSE "allow"

-----------------------------------------------------------------------------
(* The writer underneath *)

\* What onBlock writes.
BlockPage == [id |-> 0, size |-> 1]

SizeOf(chunks) ==
  LET upto[n \in 0..Len(chunks)] == IF n = 0 THEN 0 ELSE upto[n - 1] + chunks[n].size
  IN upto[Len(chunks)]

\* WriteHeader: the first one counts.
Headed(w, by) == IF w.head = "none" /\ ~w.hijacked THEN [w EXCEPT !.head = by] ELSE w

\* Write sends a header if there is none; after Hijack it fails.
Emit(w, by, chunks) ==
  IF w.hijacked THEN w ELSE [Headed(w, by) EXCEPT !.bytes = @ \o chunks]

-----------------------------------------------------------------------------
(* serve, up to the handler *)

\* Mutation of Reject: refused without a word to OnDecision.
RejectQuietly(told) ==
  /\ reports' = Append(reports, "allow")
  /\ wire' = Emit(wire, "block", <<BlockPage>>)
  /\ stage' = "done"

\* report and onBlock, to a client nothing was written to yet.
Reject(told) ==
  /\ reports' = Append(reports, told)
  /\ wire' = Emit(wire, "block", <<BlockPage>>)
  /\ stage' = "done"

\* populateRequest and ProcessRequestHeaders
Headers(v) ==
  /\ stage = "headers" /\ Phase(v)
  /\ tx' = [tx EXCEPT !.decided = v]
  /\ IF Blocked(v) THEN Reject("block")
     ELSE stage' = "capture" /\ UNCHANGED <<wire, reports>>
  /\ UNCHANGED <<opts, req, conn, buf, body, got, rw, sent, streamed>>

\* captureBody: a body without a length is not read.
Capture ==
  /\ stage = "capture"
  /\ stage' = IF req.length = 0 THEN "body" ELSE "reading"
  /\ UNCHANGED <<opts, req, conn, buf, body, got, tx, rw, wire, sent, streamed, reports>>

\* Mutation of Room: one byte is missing to tell the limit from more.
RoomShort == Len(buf) < Limit

\* io.LimitReader(r.Body, limit + 1)
Room == Len(buf) < Limit + 1

\* What the connection gives next; the bytes of a body are told apart by their place.
Arrives == ~conn.closed /\ conn.read < req.size
NextByte == conn.read + 1

\* io.ReadAll, a byte at a time: any split of the body into reads.
ReadAll ==
  /\ stage = "reading" /\ Room /\ Arrives
  /\ buf' = Append(buf, NextByte)
  /\ conn' = [conn EXCEPT !.read = @ + 1]
  /\ UNCHANGED <<opts, req, stage, body, got, tx, rw, wire, sent, streamed, reports>>

\* Mutation of Followed: the origin gets the bytes that were inspected.
FollowedNot == [body EXCEPT !.held = buf, !.live = FALSE]

\* restore of a body over the limit: io.MultiReader(buf, rest); r.ContentLength stays.
Followed == [body EXCEPT !.held = buf]

\* restore of a body within it: bytes.NewReader(buf), and its length.
Replaced == [held |-> buf, live |-> FALSE, length |-> Len(buf)]

\* The rest of captureBody once ReadAll returns, and restore.
Captured ==
  /\ stage = "reading" /\ ~(Room /\ Arrives)
  /\ IF Room /\ req.fails
     THEN /\ conn' = [conn EXCEPT !.closed = TRUE, !.failed = TRUE]
          /\ Reject(Told(tx.decided)) /\ UNCHANGED <<body, tx>>
     ELSE /\ tx' = [tx EXCEPT !.fed = Len(buf)]
          /\ IF Len(buf) <= Limit
             THEN body' = Replaced /\ conn' = [conn EXCEPT !.closed = TRUE]
             ELSE body' = Followed /\ UNCHANGED conn
          /\ stage' = "body" /\ UNCHANGED <<wire, reports>>
  /\ UNCHANGED <<opts, req, buf, got, rw, sent, streamed>>

\* ProcessRequestBody; without response inspection the handler writes to the client
\* directly and the middleware is done.
Body(v) ==
  /\ stage = "body" /\ BodyPhase(v)
  /\ tx' = [tx EXCEPT !.decided = v]
  /\ IF Blocked(v) THEN Reject("block")
     ELSE IF opts.inspect THEN stage' = "handler" /\ UNCHANGED <<wire, reports>>
     ELSE /\ stage' = "done" /\ wire' = Headed(wire, "origin")
          /\ reports' = Append(reports, Told(v))
  /\ UNCHANGED <<opts, req, conn, buf, body, got, rw, sent, streamed>>

-----------------------------------------------------------------------------
(* The response writer: operators over a record of tx, rw, wire and reports *)

State == [tx |-> tx, rw |-> rw, wire |-> wire, reports |-> reports]

Become(s) == tx' = s.tx /\ rw' = s.rw /\ wire' = s.wire /\ reports' = s.reports

\* block
Stopped(s) ==
  [s EXCEPT !.rw.blocked = TRUE, !.rw.buf = <<>>, !.reports = Append(@, "block"),
            !.wire = Emit(@, "block", <<BlockPage>>)]

\* WriteHeader; v is what ProcessResponseHeaders returns.
HeaderDone(s, v) ==
  LET h == [s EXCEPT !.rw.wroteHeader = TRUE, !.tx.headersRead = TRUE, !.tx.decided = v]
  IN  IF s.rw.wroteHeader \/ s.rw.blocked THEN s
      ELSE IF Blocked(v) THEN Stopped(h)
      ELSE IF h.rw.passthrough THEN [h EXCEPT !.wire = Headed(@, "origin")] ELSE h

\* Mutation of Passed: what was buffered is kept for finish.
PassedUnflushed(s) ==
  IF s.rw.passthrough \/ s.rw.blocked THEN s
  ELSE [s EXCEPT !.rw.passthrough = TRUE,
                 !.wire = IF s.rw.wroteHeader THEN Headed(@, "origin") ELSE @]

\* startPassthrough
Passed(s) ==
  LET onWire == IF s.rw.wroteHeader THEN Headed(s.wire, "origin") ELSE s.wire
  IN  IF s.rw.passthrough \/ s.rw.blocked THEN s
      ELSE [s EXCEPT !.rw.passthrough = TRUE, !.rw.buf = <<>>,
                     !.wire = IF s.rw.buf = <<>> THEN onWire
                              ELSE Emit(onWire, "origin", s.rw.buf)]

ToClient(s, chunk) == [s EXCEPT !.wire = Emit(@, "origin", <<chunk>>)]

\* Mutation of Written: buffering ends when the limit is reached, not exceeded.
WrittenShort(s, chunk, v) ==
  LET h == HeaderDone(s, v)
  IN  IF h.rw.blocked THEN h
      ELSE IF h.rw.passthrough THEN ToClient(h, chunk)
      ELSE IF SizeOf(h.rw.buf) + chunk.size >= RespLimit THEN ToClient(Passed(h), chunk)
      ELSE [h EXCEPT !.rw.buf = Append(@, chunk)]

\* Write
Written(s, chunk, v) ==
  LET h == HeaderDone(s, v)
  IN  IF h.rw.blocked THEN h
      ELSE IF h.rw.passthrough THEN ToClient(h, chunk)
      ELSE IF SizeOf(h.rw.buf) + chunk.size > RespLimit THEN ToClient(Passed(h), chunk)
      ELSE [h EXCEPT !.rw.buf = Append(@, chunk)]

\* finish; w, b and h are what WriteResponseBody, ProcessResponseBody and
\* ProcessResponseHeaders return, where they are called.
Finished(s, w, b, h) ==
  LET given == [s EXCEPT !.tx.decided = w]
      read  == [given EXCEPT !.tx.decided = b, !.tx.bodyRead = s.rw.buf]
      last  == IF ~s.rw.passthrough /\ s.rw.buf # <<>> THEN read ELSE s
      head  == HeaderDone(last, h)
  IN  IF s.rw.blocked THEN s
      ELSE IF ~s.rw.passthrough /\ s.rw.buf # <<>> /\ Blocked(w) THEN Stopped(given)
      ELSE IF ~s.rw.passthrough /\ s.rw.buf # <<>> /\ Blocked(b) THEN Stopped(read)
      ELSE Passed(head)

-----------------------------------------------------------------------------
(* The handler *)

\* r.Body.Read by the handler, a byte at a time: what is in memory, then what follows.
\* It may stop anywhere and read between any two writes; with nothing left it finds the
\* end.
ReadBody ==
  /\ stage = "handler" \/ (stage = "done" /\ ~opts.inspect /\ wire.head = "origin")
  /\ \/ /\ body.held # <<>>
        /\ got' = Append(got, Head(body.held))
        /\ body' = [body EXCEPT !.held = Tail(@)] /\ UNCHANGED conn
     \/ /\ body.held = <<>> /\ body.live /\ Arrives
        /\ got' = Append(got, NextByte)
        /\ conn' = [conn EXCEPT !.read = @ + 1] /\ UNCHANGED body
  /\ UNCHANGED <<opts, req, stage, buf, tx, rw, wire, sent, streamed, reports>>

Handler == stage = "handler" /\ Len(sent) < MaxWrites

WriteHeader(v) ==
  /\ stage = "handler" /\ ~rw.wroteHeader /\ Phase(v)
  /\ Become(HeaderDone(State, v))
  /\ UNCHANGED <<opts, req, stage, conn, buf, body, got, sent, streamed>>

Write(size, v) ==
  LET chunk == [id |-> Len(sent) + 1, size |-> size]
  IN  /\ Handler /\ Phase(v)
      /\ sent' = Append(sent, chunk)
      /\ Become(Written(State, chunk, v))
      /\ UNCHANGED <<opts, req, stage, conn, buf, body, got, streamed>>

\* Flush; the writer underneath sends a header if it has none.
Flush ==
  /\ stage = "handler" /\ ~wire.hijacked /\ ~rw.passthrough
  /\ streamed' = TRUE
  /\ Become([Passed(State) EXCEPT !.wire = Headed(@, "origin")])
  /\ UNCHANGED <<opts, req, stage, conn, buf, body, got, sent>>

Hijack ==
  /\ stage = "handler" /\ ~wire.hijacked
  /\ streamed' = TRUE
  /\ Become([Passed(State) EXCEPT !.wire.hijacked = TRUE])
  /\ UNCHANGED <<opts, req, stage, conn, buf, body, got, sent>>

\* ReadFrom, which io.Copy prefers: straight to the writer underneath.
ReadFrom(size) ==
  LET chunk == [id |-> Len(sent) + 1, size |-> size]
  IN  /\ Handler
      /\ sent' = Append(sent, chunk) /\ streamed' = TRUE
      /\ Become(ToClient(Passed(State), chunk))
      /\ UNCHANGED <<opts, req, stage, conn, buf, body, got>>

\* The handler returns: finish, and the last report.  fits: the transaction's arena has
\* room for the body.
Return(fits, w, b, h) ==
  /\ stage = "handler"
  /\ IF fits /\ SizeOf(rw.buf) <= Limit THEN w = tx.decided /\ Phase(b)
     ELSE w = LimitVerdict /\ b = LimitVerdict
  /\ Phase(h)
  /\ LET s == Finished(State, w, b, h)
     IN  Become([s EXCEPT !.reports = Append(@, Told(s.tx.decided))])
  /\ stage' = "done"
  /\ UNCHANGED <<opts, req, conn, buf, body, got, sent, streamed>>

-----------------------------------------------------------------------------
ExchangeInit ==
  /\ opts \in [inspect : BOOLEAN, failOpen : BOOLEAN]
  /\ req \in Requests
  /\ stage = "headers"
  /\ conn = [read |-> 0, closed |-> FALSE, failed |-> FALSE]
  /\ buf = <<>>
  /\ body = [held |-> <<>>, live |-> TRUE, length |-> req.length] /\ got = <<>>
  /\ tx = [decided |-> "none", fed |-> -1, headersRead |-> FALSE, bodyRead |-> <<>>]
  /\ rw = [buf |-> <<>>, wroteHeader |-> FALSE, blocked |-> FALSE, passthrough |-> FALSE]
  /\ wire = [head |-> "none", bytes |-> <<>>, hijacked |-> FALSE]
  /\ sent = <<>> /\ streamed = FALSE /\ reports = <<>>

ExchangeNext ==
  \/ \E v \in Verdicts : Headers(v) \/ Body(v) \/ WriteHeader(v)
  \/ Capture \/ ReadAll \/ Captured \/ ReadBody
  \/ \E size \in Sizes, v \in Verdicts : Write(size, v)
  \/ Flush \/ Hijack
  \/ \E size \in Sizes : ReadFrom(size)
  \/ \E fits \in BOOLEAN, w, b, h \in Verdicts : Return(fits, w, b, h)

ExchangeSpec == ExchangeInit /\ [][ExchangeNext]_exchangeVars
-----------------------------------------------------------------------------
(* Properties *)

\* The handler runs, or has run.
Served == stage = "handler" \/ (stage = "done" /\ wire.head = "origin")

\* Something is left of r.Body.
Left == body.held # <<>> \/ (body.live /\ Arrives)

\* Inspecting a body does not change what the handler reads, whatever its size and
\* wherever the handler stops: the bytes that arrived, each once and in order, and at the
\* end all of them, under a length that is theirs.  No more than a byte over the limit
\* is ever held.
BodyIntact ==
  /\ Len(buf) <= Limit + 1
  /\ Served => /\ \A i \in DOMAIN got : got[i] = i
               /\ ~Left => Len(got) = req.size
               /\ ~req.fails => body.length \in {-1, req.size}

\* A handler never runs on a body the transaction did not get whole, unless the
\* transaction was shown that it is over the limit and the deployment fails open.
NothingUnseen ==
  Served /\ req.size > 0 => tx.fed = req.size \/ (tx.fed > Limit /\ opts.failOpen)

\* What the handler wrote reaches the client complete and in order, through every
\* mixture of buffered, flushed and copied writes.
ResponseInOrder ==
  opts.inspect /\ stage = "done" /\ wire.head = "origin" /\ ~rw.blocked /\ ~wire.hijacked =>
    wire.bytes = sent

\* With buffering undisturbed, no byte leaves before its header was inspected, and
\* before the body was, unless it is more than the option buffers.
InspectedFirst ==
  opts.inspect /\ ~streamed /\ wire.head = "origin" =>
    tx.headersRead /\ (tx.bodyRead = sent \/ SizeOf(sent) > RespLimit)

\* The last thing OnDecision hears is what happened, unless the handler streams.  A body
\* that could not be read is always refused, and then OnDecision hears what had been
\* decided until then: an allow too (H19).
OutcomeReported ==
  stage = "done" /\ ~streamed =>
    /\ reports # <<>>
    /\ IF conn.failed THEN wire.head = "block" /\ Last(reports) = Told(tx.decided)
       ELSE Last(reports) = "block" <=> wire.head = "block"

=============================================================================
