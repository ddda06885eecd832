----------------------------- MODULE HttpServer -----------------------------
(***************************************************************************)
(* The node:http shim's server and one connection to it: listen() and      *)
(* close(), the accept loop, the request head read and announced, its body *)
(* pumped to the handler from a later tick, and the response written whole *)
(* by end(), which closes the connection.  The loop, the pump and the      *)
(* response are async functions of their own; each await is a step.        *)
(***************************************************************************)
EXTENDS HttpWire

CONSTANTS Requests,  \* [wire, payload]: what a client sends, and what its body says
          MaxWrites, MaxCloses  \* calls of res.write() and close() (bounds for TLC)

RequestFraming(wire) == bodyFraming(splitHead(wire), FALSE, "none")

ASSUME HttpServerAssumption ==
  /\ MaxWrites \in Nat /\ MaxCloses \in Nat
  /\ \A r \in Requests :
       /\ r.wire \in Seq(STRING) /\ r.payload \in Seq(STRING)
       /\ headEndIndex(r.wire) > 0 =>
            r.payload = WholeBody(RequestFraming(r.wire), After(r.wire, headEndIndex(r.wire) + 3))

VARIABLES
  request,
  listener,           \* "opening", "open", "shut" or "failed"; close() may come at any time
  listening,          \* server.listening
  closes,             \* close() calls so far
  native,             \* the connection's socket: "none", "open" or "closed"
  phase,              \* "none", "accepting", "head", "served", "refused" or "left"
  pos,                \* bytes read so far
  result,             \* what a read() has resolved with, not yet looked at
  head,               \* the bytes up to the head's end and what came with them
  pump,               \* "idle", "timer", "await" or "over"
  dec,
  got, complete, reqErrors,   \* what the handler's request has seen
  clientErrors,
  written, finished,  \* the response: chunks held, end() called
  writing,            \* "no", "busy", "done" or "failed"
  wire,               \* history: what was written to the socket
  cut                 \* history: the peer closed or the connection broke

server   == <<listener, listening, closes>>
reads    == <<pos, result, head, cut>>
body     == <<pump, dec, got, complete, reqErrors>>
answer   == <<written, finished, writing, wire>>
vars == <<request, server, native, phase, reads, body, clientErrors, answer>>

NoResult   == [is |-> "none", bytes |-> <<>>]
Result(is) == [is |-> is, bytes |-> <<>>]

Init ==
  /\ request \in Requests
  /\ listener = "opening" /\ listening = FALSE /\ closes = 0
  /\ native = "none" /\ phase = "none" /\ pos = 0 /\ result = NoResult /\ head = <<>>
  /\ cut = FALSE /\ pump = "idle" /\ dec = Decoder(Framing("none", 0)) /\ got = <<>>
  /\ complete = FALSE /\ reqErrors = 0 /\ clientErrors = 0
  /\ written = 0 /\ finished = FALSE /\ writing = "no" /\ wire = <<>>

-----------------------------------------------------------------------------
\* listen()'s continuation, also when close() came first.
Listening ==
  /\ listener = "opening"
  /\ listener' = "open" /\ listening' = TRUE
  /\ UNCHANGED <<request, closes, native, phase, reads, body, clientErrors, answer>>

\* The address cannot be had: 'error' is emitted, and nothing ever opens.
ListenFails ==
  /\ listener = "opening"
  /\ listener' = "failed"
  /\ UNCHANGED <<request, listening, closes, native, phase, reads, body, clientErrors, answer>>

\* Mutant: close() also closes the connection that is being served.
CloseServerAll ==
  /\ closes < MaxCloses
  /\ closes' = closes + 1
  /\ listening' = FALSE
  /\ listener' = IF listener = "open" THEN "shut" ELSE listener
  /\ native' = IF native = "open" THEN "closed" ELSE native
  /\ UNCHANGED <<request, phase, reads, body, clientErrors, answer>>

\* close(): connections being served are left to close themselves.
CloseServer ==
  /\ closes < MaxCloses
  /\ closes' = closes + 1
  /\ listening' = FALSE
  /\ listener' = IF listener = "open" THEN "shut" ELSE listener
  /\ UNCHANGED <<request, native, phase, reads, body, clientErrors, answer>>

\* A client connects: the accept loop's read has its socket.
Connection ==
  /\ listener = "open" /\ phase = "none"
  /\ phase' = "accepting" /\ native' = "open"
  /\ UNCHANGED <<request, server, reads, body, clientErrors, answer>>

\* Mutant: a loop that finds its server closed drops the socket it was given.
AcceptDrops ==
  /\ phase = "accepting"
  /\ phase' = IF listening THEN "head" ELSE "left"
  /\ UNCHANGED <<request, server, native, reads, body, clientErrors, answer>>

\* The accept loop, after its read: a server closed meanwhile serves nobody.
Accept ==
  /\ phase = "accepting"
  /\ IF listening THEN phase' = "head" /\ UNCHANGED native
                  ELSE phase' = "left" /\ native' = "closed"
  /\ UNCHANGED <<request, server, reads, body, clientErrors, answer>>

-----------------------------------------------------------------------------
Awaiting == result = NoResult /\ (phase = "head" \/ pump = "await")

\* A read resolves with bytes, with the end, or rejects.
ReadBytes ==
  /\ Awaiting /\ native = "open"
  /\ \E n \in 1..(Len(request.wire) - pos) :
       /\ pos' = pos + n
       /\ result' = [is |-> "bytes", bytes |-> SubSeq(request.wire, pos + 1, pos + n)]
  /\ UNCHANGED <<request, server, native, phase, head, cut, body, clientErrors, answer>>

ReadEnds(is) ==
  /\ Awaiting
  /\ result' = Result(is)
  /\ cut' = (cut \/ native = "open")
  /\ UNCHANGED <<request, server, native, phase, pos, head, body, clientErrors, answer>>

Resolved(is) == result.is = is /\ result' = NoResult

\* The end of the stream before the head's end, or serveConnection's catch.
Leave(to, errors) ==
  /\ phase' = to
  /\ native' = "closed"
  /\ clientErrors' = clientErrors + errors

HeadGone ==
  /\ phase = "head"
  /\ \/ Resolved("eof") /\ Leave("left", 0)
     \/ Resolved("error") /\ Leave("left", 1)
  /\ UNCHANGED <<request, server, pos, head, cut, body, answer>>

HeadEnd   == headEndIndex(head')
HeadGrows == phase = "head" /\ Resolved("bytes") /\ head' = head \o result.bytes

HeadPartial ==
  /\ HeadGrows /\ HeadEnd = 0
  /\ UNCHANGED <<request, server, native, phase, pos, cut, body, clientErrors, answer>>

\* res.end(n chunks): one write of the head, whose Content-Length counts the body,
\* and the body; a write to a socket that has been closed is rejected.
End(n) ==
  /\ written + n <= MaxWrites
  /\ finished' = TRUE
  /\ written' = written + n
  /\ writing' = IF native = "open" THEN "busy" ELSE "failed"
  /\ UNCHANGED wire

\* 'request' is emitted, and then the handler throws, or the body's framing is
\* refused: the catch closes the socket and reports to the server.  The handler
\* keeps a request that nobody pumps, and may have answered it in the event.
HeadRefused ==
  /\ HeadGrows /\ HeadEnd > 0
  /\ Leave("refused", 1)
  /\ UNCHANGED answer \/ \E n \in 0..MaxWrites : End(n)
  /\ UNCHANGED <<request, server, pos, cut, body>>

\* 'request' is emitted, and the body left to a timer.
Announce ==
  LET framing == RequestFraming(head') IN
  /\ HeadGrows /\ HeadEnd > 0
  /\ framing.mode # "refused"
  /\ phase' = "served" /\ pump' = "timer"
  /\ dec' = Decoder(framing)
  /\ UNCHANGED <<request, server, native, pos, cut, got, complete, reqErrors, clientErrors, answer>>

-----------------------------------------------------------------------------
\* Body bytes for the handler's request, and whether there are more to come.
PumpBytes(bytes) ==
  LET pushed == push(dec, bytes) IN
  /\ dec' = pushed.dec
  /\ got' = got \o pushed.out
  /\ complete' = (~pushed.dec.bad /\ pushed.dec.done)
  /\ reqErrors' = reqErrors + (IF pushed.dec.bad THEN 1 ELSE 0)
  /\ pump' = IF pushed.dec.bad \/ pushed.dec.done THEN "over" ELSE "await"

\* Mutant: the pump starts with the next read.
PumpStartsLate ==
  /\ pump = "timer"
  /\ PumpBytes(<<>>)
  /\ UNCHANGED <<request, server, native, phase, reads, clientErrors, answer>>

\* The timer fires: the bytes that came with the head.
PumpStart ==
  /\ pump = "timer"
  /\ PumpBytes(After(head, headEndIndex(head) + 3))
  /\ UNCHANGED <<request, server, native, phase, reads, clientErrors, answer>>

PumpMore ==
  /\ pump = "await" /\ Resolved("bytes")
  /\ PumpBytes(result.bytes)
  /\ UNCHANGED <<request, server, native, phase, pos, head, cut, clientErrors, answer>>

\* Mutants: the pump goes on after the end of the stream, or a rejected read
\* ends it in silence.
PumpCutGoesOn ==
  /\ pump = "await" /\ (Resolved("eof") \/ Resolved("error"))
  /\ reqErrors' = reqErrors + 1
  /\ UNCHANGED <<request, server, native, phase, pos, head, cut, pump, dec, got, complete,
                 clientErrors, answer>>

PumpCutSilent ==
  /\ pump = "await" /\ (Resolved("eof") \/ Resolved("error"))
  /\ reqErrors' = IF result.is = "eof" THEN reqErrors + 1 ELSE reqErrors
  /\ pump' = "over"
  /\ UNCHANGED <<request, server, native, phase, pos, head, cut, dec, got, complete, clientErrors,
                 answer>>

\* The end of the stream, or a rejected read, in a body that is not done: a
\* request's framing never lets the close be its end.
PumpCut ==
  /\ pump = "await" /\ (Resolved("eof") \/ Resolved("error"))
  /\ reqErrors' = reqErrors + 1
  /\ pump' = "over"
  /\ UNCHANGED <<request, server, native, phase, pos, head, cut, dec, got, complete, clientErrors,
                 answer>>

-----------------------------------------------------------------------------
\* The handler, which keeps its response when the connection is gone.
Handling == phase \in {"served", "refused"} /\ ~finished

ResWrite ==
  /\ Handling /\ written < MaxWrites
  /\ written' = written + 1
  /\ UNCHANGED <<request, server, native, phase, reads, body, clientErrors, finished, writing,
                 wire>>

ResEnd(n) ==
  /\ Handling /\ End(n)
  /\ UNCHANGED <<request, server, native, phase, reads, body, clientErrors>>

\* Mutant: the connection is not closed behind the response.
FinishOpen ==
  /\ writing = "busy"
  /\ writing' = "done"
  /\ wire' = Append(wire, written)
  /\ UNCHANGED <<request, server, native, phase, reads, body, clientErrors, written, finished>>

\* The write is done, and the connection closed.
Finish ==
  /\ writing = "busy"
  /\ writing' = "done"
  /\ wire' = Append(wire, written)
  /\ native' = "closed"
  /\ UNCHANGED <<request, server, phase, reads, body, clientErrors, written, finished>>

\* The write fails: nobody catches it, and the socket is left as it is.
FinishFails ==
  /\ writing = "busy"
  /\ writing' = "failed"
  /\ UNCHANGED <<request, server, native, phase, reads, body, clientErrors, written, finished, wire>>

-----------------------------------------------------------------------------
Serve == Accept \/ HeadGone \/ HeadPartial \/ HeadRefused \/ Announce
Pump  == PumpStart \/ PumpMore \/ PumpCut
Reply == Finish \/ FinishFails
Reads == ReadBytes \/ \E is \in {"eof", "error"} : ReadEnds(is)

Handler == ResWrite \/ \E n \in 0..1 : ResEnd(n)

Next == Listening \/ ListenFails \/ CloseServer \/ Connection \/ Serve \/ Pump \/ Reply \/ Reads \/ Handler

Spec == Init /\ [][Next]_vars

\* The event loop runs what is due, and reads and writes complete; a peer that
\* stays silent for ever is left out.  Nobody has to answer.
Fairness == WF_vars(Serve) /\ WF_vars(Pump) /\ WF_vars(Reply) /\ WF_vars(Reads)
FairSpec == Spec /\ Fairness

-----------------------------------------------------------------------------
Bytes == Seq(UNION {ToSet(r.wire) : r \in Requests})

\* Type correctness; one answer at most, one error of the request.
TypeOK ==
  /\ request \in Requests
  /\ listener \in {"opening", "open", "shut", "failed"}
  /\ native \in {"none", "open", "closed"}
  /\ phase \in {"none", "accepting", "head", "served", "refused", "left"}
  /\ pos \in 0..Len(request.wire) /\ closes \in 0..MaxCloses
  /\ result \in [is : {"none", "bytes", "eof", "error"}, bytes : Bytes]
  /\ head \in Bytes /\ got \in Bytes /\ dec \in Decoders /\ dec.pending \in Bytes
  /\ pump \in {"idle", "timer", "await", "over"}
  /\ listening \in BOOLEAN /\ complete \in BOOLEAN /\ finished \in BOOLEAN
  /\ cut \in BOOLEAN
  /\ reqErrors \in 0..1 /\ clientErrors \in 0..1 /\ written \in 0..MaxWrites
  /\ writing \in {"no", "busy", "done", "failed"} /\ wire \in Seq(0..MaxWrites)

\* However the reads cut the request, the handler gets the bytes the client
\* framed, and a complete request has them all.
RequestIsPayload ==
  /\ IsPrefix(got, request.payload)
  /\ complete => got = request.payload

\* A request reports an error only if the connection broke, its framing is
\* malformed, or its own response was sent before its body had been read.
ErrorHasCause == reqErrors = 1 => cut \/ dec.bad \/ writing = "done"

\* No connection is held open but those whose handler has still to answer: one
\* accepted before close() and looked at after it, one whose head never ends, and
\* one whose framing is refused are let go for good.  (A close() before the
\* listener is open stops nothing: connections are then accepted as ever.)
NoneHeldUnserved == phase = "accepting" ~> [](native = "open" => phase = "served")

\* A request handed to the handler ends or fails.  One whose handler threw, or whose
\* framing is refused behind the event, does neither, ever: the handler waits in
\* vain, the connection is closed, and only the server's 'clientError' tells.
Announced == phase \in {"served", "refused"}
RequestSettles ==
  Announced ~> \/ complete \/ reqErrors = 1
               \/ phase = "refused" /\ native = "closed" /\ clientErrors = 1

\* An answered connection is closed, unless the answer could not be written.
AnsweredCloses == finished ~> (native = "closed" \/ writing = "failed")
=============================================================================
