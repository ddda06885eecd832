----------------------------- MODULE HttpClient -----------------------------
(***************************************************************************)
(* One ClientRequest of the node:http shim with its ClientSocket, against  *)
(* any peer: the connection, the request bytes queued until it is there    *)
(* and written through a chain of promises, the response parsed from reads *)
(* cut anywhere, and the teardown that a listener, a later call or the     *)
(* network may start at any point.  The native socket completes a connect, *)
(* a read or a write when it likes; continuations and deferred events are  *)
(* microtasks, which run in order.                                         *)
(***************************************************************************)
EXTENDS HttpWire

CONSTANTS Exchanges, \* [method, declared, wire, heads, start, payload]: the request's
                     \* method and the framing its owner declared, what the peer sends,
                     \* where heads start in it, where the last message's body starts,
                     \* and what that body says
          MaxCalls   \* calls the owner makes (a bound for TLC)

IsInterim(head) == head.status \in 100..199 \ {101}
Upgrades(method, head) ==
  head.status = 101 \/ (method = "CONNECT" /\ head.status \in 200..299)

\* The heads of the wire, one behind the other, and the body behind the last.
ASSUME HttpClientAssumption ==
  /\ MaxCalls \in Nat
  /\ \A x \in Exchanges :
       /\ x.declared \in {"no", "length", "chunked"}
       /\ x.wire \in Seq(STRING) /\ x.payload \in Seq(STRING) /\ x.start \in Nat
       /\ x.heads \subseteq 0..Len(x.wire) /\ 0 \in x.heads
       /\ \A n \in x.heads :
            LET rest == After(x.wire, n)
                head == splitHead(rest)
                end  == n + headEndIndex(rest) + 3
            IN  headEndIndex(rest) > 0 =>
                  \/ IsInterim(head) /\ end \in x.heads
                  \/ /\ ~IsInterim(head) /\ x.start = end
                     /\ \/ Upgrades(x.method, head)
                        \/ x.payload = WholeBody(bodyFraming(head, TRUE, x.method),
                                                After(x.wire, end))

VARIABLES
  exchange,           \* this behaviour's request and peer
  \* the native socket
  native,             \* "none", "open" or "closed"
  pos, finSent,       \* bytes of exchange.wire read so far; the peer has closed
  reading,            \* a read() is outstanding
  sent,               \* history: what was written to it
  broken,             \* a write failed, and with it every later one
  \* the ClientSocket
  assigned,           \* the request has it as .socket
  connecting, sockDestroyed,
  listening,          \* onData is attached; onEnd is from then on
  ended, endEmitted,
  held, owner, owned, \* _buf; an upgrade's new owner listens, and what it was given
  chain,              \* _writeChain: writes to come
  \* the ClientRequest
  destroyed, closed, finished,
  framed,             \* what _sendHead announced; "unset" is _headSent false
  queue,              \* _queue: parts waiting for the socket
  \* _readResponse
  stage, buf, dec, handed,
  \* what the owner sees, and what it asked for
  micro, errors, closes, responses, complete, got, resErrors, asked, calls,
  early               \* history: destroyed while the socket was connecting

socket   == <<assigned, connecting, listening>>
reads    == <<ended, endEmitted, held, owner, owned>>
request  == <<destroyed, framed, finished, queue, asked, calls>>
parser   == <<stage, buf, dec, handed>>
teardown == <<closed, sockDestroyed, native, early>>
outgoing == <<sent, chain, broken>>
response == <<responses, complete, got, resErrors>>
events   == <<errors, closes>>
vars == <<exchange, pos, finSent, reading, socket, reads, request, parser, teardown, outgoing,
          response, events, micro>>

Job(name)  == [job |-> name, bytes |-> <<>>]
Read(b)    == [job |-> "read", bytes |-> b]
NoDefaultBody == {"GET", "HEAD", "DELETE", "OPTIONS", "TRACE", "CONNECT"}

Init ==
  /\ exchange \in Exchanges
  /\ native = "none" /\ pos = 0 /\ finSent = FALSE /\ reading = FALSE /\ sent = <<>> /\ broken = FALSE
  /\ assigned = FALSE /\ connecting = TRUE /\ sockDestroyed = FALSE /\ listening = FALSE
  /\ ended = FALSE /\ endEmitted = FALSE /\ held = <<>> /\ owner = FALSE /\ owned = <<>>
  /\ chain = <<>> /\ destroyed = FALSE /\ closed = FALSE /\ framed = "unset"
  /\ finished = FALSE /\ queue = <<>>
  /\ stage = "head" /\ buf = <<>> /\ handed = FALSE
  /\ dec = Decoder(Framing("none", 0))
  /\ micro = <<Job("assign")>>
  /\ errors = 0 /\ closes = 0 /\ responses = 0 /\ complete = FALSE /\ got = <<>>
  /\ resErrors = 0 /\ asked = 0 /\ calls = 0 /\ early = FALSE

-----------------------------------------------------------------------------
\* sock.destroy(): the native socket is closed once it is known (_open).
SockDestroy ==
  IF sockDestroyed THEN UNCHANGED <<sockDestroyed, native, early>>
  ELSE /\ sockDestroyed' = TRUE
       /\ native' = IF ~connecting THEN "closed" ELSE native
       /\ early' = (early \/ connecting)

\* Mutant: the connection's own close does not claim the request's.
FailAgain(rest) ==
  /\ closed' = TRUE
  /\ IF assigned THEN SockDestroy ELSE UNCHANGED <<sockDestroyed, native, early>>
  /\ micro' = Append(rest, Job("fail"))

\* _fail(err): once; `rest` are the microtasks queued before it.
Fail(rest) ==
  IF closed
  THEN micro' = rest /\ UNCHANGED teardown
  ELSE /\ closed' = TRUE
       /\ IF assigned THEN SockDestroy ELSE UNCHANGED <<sockDestroyed, native, early>>
       /\ micro' = Append(rest, Job("fail"))

\* _close()
Close(rest) ==
  /\ micro' = IF closed THEN rest ELSE Append(rest, Job("close"))
  /\ closed' = TRUE

\* Mutant: a whole response leaves its socket open.
FinishBodyOpen(rest) ==
  /\ complete' = TRUE /\ stage' = "done"
  /\ Close(rest)
  /\ UNCHANGED <<sockDestroyed, native, early>>

\* finishBody(): the response is whole.
FinishBody(rest) ==
  /\ complete' = TRUE /\ stage' = "done"
  /\ Close(rest)
  /\ SockDestroy

-----------------------------------------------------------------------------
\* Mutant: the queue goes out behind what is pushed after it.
EnqueueSwapped(parts) ==
  IF assigned /\ ~connecting /\ ~sockDestroyed
  THEN chain' = chain \o parts \o queue /\ queue' = <<>>
  ELSE queue' = queue \o parts /\ UNCHANGED chain

\* _push() of some parts, with the _drain() after each.
Enqueue(parts) ==
  IF assigned /\ ~connecting /\ ~sockDestroyed
  THEN chain' = chain \o queue \o parts /\ queue' = <<>>
  ELSE queue' = queue \o parts /\ UNCHANGED chain

Part(kind, f, n) == [part |-> kind, framed |-> f, n |-> n]

\* The framing _sendHead announces for a body of unknown length (-1) or of n
\* bytes, "none" being none of its own: the owner's Transfer-Encoding or
\* Content-Length stands.
Announced(n) ==
  CASE exchange.declared = "chunked" -> "chunked"
    [] exchange.declared = "length"  -> "none"
    [] exchange.declared = "no" /\ n = -1 ->
         IF exchange.method \in NoDefaultBody THEN "none" ELSE "chunked"
    [] exchange.declared = "no" /\ n >= 0 ->
         IF n > 0 \/ exchange.method \notin NoDefaultBody THEN "length" ELSE "none"

FramingFor(n) == IF framed = "unset" THEN Announced(n) ELSE framed
HeadParts(n)  == IF framed = "unset" THEN <<Part("head", Announced(n), n)>> ELSE <<>>
BodyParts(f, n) == [i \in 1..n |-> Part("body", f, asked + i)]
LastParts(f)  == IF f = "chunked" THEN <<Part("last", f, 0)>> ELSE <<>>

Call == calls < MaxCalls /\ calls' = calls + 1

\* After end(), write() reports an error to its callback and changes nothing.
Write ==
  /\ Call /\ ~finished
  /\ Enqueue(HeadParts(-1) \o BodyParts(FramingFor(-1), 1))
  /\ framed' = FramingFor(-1)
  /\ asked' = asked + 1
  /\ UNCHANGED <<exchange, pos, finSent, reading, socket, reads, destroyed, finished, parser, teardown,
                 sent, broken, response, events, micro>>

FlushHeaders ==
  /\ Call /\ framed = "unset"
  /\ Enqueue(HeadParts(-1))
  /\ framed' = FramingFor(-1)
  /\ UNCHANGED <<exchange, pos, finSent, reading, socket, reads, destroyed, finished, asked, parser,
                 teardown, sent, broken, response, events, micro>>

\* end(), with a last piece of body (n = 1) or without.
End(n) ==
  LET f == FramingFor(n) IN
  /\ Call /\ ~finished
  /\ Enqueue(HeadParts(n) \o BodyParts(f, n) \o LastParts(f))
  /\ framed' = f /\ finished' = TRUE
  /\ asked' = asked + n
  /\ UNCHANGED <<exchange, pos, finSent, reading, socket, reads, destroyed, parser, teardown, sent, broken,
                 response, events, micro>>

\* destroy(err): the socket first, then _fail with an error, or _close.
Destroy(withError) ==
  /\ Call /\ ~destroyed
  /\ destroyed' = TRUE
  /\ IF assigned THEN SockDestroy ELSE UNCHANGED <<sockDestroyed, native, early>>
  /\ closed' = TRUE
  /\ micro' = IF closed THEN micro
              ELSE Append(micro, Job(IF withError THEN "fail" ELSE "close"))
  /\ UNCHANGED <<exchange, pos, finSent, reading, socket, reads, framed, finished, queue, asked,
                 parser, outgoing, response, events>>

-----------------------------------------------------------------------------
\* The native socket.
Connected(ok) ==
  /\ connecting /\ assigned /\ native = "none" /\ micro = <<>>
  /\ native' = IF ok THEN "open" ELSE "closed"
  /\ micro' = Append(micro, Job(IF ok THEN "opened" ELSE "refused"))
  /\ UNCHANGED <<exchange, pos, finSent, reading, socket, reads, request, parser, closed,
                 sockDestroyed, early, outgoing, response, events>>

\* A read returns bytes, the peer's close, or an error; a closed socket has no
\* bytes to give.
ReadBytes ==
  /\ reading /\ native = "open" /\ ~finSent
  /\ \E n \in 1..(Len(exchange.wire) - pos) :
       /\ pos' = pos + n
       /\ micro' = Append(micro, Read(SubSeq(exchange.wire, pos + 1, pos + n)))
  /\ reading' = FALSE
  /\ UNCHANGED <<exchange, finSent, socket, reads, request, parser, teardown, outgoing, response,
                 events>>

ReadEnds(how) ==
  /\ reading
  /\ finSent' = (how = "eof" /\ native = "open")
  /\ micro' = Append(micro, Job(how))
  /\ reading' = FALSE
  /\ UNCHANGED <<exchange, pos, socket, reads, request, parser, teardown, outgoing, response, events>>

\* The next link of _writeChain: the part is written, or fails, or is dropped
\* with a destroyed socket.
WriteNext(ok) ==
  /\ chain # <<>>
  /\ chain' = Tail(chain)
  /\ \/ /\ sockDestroyed
        /\ UNCHANGED <<sent, broken, teardown, micro>>
     \/ /\ ~sockDestroyed /\ ok /\ ~broken
        /\ sent' = Append(sent, Head(chain))
        /\ UNCHANGED <<broken, teardown, micro>>
     \/ /\ ~sockDestroyed /\ ~ok
        /\ broken' = TRUE
        /\ Fail(micro)
        /\ UNCHANGED sent
  /\ UNCHANGED <<exchange, pos, finSent, reading, socket, reads, request, parser, response, events>>

-----------------------------------------------------------------------------
\* A microtask runs.
Now    == Head(micro)
Due(j) == micro # <<>> /\ Now.job = j
Rest   == Tail(micro)

\* _connect's first continuation.
RunAssign ==
  /\ Due("assign")
  /\ IF destroyed THEN SockDestroy ELSE UNCHANGED <<sockDestroyed, native, early>>
  /\ assigned' = ~destroyed
  /\ micro' = Rest
  /\ UNCHANGED <<exchange, pos, finSent, reading, connecting, listening, reads, request, parser, closed,
                 outgoing, response, events>>

\* _open's continuation: the socket is up, and its pump reads.
RunOpened ==
  /\ Due("opened")
  /\ connecting' = FALSE
  /\ reading' = TRUE
  /\ micro' = Append(Rest, Job("ready"))
  /\ UNCHANGED <<exchange, pos, finSent, assigned, listening, reads, request, parser, teardown,
                 outgoing, response, events>>

\* _connect's second continuation: read the response, send what was queued.
RunReady ==
  /\ Due("ready")
  /\ micro' = Rest
  /\ IF destroyed THEN SockDestroy /\ UNCHANGED <<listening, queue, chain>>
     ELSE /\ listening' = TRUE
          /\ Enqueue(<<>>)
          /\ UNCHANGED <<sockDestroyed, native, early>>
  /\ UNCHANGED <<exchange, pos, finSent, reading, assigned, connecting, reads, destroyed, framed,
                 finished, asked, calls, parser, closed, sent, broken, response, events>>

RunRefused ==
  /\ Due("refused")
  /\ Fail(Rest)
  /\ UNCHANGED <<exchange, pos, finSent, reading, socket, reads, request, parser, outgoing, response,
                 events>>

RunFail ==
  /\ Due("fail")
  /\ errors' = errors + 1 /\ closes' = closes + 1
  /\ micro' = Rest
  /\ UNCHANGED <<exchange, pos, finSent, reading, socket, reads, request, parser, teardown, outgoing,
                 response>>

RunClose ==
  /\ Due("close")
  /\ closes' = closes + 1
  /\ micro' = Rest
  /\ UNCHANGED <<exchange, pos, finSent, reading, socket, reads, request, parser, teardown, outgoing,
                 response, errors>>

-----------------------------------------------------------------------------
\* The pump has handled a read and asks for the next.
ReadOn == reading' = TRUE

\* Bytes for a socket whose 'data' the request does not, or no longer, listen for.
RunReadUnheard ==
  /\ Due("read") /\ (~listening \/ handed)
  /\ IF owner THEN owned' = owned \o Now.bytes /\ UNCHANGED held
              ELSE held' = held \o Now.bytes /\ UNCHANGED owned
  /\ micro' = Rest
  /\ ReadOn
  /\ UNCHANGED <<exchange, pos, finSent, socket, ended, endEmitted, owner, request, parser, teardown,
                 outgoing, response, events>>

\* onData while the head is being read: parsing goes on with what there is.
RunReadHead ==
  /\ Due("read") /\ listening /\ stage = "head"
  /\ buf' = buf \o Now.bytes
  /\ micro' = <<Job("parse")>> \o Rest
  /\ UNCHANGED <<exchange, pos, finSent, reading, socket, reads, request, stage, dec, handed, teardown,
                 outgoing, response, events>>

\* onData in the body, also with the bytes that came with the head.  A body that
\* is done closes the socket before the next read, so none finds it done.
RunReadBody ==
  LET pushed == push(dec, Now.bytes) IN
  /\ Due("read") /\ listening /\ stage = "body"
  /\ dec' = pushed.dec
  /\ got' = got \o pushed.out
  /\ \/ /\ pushed.dec.bad
        /\ Fail(Rest)
        /\ UNCHANGED <<stage, complete>>
     \/ /\ ~pushed.dec.bad /\ pushed.dec.done
        /\ FinishBody(Rest)
     \/ /\ ~pushed.dec.bad /\ ~pushed.dec.done
        /\ micro' = Rest
        /\ UNCHANGED <<stage, complete, teardown>>
  /\ ReadOn
  /\ UNCHANGED <<exchange, pos, finSent, socket, reads, request, buf, handed, outgoing, responses,
                 resErrors, events>>

-----------------------------------------------------------------------------
\* One turn of onData's loop over heads; a listener may call in between.
HeadEnd    == headEndIndex(buf)
ParsedHead == splitHead(buf)
AfterHead  == After(buf, HeadEnd + 3)
Interim    == IsInterim(ParsedHead)
IsUpgrade  == Upgrades(exchange.method, ParsedHead)
ResponseFraming == bodyFraming(ParsedHead, TRUE, exchange.method)

ParsePartial ==
  /\ Due("parse") /\ HeadEnd = 0
  /\ micro' = Rest
  /\ ReadOn
  /\ UNCHANGED <<exchange, pos, finSent, socket, reads, request, parser, teardown, outgoing, response,
                 events>>

ParseInterim ==
  /\ Due("parse") /\ HeadEnd > 0 /\ Interim
  /\ buf' = AfterHead
  /\ UNCHANGED <<exchange, pos, finSent, reading, socket, reads, request, stage, dec, handed, teardown,
                 outgoing, response, events, micro>>

\* A malformed status line, or a framing the shim refuses.
ParseRefused ==
  /\ Due("parse") /\ HeadEnd > 0 /\ ~Interim /\ ~IsUpgrade
  /\ ParsedHead.status = 0 \/ ResponseFraming.mode = "refused"
  /\ Fail(Rest)
  /\ ReadOn
  /\ UNCHANGED <<exchange, pos, finSent, socket, reads, request, parser, outgoing, response, events>>

\* Mutant: the bytes that came with an upgrade's head are not handed over.
ParseUpgradeDropsRest(listened) ==
  /\ Due("parse") /\ HeadEnd > 0 /\ IsUpgrade
  /\ stage' = "done"
  /\ handed' = listened
  /\ IF listened THEN UNCHANGED <<sockDestroyed, native, early>> ELSE SockDestroy
  /\ Close(Rest)
  /\ ReadOn
  /\ UNCHANGED <<exchange, pos, finSent, socket, reads, request, buf, dec, outgoing, response, events>>

\* The socket goes to the 'upgrade' or 'connect' listener, if there is one.
ParseUpgrade(listened) ==
  /\ Due("parse") /\ HeadEnd > 0 /\ IsUpgrade
  /\ stage' = "done"
  /\ handed' = listened
  /\ owned' = IF listened THEN AfterHead ELSE <<>>
  /\ IF listened THEN UNCHANGED <<sockDestroyed, native, early>> ELSE SockDestroy
  /\ Close(Rest)
  /\ ReadOn
  /\ UNCHANGED <<exchange, pos, finSent, socket, ended, endEmitted, held, owner, request, buf, dec,
                 outgoing, response, events>>

\* The listener destroys the request with an error, before the _close() that
\* follows.
ParseUpgradeFails ==
  /\ Due("parse") /\ HeadEnd > 0 /\ IsUpgrade
  /\ Call /\ ~destroyed /\ destroyed' = TRUE
  /\ stage' = "done"
  /\ handed' = TRUE
  /\ owned' = AfterHead
  /\ Fail(Rest)
  /\ ReadOn
  /\ UNCHANGED <<exchange, pos, finSent, socket, ended, endEmitted, held, owner, framed, finished,
                 queue, asked, buf, dec, outgoing, response, events>>

\* Mutant: the stage stays "head".
ParseResponseAgain ==
  /\ Due("parse") /\ HeadEnd > 0 /\ ~Interim /\ ~IsUpgrade
  /\ ParsedHead.status > 0 /\ ResponseFraming.mode # "refused"
  /\ dec' = Decoder(ResponseFraming)
  /\ responses' = responses + 1
  /\ micro' = <<Read(AfterHead)>> \o Rest
  /\ UNCHANGED <<exchange, pos, finSent, reading, socket, reads, request, stage, buf, handed,
                 teardown, outgoing, complete, got, resErrors, events>>

\* 'response', and then the body's first bytes.
ParseResponse ==
  /\ Due("parse") /\ HeadEnd > 0 /\ ~Interim /\ ~IsUpgrade
  /\ ParsedHead.status > 0 /\ ResponseFraming.mode # "refused"
  /\ dec' = Decoder(ResponseFraming)
  /\ stage' = "body"
  /\ responses' = responses + 1
  /\ micro' = <<Read(AfterHead)>> \o Rest
  /\ UNCHANGED <<exchange, pos, finSent, reading, socket, reads, request, buf, handed, teardown,
                 outgoing, complete, got, resErrors, events>>

-----------------------------------------------------------------------------
\* _finishRead's close leaves the native socket alone.
SockEnded(rest) ==
  /\ sockDestroyed' = TRUE
  /\ micro' = rest
  /\ UNCHANGED <<closed, native, early>>

\* Mutant: a peer that hangs up before it answers goes unnoticed.
EmitEndSilent(rest) ==
  \/ /\ ~listening \/ stage # "body"
     /\ SockEnded(rest)
     /\ UNCHANGED <<stage, complete, resErrors>>
  \/ /\ listening /\ stage = "body" /\ EndsLegally(dec)
     /\ FinishBody(rest)
     /\ UNCHANGED resErrors
  \/ /\ listening /\ stage = "body" /\ ~EndsLegally(dec)
     /\ resErrors' = resErrors + 1
     /\ SockEnded(rest)
     /\ UNCHANGED <<stage, complete>>

\* The request's 'end' listener, and what _finishRead does after it.
EmitEnd(rest) ==
  \/ /\ ~listening \/ stage = "done" \/ (stage = "head" /\ closed)
     /\ SockEnded(rest)
     /\ UNCHANGED <<stage, complete, resErrors>>
  \/ /\ listening /\ stage = "head" /\ ~closed
     /\ Fail(rest)
     /\ UNCHANGED <<stage, complete, resErrors>>
  \/ /\ listening /\ stage = "body" /\ EndsLegally(dec)
     /\ FinishBody(rest)
     /\ UNCHANGED resErrors
  \/ /\ listening /\ stage = "body" /\ ~EndsLegally(dec)
     /\ resErrors' = resErrors + 1
     /\ SockEnded(rest)
     /\ UNCHANGED <<stage, complete>>

\* The pump ends: 'end' waits for bytes an upgrade's owner has not taken.
RunEof ==
  /\ Due("eof")
  /\ ended' = TRUE
  /\ endEmitted' = (held = <<>>)
  /\ IF held = <<>> THEN EmitEnd(Rest)
     ELSE micro' = Rest /\ UNCHANGED <<teardown, stage, complete, resErrors>>
  /\ UNCHANGED <<exchange, pos, finSent, reading, socket, held, owner, owned, request, buf, dec, handed,
                 outgoing, responses, got, events>>

RunReadError ==
  /\ Due("error")
  /\ IF sockDestroyed THEN micro' = Rest /\ UNCHANGED teardown ELSE Fail(Rest)
  /\ UNCHANGED <<exchange, pos, finSent, reading, socket, reads, request, parser, outgoing, response,
                 events>>

\* The new owner attaches its 'data' listener.
OwnerListens ==
  /\ handed /\ ~owner
  /\ owner' = TRUE
  /\ owned' = owned \o held /\ held' = <<>>
  /\ endEmitted' = ended
  /\ sockDestroyed' = (sockDestroyed \/ ended)
  /\ UNCHANGED <<exchange, pos, finSent, reading, socket, ended, request, parser, closed, native, early,
                 outgoing, response, events, micro>>

-----------------------------------------------------------------------------
Parse == ParsePartial \/ ParseInterim \/ ParseRefused \/ ParseResponse
           \/ ParseUpgradeFails \/ \E listened \in BOOLEAN : ParseUpgrade(listened)

RunJob == RunAssign \/ RunOpened \/ RunReady \/ RunRefused \/ RunFail \/ RunClose
            \/ RunReadUnheard \/ RunReadHead \/ RunReadBody \/ Parse
            \/ RunEof \/ RunReadError

Connect   == \E ok \in BOOLEAN : Connected(ok)
ReadDone  == ReadBytes \/ \E how \in {"eof", "error"} : ReadEnds(how)
WriteDone == \E ok \in BOOLEAN : WriteNext(ok)

Caller == Write \/ FlushHeaders \/ OwnerListens
            \/ \E n \in 0..1 : End(n)
            \/ \E withError \in BOOLEAN : Destroy(withError)

Next == RunJob \/ Connect \/ ReadDone \/ WriteDone \/ Caller

Spec == Init /\ [][Next]_vars

\* The event loop runs what is queued, and the engine completes what it was
\* asked for: a peer that stays silent for ever is left out.
Fairness == WF_vars(RunJob) /\ WF_vars(Connect) /\ WF_vars(ReadDone) /\ WF_vars(WriteDone)
FairSpec == Spec /\ Fairness

-----------------------------------------------------------------------------
PartSet == [part : {"head", "body", "last"}, framed : {"chunked", "length", "none"},
            n : -1..MaxCalls]
JobNames == {"assign", "opened", "ready", "refused", "fail", "close", "read", "parse", "eof",
             "error"}
Bytes == Seq(UNION {ToSet(x.wire) : x \in Exchanges})

\* Type correctness.
TypeOK ==
  /\ exchange \in Exchanges
  /\ native \in {"none", "open", "closed"} /\ pos \in 0..Len(exchange.wire)
  /\ finSent \in BOOLEAN /\ reading \in BOOLEAN /\ broken \in BOOLEAN
  /\ assigned \in BOOLEAN /\ connecting \in BOOLEAN /\ sockDestroyed \in BOOLEAN
  /\ listening \in BOOLEAN /\ ended \in BOOLEAN /\ endEmitted \in BOOLEAN
  /\ owner \in BOOLEAN /\ destroyed \in BOOLEAN /\ closed \in BOOLEAN
  /\ finished \in BOOLEAN /\ handed \in BOOLEAN /\ complete \in BOOLEAN /\ early \in BOOLEAN
  /\ sent \in Seq(PartSet) /\ chain \in Seq(PartSet) /\ queue \in Seq(PartSet)
  /\ framed \in {"unset", "chunked", "length", "none"}
  /\ stage \in {"head", "body", "done"}
  /\ held \in Bytes /\ owned \in Bytes /\ buf \in Bytes /\ got \in Bytes
  /\ dec \in Decoders /\ dec.pending \in Bytes
  /\ micro \in Seq([job : JobNames, bytes : Bytes])
  /\ errors \in Nat /\ closes \in Nat /\ responses \in 0..1 /\ resErrors \in 0..1
  /\ calls \in 0..MaxCalls /\ asked \in 0..calls

\* The bytes a read has returned and nobody has handled: at most one waits.
InFlight ==
  LET due == {i \in DOMAIN micro : micro[i].job = "read"}
  IN IF due = {} THEN <<>> ELSE micro[CHOOSE i \in due : TRUE].bytes
BodyRead == SubSeq(exchange.wire, exchange.start + 1, pos)

\* Wherever the reads cut the message, the response gets the body's bytes and
\* none of the framing, and is complete only when it has them all; a body that
\* ends where the peer closes has what was read until then.
BodyIsPayload ==
  /\ IsPrefix(got, exchange.payload)
  /\ complete => got = exchange.payload \/ (dec.mode = "eof" /\ got = BodyRead)

\* The owner of an upgraded socket gets every byte after the head, those that
\* came with the head and those that came before it listened.
UpgradeKeepsBytes == handed => owned \o held \o InFlight = BodyRead

Wanted ==
  IF framed = "unset" THEN <<>>
  ELSE <<Part("head", framed, IF framed = "length" THEN asked ELSE -1)>>
         \o [i \in 1..asked |-> Part("body", framed, i)]
         \o (IF finished THEN LastParts(framed) ELSE <<>>)
Unnumbered(parts) ==
  [i \in DOMAIN parts |-> IF parts[i].framed # "length" /\ parts[i].part = "head"
                          THEN [parts[i] EXCEPT !.n = -1] ELSE parts[i]]

\* The request goes out as one head, the body in the order and the framing
\* that head announces, and the end mark last, whether the calls came before
\* the connection was there or after; nothing waits for a socket that is up.
RequestInOrder ==
  /\ ~sockDestroyed /\ ~broken => Unnumbered(sent \o chain \o queue) = Wanted
  /\ IsPrefix(Unnumbered(sent), Wanted)
  /\ listening /\ ~sockDestroyed => queue = <<>>

\* One 'close', with the 'error' before it if there is one.  A request that
\* failed completes its response only if its owner destroyed it or a write
\* failed with the answer already read, or if its teardown is what ended a
\* body that runs to EOF.
SettlesOnce ==
  /\ closes <= 1 /\ errors <= closes
  /\ errors = 1 /\ complete => destroyed \/ broken \/ dec.mode = "eof"

\* A settled request has closed its native socket, or handed it over.  Left
\* open are: one destroyed while connecting, and one whose peer cut the body.
NativeReleased ==
  closed /\ micro = <<>> /\ native = "open" => handed \/ early \/ resErrors = 1

\* Every request closes, with or without a response, or its response reports
\* that the peer cut it short.
Settles == <>(closes = 1 \/ resErrors = 1)
=============================================================================
