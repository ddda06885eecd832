------------------------------ MODULE Readable ------------------------------
(***************************************************************************)
(* The Readable of the node:stream shim: a paused-mode buffer, a flush of  *)
(* the backlog, an 'end' withheld until somebody reads, and a 'close'      *)
(* withheld behind that 'end'.  Everything observable happens in           *)
(* microtasks, which run in order and to completion; the producer and the  *)
(* consumer call the stream's methods from other jobs, or from a listener  *)
(* that a job of the stream is running.                                    *)
(***************************************************************************)
EXTENDS Naturals, Sequences, SequencesExt

CONSTANTS MaxPush,   \* chunks the producer pushes (a bound for TLC)
          MaxCalls   \* calls the consumer makes (a bound for TLC)

ASSUME ReadableAssumption == MaxPush \in Nat /\ MaxCalls \in Nat

VARIABLES
  buf,         \* _buf: chunks held for a consumer, chunks being 1..pushed
  ended,       \* _ended: EOF has been pushed
  endEmitted,  \* _endEmitted: the 'end' job has been queued
  flushing,    \* _flushing
  flowing,     \* _flowing
  parked,      \* _closeAfterEnd is set
  destroyed,
  data, onEnd, onClose,  \* listeners: "none", "on" or "once"; present or not
  micro,       \* the stream's microtasks, in order
  timer,       \* destroy()'s setTimeout is pending
  pushed,      \* how many chunks were pushed
  delivered,   \* history: chunks a 'data' listener got, in order
  dropped,     \* history: chunks emitted or discarded with nobody listening
  ends, closes,  \* history: 'end' and 'close' events
  calls,       \* consumer calls so far
  lossy,       \* history: the consumer resumed, or detached a 'data' listener
  torn,        \* history: a chunk was buffered while a flush was under way
  early,       \* history: destroy() came before EOF
  released,    \* history: 'close' was let go without the 'end' it waited for
  endAfterClose  \* history: an 'end' followed a 'close'

state     == <<buf, ended, endEmitted, flushing, flowing, parked, destroyed>>
listeners == <<data, onEnd, onClose>>
observed  == <<delivered, dropped, ends, closes, endAfterClose>>
flags     == <<lossy, torn, early, released>>
vars      == <<state, listeners, micro, timer, pushed, observed, calls, flags>>

-----------------------------------------------------------------------------
DataJob(c)    == [job |-> "data", items |-> <<c>>]
FlushJob(cs)  == [job |-> "flush", items |-> cs]
EndJob        == [job |-> "end", items |-> <<>>]
CloseJob      == [job |-> "close", items |-> <<>>]

Init ==
  /\ buf = <<>> /\ micro = <<>> /\ delivered = <<>>
  /\ ended = FALSE /\ endEmitted = FALSE /\ flushing = FALSE /\ flowing = FALSE
  /\ parked = FALSE /\ destroyed = FALSE /\ timer = FALSE
  /\ data = "none" /\ onEnd = FALSE /\ onClose = FALSE
  /\ pushed = 0 /\ dropped = {} /\ ends = 0 /\ closes = 0 /\ calls = 0
  /\ lossy = FALSE /\ torn = FALSE /\ early = FALSE /\ released = FALSE
  /\ endAfterClose = FALSE

\* _maybeEnd, given the values it reads and the microtasks queued before it.
\* Mutant: a second 'end'.
EndDueAgain(e, b, fl, flow, listening) == e /\ ~fl /\ b = <<>> /\ (flow \/ listening)

EndDue(e, b, fl, flow, listening) ==
  e /\ ~endEmitted /\ ~fl /\ b = <<>> /\ (flow \/ listening)

MaybeEnd(e, b, fl, flow, listening, queue) ==
  IF EndDue(e, b, fl, flow, listening)
  THEN micro' = Append(queue, EndJob) /\ endEmitted' = TRUE
  ELSE micro' = queue /\ UNCHANGED endEmitted

Listening == data # "none" \/ onEnd

-----------------------------------------------------------------------------
\* Mutant: a chunk nobody listens for is not held.
PushUnbuffered ==
  LET c == pushed + 1 IN
  /\ ~ended /\ pushed < MaxPush
  /\ pushed' = c
  /\ \/ /\ data # "none"
        /\ micro' = Append(micro, DataJob(c))
        /\ UNCHANGED dropped
     \/ /\ data = "none"
        /\ dropped' = dropped \cup {c}
        /\ UNCHANGED micro
  /\ UNCHANGED <<buf, torn, ended, endEmitted, flushing, flowing, parked, destroyed, listeners,
                 timer, delivered, ends, closes, endAfterClose, calls, lossy, early, released>>

\* push(chunk): to the listener by a microtask, to nowhere, or to the buffer.
Push ==
  LET c == pushed + 1 IN
  /\ ~ended /\ pushed < MaxPush
  /\ pushed' = c
  /\ \/ /\ data # "none"
        /\ micro' = Append(micro, DataJob(c))
        /\ UNCHANGED <<buf, dropped, torn>>
     \/ /\ data = "none" /\ flowing
        /\ dropped' = dropped \cup {c}
        /\ UNCHANGED <<buf, micro, torn>>
     \/ /\ data = "none" /\ ~flowing
        /\ buf' = Append(buf, c)
        /\ torn' = (torn \/ flushing)
        /\ UNCHANGED <<micro, dropped>>
  /\ UNCHANGED <<ended, endEmitted, flushing, flowing, parked, destroyed, listeners, timer,
                 delivered, ends, closes, endAfterClose, calls, lossy, early, released>>

\* push(null)
PushEof ==
  /\ ~ended
  /\ ended' = TRUE
  /\ MaybeEnd(TRUE, buf, flushing, flowing, Listening, micro)
  /\ UNCHANGED <<buf, flushing, flowing, parked, destroyed, listeners, timer, pushed,
                 observed, calls, flags>>

-----------------------------------------------------------------------------
Call == calls < MaxCalls /\ calls' = calls + 1

\* _flushBuffered, then whatever _maybeEnd finds.
Flush(flow, listening, orElseEnd) ==
  \/ /\ buf # <<>> /\ ~flushing
     /\ micro' = Append(micro, FlushJob(buf))
     /\ buf' = <<>>
     /\ flushing' = TRUE
     /\ UNCHANGED endEmitted
  \/ /\ buf = <<>> \/ flushing
     /\ UNCHANGED <<buf, flushing>>
     /\ IF orElseEnd THEN MaybeEnd(ended, buf, flushing, flow, listening, micro)
        ELSE UNCHANGED <<micro, endEmitted>>

OnData(kind) ==
  /\ Call /\ data = "none"
  /\ data' = kind
  /\ lossy' = (lossy \/ kind = "once")
  /\ Flush(flowing, TRUE, TRUE)
  /\ UNCHANGED <<ended, flowing, parked, destroyed, onEnd, onClose, timer, pushed, observed,
                 torn, early, released>>

OffData ==
  /\ Call /\ data # "none"
  /\ data' = "none"
  /\ lossy' = TRUE
  /\ UNCHANGED <<state, onEnd, onClose, micro, timer, pushed, observed, torn, early, released>>

OnEnd ==
  /\ Call /\ ~onEnd
  /\ onEnd' = TRUE
  /\ MaybeEnd(ended, buf, flushing, flowing, TRUE, micro)
  /\ UNCHANGED <<buf, ended, flushing, flowing, parked, destroyed, data, onClose, timer, pushed,
                 observed, flags>>

OffEnd ==
  /\ Call /\ onEnd
  /\ onEnd' = FALSE
  /\ UNCHANGED <<state, data, onClose, micro, timer, pushed, observed, flags>>

\* A parked 'close' is let go to a consumer that only listens for it.
ReleaseClose ==
  IF parked /\ ~Listening
  THEN /\ parked' = FALSE /\ released' = TRUE
       /\ micro' = Append(micro, CloseJob)
  ELSE UNCHANGED <<parked, released, micro>>

OnClose ==
  /\ Call /\ ~onClose
  /\ onClose' = TRUE
  /\ ReleaseClose
  /\ UNCHANGED <<buf, ended, endEmitted, flushing, flowing, destroyed, data, onEnd, timer,
                 pushed, observed, lossy, torn, early>>

Resume ==
  /\ Call
  /\ flowing' = TRUE
  /\ lossy' = TRUE
  /\ Flush(TRUE, Listening, buf = <<>>)
  /\ UNCHANGED <<ended, parked, destroyed, listeners, timer, pushed, observed, torn, early,
                 released>>

Pause ==
  /\ Call /\ flowing
  /\ flowing' = FALSE
  /\ UNCHANGED <<buf, ended, endEmitted, flushing, parked, destroyed, listeners, micro, timer,
                 pushed, observed, flags>>

\* destroy(): 'close' at once, or behind an 'end' that is due but withheld.
Destroy ==
  /\ Call /\ ~destroyed
  /\ destroyed' = TRUE
  /\ early' = ~ended
  /\ IF ended /\ ~endEmitted
     THEN parked' = TRUE /\ timer' = TRUE /\ UNCHANGED micro
     ELSE micro' = Append(micro, CloseJob) /\ UNCHANGED <<parked, timer>>
  /\ UNCHANGED <<buf, ended, endEmitted, flushing, flowing, listeners, pushed, observed, lossy,
                 torn, released>>
-----------------------------------------------------------------------------
\* A microtask runs.  emit('data') reaches the listener there is, if any.
Emit(c) ==
  IF data = "none"
  THEN dropped' = dropped \cup {c} /\ UNCHANGED <<delivered, data>>
  ELSE /\ delivered' = Append(delivered, c)
       /\ data' = IF data = "once" THEN "none" ELSE data
       /\ UNCHANGED dropped

Now == Head(micro)

RunData ==
  /\ micro # <<>> /\ Now.job = "data"
  /\ Emit(Now.items[1])
  /\ micro' = Tail(micro)
  /\ UNCHANGED <<state, onEnd, onClose, timer, pushed, ends, closes, endAfterClose, calls, flags>>

\* One chunk of the backlog; its listener may call the stream before the next.
FlushOne ==
  /\ micro # <<>> /\ Now.job = "flush" /\ Now.items # <<>> /\ data # "none"
  /\ Emit(Head(Now.items))
  /\ micro' = <<FlushJob(Tail(Now.items))>> \o Tail(micro)
  /\ UNCHANGED <<state, onEnd, onClose, timer, pushed, ends, closes, endAfterClose, calls, flags>>

\* Mutant: the end of a flush does not look for a due 'end'.
FlushDoneOnly ==
  /\ micro # <<>> /\ Now.job = "flush" /\ (Now.items = <<>> \/ data = "none")
  /\ dropped' = dropped \cup ToSet(Now.items)
  /\ flushing' = FALSE
  /\ micro' = Tail(micro)
  /\ UNCHANGED <<buf, ended, endEmitted, flowing, parked, destroyed, listeners, timer, pushed,
                 delivered, ends, closes, endAfterClose, calls, flags>>

\* What is left goes to nobody, and the flush is over.
FlushDone ==
  /\ micro # <<>> /\ Now.job = "flush" /\ (Now.items = <<>> \/ data = "none")
  /\ dropped' = dropped \cup ToSet(Now.items)
  /\ flushing' = FALSE
  /\ MaybeEnd(ended, buf, FALSE, flowing, Listening, Tail(micro))
  /\ UNCHANGED <<buf, ended, flowing, parked, destroyed, listeners, timer, pushed, delivered,
                 ends, closes, endAfterClose, calls, flags>>

\* Mutant: the parked 'close' is let go and stays parked.
RunEndKeepsParked ==
  /\ micro # <<>> /\ Now.job = "end"
  /\ ends' = ends + 1
  /\ endAfterClose' = (endAfterClose \/ closes > 0)
  /\ micro' = IF parked THEN Append(Tail(micro), CloseJob) ELSE Tail(micro)
  /\ UNCHANGED <<state, listeners, timer, pushed, delivered, dropped, closes, calls, flags>>

\* 'end', and then the 'close' that was parked behind it.
RunEnd ==
  /\ micro # <<>> /\ Now.job = "end"
  /\ ends' = ends + 1
  /\ endAfterClose' = (endAfterClose \/ closes > 0)
  /\ parked' = FALSE
  /\ micro' = IF parked THEN Append(Tail(micro), CloseJob) ELSE Tail(micro)
  /\ UNCHANGED <<buf, ended, endEmitted, flushing, flowing, destroyed, listeners, timer, pushed,
                 delivered, dropped, closes, calls, flags>>

RunClose ==
  /\ micro # <<>> /\ Now.job = "close"
  /\ closes' = closes + 1
  /\ micro' = Tail(micro)
  /\ UNCHANGED <<state, listeners, timer, pushed, delivered, dropped, ends, endAfterClose, calls,
                 flags>>

\* Mutant: the timer does not let the parked 'close' go.
TimerForgets ==
  /\ timer /\ micro = <<>>
  /\ timer' = FALSE
  /\ UNCHANGED <<buf, ended, endEmitted, flushing, flowing, parked, destroyed, listeners, micro,
                 pushed, observed, calls, flags>>

\* destroy()'s timer is a macrotask: it waits for the microtasks to run out.
Timer ==
  /\ timer /\ micro = <<>>
  /\ timer' = FALSE
  /\ ReleaseClose
  /\ UNCHANGED <<buf, ended, endEmitted, flushing, flowing, destroyed, listeners, pushed,
                 observed, calls, lossy, torn, early>>

-----------------------------------------------------------------------------
RunJob == RunData \/ FlushOne \/ FlushDone \/ RunEnd \/ RunClose

Consumer == \/ \E kind \in {"on", "once"} : OnData(kind)
            \/ OffData \/ OnEnd \/ OffEnd \/ OnClose \/ Resume \/ Pause \/ Destroy

Next == Push \/ PushEof \/ Consumer \/ RunJob \/ Timer

Spec == Init /\ [][Next]_vars

\* The event loop runs what is queued; nobody has to call the stream.
Fairness == WF_vars(RunJob) /\ WF_vars(Timer)
FairSpec == Spec /\ Fairness

-----------------------------------------------------------------------------
Jobs == [job : {"data", "flush", "end", "close"}, items : Seq(1..MaxPush)]

\* Type correctness.
TypeOK ==
  /\ buf \in Seq(1..MaxPush)
  /\ micro \in Seq(Jobs)
  /\ ended \in BOOLEAN /\ endEmitted \in BOOLEAN /\ flushing \in BOOLEAN
  /\ flowing \in BOOLEAN /\ parked \in BOOLEAN /\ destroyed \in BOOLEAN
  /\ onEnd \in BOOLEAN /\ onClose \in BOOLEAN /\ timer \in BOOLEAN
  /\ lossy \in BOOLEAN /\ torn \in BOOLEAN /\ early \in BOOLEAN
  /\ released \in BOOLEAN /\ endAfterClose \in BOOLEAN
  /\ data \in {"none", "on", "once"}
  /\ pushed \in 0..MaxPush
  /\ delivered \in Seq(1..MaxPush) /\ dropped \subseteq 1..MaxPush
  /\ ends \in 0..1 /\ closes \in 0..1
  /\ calls \in 0..MaxCalls

Ascending(s) == \A i, k \in DOMAIN s : i < k => s[i] < s[k]
Before(s, t) == \A c \in ToSet(s), d \in ToSet(t) : c < d
Items        == [i \in DOMAIN micro |-> micro[i].items]
Closings     == {i \in DOMAIN micro : micro[i].job = "close"}

\* Every chunk is, in the order it was pushed, delivered, then in a microtask,
\* then in the buffer; none is lost to a consumer that stays.  Only resume()
\* or a departing 'data' listener discards chunks, and only a chunk buffered
\* under a flush in progress may be overtaken.
NothingLost ==
  /\ dropped # {} => lossy
  /\ ~torn => LET line == <<delivered>> \o Items \o <<buf>> IN
              /\ \A i \in DOMAIN line : Ascending(line[i])
              /\ \A i, k \in DOMAIN line : i < k => Before(line[i], line[k])
              /\ UNION {ToSet(line[i]) : i \in DOMAIN line} = (1..pushed) \ dropped

\* 'end' comes after every chunk has been delivered or discarded.  'close' is
\* queued, parked or emitted once, for a destroyed stream only, and waits for
\* an 'end' that is due unless the stream was destroyed before EOF or nobody
\* listened for data or 'end'.
EndThenClose ==
  /\ ends = 1 => ended /\ buf = <<>> /\ \A i \in DOMAIN micro : Items[i] = <<>>
  /\ endAfterClose => early \/ released
  /\ (IF parked THEN 1 ELSE 0) + Cardinality(Closings) + closes
       = (IF destroyed THEN 1 ELSE 0)

\* A consumer that reads to EOF gets its 'end', and a resumed stream ends
\* whether or not anybody listens.
Draining == data = "on" \/ flowing
ReaderGetsEnd == (ended /\ Draining) ~> (ends = 1 \/ ~Draining \/ torn)

\* A destroyed stream closes for a consumer that drains it, and by destroy()'s
\* timer for one that listens for neither data nor 'end'.
DestroyedCloses ==
  /\ (destroyed /\ Draining) ~> (closes = 1 \/ ~Draining \/ torn)
  /\ (destroyed /\ timer /\ ~Listening) ~> (closes = 1 \/ Listening)

\* "Node instead buffers until a consumer arrives, then delivers the backlog"
\* (stream.cjs): a buffer does not outlast the arrival of a 'data' listener.
\* It does when the chunk was buffered while an earlier flush was queued.
BacklogReachesListener == (buf # <<>> /\ data = "on") ~> (buf = <<>> \/ data # "on")
=============================================================================
