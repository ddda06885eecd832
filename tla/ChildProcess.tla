---------------------------- MODULE ChildProcess ----------------------------
(***************************************************************************)
(* execFile() over spawn() of the node:child_process shim: a child that    *)
(* writes to pipes and exits, a descendant of it that may hold the pipes   *)
(* open, the loops that drain them into the Readables the collectors       *)
(* listen to, the stdin wrapper, and the handler of wait(), which reports  *)
(* the exit and then cancels the loops and closes stdin.  Promise          *)
(* continuations and deferred events are microtasks and run in order.      *)
(***************************************************************************)
EXTENDS Naturals, Sequences, FiniteSets, SequencesExt

CONSTANTS Streams,    \* "stdout", "stderr"
          MaxChunks,  \* chunks per stream (a bound for TLC)
          MaxCalls    \* calls on stdin (a bound for TLC)

ASSUME ChildProcessAssumption ==
  /\ IsFiniteSet(Streams) /\ "none" \notin Streams
  /\ MaxChunks \in Nat /\ MaxCalls \in Nat

VARIABLES
  child,       \* "running", "gone", or "unlaunched"
  status,      \* how it went: "ok", "nonzero", "signal" or "none" yet
  orphan,      \* a descendant holds the pipes
  wrote,       \* per stream: chunks written to the pipe
  taken,       \* per stream: chunks read() has resolved with
  awaiting,    \* per stream: a read() is outstanding
  cancelled,   \* per stream: the reader was cancelled
  torn,        \* per stream: the Readable is destroyed
  ended,       \* per stream: push(null) was called
  collected,   \* per stream: what execFile's 'data' listener has gathered
  waited,      \* "pending", "settled" or "handled"
  spawnTimer,  \* the timer that emits 'spawn'
  micro,       \* microtasks
  events,      \* history: the child's events, in order
  callbacks,   \* history: what execFile's callback was given, in order
  threw,       \* history: a listener of the child's events, or the callback, threw
  stdinEnded,  \* w.destroyed
  stdinNative, \* the native stdin: "open" or "closed"
  stdinEvents, \* history: 'finish' and 'close' of stdin, in order
  calls

pipes   == <<orphan, wrote>>
drains  == <<taken, awaiting, cancelled, torn, ended>>
stdin   == <<stdinEnded, stdinNative, stdinEvents, calls>>
outcome == <<events, callbacks, threw>>
vars == <<child, status, pipes, drains, collected, waited, spawnTimer, micro, outcome, stdin>>

Job(name)          == [job |-> name, of |-> "none", chunk |-> 0]
StreamJob(n, s, c) == [job |-> n, of |-> s, chunk |-> c]

\* Launched, or not: then 'error' and 'close' are due, and the streams that were
\* asked for have ended.
Init ==
  /\ \/ /\ child = "running" /\ spawnTimer = TRUE
        /\ micro = <<>>
        /\ awaiting = [s \in Streams |-> TRUE]
        /\ torn = [s \in Streams |-> FALSE]
        /\ ended = [s \in Streams |-> FALSE]
        /\ stdinEnded = FALSE /\ stdinNative = "open"
     \/ /\ child = "unlaunched" /\ spawnTimer = FALSE
        /\ micro = <<Job("stdinClose"), Job("unlaunched")>>
        /\ awaiting = [s \in Streams |-> FALSE]
        /\ torn = [s \in Streams |-> TRUE]
        /\ ended = [s \in Streams |-> TRUE]
        /\ stdinEnded = TRUE /\ stdinNative = "closed"
  /\ status = "none" /\ orphan = FALSE /\ waited = "pending"
  /\ wrote = [s \in Streams |-> 0] /\ taken = [s \in Streams |-> 0]
  /\ cancelled = [s \in Streams |-> FALSE]
  /\ collected = [s \in Streams |-> <<>>]
  /\ events = <<>> /\ callbacks = <<>> /\ threw = FALSE
  /\ stdinEvents = <<>> /\ calls = 0

-----------------------------------------------------------------------------
\* The child and its descendant.
PipeWrite(s) ==
  /\ child = "running" \/ orphan
  /\ wrote[s] < MaxChunks
  /\ wrote' = [wrote EXCEPT ![s] = @ + 1]
  /\ UNCHANGED <<child, status, orphan, drains, collected, waited, spawnTimer, micro, outcome, stdin>>

Fork ==
  /\ child = "running" /\ ~orphan
  /\ orphan' = TRUE
  /\ UNCHANGED <<child, status, wrote, drains, collected, waited, spawnTimer, micro, outcome, stdin>>

\* By itself, or by kill().
Exit(how) ==
  /\ child = "running"
  /\ child' = "gone" /\ status' = how
  /\ UNCHANGED <<pipes, drains, collected, waited, spawnTimer, micro, outcome, stdin>>

\* wait() resolves with the status, or rejects.
WaitSettles(ok) ==
  /\ child = "gone" /\ waited = "pending"
  /\ waited' = "settled"
  /\ micro' = Append(micro, Job(IF ok THEN "exit" ELSE "waitError"))
  /\ UNCHANGED <<child, status, pipes, drains, collected, spawnTimer, outcome, stdin>>

\* A read resolves with the next chunk, or with the end once no writer is left.
ReadSettles(s) ==
  /\ awaiting[s] /\ ~cancelled[s]
  /\ \/ /\ taken[s] < wrote[s]
        /\ taken' = [taken EXCEPT ![s] = @ + 1]
        /\ micro' = Append(micro, StreamJob("read", s, taken[s] + 1))
     \/ /\ taken[s] = wrote[s] /\ child = "gone" /\ ~orphan
        /\ micro' = Append(micro, StreamJob("read", s, 0))
        /\ UNCHANGED taken
  /\ awaiting' = [awaiting EXCEPT ![s] = FALSE]
  /\ UNCHANGED <<child, status, pipes, cancelled, torn, ended, collected, waited, spawnTimer,
                 outcome, stdin>>

-----------------------------------------------------------------------------
\* _reader.cancel(): an outstanding read resolves with the end, and so will the
\* next; S are the streams whose readers are cancelled.
CancelReaders(S, rest) ==
  LET outstanding == {s \in S : awaiting[s]} IN
  /\ cancelled' = [s \in Streams |-> cancelled[s] \/ s \in S]
  /\ awaiting' = [s \in Streams |-> awaiting[s] /\ s \notin S]
  /\ micro' = rest \o SetToSeq({StreamJob("read", s, 0) : s \in outstanding})

\* stdin.destroy(); its 'close' comes behind `queue`.
StdinDestroy(queue) ==
  IF stdinEnded
  THEN micro' = queue /\ UNCHANGED <<stdinEnded, stdinNative>>
  ELSE /\ stdinEnded' = TRUE /\ stdinNative' = "closed"
       /\ micro' = Append(queue, Job("stdinClose"))

Due(name) == micro # <<>> /\ Head(micro).job = name
Of        == Head(micro).of
Chunk     == Head(micro).chunk
Rest      == Tail(micro)

\* execFile's callback, from its 'exit' listener with what is collected, from its
\* 'error' listener with nothing; it may throw.
Nothing == [s \in Streams |-> <<>>]
Callback(failed, out, throws) ==
  /\ callbacks' = Append(callbacks, [failed |-> failed, out |-> out])
  /\ threw' = throws

\* Mutant: a killed child's exit_status, which is 0, is passed on.
RunExitByStatus(throws) ==
  /\ Due("exit")
  /\ waited' = "handled"
  /\ events' = Append(events, "exit")
  /\ Callback(status = "nonzero", collected, throws)
  /\ micro' = IF throws THEN Rest ELSE <<Job("close")>> \o Rest
  /\ UNCHANGED <<child, status, pipes, drains, collected, spawnTimer, stdin>>

\* wait()'s handler: 'exit', with code 0 only for a child that exited with it.
RunExit(throws) ==
  /\ Due("exit")
  /\ waited' = "handled"
  /\ events' = Append(events, "exit")
  /\ Callback(status # "ok", collected, throws)
  /\ micro' = IF throws THEN Rest ELSE <<Job("close")>> \o Rest
  /\ UNCHANGED <<child, status, pipes, drains, collected, spawnTimer, stdin>>

\* Mutant: a drain loop that a descendant keeps waiting is left to wait.
RunCloseKeepsReading ==
  /\ Due("close")
  /\ events' = Append(events, "close")
  /\ stdinEnded' = TRUE /\ stdinNative' = "closed"
  /\ micro' = Rest
  /\ UNCHANGED <<child, status, pipes, drains, collected, waited, spawnTimer, callbacks, threw,
                 stdinEvents, calls>>

\* ... then 'close', the readers cancelled, and stdin destroyed.
RunClose ==
  /\ Due("close")
  /\ events' = Append(events, "close")
  /\ LET outstanding == {s \in Streams : awaiting[s]}
         reads == SetToSeq({StreamJob("read", s, 0) : s \in outstanding})
     IN StdinDestroy(Rest \o reads)
  /\ cancelled' = [s \in Streams |-> TRUE]
  /\ awaiting' = [s \in Streams |-> FALSE]
  /\ UNCHANGED <<child, status, pipes, taken, torn, ended, collected, waited, spawnTimer,
                 callbacks, threw, stdinEvents, calls>>

\* A listener of 'close' throws out of the handler: nothing more is done.
RunCloseThrows ==
  /\ Due("close")
  /\ events' = Append(events, "close")
  /\ threw' = TRUE
  /\ micro' = Rest
  /\ UNCHANGED <<child, status, pipes, drains, collected, waited, spawnTimer, callbacks, stdin>>

\* wait() was rejected: an 'error', and nothing else is done.
RunWaitError(throws) ==
  /\ Due("waitError")
  /\ waited' = "handled"
  /\ events' = Append(events, "error")
  /\ Callback(TRUE, Nothing, throws)
  /\ micro' = Rest
  /\ UNCHANGED <<child, status, pipes, drains, collected, spawnTimer, stdin>>

\* The microtask of a failed launch: 'error' and then 'close'.
RunUnlaunched(throws) ==
  /\ Due("unlaunched")
  /\ events' = events \o (IF throws THEN <<"error">> ELSE <<"error", "close">>)
  /\ Callback(TRUE, Nothing, throws)
  /\ micro' = Rest
  /\ UNCHANGED <<child, status, pipes, drains, collected, waited, spawnTimer, stdin>>

SpawnEvent ==
  /\ spawnTimer
  /\ spawnTimer' = FALSE
  /\ events' = Append(events, "spawn")
  /\ UNCHANGED <<child, status, pipes, drains, collected, waited, micro, callbacks, threw, stdin>>

-----------------------------------------------------------------------------
\* Mutants: the end's missing value is pushed; a chunk that meets a cancel is lost.
RunReadPushesEnd ==
  /\ Due("read")
  /\ LET goesOn == Chunk # 0 /\ ~torn[Of]
         pushed == <<StreamJob("data", Of, Chunk)>>
         last   == goesOn /\ cancelled[Of]
     IN /\ awaiting' = [awaiting EXCEPT ![Of] = goesOn /\ ~cancelled[Of]]
        /\ ended' = [ended EXCEPT ![Of] = ~goesOn]
        /\ micro' = Rest \o pushed \o (IF last THEN <<StreamJob("read", Of, 0)>> ELSE <<>>)
  /\ UNCHANGED <<child, status, pipes, taken, cancelled, torn, collected, waited, spawnTimer,
                 outcome, stdin>>

RunReadDrops ==
  /\ Due("read")
  /\ LET goesOn == Chunk # 0 /\ ~torn[Of]
         pushed == IF Chunk # 0 /\ ~cancelled[Of] THEN <<StreamJob("data", Of, Chunk)>> ELSE <<>>
         last   == goesOn /\ cancelled[Of]
     IN /\ awaiting' = [awaiting EXCEPT ![Of] = goesOn /\ ~cancelled[Of]]
        /\ ended' = [ended EXCEPT ![Of] = ~goesOn]
        /\ micro' = Rest \o pushed \o (IF last THEN <<StreamJob("read", Of, 0)>> ELSE <<>>)
  /\ UNCHANGED <<child, status, pipes, taken, cancelled, torn, collected, waited, spawnTimer,
                 outcome, stdin>>

\* The drain loop after a read: push the chunk and read on, or push(null).  A
\* destroyed stream, or a cancelled reader, ends it.
RunRead ==
  /\ Due("read")
  /\ LET goesOn == Chunk # 0 /\ ~torn[Of]
         pushed == IF Chunk # 0 THEN <<StreamJob("data", Of, Chunk)>> ELSE <<>>
         last   == goesOn /\ cancelled[Of]
     IN /\ awaiting' = [awaiting EXCEPT ![Of] = goesOn /\ ~cancelled[Of]]
        /\ ended' = [ended EXCEPT ![Of] = ~goesOn]
        /\ micro' = Rest \o pushed \o (IF last THEN <<StreamJob("read", Of, 0)>> ELSE <<>>)
  /\ UNCHANGED <<child, status, pipes, taken, cancelled, torn, collected, waited, spawnTimer,
                 outcome, stdin>>

\* The Readable's 'data' reaches execFile's collector.
RunData ==
  /\ Due("data")
  /\ collected' = [collected EXCEPT ![Of] = Append(@, Chunk)]
  /\ micro' = Rest
  /\ UNCHANGED <<child, status, pipes, drains, waited, spawnTimer, outcome, stdin>>

\* child.stdout.destroy()
DestroyStream(s) ==
  /\ child # "unlaunched" /\ ~torn[s]
  /\ torn' = [torn EXCEPT ![s] = TRUE]
  /\ CancelReaders({s}, micro)
  /\ UNCHANGED <<child, status, pipes, taken, ended, collected, waited, spawnTimer, outcome, stdin>>

-----------------------------------------------------------------------------
Call == calls < MaxCalls /\ calls' = calls + 1

\* stdin.end(): closed once, reported each time.
StdinEnd ==
  /\ Call /\ child # "unlaunched"
  /\ stdinEnded' = TRUE /\ stdinNative' = "closed"
  /\ micro' = Append(micro, Job("stdinFinish"))
  /\ UNCHANGED <<child, status, pipes, drains, collected, waited, spawnTimer, outcome, stdinEvents>>

StdinDestroyed ==
  /\ Call /\ ~stdinEnded
  /\ StdinDestroy(micro)
  /\ UNCHANGED <<child, status, pipes, drains, collected, waited, spawnTimer, outcome, stdinEvents>>

RunStdin ==
  /\ \/ Due("stdinFinish") /\ stdinEvents' = stdinEvents \o <<"finish", "close">>
     \/ Due("stdinClose") /\ stdinEvents' = Append(stdinEvents, "close")
  /\ micro' = Rest
  /\ UNCHANGED <<child, status, pipes, drains, collected, waited, spawnTimer, outcome, stdinEnded,
                 stdinNative, calls>>

-----------------------------------------------------------------------------
RunJob == RunClose \/ RunCloseThrows \/ RunRead \/ RunData \/ RunStdin
            \/ \E throws \in BOOLEAN : RunExit(throws) \/ RunWaitError(throws)
                                         \/ RunUnlaunched(throws)

Settle == (\E ok \in BOOLEAN : WaitSettles(ok)) \/ \E s \in Streams : ReadSettles(s)

Os == Fork \/ (\E s \in Streams : PipeWrite(s))
        \/ \E how \in {"ok", "nonzero", "signal"} : Exit(how)

Caller == StdinEnd \/ StdinDestroyed \/ \E s \in Streams : DestroyStream(s)

Next == RunJob \/ Settle \/ Os \/ Caller \/ SpawnEvent

Spec == Init /\ [][Next]_vars

\* The event loop runs what is queued and the engine settles what can settle.
\* No child has to exit and no descendant ever does.
Fairness == /\ WF_vars(RunJob) /\ WF_vars(SpawnEvent)
            /\ WF_vars(\E ok \in BOOLEAN : WaitSettles(ok))
            /\ \A s \in Streams : WF_vars(ReadSettles(s))
FairSpec == Spec /\ Fairness

-----------------------------------------------------------------------------
Jobs == [job : {"exit", "close", "waitError", "unlaunched", "read", "data", "stdinClose",
                "stdinFinish"},
         of : Streams \cup {"none"}, chunk : 0..MaxChunks]
Flags == [Streams -> BOOLEAN]
Events == {"spawn", "exit", "close", "error"}
Outputs == [Streams -> Seq(1..MaxChunks)]
Happened(e) == \E i \in DOMAIN events : events[i] = e

\* Type correctness.
TypeOK ==
  /\ child \in {"running", "gone", "unlaunched"}
  /\ status \in {"ok", "nonzero", "signal", "none"}
  /\ awaiting \in Flags /\ cancelled \in Flags /\ torn \in Flags /\ ended \in Flags
  /\ wrote \in [Streams -> 0..MaxChunks] /\ taken \in [Streams -> 0..MaxChunks]
  /\ collected \in Outputs
  /\ waited \in {"pending", "settled", "handled"}
  /\ micro \in Seq(Jobs)
  /\ events \in Seq(Events)
  /\ callbacks \in Seq([failed : BOOLEAN, out : Outputs])
  /\ orphan \in BOOLEAN /\ spawnTimer \in BOOLEAN /\ threw \in BOOLEAN /\ stdinEnded \in BOOLEAN
  /\ stdinNative \in {"open", "closed"} /\ stdinEvents \in Seq({"finish", "close"})
  /\ calls \in 0..MaxCalls

\* The microtasks that carry a chunk of s.
Coming(s) == {i \in DOMAIN micro : micro[i].of = s /\ micro[i].chunk # 0}

\* What the collector has, and then what is on its way to it, is what was read, in
\* the order it was written; a stream that ends by itself has been read whole.
OutputInOrder ==
  \A s \in Streams :
    /\ Len(collected[s]) <= taken[s] /\ \A n \in DOMAIN collected[s] : collected[s][n] = n
    /\ {micro[i].chunk : i \in Coming(s)} = (Len(collected[s]) + 1)..taken[s]
    /\ \A i, j \in Coming(s) : i < j => micro[i].chunk < micro[j].chunk
    /\ ended[s] /\ ~cancelled[s] => taken[s] = wrote[s]

\* No event comes twice, 'exit' and 'error' exclude each other, and 'close'
\* follows one of them.  execFile calls back once, without an error only for a
\* child that exited with 0 by itself, and what it hands over is a prefix of
\* the output: it may be called before all is read.
LifecycleInOrder ==
  /\ \A i, j \in DOMAIN events : events[i] = events[j] => i = j
  /\ ~(Happened("exit") /\ Happened("error"))
  /\ \A i \in DOMAIN events : events[i] = "close" =>
       \E j \in 1..(i - 1) : events[j] \in {"exit", "error"}
  /\ child = "unlaunched" => ~Happened("exit")
  /\ Len(callbacks) <= 1
  /\ \A i \in DOMAIN callbacks :
       /\ ~callbacks[i].failed => status = "ok" /\ Happened("exit")
       /\ \A s \in Streams : IsPrefix(callbacks[i].out[s], collected[s])

\* Once the child is gone, and unless wait() failed or a listener threw, the
\* callback is called, stdin is closed and the drain loops end, even while a
\* descendant holds the pipes.
Reaped ==
  child = "gone" ~>
    \/ Happened("error") \/ threw
    \/ /\ Len(callbacks) = 1 /\ stdinNative = "closed"
       /\ \A s \in Streams : ended[s]
=============================================================================
