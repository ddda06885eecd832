--------------------------- MODULE ReadableProofs ---------------------------
(***************************************************************************)
(* Proofs about Readable, for any number of chunks and of calls: no chunk  *)
(* is lost or overtaken but by what a consumer did, nothing follows 'end', *)
(* and a destroyed stream has one 'close', behind an 'end' that is due.    *)
(***************************************************************************)
EXTENDS Readable, TLAPS, FiniteSetTheorems

-----------------------------------------------------------------------------
\* The stream's jobs: a data job carries one chunk, an 'end' or 'close' none;
\* one flush at most is queued, while _flushing is set.
JobsInv ==
  \A i \in DOMAIN micro :
    /\ micro[i].job = "data" => Len(micro[i].items) = 1
    /\ micro[i].job \in {"end", "close"} => micro[i].items = <<>>
    /\ micro[i].job = "flush" => /\ flushing
                                 /\ \A j \in DOMAIN micro : micro[j].job = "flush" => j = i

\* Nothing is behind an 'end' that is queued, and nothing is due after one.
EndInv ==
  /\ endEmitted => ended /\ buf = <<>> /\ ~flushing
  /\ ends = 1 => endEmitted /\ \A i \in DOMAIN micro : micro[i].items = <<>>
  /\ \A i \in DOMAIN micro : micro[i].job = "end" =>
       /\ endEmitted /\ ends = 0
       /\ \A j \in DOMAIN micro : /\ micro[j].job = "end" => j = i
                                  /\ j > i => micro[j].items = <<>>

\* One 'close' for a destroyed stream: parked, queued or emitted.
CloseInv ==
  /\ parked => destroyed /\ closes = 0
  /\ closes = 1 => destroyed
  /\ destroyed => parked \/ closes = 1 \/ \E i \in DOMAIN micro : micro[i].job = "close"
  /\ \A i \in DOMAIN micro : micro[i].job = "close" =>
       /\ destroyed /\ ~parked /\ closes = 0
       /\ \A j \in DOMAIN micro : micro[j].job = "close" => j = i

\* Unless it was let go, it is behind the 'end'.
OrderInv ==
  /\ endAfterClose => closes = 1 /\ (early \/ released)
  /\ closes = 1 => \/ early \/ released
                   \/ endEmitted /\ \A j \in DOMAIN micro : micro[j].job # "end"
  /\ \A i \in DOMAIN micro : micro[i].job = "close" =>
       \/ early \/ released
       \/ endEmitted /\ \A j \in DOMAIN micro : j > i => micro[j].job # "end"

\* Whoever may leave a chunk without a listener has been noted.
LossInv ==
  /\ flowing \/ data = "once" \/ dropped # {} => lossy
  /\ data = "none" => lossy \/ \A i \in DOMAIN micro : micro[i].items = <<>>

\* The line of chunks, piece by piece.
Waiting == {c \in 1..pushed : \E i \in DOMAIN micro : c \in ToSet(micro[i].items)}
LineInv ==
  ~torn =>
    /\ data # "none" \/ flushing => buf = <<>>
    /\ Ascending(delivered) /\ Ascending(buf) /\ Before(delivered, buf)
    /\ \A i \in DOMAIN micro : /\ Ascending(micro[i].items)
                               /\ Before(delivered, micro[i].items)
                               /\ Before(micro[i].items, buf)
                               /\ ToSet(micro[i].items) \subseteq 1..pushed
                               /\ \A j \in DOMAIN micro :
                                    i < j => Before(micro[i].items, micro[j].items)
    /\ ToSet(delivered) \cup Waiting \cup ToSet(buf) = (1..pushed) \ dropped

\* Only what was pushed is dropped.
DroppedInv == ~torn => dropped \subseteq 1..pushed

IInv == TypeOK /\ JobsInv /\ EndInv /\ CloseInv /\ OrderInv /\ LossInv /\ LineInv
          /\ DroppedInv

-----------------------------------------------------------------------------
\* Sequences.
LEMMA AppendTyped ==
  ASSUME NEW S, NEW s \in Seq(S), NEW x \in S
  PROVE  Append(s, x) \in Seq(S)
OBVIOUS

LEMMA HeadAndTail ==
  ASSUME NEW S, NEW s \in Seq(S), s # <<>>
  PROVE  Head(s) \in S /\ Tail(s) \in Seq(S)
OBVIOUS

LEMMA ElementsTyped ==
  ASSUME NEW S, NEW s \in Seq(S)
  PROVE  ToSet(s) \subseteq S
<1>1. \A i \in DOMAIN s : s[i] \in S
  OBVIOUS
<1> QED
  BY <1>1 DEF ToSet

LEMMA PrependIs ==
  ASSUME NEW S, NEW x \in S, NEW t \in Seq(S)
  PROVE  /\ <<x>> \o t \in Seq(S) /\ Len(<<x>> \o t) = Len(t) + 1 /\ (<<x>> \o t)[1] = x
         /\ \A k \in 1..Len(t) : (<<x>> \o t)[k + 1] = t[k]
<1>1. <<x>> \in Seq(S) /\ Len(<<x>>) = 1 /\ <<x>>[1] = x /\ Len(t) \in Nat
  OBVIOUS
<1> DEFINE h == <<x>>
<1> HIDE DEF h
<1>2. /\ h \o t \in Seq(S) /\ Len(h \o t) = 1 + Len(t) /\ (h \o t)[1] = x
      /\ \A k \in 1..Len(t) : (h \o t)[k + 1] = t[k]
  BY <1>1 DEF h
<1> QED
  BY <1>1, <1>2 DEF h

\* What queueing a job, and taking the first, make of the queue.
Queues(j) ==
  /\ micro' \in Seq(Jobs) /\ Len(micro) \in Nat /\ Len(micro') = Len(micro) + 1
  /\ DOMAIN micro = 1..Len(micro) /\ DOMAIN micro' = 1..(Len(micro) + 1)
  /\ \A k \in DOMAIN micro : micro'[k] = micro[k]
  /\ micro'[Len(micro) + 1] = j

Takes ==
  /\ micro' \in Seq(Jobs) /\ Len(micro) \in Nat \ {0}
  /\ DOMAIN micro = 1..Len(micro) /\ DOMAIN micro' = 1..(Len(micro) - 1)
  /\ \A k \in DOMAIN micro' : micro'[k] = micro[k + 1]

TakesAndQueues(j) ==
  /\ micro' \in Seq(Jobs) /\ Len(micro) \in Nat \ {0}
  /\ DOMAIN micro = 1..Len(micro) /\ DOMAIN micro' = 1..Len(micro)
  /\ \A k \in 1..(Len(micro) - 1) : micro'[k] = micro[k + 1]
  /\ micro'[Len(micro)] = j

LEMMA Queueing ==
  ASSUME micro \in Seq(Jobs), NEW j \in Jobs, micro' = Append(micro, j)
  PROVE  Queues(j)
BY DEF Queues

LEMMA Taking ==
  ASSUME micro \in Seq(Jobs), micro # <<>>, micro' = Tail(micro)
  PROVE  Takes
BY DEF Takes

LEMMA TakingAndQueueing ==
  ASSUME micro \in Seq(Jobs), micro # <<>>, NEW j \in Jobs, micro' = Append(Tail(micro), j)
  PROVE  TakesAndQueues(j)
<1>1. /\ Tail(micro) \in Seq(Jobs) /\ Len(Tail(micro)) = Len(micro) - 1
      /\ Len(micro) \in Nat \ {0}
      /\ \A k \in 1..(Len(micro) - 1) : Tail(micro)[k] = micro[k + 1]
  OBVIOUS
<1> QED
  BY <1>1 DEF TakesAndQueues

LEMMA Replacing ==
  ASSUME micro \in Seq(Jobs), micro # <<>>, NEW j \in Jobs, micro' = <<j>> \o Tail(micro)
  PROVE  /\ Len(micro) \in Nat \ {0} /\ DOMAIN micro = 1..Len(micro)
         /\ DOMAIN micro' = 1..Len(micro) /\ micro' \in Seq(Jobs) /\ micro'[1] = j
         /\ \A k \in 1..Len(micro) : k # 1 => micro'[k] = micro[k]
<1>1. /\ Len(micro) \in Nat \ {0} /\ DOMAIN micro = 1..Len(micro)
      /\ Tail(micro) \in Seq(Jobs) /\ Len(Tail(micro)) = Len(micro) - 1
      /\ \A k \in 1..(Len(micro) - 1) : Tail(micro)[k] = micro[k + 1]
  OBVIOUS
<1>2. /\ micro' \in Seq(Jobs) /\ Len(micro') = Len(Tail(micro)) + 1 /\ micro'[1] = j
      /\ \A k \in 1..Len(Tail(micro)) : micro'[k + 1] = Tail(micro)[k]
  BY <1>1, PrependIs
<1>3. \A k \in 1..Len(micro) : k # 1 => k - 1 \in 1..(Len(micro) - 1) /\ (k - 1) + 1 = k
  BY <1>1
<1> QED
  BY <1>1, <1>2, <1>3

LEMMA FirstJob ==
  ASSUME micro \in Seq(Jobs), micro # <<>>
  PROVE  1 \in DOMAIN micro /\ Now = micro[1] /\ Now \in Jobs
BY DEF Now

LEMMA NewJobs ==
  /\ EndJob \in Jobs /\ EndJob.job = "end" /\ EndJob.items = <<>>
  /\ CloseJob \in Jobs /\ CloseJob.job = "close" /\ CloseJob.items = <<>>
  /\ \A cs \in Seq(1..MaxPush) : /\ FlushJob(cs) \in Jobs /\ FlushJob(cs).job = "flush"
                                 /\ FlushJob(cs).items = cs
  /\ \A c \in 1..MaxPush : /\ DataJob(c) \in Jobs /\ DataJob(c).job = "data"
                           /\ DataJob(c).items = <<c>> /\ Len(DataJob(c).items) = 1
BY DEF EndJob, CloseJob, FlushJob, DataJob, Jobs

LEMMA ChunksAreNumbers ==
  ASSUME NEW s \in Seq(1..MaxPush)
  PROVE  s \in Seq(Nat)
<1>1. Len(s) \in Nat /\ s = [i \in 1..Len(s) |-> s[i]] /\ \A i \in 1..Len(s) : s[i] \in Nat
  BY ReadableAssumption
<1> QED
  BY <1>1

\* Sequences of chunks: one chunk more at the end, or one fewer at the start.
LEMMA LineGrows ==
  ASSUME NEW s \in Seq(Nat), NEW c \in Nat
  PROVE  /\ ToSet(Append(s, c)) = ToSet(s) \cup {c}
         /\ Ascending(s) /\ (\A d \in ToSet(s) : d < c) => Ascending(Append(s, c))
<1> DEFINE t == Append(s, c)
<1>1. /\ Len(s) \in Nat /\ DOMAIN s = 1..Len(s) /\ DOMAIN t = 1..(Len(s) + 1)
      /\ \A k \in DOMAIN s : t[k] = s[k]
      /\ t[Len(s) + 1] = c
  OBVIOUS
<1> HIDE DEF t
<1>2. ToSet(t) = ToSet(s) \cup {c}
  BY <1>1 DEF ToSet
<1>3. ASSUME Ascending(s), \A d \in ToSet(s) : d < c
      PROVE  Ascending(t)
  <2> SUFFICES ASSUME NEW i \in DOMAIN t, NEW k \in DOMAIN t, i < k
               PROVE  t[i] < t[k]
    BY DEF Ascending
  <2>1. i \in DOMAIN s
    BY <1>1
  <2>2. CASE k = Len(s) + 1
    BY <1>1, <1>3, <2>1, <2>2 DEF ToSet
  <2>3. CASE k # Len(s) + 1
    BY <1>1, <1>3, <2>1, <2>3 DEF Ascending
  <2> QED
    BY <2>2, <2>3
<1> QED
  BY <1>2, <1>3 DEF t

LEMMA LineShrinks ==
  ASSUME NEW s \in Seq(Nat), s # <<>>
  PROVE  /\ ToSet(s) = {Head(s)} \cup ToSet(Tail(s)) /\ Head(s) \in Nat
         /\ Ascending(s) => Ascending(Tail(s)) /\ \A d \in ToSet(Tail(s)) : Head(s) < d
<1> DEFINE t == Tail(s)
<1>1. /\ Len(s) \in Nat \ {0} /\ DOMAIN s = 1..Len(s) /\ DOMAIN t = 1..(Len(s) - 1)
      /\ \A k \in DOMAIN t : t[k] = s[k + 1] /\ k + 1 \in DOMAIN s
      /\ Head(s) = s[1] /\ 1 \in DOMAIN s /\ s[1] \in Nat
  OBVIOUS
<1> HIDE DEF t
<1>2. ToSet(s) = {s[1]} \cup ToSet(t)
  <2>1. ASSUME NEW i \in DOMAIN s, i # 1
        PROVE  i - 1 \in DOMAIN t /\ s[i] = t[i - 1]
    BY <1>1, <2>1
  <2>2. ToSet(s) \subseteq {s[1]} \cup ToSet(t)
    <3> SUFFICES ASSUME NEW i \in DOMAIN s PROVE s[i] \in {s[1]} \cup ToSet(t)
      BY DEF ToSet
    <3> QED
      BY <2>1 DEF ToSet
  <2>3. {s[1]} \cup ToSet(t) \subseteq ToSet(s)
    BY <1>1 DEF ToSet
  <2> QED
    BY <2>2, <2>3
<1>3. ASSUME Ascending(s)
      PROVE  Ascending(t) /\ \A d \in ToSet(t) : s[1] < d
  <2>1. ASSUME NEW i \in DOMAIN t, NEW k \in DOMAIN t, i < k PROVE t[i] < t[k]
    <3>1. /\ i + 1 \in DOMAIN s /\ t[i] = s[i + 1]
          /\ k + 1 \in DOMAIN s /\ t[k] = s[k + 1]
      BY <1>1
    <3>2. i + 1 < k + 1
      BY <1>1, <2>1
    <3> QED
      BY <1>3, <3>1, <3>2 DEF Ascending
  <2>2. ASSUME NEW d \in ToSet(t) PROVE s[1] < d
    <3>1. PICK k \in DOMAIN t : d = t[k]
      BY DEF ToSet
    <3>2. k + 1 \in DOMAIN s /\ 1 < k + 1 /\ d = s[k + 1]
      BY <1>1, <3>1
    <3> QED
      BY <1>1, <1>3, <3>2 DEF Ascending
  <2> QED
    BY <2>1, <2>2 DEF Ascending
<1> QED
  BY <1>1, <1>2, <1>3 DEF t

LEMMA ShortLines ==
  /\ ToSet(<<>>) = {} /\ Ascending(<<>>)
  /\ \A c : ToSet(<<c>>) = {c} /\ (c \in Nat => Ascending(<<c>>))
BY DEF ToSet, Ascending

LEMMA InitIInv == Init => IInv
<1> SUFFICES ASSUME Init PROVE IInv
  OBVIOUS
<1>1. TypeOK
  <2>1. buf \in Seq(1..MaxPush) /\ micro \in Seq(Jobs) /\ delivered \in Seq(1..MaxPush)
    BY DEF Init
  <2>2. pushed \in 0..MaxPush /\ ends \in 0..1 /\ closes \in 0..1 /\ calls \in 0..MaxCalls
    BY ReadableAssumption DEF Init
  <2> QED
    BY <2>1, <2>2 DEF Init, TypeOK
<1>2. LineInv
  BY ShortLines DEF Init, LineInv, Waiting, Before
<1> QED
  BY <1>1, <1>2 DEF Init, IInv, JobsInv, EndInv, CloseInv, OrderInv, LossInv, DroppedInv

-----------------------------------------------------------------------------
\* What an invariant does not mention may change.
LEMMA Stays ==
  ASSUME IInv
  PROVE  /\ UNCHANGED <<micro, flushing>> => JobsInv'
         /\ UNCHANGED <<micro, ended, endEmitted, flushing, buf, ends>> => EndInv'
         /\ UNCHANGED <<micro, parked, destroyed, closes>> => CloseInv'
         /\ UNCHANGED <<micro, endEmitted, closes, endAfterClose, early, released>> => OrderInv'
         /\ UNCHANGED <<micro, buf, flushing, torn, delivered, dropped, pushed>>
              /\ (data' = data \/ data' = "none" \/ buf = <<>> \/ flushing) => LineInv'
<1> USE DEF IInv
<1>1. UNCHANGED <<micro, flushing>> => JobsInv'
  BY DEF JobsInv
<1>2. UNCHANGED <<micro, ended, endEmitted, flushing, buf, ends>> => EndInv'
  BY DEF EndInv
<1>3. UNCHANGED <<micro, parked, destroyed, closes>> => CloseInv'
  BY DEF CloseInv
<1>4. UNCHANGED <<micro, endEmitted, closes, endAfterClose, early, released>> => OrderInv'
  BY DEF OrderInv
<1>5. ASSUME UNCHANGED <<micro, buf, flushing, torn, delivered, dropped, pushed>>,
             data' = data \/ data' = "none" \/ buf = <<>> \/ flushing
      PROVE  LineInv'
  BY <1>5 DEF LineInv, Waiting
<1> QED
  BY <1>1, <1>2, <1>3, <1>4, <1>5

\* A job without chunks leaves the line as it is.
LEMMA LineKept ==
  ASSUME IInv, NEW j \in Jobs, j.items = <<>>, Queues(j),
         UNCHANGED <<buf, flushing, torn, delivered, dropped, pushed>>,
         data' = data \/ data' = "none" \/ buf = <<>>
  PROVE  LineInv'
<1> SUFFICES ASSUME ~torn' PROVE LineInv'
  BY DEF LineInv
<1> DEFINE n == Len(micro)
<1>1. /\ n \in Nat /\ DOMAIN micro = 1..n /\ DOMAIN micro' = 1..(n + 1)
      /\ \A k \in 1..n : micro'[k].items = micro[k].items
      /\ micro'[n + 1].items = <<>>
  BY DEF Queues
<1>2. ToSet(<<>>) = {} /\ Ascending(<<>>)
  BY ShortLines
<1>3. Waiting' = Waiting
  BY <1>1, <1>2 DEF Waiting
<1>4. /\ data # "none" \/ flushing => buf = <<>>
      /\ Ascending(delivered) /\ Ascending(buf) /\ Before(delivered, buf)
      /\ \A i \in DOMAIN micro : /\ Ascending(micro[i].items)
                                 /\ Before(delivered, micro[i].items)
                                 /\ Before(micro[i].items, buf)
                                 /\ ToSet(micro[i].items) \subseteq 1..pushed
                                 /\ \A k \in DOMAIN micro :
                                      i < k => Before(micro[i].items, micro[k].items)
      /\ ToSet(delivered) \cup Waiting \cup ToSet(buf) = (1..pushed) \ dropped
  BY DEF IInv, LineInv
<1>5. \A s : Before(s, <<>>) /\ Before(<<>>, s)
  BY <1>2 DEF Before
<1>6. ASSUME NEW i \in DOMAIN micro'
      PROVE  /\ Ascending(micro'[i].items) /\ Before(delivered, micro'[i].items)
             /\ Before(micro'[i].items, buf) /\ ToSet(micro'[i].items) \subseteq 1..pushed
             /\ \A k \in DOMAIN micro' : i < k => Before(micro'[i].items, micro'[k].items)
  <2>1. CASE i \in 1..n
    <3>1. \A k \in DOMAIN micro' : i < k => Before(micro'[i].items, micro'[k].items)
      <4> SUFFICES ASSUME NEW k \in DOMAIN micro', i < k
                   PROVE  Before(micro'[i].items, micro'[k].items)
        OBVIOUS
      <4>1. CASE k \in 1..n
        BY <1>1, <1>4, <2>1, <4>1
      <4>2. CASE k = n + 1
        BY <1>1, <1>5, <4>2
      <4> QED
        BY <1>1, <4>1, <4>2
    <3> QED
      BY <1>1, <1>4, <2>1, <3>1
  <2>2. CASE i = n + 1
    BY <1>1, <1>2, <1>5, <2>2
  <2> QED
    BY <1>1, <2>1, <2>2
<1> QED
  BY <1>3, <1>4, <1>6 DEF LineInv

\* The 'end' is queued.
LEMMA EndQueues ==
  ASSUME IInv, Queues(EndJob), ~endEmitted, endEmitted', ended', buf = <<>>, ~flushing,
         UNCHANGED <<buf, flushing, ends, parked, destroyed, closes, endAfterClose, early, released>>
  PROVE  JobsInv' /\ EndInv' /\ CloseInv' /\ OrderInv'
<1> USE DEF IInv
<1>1. EndJob.job = "end" /\ EndJob.items = <<>>
  BY NewJobs
<1>2. JobsInv'
  BY <1>1 DEF JobsInv, Queues
<1>3. ends = 0
  BY DEF EndInv, TypeOK
<1>4. EndInv'
  BY <1>1, <1>3 DEF EndInv, Queues
<1>5. CloseInv'
  BY <1>1 DEF CloseInv, Queues
<1>6. OrderInv'
  BY <1>1 DEF OrderInv, Queues
<1> QED
  BY <1>2, <1>4, <1>5, <1>6

\* The 'close' is queued.
LEMMA CloseQueues ==
  ASSUME IInv, Queues(CloseJob), ~parked', destroyed', parked \/ ~destroyed,
         early' \/ released' \/ endEmitted,
         early => early', released => released',
         UNCHANGED <<buf, ended, endEmitted, flushing, ends, closes, endAfterClose>>
  PROVE  JobsInv' /\ EndInv' /\ CloseInv' /\ OrderInv'
<1> USE DEF IInv
<1>1. CloseJob.job = "close" /\ CloseJob.items = <<>>
  BY NewJobs
<1>2. JobsInv'
  BY <1>1 DEF JobsInv, Queues
<1>3. EndInv'
  BY <1>1 DEF EndInv, Queues
<1>4. closes = 0 /\ \A i \in DOMAIN micro : micro[i].job # "close"
  BY DEF CloseInv, TypeOK
<1>5. CloseInv'
  BY <1>1, <1>4 DEF CloseInv, Queues
<1>6. OrderInv'
  BY <1>1, <1>4 DEF OrderInv, Queues
<1> QED
  BY <1>2, <1>3, <1>5, <1>6

\* The backlog is queued as a flush.
LEMMA FlushQueues ==
  ASSUME IInv, buf # <<>>, ~flushing, Queues(FlushJob(buf)), buf' = <<>>, flushing',
         UNCHANGED <<ended, endEmitted, parked, destroyed, ends, closes, endAfterClose, early,
                     released, torn, delivered, dropped, pushed>>
  PROVE  JobsInv' /\ EndInv' /\ CloseInv' /\ OrderInv' /\ LineInv'
<1> USE DEF IInv
<1> DEFINE n == Len(micro)
<1>1. FlushJob(buf).job = "flush" /\ FlushJob(buf).items = buf
  BY NewJobs DEF TypeOK
<1>2. JobsInv'
  BY <1>1 DEF JobsInv, Queues
<1>3. EndInv'
  BY <1>1 DEF EndInv, Queues
<1>4. CloseInv'
  BY <1>1 DEF CloseInv, Queues
<1>5. OrderInv'
  BY <1>1 DEF OrderInv, Queues
<1>6. LineInv'
  <2> SUFFICES ASSUME ~torn PROVE LineInv'
    BY DEF LineInv
  <2>1. /\ n \in Nat /\ DOMAIN micro = 1..n /\ DOMAIN micro' = 1..(n + 1)
        /\ \A k \in 1..n : micro'[k].items = micro[k].items
        /\ micro'[n + 1].items = buf
    BY <1>1 DEF Queues
  <2>2. /\ Ascending(delivered) /\ Ascending(buf) /\ Before(delivered, buf)
        /\ \A i \in 1..n : /\ Ascending(micro[i].items)
                           /\ Before(delivered, micro[i].items)
                           /\ Before(micro[i].items, buf)
                           /\ ToSet(micro[i].items) \subseteq 1..pushed
                           /\ \A k \in 1..n : i < k => Before(micro[i].items, micro[k].items)
        /\ ToSet(delivered) \cup Waiting \cup ToSet(buf) = (1..pushed) \ dropped
    BY <2>1 DEF LineInv
  <2>3. ToSet(buf) \subseteq 1..pushed
    BY <2>2
  <2>4. Waiting' = Waiting \cup ToSet(buf)
    BY <2>1, <2>3 DEF Waiting
  <2>5. ToSet(buf') = {} /\ Ascending(buf') /\ \A s : Before(s, buf')
    BY ShortLines DEF Before
  <2>6. ToSet(delivered) \cup Waiting' \cup ToSet(buf') = (1..pushed) \ dropped
    BY <2>2, <2>4, <2>5
  <2>7. ASSUME NEW i \in 1..(n + 1)
        PROVE  /\ Ascending(micro'[i].items) /\ Before(delivered, micro'[i].items)
               /\ ToSet(micro'[i].items) \subseteq 1..pushed
               /\ \A k \in 1..(n + 1) : i < k => Before(micro'[i].items, micro'[k].items)
    <3>1. CASE i \in 1..n
      <4>1. ASSUME NEW k \in 1..(n + 1), i < k
            PROVE  Before(micro'[i].items, micro'[k].items)
        <5>1. CASE k \in 1..n
          BY <2>1, <2>2, <3>1, <4>1, <5>1
        <5>2. CASE k = n + 1
          BY <2>1, <2>2, <3>1, <5>2
        <5> QED
          BY <2>1, <5>1, <5>2
      <4> QED
        BY <2>1, <2>2, <3>1, <4>1
    <3>2. CASE i = n + 1
      BY <2>1, <2>2, <2>3, <3>2
    <3> QED
      BY <2>1, <3>1, <3>2
  <2> QED
    BY <2>1, <2>2, <2>5, <2>6, <2>7 DEF LineInv
<1> QED
  BY <1>2, <1>3, <1>4, <1>5, <1>6

-----------------------------------------------------------------------------
\* The first job was taken, and one without chunks queued or none.
Left(r) ==
  LET n == Len(micro) IN
  /\ n \in Nat \ {0} /\ DOMAIN micro = 1..n
  /\ DOMAIN r = 1..(n - 1) \/ DOMAIN r = 1..n
  /\ \A k \in 1..(n - 1) : r[k] = micro[k + 1]
  /\ n \in DOMAIN r => r[n].items = <<>>

\* Its chunks are delivered or dropped, or were none: the line stays in order.
LEMMA LineTaken ==
  ASSUME IInv, Left(micro'), delivered' \in Seq(Nat), flushing' => flushing,
         \/ data' = data \/ data' = "none" \/ buf = <<>>,
         UNCHANGED <<buf, torn, pushed>>,
         \/ UNCHANGED delivered /\ dropped' = dropped \cup ToSet(micro[1].items)
         \/ \E c \in Nat : /\ micro[1].items = <<c>>
                           /\ delivered' = Append(delivered, c) /\ UNCHANGED dropped
  PROVE  LineInv'
<1> SUFFICES ASSUME ~torn PROVE LineInv'
  BY DEF LineInv
<1> DEFINE n     == Len(micro)
           taken == ToSet(micro[1].items)
<1>1. /\ n \in Nat \ {0} /\ DOMAIN micro = 1..n
      /\ DOMAIN micro' = 1..(n - 1) \/ DOMAIN micro' = 1..n
      /\ \A k \in 1..(n - 1) : k + 1 \in 1..n /\ micro'[k] = micro[k + 1]
      /\ n \in DOMAIN micro' => micro'[n].items = <<>>
  BY DEF Left
<1>2. /\ data # "none" \/ flushing => buf = <<>>
      /\ Ascending(delivered) /\ Ascending(buf) /\ Before(delivered, buf)
      /\ \A i \in 1..n : /\ Ascending(micro[i].items)
                         /\ Before(delivered, micro[i].items)
                         /\ Before(micro[i].items, buf)
                         /\ ToSet(micro[i].items) \subseteq 1..pushed
                         /\ \A k \in 1..n : i < k => Before(micro[i].items, micro[k].items)
      /\ ToSet(delivered) \cup Waiting \cup ToSet(buf) = (1..pushed) \ dropped
  BY <1>1 DEF IInv, LineInv
<1>3. ToSet(<<>>) = {} /\ Ascending(<<>>) /\ \A s : Before(s, <<>>) /\ Before(<<>>, s)
  BY ShortLines DEF Before
<1>4. /\ delivered \in Seq(Nat) /\ 1 \in 1..n /\ taken \subseteq Nat
      /\ \A e \in ToSet(delivered), d \in taken : e < d
      /\ taken \cap ToSet(delivered) = {}
  <2>1. delivered \in Seq(Nat) /\ 1 \in 1..n /\ taken \subseteq 1..pushed
    BY <1>1, <1>2, ChunksAreNumbers DEF IInv, TypeOK
  <2>2. \A e \in ToSet(delivered), d \in taken : e < d
    BY <1>2, <2>1 DEF Before
  <2>3. \A d \in taken : d \in Nat /\ ~(d < d)
    BY <2>1
  <2> QED
    BY <2>1, <2>2, <2>3
<1>5. Waiting = Waiting' \cup taken /\ Waiting' \cap taken = {}
  <2>1. Waiting' \subseteq Waiting
    <3> SUFFICES ASSUME NEW c \in 1..pushed, NEW k \in DOMAIN micro', c \in ToSet(micro'[k].items)
                 PROVE  \E i \in DOMAIN micro : c \in ToSet(micro[i].items)
      BY DEF Waiting
    <3>1. k # n
      BY <1>1, <1>3
    <3>2. k + 1 \in DOMAIN micro /\ micro'[k] = micro[k + 1]
      BY <1>1, <3>1
    <3> QED
      BY <3>2
  <2>2. taken \subseteq Waiting
    BY <1>1, <1>2 DEF Waiting
  <2>3. Waiting \subseteq Waiting' \cup taken
    <3> SUFFICES ASSUME NEW c \in 1..pushed, NEW i \in 1..n, c \in ToSet(micro[i].items), i # 1
                 PROVE  c \in Waiting'
      BY <1>1 DEF Waiting
    <3>1. i - 1 \in 1..(n - 1) /\ i - 1 \in DOMAIN micro' /\ micro'[i - 1] = micro[i]
      BY <1>1
    <3> QED
      BY <3>1 DEF Waiting
  <2>4. ASSUME NEW c \in Waiting', c \in taken
        PROVE  FALSE
    <3>1. PICK k \in DOMAIN micro' : c \in ToSet(micro'[k].items)
      BY DEF Waiting
    <3>2. k \in 1..(n - 1) /\ micro'[k] = micro[k + 1] /\ 1 < k + 1 /\ 1 \in 1..n /\ k + 1 \in 1..n
      BY <1>1, <1>3, <3>1
    <3>3. Before(micro[1].items, micro[k + 1].items)
      BY <1>2, <3>2
    <3>4. c < c /\ c \in Nat
      BY <2>4, <3>1, <3>2, <3>3 DEF Before, Waiting
    <3> QED
      BY <3>4
  <2> QED
    BY <2>1, <2>2, <2>3, <2>4
<1>6. taken \cap ToSet(buf) = {}
  <2>1. \A c \in taken, d \in ToSet(buf) : c < d
    BY <1>2, <1>4 DEF Before
  <2>2. \A d \in taken : d \in Nat /\ ~(d < d)
    BY <1>4
  <2> QED
    BY <2>1, <2>2
<1>7. ASSUME NEW k \in DOMAIN micro'
      PROVE  /\ Ascending(micro'[k].items) /\ Before(micro'[k].items, buf)
             /\ Before(delivered, micro'[k].items)
             /\ ToSet(micro'[k].items) \subseteq 1..pushed
             /\ \A m \in DOMAIN micro' : k < m => Before(micro'[k].items, micro'[m].items)
             /\ Before(micro[1].items, micro'[k].items)
  <2>1. CASE k \in 1..(n - 1)
    <3>1. k + 1 \in 1..n /\ micro'[k] = micro[k + 1] /\ 1 \in 1..n /\ 1 < k + 1
      BY <1>1, <2>1
    <3>2. ASSUME NEW m \in DOMAIN micro', k < m
          PROVE  Before(micro'[k].items, micro'[m].items)
      <4>1. CASE m \in 1..(n - 1)
        <5>1. m + 1 \in 1..n /\ micro'[m] = micro[m + 1] /\ k + 1 < m + 1
          BY <1>1, <2>1, <3>2, <4>1
        <5> QED
          BY <1>2, <3>1, <5>1
      <4>2. CASE m = n
        BY <1>1, <1>3, <4>2
      <4> QED
        BY <1>1, <4>1, <4>2
    <3> QED
      BY <1>2, <3>1, <3>2
  <2>2. CASE k = n
    BY <1>1, <1>3, <2>2
  <2> QED
    BY <1>1, <2>1, <2>2
<1>8. CASE UNCHANGED delivered /\ dropped' = dropped \cup taken
  <2>1. ToSet(delivered') \cup Waiting' \cup ToSet(buf') = (1..pushed') \ dropped'
    BY <1>2, <1>4, <1>5, <1>6, <1>8
  <2>2. /\ Ascending(delivered') /\ Before(delivered', buf') /\ Ascending(buf')
        /\ data' # "none" \/ flushing' => buf' = <<>>
    BY <1>2, <1>8
  <2> QED
    BY <1>7, <1>8, <2>1, <2>2 DEF LineInv
<1>9. ASSUME NEW c \in Nat, micro[1].items = <<c>>, delivered' = Append(delivered, c),
             UNCHANGED dropped
      PROVE  LineInv'
  <2>1. taken = {c}
    BY <1>9, ShortLines
  <2>2. ToSet(delivered') = ToSet(delivered) \cup {c} /\ Ascending(delivered')
    BY <1>2, <1>4, <1>9, <2>1, LineGrows
  <2>3. ToSet(delivered') \cup Waiting' \cup ToSet(buf') = (1..pushed') \ dropped'
    BY <1>2, <1>5, <1>9, <2>1, <2>2
  <2>4. /\ Before(delivered', buf') /\ Ascending(buf')
        /\ data' # "none" \/ flushing' => buf' = <<>>
    BY <1>2, <1>4, <1>9, <2>1, <2>2 DEF Before
  <2>5. \A k \in DOMAIN micro' : Before(delivered', micro'[k].items)
    BY <1>7, <2>1, <2>2 DEF Before
  <2> QED
    BY <1>7, <2>2, <2>3, <2>4, <2>5 DEF LineInv
<1> QED
  BY <1>8, <1>9

\* The other invariants, when a job other than 'end' and 'close' was taken.
LEMMA JobTaken ==
  ASSUME IInv, Takes, micro[1].job \in {"data", "flush"},
         \/ micro[1].job = "flush" /\ flushing' = FALSE
         \/ micro[1].job = "data" /\ flushing' = flushing,
         UNCHANGED <<buf, ended, endEmitted, ends, parked, destroyed, closes, endAfterClose, early,
                     released>>
  PROVE  JobsInv' /\ EndInv' /\ CloseInv' /\ OrderInv'
<1> USE DEF IInv
<1>1. /\ Len(micro) \in Nat \ {0} /\ DOMAIN micro = 1..Len(micro)
      /\ DOMAIN micro' = 1..(Len(micro) - 1) /\ 1 \in DOMAIN micro
      /\ \A k \in DOMAIN micro' : k + 1 \in DOMAIN micro /\ k + 1 # 1 /\ micro'[k] = micro[k + 1]
      /\ \A k \in DOMAIN micro : k # 1 => k - 1 \in DOMAIN micro' /\ micro'[k - 1] = micro[k]
  BY DEF Takes
<1>2. JobsInv'
  <2> SUFFICES ASSUME NEW i \in DOMAIN micro'
               PROVE  /\ micro'[i].job = "data" => Len(micro'[i].items) = 1
                      /\ micro'[i].job \in {"end", "close"} => micro'[i].items = <<>>
                      /\ micro'[i].job = "flush" =>
                           /\ flushing'
                           /\ \A j \in DOMAIN micro' : micro'[j].job = "flush" => j = i
    BY DEF JobsInv
  <2>1. i + 1 \in DOMAIN micro /\ micro'[i] = micro[i + 1] /\ i + 1 # 1 /\ i \in Nat
    BY <1>1
  <2>2. micro'[i].job = "flush" => flushing'
    BY <1>1, <2>1 DEF JobsInv
  <2>3. ASSUME NEW j \in DOMAIN micro', micro'[i].job = "flush", micro'[j].job = "flush"
        PROVE  j = i
    <3>1. j + 1 \in DOMAIN micro /\ micro'[j] = micro[j + 1] /\ j \in Nat
      BY <1>1
    <3> QED
      BY <2>1, <2>3, <3>1 DEF JobsInv
  <2> QED
    BY <2>1, <2>2, <2>3 DEF JobsInv
<1>3. EndInv'
  BY <1>1 DEF EndInv, TypeOK
<1>4. CloseInv'
  <2>1. micro[1].job # "close"
    OBVIOUS
  <2>2. (\E i \in DOMAIN micro : micro[i].job = "close")
          => \E i \in DOMAIN micro' : micro'[i].job = "close"
    BY <1>1, <2>1
  <2>3. ASSUME NEW i \in DOMAIN micro', micro'[i].job = "close"
        PROVE  /\ destroyed /\ ~parked /\ closes = 0
               /\ \A j \in DOMAIN micro' : micro'[j].job = "close" => j = i
    <3>1. i + 1 \in DOMAIN micro /\ micro[i + 1].job = "close" /\ i \in Nat
      BY <1>1, <2>3
    <3>2. \A j \in DOMAIN micro' : j \in Nat /\ j + 1 \in DOMAIN micro /\ micro'[j] = micro[j + 1]
      BY <1>1
    <3> QED
      BY <3>1, <3>2 DEF CloseInv
  <2> QED
    BY <2>2, <2>3 DEF CloseInv
<1>5. OrderInv'
  BY <1>1 DEF OrderInv
<1> QED
  BY <1>2, <1>3, <1>4, <1>5

-----------------------------------------------------------------------------
\* The producer.
LEMMA LinePushed ==
  ASSUME IInv, Push
  PROVE  LineInv'
<1> SUFFICES ASSUME ~torn' PROVE LineInv'
  BY DEF LineInv
<1> DEFINE n == Len(micro)
           c == pushed + 1
<1>1. /\ pushed \in Nat /\ pushed' = c /\ c \in 1..MaxPush /\ 1..c = (1..pushed) \cup {c}
      /\ c \notin 1..pushed /\ \A d \in 1..pushed : d < c
      /\ UNCHANGED <<data, flushing, delivered>>
  BY ReadableAssumption DEF Push, IInv, TypeOK, listeners
<1>2. ~torn
  BY DEF Push
<1>3. /\ data # "none" \/ flushing => buf = <<>>
      /\ Ascending(delivered) /\ Ascending(buf) /\ Before(delivered, buf)
      /\ \A i \in DOMAIN micro : /\ Ascending(micro[i].items)
                                 /\ Before(delivered, micro[i].items)
                                 /\ Before(micro[i].items, buf)
                                 /\ ToSet(micro[i].items) \subseteq 1..pushed
                                 /\ \A k \in DOMAIN micro :
                                      i < k => Before(micro[i].items, micro[k].items)
      /\ ToSet(delivered) \cup Waiting \cup ToSet(buf) = (1..pushed) \ dropped
  BY <1>2 DEF IInv, LineInv
<1>4. /\ ToSet(delivered) \subseteq 1..pushed /\ ToSet(buf) \subseteq 1..pushed
      /\ Waiting \subseteq 1..pushed /\ buf \in Seq(Nat)
  BY <1>3, ChunksAreNumbers DEF Waiting, IInv, TypeOK
<1>5. dropped \subseteq 1..MaxPush /\ micro \in Seq(Jobs)
  BY DEF IInv, TypeOK
<1>6. CASE data # "none"
  <2>1. Queues(DataJob(c)) /\ UNCHANGED <<buf, dropped>> /\ buf = <<>>
    BY <1>1, <1>3, <1>5, <1>6, NewJobs, Queueing DEF Push
  <2>2. DataJob(c).items = <<c>> /\ ToSet(<<c>>) = {c} /\ Ascending(<<c>>)
    BY <1>1, NewJobs, ShortLines
  <2>3. /\ n \in Nat /\ DOMAIN micro = 1..n /\ DOMAIN micro' = 1..(n + 1)
        /\ \A k \in 1..n : micro'[k].items = micro[k].items
        /\ micro'[n + 1].items = <<c>>
    BY <2>1, <2>2 DEF Queues
  <2>4. Waiting' = Waiting \cup {c}
    <3>1. Waiting' \subseteq Waiting \cup {c}
      BY <1>1, <2>2, <2>3 DEF Waiting
    <3>2. c \in 1..c /\ c \in ToSet(micro'[n + 1].items) /\ n + 1 \in DOMAIN micro'
      BY <1>1, <2>2, <2>3
    <3>3. Waiting \subseteq Waiting'
      BY <1>1, <2>3 DEF Waiting
    <3> QED
      BY <1>1, <3>1, <3>2, <3>3 DEF Waiting
  <2>5. c \notin dropped
    BY <1>1, <1>2, <1>6 DEF IInv, DroppedInv
  <2>6. ToSet(delivered') \cup Waiting' \cup ToSet(buf') = (1..pushed') \ dropped'
    BY <1>1, <1>3, <2>1, <2>4, <2>5
  <2>7. ASSUME NEW i \in DOMAIN micro'
        PROVE  /\ Ascending(micro'[i].items) /\ Before(delivered, micro'[i].items)
               /\ Before(micro'[i].items, buf') /\ ToSet(micro'[i].items) \subseteq 1..c
               /\ \A k \in DOMAIN micro' : i < k => Before(micro'[i].items, micro'[k].items)
    <3>1. ToSet(buf') = {}
      BY <2>1, ShortLines
    <3>2. Before(micro'[i].items, buf')
      BY <3>1 DEF Before
    <3>3. CASE i \in 1..n
      <4>1. ASSUME NEW k \in DOMAIN micro', i < k
            PROVE  Before(micro'[i].items, micro'[k].items)
        <5>1. CASE k \in 1..n
          BY <1>3, <2>3, <3>3, <4>1, <5>1
        <5>2. CASE k = n + 1
          <6>1. ToSet(micro'[k].items) = {c}
            BY <2>2, <2>3, <5>2
          <6>2. \A d \in ToSet(micro'[i].items) : d < c
            BY <1>1, <1>3, <2>3, <3>3
          <6> QED
            BY <6>1, <6>2 DEF Before
        <5> QED
          BY <2>3, <5>1, <5>2
      <4> QED
        BY <1>1, <1>3, <2>3, <3>2, <3>3, <4>1
    <3>4. CASE i = n + 1
      <4>1. Before(delivered, <<c>>)
        BY <1>1, <1>4, <2>2 DEF Before
      <4> QED
        BY <1>1, <2>2, <2>3, <3>2, <3>4, <4>1
    <3> QED
      BY <2>3, <3>3, <3>4
  <2>8. Ascending(buf') /\ Before(delivered, buf')
    BY <1>3, <2>1
  <2> QED
    BY <1>1, <1>3, <2>1, <2>6, <2>7, <2>8 DEF LineInv
<1>7. CASE data = "none" /\ flowing
  <2>1. dropped' = dropped \cup {c} /\ UNCHANGED <<buf, micro>>
    BY <1>7 DEF Push
  <2>2. Waiting' = Waiting
    BY <1>1, <1>3, <2>1 DEF Waiting
  <2>3. ToSet(delivered) \cup Waiting' \cup ToSet(buf) = (1..pushed') \ dropped'
    BY <1>1, <1>3, <2>1, <2>2
  <2> QED
    BY <1>1, <1>3, <2>1, <2>3 DEF LineInv
<1>8. CASE data = "none" /\ ~flowing
  <2>1. buf' = Append(buf, c) /\ UNCHANGED <<dropped, micro>> /\ ~flushing
    BY <1>8 DEF Push
  <2>2. Waiting' = Waiting
    BY <1>1, <1>3, <2>1 DEF Waiting
  <2>3. ToSet(buf') = ToSet(buf) \cup {c} /\ Ascending(buf')
    BY <1>1, <1>3, <1>4, <2>1, LineGrows
  <2>4. c \notin dropped
    BY <1>1, <1>2 DEF IInv, DroppedInv
  <2>5. ToSet(delivered) \cup Waiting' \cup ToSet(buf') = (1..pushed') \ dropped'
    BY <1>1, <1>3, <2>1, <2>2, <2>3, <2>4
  <2>6. Before(delivered, buf') /\ \A i \in DOMAIN micro : Before(micro[i].items, buf')
    BY <1>1, <1>3, <1>4, <2>3 DEF Before
  <2> QED
    BY <1>1, <1>3, <1>8, <2>1, <2>3, <2>5, <2>6 DEF LineInv
<1> QED
  BY <1>6, <1>7, <1>8 DEF IInv, TypeOK

LEMMA PushStep == IInv /\ Push => IInv'
<1> SUFFICES ASSUME IInv, Push PROVE IInv'
  OBVIOUS
<1> USE DEF IInv
<1> DEFINE c == pushed + 1
<1>1. /\ pushed' = c /\ c \in 1..MaxPush /\ ~ended
      /\ UNCHANGED <<ended, endEmitted, flushing, flowing, parked, destroyed, data, onEnd, onClose,
                     timer, delivered, ends, closes, endAfterClose, calls, lossy, early, released>>
  BY ReadableAssumption DEF Push, TypeOK, listeners
<1>2. LineInv'
  BY LinePushed
<1>3. DroppedInv'
  <2>1. dropped' \subseteq dropped \cup {c}
    BY DEF Push
  <2>3. torn => torn'
    BY DEF Push
  <2>2. pushed \in Nat /\ (1..pushed) \cup {c} \subseteq 1..c
    BY ReadableAssumption DEF TypeOK
  <2> QED
    BY <1>1, <2>1, <2>2, <2>3 DEF DroppedInv
<1>4. ends = 0 /\ ~endEmitted
  BY <1>1 DEF EndInv, TypeOK
<1>5. TypeOK'
  <2>1. DataJob(c) \in Jobs
    BY <1>1, NewJobs
  <2>2. buf' \in Seq(1..MaxPush) /\ micro' \in Seq(Jobs) /\ dropped' \subseteq 1..MaxPush
    <3>1. /\ micro' = Append(micro, DataJob(c)) \/ micro' = micro
          /\ buf' = Append(buf, c) \/ buf' = buf
          /\ dropped' \subseteq dropped \cup {c}
      BY DEF Push
    <3>2. micro' \in Seq(Jobs)
      <4>1. micro \in Seq(Jobs)
        BY DEF TypeOK
      <4>2. Append(micro, DataJob(c)) \in Seq(Jobs)
        BY <2>1, <4>1, AppendTyped
      <4> QED
        BY <3>1, <4>1, <4>2
    <3>3. buf' \in Seq(1..MaxPush)
      <4>1. c \in 1..MaxPush /\ buf \in Seq(1..MaxPush)
        BY <1>1 DEF TypeOK
      <4>2. Append(buf, c) \in Seq(1..MaxPush)
        BY <4>1, AppendTyped
      <4> QED
        BY <3>1, <4>1, <4>2
    <3> QED
      BY <1>1, <3>1, <3>2, <3>3 DEF TypeOK
  <2>3. torn' \in BOOLEAN /\ pushed' \in 0..MaxPush
    BY <1>1, ReadableAssumption DEF Push, TypeOK
  <2> QED
    BY <1>1, <2>2, <2>3 DEF TypeOK
<1>6. CASE data # "none"
  <2>1. Queues(DataJob(c)) /\ UNCHANGED <<buf, dropped, torn>>
    BY <1>1, <1>6, NewJobs, Queueing DEF Push, TypeOK
  <2>2. DataJob(c).job = "data" /\ Len(DataJob(c).items) = 1
    BY <1>1, NewJobs
  <2>3. JobsInv'
    BY <1>1, <2>1, <2>2 DEF JobsInv, Queues
  <2>4. EndInv'
    BY <1>1, <1>4, <2>1, <2>2 DEF EndInv, Queues
  <2>5. CloseInv'
    BY <1>1, <2>1, <2>2 DEF CloseInv, Queues
  <2>6. OrderInv'
    BY <1>1, <2>1, <2>2 DEF OrderInv, Queues
  <2>7. LossInv'
    BY <1>1, <1>6, <2>1 DEF LossInv
  <2> QED
    BY <1>2, <1>3, <1>5, <2>3, <2>4, <2>5, <2>6, <2>7
<1>7. CASE data = "none"
  <2>1. UNCHANGED micro
    BY <1>7 DEF Push
  <2>2. EndInv'
    BY <1>1, <1>4, <2>1 DEF EndInv
  <2>3. LossInv'
    BY <1>1, <1>7, <2>1 DEF Push, LossInv
  <2> QED
    BY <1>1, <1>2, <1>3, <1>5, <2>1, <2>2, <2>3, Stays
<1> QED
  BY <1>6, <1>7

-----------------------------------------------------------------------------
\* _maybeEnd, and the flush of the backlog, wherever they are called.
LEMMA MaybeEndKeeps ==
  ASSUME IInv, NEW e, NEW fl, NEW l, MaybeEnd(e, buf, flushing, fl, l, micro),
         e => ended', ended => ended',
         data' = data \/ data' = "none" \/ buf = <<>> \/ flushing,
         UNCHANGED <<buf, flushing, parked, destroyed, ends, closes, endAfterClose, early, released,
                     torn, delivered, dropped, pushed>>
  PROVE  /\ JobsInv' /\ EndInv' /\ CloseInv' /\ OrderInv' /\ LineInv' /\ DroppedInv'
         /\ micro' \in Seq(Jobs) /\ endEmitted' \in BOOLEAN
         /\ (\A i \in DOMAIN micro : micro[i].items = <<>>)
              => \A i \in DOMAIN micro' : micro'[i].items = <<>>
<1> USE DEF IInv
<1>1. DroppedInv'
  BY DEF DroppedInv
<1>2. CASE EndDue(e, buf, flushing, fl, l)
  <2>1. /\ e /\ ~endEmitted /\ ~flushing /\ buf = <<>> /\ endEmitted' = TRUE
        /\ micro' = Append(micro, EndJob)
    BY <1>2 DEF EndDue, MaybeEnd
  <2>2. EndJob \in Jobs /\ EndJob.items = <<>>
    BY NewJobs
  <2>3. Queues(EndJob)
    BY <2>1, <2>2, Queueing DEF TypeOK
  <2>4. JobsInv' /\ EndInv' /\ CloseInv' /\ OrderInv'
    BY <2>1, <2>3, EndQueues
  <2>5. LineInv'
    BY <2>1, <2>2, <2>3, LineKept
  <2> QED
    BY <1>1, <2>1, <2>2, <2>3, <2>4, <2>5 DEF Queues
<1>3. CASE ~EndDue(e, buf, flushing, fl, l)
  <2>1. UNCHANGED <<micro, endEmitted>>
    BY <1>3 DEF MaybeEnd
  <2>2. EndInv'
    BY <2>1 DEF EndInv
  <2> QED
    BY <1>1, <2>1, <2>2, Stays DEF TypeOK
<1> QED
  BY <1>2, <1>3

LEMMA FlushKeeps ==
  ASSUME IInv, NEW fl, NEW l, NEW o, Flush(fl, l, o),
         UNCHANGED <<ended, parked, destroyed, ends, closes, endAfterClose, early, released, torn,
                     delivered, dropped, pushed>>
  PROVE  /\ JobsInv' /\ EndInv' /\ CloseInv' /\ OrderInv' /\ LineInv' /\ DroppedInv'
         /\ buf' \in Seq(1..MaxPush) /\ micro' \in Seq(Jobs)
         /\ flushing' \in BOOLEAN /\ endEmitted' \in BOOLEAN
<1> USE DEF IInv
<1>1. CASE buf # <<>> /\ ~flushing
  <2>1. micro' = Append(micro, FlushJob(buf)) /\ buf' = <<>> /\ flushing' = TRUE /\ UNCHANGED endEmitted
    BY <1>1 DEF Flush
  <2>2. buf \in Seq(1..MaxPush) /\ micro \in Seq(Jobs)
    BY DEF TypeOK
  <2>3. FlushJob(buf) \in Jobs
    BY <2>2, NewJobs
  <2>4. Queues(FlushJob(buf))
    BY <2>1, <2>2, <2>3, Queueing
  <2>5. JobsInv' /\ EndInv' /\ CloseInv' /\ OrderInv' /\ LineInv'
    BY <1>1, <2>1, <2>4, FlushQueues
  <2>6. DroppedInv'
    BY DEF DroppedInv
  <2> QED
    BY <2>1, <2>4, <2>5, <2>6 DEF Queues, TypeOK
<1>2. CASE buf = <<>> \/ flushing
  <2>1. UNCHANGED <<buf, flushing>> /\ (MaybeEnd(ended, buf, flushing, fl, l, micro)
                                          \/ UNCHANGED <<micro, endEmitted>>)
    BY <1>2 DEF Flush
  <2>2. CASE MaybeEnd(ended, buf, flushing, fl, l, micro)
    BY <1>2, <2>1, <2>2, MaybeEndKeeps DEF TypeOK
  <2>3. CASE UNCHANGED <<micro, endEmitted>>
    BY <1>2, <2>1, <2>3, Stays DEF TypeOK, DroppedInv
  <2> QED
    BY <2>1, <2>2, <2>3
<1> QED
  BY <1>1, <1>2

LEMMA ReleaseKeeps ==
  ASSUME IInv, ReleaseClose, data' = data,
         UNCHANGED <<buf, ended, endEmitted, flushing, destroyed, ends, closes, endAfterClose, early,
                     torn, delivered, dropped, pushed>>
  PROVE  /\ JobsInv' /\ EndInv' /\ CloseInv' /\ OrderInv' /\ LineInv' /\ DroppedInv'
         /\ micro' \in Seq(Jobs) /\ parked' \in BOOLEAN /\ released' \in BOOLEAN
         /\ (\A i \in DOMAIN micro : micro[i].items = <<>>)
              => \A i \in DOMAIN micro' : micro'[i].items = <<>>
<1> USE DEF IInv
<1>1. DroppedInv'
  BY DEF DroppedInv
<1>2. CASE parked /\ ~Listening
  <2>1. parked' = FALSE /\ released' = TRUE /\ micro' = Append(micro, CloseJob)
    BY <1>2 DEF ReleaseClose
  <2>2. CloseJob \in Jobs /\ CloseJob.items = <<>>
    BY NewJobs
  <2>3. Queues(CloseJob)
    BY <2>1, <2>2, Queueing DEF TypeOK
  <2>4. destroyed
    BY <1>2 DEF CloseInv
  <2>5. JobsInv' /\ EndInv' /\ CloseInv' /\ OrderInv'
    BY <1>2, <2>1, <2>3, <2>4, CloseQueues
  <2>6. LineInv'
    BY <2>2, <2>3, LineKept
  <2> QED
    <3>1. micro' \in Seq(Jobs)
      BY <2>3 DEF Queues
    <3>2. (\A i \in DOMAIN micro : micro[i].items = <<>>)
            => \A i \in DOMAIN micro' : micro'[i].items = <<>>
      BY <2>2, <2>3 DEF Queues
    <3> QED
      BY <1>1, <2>1, <2>5, <2>6, <3>1, <3>2
<1>3. CASE ~(parked /\ ~Listening)
  <2>1. UNCHANGED <<parked, released, micro>>
    BY <1>3 DEF ReleaseClose
  <2> QED
    BY <1>1, <2>1, Stays DEF TypeOK
<1> QED
  BY <1>2, <1>3

LEMMA PushEofStep == IInv /\ PushEof => IInv'
<1> SUFFICES ASSUME IInv, PushEof PROVE IInv'
  OBVIOUS
<1>1. /\ ended' = TRUE /\ MaybeEnd(TRUE, buf, flushing, flowing, Listening, micro)
      /\ UNCHANGED <<buf, flushing, flowing, parked, destroyed, data, onEnd, onClose, timer, pushed,
                     delivered, dropped, ends, closes, endAfterClose, calls, lossy, torn, early,
                     released>>
  BY DEF PushEof, listeners, observed, flags
<1>2. /\ JobsInv' /\ EndInv' /\ CloseInv' /\ OrderInv' /\ LineInv' /\ DroppedInv'
      /\ micro' \in Seq(Jobs) /\ endEmitted' \in BOOLEAN
      /\ (\A i \in DOMAIN micro : micro[i].items = <<>>)
           => \A i \in DOMAIN micro' : micro'[i].items = <<>>
  BY <1>1, MaybeEndKeeps
<1>3. TypeOK'
  BY <1>1, <1>2 DEF IInv, TypeOK
<1>4. LossInv'
  BY <1>1, <1>2 DEF IInv, LossInv
<1> QED
  BY <1>2, <1>3, <1>4 DEF IInv

\* The consumer.
LEMMA OnDataStep == IInv /\ (\E kind \in {"on", "once"} : OnData(kind)) => IInv'
<1> SUFFICES ASSUME IInv, NEW kind \in {"on", "once"}, OnData(kind) PROVE IInv'
  OBVIOUS
<1>1. /\ calls' = calls + 1 /\ calls < MaxCalls
      /\ data' = kind /\ lossy' = (lossy \/ kind = "once") /\ Flush(flowing, TRUE, TRUE)
      /\ UNCHANGED <<ended, flowing, parked, destroyed, onEnd, onClose, timer, pushed,
                     delivered, dropped, ends, closes, endAfterClose, torn, early, released>>
  BY DEF OnData, Call, observed
<1>2. /\ JobsInv' /\ EndInv' /\ CloseInv' /\ OrderInv' /\ LineInv' /\ DroppedInv'
      /\ buf' \in Seq(1..MaxPush) /\ micro' \in Seq(Jobs)
      /\ flushing' \in BOOLEAN /\ endEmitted' \in BOOLEAN
  BY <1>1, FlushKeeps
<1>3. TypeOK'
  <2>1. calls' \in 0..MaxCalls /\ lossy' \in BOOLEAN /\ data' \in {"none", "on", "once"}
    BY <1>1, ReadableAssumption DEF IInv, TypeOK
  <2> QED
    BY <1>1, <1>2, <2>1 DEF IInv, TypeOK
<1>4. LossInv'
  BY <1>1 DEF IInv, LossInv
<1> QED
  BY <1>2, <1>3, <1>4 DEF IInv

LEMMA ResumeStep == IInv /\ Resume => IInv'
<1> SUFFICES ASSUME IInv, Resume PROVE IInv'
  OBVIOUS
<1>1. /\ calls' = calls + 1 /\ calls < MaxCalls
      /\ flowing' = TRUE /\ lossy' = TRUE /\ Flush(TRUE, Listening, buf = <<>>)
      /\ UNCHANGED <<ended, parked, destroyed, data, onEnd, onClose, timer, pushed,
                     delivered, dropped, ends, closes, endAfterClose, torn, early, released>>
  BY DEF Resume, Call, observed, listeners
<1>2. /\ JobsInv' /\ EndInv' /\ CloseInv' /\ OrderInv' /\ LineInv' /\ DroppedInv'
      /\ buf' \in Seq(1..MaxPush) /\ micro' \in Seq(Jobs)
      /\ flushing' \in BOOLEAN /\ endEmitted' \in BOOLEAN
  BY <1>1, FlushKeeps
<1>3. TypeOK'
  <2>1. calls' \in 0..MaxCalls
    BY <1>1, ReadableAssumption DEF IInv, TypeOK
  <2> QED
    BY <1>1, <1>2, <2>1 DEF IInv, TypeOK
<1>4. LossInv'
  BY <1>1 DEF IInv, LossInv
<1> QED
  BY <1>2, <1>3, <1>4 DEF IInv

LEMMA OnEndStep == IInv /\ OnEnd => IInv'
<1> SUFFICES ASSUME IInv, OnEnd PROVE IInv'
  OBVIOUS
<1>1. /\ calls' = calls + 1 /\ calls < MaxCalls
      /\ onEnd' = TRUE /\ MaybeEnd(ended, buf, flushing, flowing, TRUE, micro)
      /\ UNCHANGED <<buf, ended, flushing, flowing, parked, destroyed, data, onClose, timer, pushed,
                     delivered, dropped, ends, closes, endAfterClose, lossy, torn, early, released>>
  BY DEF OnEnd, Call, observed, flags
<1>2. /\ JobsInv' /\ EndInv' /\ CloseInv' /\ OrderInv' /\ LineInv' /\ DroppedInv'
      /\ micro' \in Seq(Jobs) /\ endEmitted' \in BOOLEAN
      /\ (\A i \in DOMAIN micro : micro[i].items = <<>>)
           => \A i \in DOMAIN micro' : micro'[i].items = <<>>
  <2>1. ended => ended'
    BY <1>1
  <2> QED
    BY <1>1, <2>1, MaybeEndKeeps
<1>3. TypeOK'
  <2>1. calls' \in 0..MaxCalls
    BY <1>1, ReadableAssumption DEF IInv, TypeOK
  <2> QED
    BY <1>1, <1>2, <2>1 DEF IInv, TypeOK
<1>4. LossInv'
  BY <1>1, <1>2 DEF IInv, LossInv
<1> QED
  BY <1>2, <1>3, <1>4 DEF IInv

LEMMA OnCloseStep == IInv /\ OnClose => IInv'
<1> SUFFICES ASSUME IInv, OnClose PROVE IInv'
  OBVIOUS
<1>1. /\ calls' = calls + 1 /\ calls < MaxCalls /\ onClose' = TRUE /\ ReleaseClose
      /\ UNCHANGED <<buf, ended, endEmitted, flushing, flowing, destroyed, data, onEnd, timer, pushed,
                     delivered, dropped, ends, closes, endAfterClose, lossy, torn, early>>
  BY DEF OnClose, Call, observed
<1>2. /\ JobsInv' /\ EndInv' /\ CloseInv' /\ OrderInv' /\ LineInv' /\ DroppedInv'
      /\ micro' \in Seq(Jobs) /\ parked' \in BOOLEAN /\ released' \in BOOLEAN
      /\ (\A i \in DOMAIN micro : micro[i].items = <<>>)
           => \A i \in DOMAIN micro' : micro'[i].items = <<>>
  BY <1>1, ReleaseKeeps
<1>3. TypeOK'
  <2>1. calls' \in 0..MaxCalls
    BY <1>1, ReadableAssumption DEF IInv, TypeOK
  <2> QED
    BY <1>1, <1>2, <2>1 DEF IInv, TypeOK
<1>4. LossInv'
  BY <1>1, <1>2 DEF IInv, LossInv
<1> QED
  BY <1>2, <1>3, <1>4 DEF IInv

LEMMA TimerStep == IInv /\ Timer => IInv'
<1> SUFFICES ASSUME IInv, Timer PROVE IInv'
  OBVIOUS
<1>1. /\ timer' = FALSE /\ ReleaseClose
      /\ UNCHANGED <<buf, ended, endEmitted, flushing, flowing, destroyed, data, onEnd, onClose, pushed,
                     delivered, dropped, ends, closes, endAfterClose, calls, lossy, torn, early>>
  BY DEF Timer, observed, listeners
<1>2. /\ JobsInv' /\ EndInv' /\ CloseInv' /\ OrderInv' /\ LineInv' /\ DroppedInv'
      /\ micro' \in Seq(Jobs) /\ parked' \in BOOLEAN /\ released' \in BOOLEAN
      /\ (\A i \in DOMAIN micro : micro[i].items = <<>>)
           => \A i \in DOMAIN micro' : micro'[i].items = <<>>
  BY <1>1, ReleaseKeeps
<1>3. TypeOK'
  <2>1. timer' \in BOOLEAN /\ parked' \in BOOLEAN /\ released' \in BOOLEAN /\ micro' \in Seq(Jobs)
    BY <1>1, <1>2
  <2> QED
    BY <1>1, <2>1 DEF IInv, TypeOK
<1>4. LossInv'
  BY <1>1, <1>2 DEF IInv, LossInv
<1> QED
  BY <1>2, <1>3, <1>4 DEF IInv

LEMMA DestroyStep == IInv /\ Destroy => IInv'
<1> SUFFICES ASSUME IInv, Destroy PROVE IInv'
  OBVIOUS
<1> USE DEF IInv
<1>1. /\ calls' = calls + 1 /\ calls < MaxCalls /\ ~destroyed /\ destroyed' = TRUE /\ early' = ~ended
      /\ UNCHANGED <<buf, ended, endEmitted, flushing, flowing, data, onEnd, onClose, pushed,
                     delivered, dropped, ends, closes, endAfterClose, lossy, torn, released>>
  BY DEF Destroy, Call, observed, listeners
<1>2. ~parked /\ closes = 0 /\ ~endAfterClose /\ \A i \in DOMAIN micro : micro[i].job # "close"
  BY <1>1 DEF CloseInv, OrderInv, TypeOK
<1>3. DroppedInv' /\ calls' \in 0..MaxCalls
  BY <1>1, ReadableAssumption DEF DroppedInv, TypeOK
<1>4. CASE ended /\ ~endEmitted
  <2>1. parked' = TRUE /\ timer' = TRUE /\ UNCHANGED micro
    BY <1>4 DEF Destroy
  <2>2. CloseInv' /\ OrderInv'
    BY <1>1, <1>2, <2>1 DEF CloseInv, OrderInv
  <2>3. TypeOK' /\ LossInv'
    BY <1>1, <1>3, <2>1 DEF TypeOK, LossInv
  <2> QED
    BY <1>1, <1>3, <2>1, <2>2, <2>3, Stays
<1>5. CASE ~(ended /\ ~endEmitted)
  <2>1. micro' = Append(micro, CloseJob) /\ UNCHANGED <<parked, timer>>
    BY <1>5 DEF Destroy
  <2>2. CloseJob \in Jobs /\ CloseJob.items = <<>> /\ CloseJob.job = "close"
    BY NewJobs
  <2>3. Queues(CloseJob)
    BY <2>1, <2>2, Queueing DEF TypeOK
  <2>4. JobsInv' /\ EndInv'
    BY <1>1, <2>2, <2>3 DEF JobsInv, EndInv, Queues
  <2>5. CloseInv'
    BY <1>1, <1>2, <2>1, <2>2, <2>3 DEF CloseInv, Queues
  <2>6. OrderInv'
    <3>1. early' \/ endEmitted'
      BY <1>1, <1>5
    <3>2. closes' = 0 /\ ~endAfterClose'
      BY <1>1, <1>2
    <3> QED
      BY <1>2, <2>2, <2>3, <3>1, <3>2 DEF OrderInv, Queues
  <2>7. LineInv'
    BY <1>1, <2>2, <2>3, LineKept
  <2>8. LossInv'
    BY <1>1, <2>2, <2>3 DEF LossInv, Queues
  <2>9. TypeOK'
    BY <1>1, <1>3, <2>1, <2>3 DEF TypeOK, Queues
  <2> QED
    BY <1>3, <2>4, <2>5, <2>6, <2>7, <2>8, <2>9
<1> QED
  BY <1>4, <1>5

LEMMA DetachStep == IInv /\ (OffData \/ OffEnd \/ Pause) => IInv'
<1> SUFFICES ASSUME IInv, OffData \/ OffEnd \/ Pause PROVE IInv'
  OBVIOUS
<1>1. /\ calls' = calls + 1 /\ calls < MaxCalls
      /\ UNCHANGED <<buf, ended, endEmitted, flushing, parked, destroyed, onClose, micro, timer, pushed,
                     delivered, dropped, ends, closes, endAfterClose, torn, early, released>>
      /\ data' = data \/ (data' = "none" /\ lossy' = TRUE)
      /\ flowing' = flowing \/ flowing' = FALSE
      /\ onEnd' = onEnd \/ onEnd' = FALSE
      /\ lossy' = lossy \/ lossy' = TRUE
  BY DEF OffData, OffEnd, Pause, Call, observed, listeners, flags, state
<1>2. calls' \in 0..MaxCalls
  BY <1>1, ReadableAssumption DEF IInv, TypeOK
<1>3. TypeOK'
  <2>1. data' \in {"none", "on", "once"} /\ flowing' \in BOOLEAN /\ onEnd' \in BOOLEAN
        /\ lossy' \in BOOLEAN
    BY <1>1 DEF IInv, TypeOK
  <2> QED
    BY <1>1, <1>2, <2>1 DEF IInv, TypeOK
<1>4. LossInv'
  BY <1>1 DEF IInv, LossInv
<1>5. DroppedInv'
  BY <1>1 DEF IInv, DroppedInv
<1> QED
  BY <1>1, <1>3, <1>4, <1>5, Stays DEF IInv

-----------------------------------------------------------------------------
\* The jobs.
LEMMA EmitTyped ==
  ASSUME IInv, NEW c \in 1..MaxPush, Emit(c)
  PROVE  /\ delivered' \in Seq(1..MaxPush) /\ dropped' \subseteq 1..MaxPush
         /\ data' \in {"none", "on", "once"}
<1>1. Append(delivered, c) \in Seq(1..MaxPush)
  BY AppendTyped DEF IInv, TypeOK
<1> QED
  BY <1>1 DEF Emit, IInv, TypeOK

LEMMA RunDataStep == IInv /\ RunData => IInv'
<1> SUFFICES ASSUME IInv, RunData PROVE IInv'
  OBVIOUS
<1> USE DEF IInv
<1> DEFINE c == Now.items[1]
<1>1. /\ micro # <<>> /\ Now.job = "data" /\ Emit(c) /\ micro' = Tail(micro)
      /\ UNCHANGED <<buf, ended, endEmitted, flushing, flowing, parked, destroyed, onEnd, onClose, timer,
                     pushed, ends, closes, endAfterClose, calls, lossy, torn, early, released>>
  BY DEF RunData, state, flags
<1>2. /\ 1 \in DOMAIN micro /\ Now = micro[1] /\ Now \in Jobs
      /\ Takes /\ micro \in Seq(Jobs)
  BY <1>1, FirstJob, Taking DEF TypeOK
<1>3. Len(Now.items) = 1 /\ Now.items \in Seq(1..MaxPush)
  BY <1>1, <1>2 DEF JobsInv, Jobs
<1>4. c \in 1..MaxPush /\ Now.items = <<c>> /\ c \in Nat
  BY <1>3, ReadableAssumption
<1> HIDE DEF c
<1>5. JobsInv' /\ EndInv' /\ CloseInv' /\ OrderInv'
  BY <1>1, <1>2, JobTaken
<1>6. /\ delivered' \in Seq(1..MaxPush) /\ dropped' \subseteq 1..MaxPush
      /\ data' \in {"none", "on", "once"}
  BY <1>1, <1>4, EmitTyped
<1>7. TypeOK'
  BY <1>1, <1>2, <1>6 DEF TypeOK, Takes
<1>8. ToSet(micro[1].items) = {c}
  BY <1>2, <1>4, ShortLines
<1>9. LineInv'
  <2>1. Left(micro')
    BY <1>2 DEF Left, Takes
  <2>2. delivered' \in Seq(Nat)
    BY <1>6, ChunksAreNumbers
  <2>3. data' = data \/ data' = "none"
    BY <1>1 DEF Emit
  <2>4. \/ UNCHANGED delivered /\ dropped' = dropped \cup ToSet(micro[1].items)
        \/ micro[1].items = <<c>> /\ delivered' = Append(delivered, c) /\ UNCHANGED dropped
    BY <1>1, <1>2, <1>4, <1>8 DEF Emit
  <2> QED
    BY <1>1, <1>4, <2>1, <2>2, <2>3, <2>4, LineTaken
<1>10. DroppedInv'
  BY <1>1, <1>2, <1>8 DEF DroppedInv, LineInv, Emit
<1>11. LossInv'
  <2>1. Now.items # <<>>
    BY <1>4
  <2>2. data = "none" => lossy
    BY <1>2, <2>1 DEF LossInv
  <2>3. data' = "none" => lossy
    BY <1>1, <2>2 DEF Emit, LossInv
  <2> QED
    BY <1>1, <2>2, <2>3 DEF LossInv, Emit
<1> QED
  BY <1>5, <1>7, <1>9, <1>10, <1>11

LEMMA FlushOneStep == IInv /\ FlushOne => IInv'
<1> SUFFICES ASSUME IInv, FlushOne PROVE IInv'
  OBVIOUS
<1> USE DEF IInv
<1> DEFINE n    == Len(micro)
           its  == micro[1].items
           rest == Tail(its)
           c    == Head(its)
<1>1. /\ micro # <<>> /\ Now.job = "flush" /\ Now.items # <<>> /\ data # "none" /\ Emit(Head(Now.items))
      /\ micro' = <<FlushJob(Tail(Now.items))>> \o Tail(micro)
      /\ UNCHANGED <<buf, ended, endEmitted, flushing, flowing, parked, destroyed, onEnd, onClose, timer,
                     pushed, ends, closes, endAfterClose, calls, lossy, torn, early, released>>
  BY DEF FlushOne, state, flags
<1>2. /\ 1 \in DOMAIN micro /\ Now = micro[1] /\ Now \in Jobs
      /\ micro \in Seq(Jobs)
  BY <1>1, FirstJob DEF TypeOK
<1>3. /\ its \in Seq(1..MaxPush) /\ its # <<>> /\ micro[1].job = "flush"
      /\ Emit(c) /\ micro' = <<FlushJob(rest)>> \o Tail(micro)
  BY <1>1, <1>2 DEF Jobs
<1>4. rest \in Seq(1..MaxPush) /\ c \in 1..MaxPush /\ its \in Seq(Nat) /\ c \in Nat
  <2>1. rest \in Seq(1..MaxPush) /\ c \in 1..MaxPush
    BY <1>3, HeadAndTail
  <2>2. its \in Seq(Nat)
    BY <1>3, ChunksAreNumbers
  <2> QED
    BY <2>1, <2>2, ReadableAssumption
<1>5. FlushJob(rest) \in Jobs /\ FlushJob(rest).job = "flush" /\ FlushJob(rest).items = rest
  BY <1>4, NewJobs
<1>6. /\ n \in Nat \ {0} /\ DOMAIN micro = 1..n /\ DOMAIN micro' = 1..n /\ micro' \in Seq(Jobs)
      /\ micro'[1] = FlushJob(rest)
      /\ \A k \in 1..n : k # 1 => micro'[k] = micro[k]
  BY <1>1, <1>2, <1>3, <1>5, Replacing
<1>7. ToSet(its) = {c} \cup ToSet(rest) /\ (Ascending(its) => Ascending(rest) /\ \A d \in ToSet(rest) : c < d)
  BY <1>3, <1>4, LineShrinks
<1> HIDE DEF c, rest, its, n
<1>8. JobsInv'
  BY <1>1, <1>3, <1>5, <1>6 DEF JobsInv
<1>9. ~endEmitted
  BY <1>2, <1>3 DEF JobsInv, EndInv
<1>10. EndInv'
  BY <1>1, <1>5, <1>6, <1>9 DEF EndInv
<1>11. CloseInv'
  BY <1>1, <1>2, <1>3, <1>5, <1>6 DEF CloseInv
<1>12. OrderInv'
  BY <1>1, <1>2, <1>3, <1>5, <1>6 DEF OrderInv
<1>13. TypeOK'
  <2>1. /\ delivered' \in Seq(1..MaxPush) /\ dropped' \subseteq 1..MaxPush
        /\ data' \in {"none", "on", "once"}
    BY <1>3, <1>4, EmitTyped
  <2> QED
    BY <1>1, <1>6, <2>1 DEF TypeOK
<1>14. delivered' = Append(delivered, c) /\ UNCHANGED dropped /\ (data' = data \/ data' = "none")
       /\ (data' = "none" => data = "once")
  BY <1>1, <1>3 DEF Emit
<1>15. DroppedInv' /\ LossInv'
  BY <1>1, <1>14 DEF DroppedInv, LossInv
<1>16. LineInv'
  <2> SUFFICES ASSUME ~torn PROVE LineInv'
    BY <1>1 DEF LineInv
  <2>1. /\ data # "none" \/ flushing => buf = <<>>
        /\ Ascending(delivered) /\ Ascending(buf) /\ Before(delivered, buf)
        /\ \A i \in 1..n : /\ Ascending(micro[i].items)
                           /\ Before(delivered, micro[i].items)
                           /\ Before(micro[i].items, buf)
                           /\ ToSet(micro[i].items) \subseteq 1..pushed
                           /\ \A k \in 1..n : i < k => Before(micro[i].items, micro[k].items)
        /\ ToSet(delivered) \cup Waiting \cup ToSet(buf) = (1..pushed) \ dropped
    BY <1>6 DEF LineInv
  <2>2. 1 \in 1..n /\ its = micro[1].items /\ micro'[1].items = rest /\ delivered \in Seq(Nat)
    BY <1>5, <1>6, ChunksAreNumbers DEF its, TypeOK
  <2>3. c \in 1..pushed /\ ToSet(rest) \subseteq ToSet(its) /\ \A d \in ToSet(rest) : c < d
    BY <1>7, <2>1, <2>2
  <2>4. ToSet(delivered') = ToSet(delivered) \cup {c} /\ Ascending(delivered')
    <3>1. \A d \in ToSet(delivered) : d < c
      BY <1>7, <2>1, <2>2 DEF Before
    <3> QED
      BY <1>4, <1>14, <2>1, <2>2, <3>1, LineGrows
  <2>5. Waiting \cup {c} = Waiting' \cup {c}
    <3>1. Waiting' \subseteq Waiting
      <4> SUFFICES ASSUME NEW d \in 1..pushed, NEW k \in 1..n, d \in ToSet(micro'[k].items)
                   PROVE  \E i \in DOMAIN micro : d \in ToSet(micro[i].items)
        BY <1>1, <1>6 DEF Waiting
      <4> QED
        BY <1>6, <2>2, <2>3
    <3>2. Waiting \subseteq Waiting' \cup {c}
      <4> SUFFICES ASSUME NEW d \in 1..pushed, NEW k \in 1..n, d \in ToSet(micro[k].items), d # c
                   PROVE  \E i \in DOMAIN micro' : d \in ToSet(micro'[i].items)
        BY <1>1, <1>6 DEF Waiting
      <4> QED
        BY <1>6, <1>7, <2>2
    <3> QED
      BY <3>1, <3>2
  <2>6. c \in Waiting
    BY <1>6, <1>7, <2>2, <2>3 DEF Waiting
  <2>7. ToSet(delivered') \cup Waiting' \cup ToSet(buf') = (1..pushed') \ dropped'
    BY <1>1, <1>14, <2>1, <2>4, <2>5, <2>6
  <2>8. ASSUME NEW k \in 1..n
        PROVE  /\ Ascending(micro'[k].items) /\ Before(micro'[k].items, buf)
               /\ Before(delivered', micro'[k].items)
               /\ ToSet(micro'[k].items) \subseteq 1..pushed
               /\ \A m \in 1..n : k < m => Before(micro'[k].items, micro'[m].items)
    <3>1. CASE k = 1
      <4>1. Ascending(rest) /\ ToSet(rest) \subseteq 1..pushed
        BY <1>7, <2>1, <2>2, <2>3
      <4>2. Before(rest, buf) /\ \A m \in 1..n : 1 < m => Before(rest, micro[m].items)
        BY <2>1, <2>2, <2>3 DEF Before
      <4>3. Before(delivered', rest)
        BY <2>1, <2>2, <2>3, <2>4 DEF Before
      <4> QED
        BY <1>6, <2>2, <3>1, <4>1, <4>2, <4>3
    <3>2. CASE k # 1
      <4>1. micro'[k] = micro[k] /\ 1 < k /\ k \in Nat
        BY <1>6, <3>2
      <4>2. \A m \in 1..n : k < m => m # 1 /\ micro'[m] = micro[m]
        BY <1>6, <4>1
      <4>3. Before(its, micro[k].items) /\ Before(delivered, micro[k].items)
        BY <2>1, <2>2, <4>1
      <4>4. Before(delivered', micro[k].items)
        BY <1>7, <2>4, <4>3 DEF Before
      <4> QED
        BY <2>1, <4>1, <4>2, <4>4
    <3> QED
      BY <3>1, <3>2
  <2>9. Before(delivered', buf)
    BY <1>7, <2>1, <2>2, <2>4 DEF Before
  <2>10. data' # "none" \/ flushing' => buf' = <<>>
    BY <1>1, <2>1
  <2> QED
    BY <1>1, <1>6, <2>1, <2>4, <2>7, <2>8, <2>9, <2>10 DEF LineInv
<1> QED
  BY <1>8, <1>10, <1>11, <1>12, <1>13, <1>15, <1>16

\* The flush is over, and what is left of it dropped; the 'end' may be due.
LEMMA FlushDoneStep == IInv /\ FlushDone => IInv'
<1> SUFFICES ASSUME IInv, FlushDone PROVE IInv'
  OBVIOUS
<1> USE DEF IInv
<1> DEFINE n == Len(micro)
<1>1. /\ micro # <<>> /\ Now.job = "flush" /\ (Now.items = <<>> \/ data = "none")
      /\ dropped' = dropped \cup ToSet(Now.items) /\ flushing' = FALSE
      /\ MaybeEnd(ended, buf, FALSE, flowing, Listening, Tail(micro))
      /\ UNCHANGED <<buf, ended, flowing, parked, destroyed, data, onEnd, onClose, timer, pushed,
                     delivered, ends, closes, endAfterClose, calls, lossy, torn, early, released>>
  <2>1. MaybeEnd(ended, buf, FALSE, flowing, Listening, Tail(micro))
    BY Zenon DEF FlushDone
  <2> QED
    BY <2>1 DEF FlushDone, listeners, flags
<1>2. 1 \in DOMAIN micro /\ Now = micro[1] /\ Now \in Jobs /\ micro \in Seq(Jobs)
  BY <1>1, FirstJob DEF TypeOK
<1>3. Now.items \in Seq(1..MaxPush) /\ ToSet(Now.items) \subseteq 1..MaxPush
  <2>1. Now.items \in Seq(1..MaxPush)
    BY <1>2 DEF Jobs
  <2> QED
    BY <2>1, ElementsTyped
<1>4. ~endEmitted /\ ends = 0 /\ \A k \in DOMAIN micro : micro[k].job # "end"
  BY <1>1, <1>2 DEF JobsInv, EndInv, TypeOK
<1>5. DroppedInv'
  BY <1>1, <1>2 DEF DroppedInv, LineInv
<1>6. Now.items # <<>> => lossy
  BY <1>1, <1>2 DEF LossInv
<1>7. delivered \in Seq(Nat) /\ (dropped' # {} => lossy)
  <2>1. ToSet(<<>>) = {}
    BY ShortLines
  <2> QED
    BY <1>1, <1>6, <2>1, ChunksAreNumbers DEF LossInv, TypeOK
<1>8. CASE EndDue(ended, buf, FALSE, flowing, Listening)
  <2>1. /\ ended /\ buf = <<>> /\ endEmitted' = TRUE
        /\ micro' = Append(Tail(micro), EndJob)
    BY <1>8, <1>1 DEF EndDue, MaybeEnd
  <2>2. EndJob \in Jobs /\ EndJob.job = "end" /\ EndJob.items = <<>>
    BY NewJobs
  <2>3. /\ n \in Nat \ {0} /\ DOMAIN micro = 1..n /\ DOMAIN micro' = 1..n /\ micro' \in Seq(Jobs)
        /\ \A k \in 1..(n - 1) : k + 1 \in 1..n /\ micro'[k] = micro[k + 1]
        /\ micro'[n] = EndJob
        /\ \A k \in 1..n : k # 1 => k - 1 \in 1..(n - 1) /\ micro'[k - 1] = micro[k]
    BY <1>1, <1>2, <2>1, <2>2, TakingAndQueueing DEF TakesAndQueues
  <2> HIDE DEF n
  <2>4. LineInv'
    <3>1. Left(micro')
      BY <2>2, <2>3 DEF Left, n
    <3> QED
      BY <1>1, <1>2, <1>7, <3>1, LineTaken
  <2>5. \A k \in 1..n : \/ k = n /\ micro'[k].job = "end" /\ micro'[k].items = <<>>
                        \/ k # n /\ k + 1 \in 1..n /\ micro'[k] = micro[k + 1]
    BY <2>2, <2>3
  <2>6. JobsInv'
    <3>1. \A k \in 1..n : micro'[k].job # "flush"
      <4> SUFFICES ASSUME NEW k \in 1..n, micro'[k].job = "flush" PROVE FALSE
        OBVIOUS
      <4>1. k + 1 \in DOMAIN micro /\ micro[k + 1].job = "flush" /\ k + 1 # 1
        BY <2>3, <2>5
      <4> QED
        BY <1>1, <1>2, <4>1 DEF JobsInv
    <3> QED
      <4> SUFFICES ASSUME NEW k \in DOMAIN micro'
                   PROVE  /\ micro'[k].job = "data" => Len(micro'[k].items) = 1
                          /\ micro'[k].job \in {"end", "close"} => micro'[k].items = <<>>
        BY <2>3, <3>1 DEF JobsInv
      <4>1. CASE k = n
        BY <2>2, <2>3, <4>1
      <4>2. CASE k # n
        <5>1. k + 1 \in DOMAIN micro /\ micro'[k] = micro[k + 1]
          BY <2>3, <2>5, <4>2
        <5> QED
          BY <5>1 DEF JobsInv
      <4> QED
        BY <4>1, <4>2
  <2>7. EndInv'
    <3>1. \A k \in 1..n : micro'[k].job = "end" => k = n
      BY <1>4, <2>3, <2>5
    <3>2. \A k \in 1..n : ~(k > n)
      BY <2>3
    <3> QED
      BY <1>1, <1>4, <2>1, <2>3, <3>1, <3>2 DEF EndInv
  <2>8. CloseInv'
    <3>1. \A k \in 1..n : micro'[k].job = "close" => k + 1 \in DOMAIN micro /\ micro[k + 1].job = "close"
                                                    /\ k \in Nat
      BY <2>3, <2>5
    <3>2. (\E k \in DOMAIN micro : micro[k].job = "close") => \E k \in DOMAIN micro' : micro'[k].job = "close"
      <4>1. micro[1].job # "close"
        BY <1>1, <1>2
      <4>2. \A k \in 1..n : k # 1 => k - 1 \in 1..n /\ micro'[k - 1] = micro[k]
        BY <2>3
      <4> QED
        BY <2>3, <4>1, <4>2
    <3>3. ASSUME NEW k \in DOMAIN micro', micro'[k].job = "close"
          PROVE  /\ destroyed /\ ~parked /\ closes = 0
                 /\ \A j \in DOMAIN micro' : micro'[j].job = "close" => j = k
      <4>1. k + 1 \in DOMAIN micro /\ micro[k + 1].job = "close" /\ k \in Nat
        BY <2>3, <3>1, <3>3
      <4>2. \A j \in DOMAIN micro' : micro'[j].job = "close" => j + 1 = k + 1 /\ j \in Nat
        BY <2>3, <3>1, <4>1 DEF CloseInv
      <4> QED
        BY <4>1, <4>2 DEF CloseInv
    <3> QED
      BY <1>1, <3>2, <3>3 DEF CloseInv
  <2>9. OrderInv'
    <3>1. closes = 1 => early \/ released
      BY <1>4 DEF OrderInv
    <3>2. \A k \in 1..n : micro'[k].job = "close" => early \/ released
      BY <1>4, <2>3, <2>5 DEF OrderInv
    <3> QED
      BY <1>1, <2>3, <3>1, <3>2 DEF OrderInv
  <2>10. TypeOK'
    <3>1. flushing' \in BOOLEAN /\ endEmitted' \in BOOLEAN /\ dropped' \subseteq 1..MaxPush
      BY <1>1, <1>3, <2>1 DEF TypeOK
    <3> QED
      BY <1>1, <2>3, <3>1 DEF TypeOK
  <2>11. LossInv'
    <3>1. data = "none" => lossy \/ \A k \in DOMAIN micro' : micro'[k].items = <<>>
      BY <2>3, <2>5 DEF LossInv
    <3> QED
      BY <1>1, <1>7, <3>1 DEF LossInv
  <2> QED
    BY <1>5, <2>4, <2>6, <2>7, <2>8, <2>9, <2>10, <2>11
<1>9. CASE ~EndDue(ended, buf, FALSE, flowing, Listening)
  <2>1. micro' = Tail(micro) /\ UNCHANGED endEmitted
    BY <1>1, <1>9 DEF MaybeEnd
  <2>2. Takes
    BY <1>1, <1>2, <2>1, Taking
  <2>3. JobsInv' /\ EndInv' /\ CloseInv' /\ OrderInv'
    BY <1>1, <1>2, <2>1, <2>2, JobTaken
  <2>4. LineInv'
    <3>1. Left(micro')
      BY <2>2 DEF Left, Takes
    <3> QED
      BY <1>1, <1>2, <1>7, <3>1, LineTaken
  <2>5. TypeOK'
    <3>1. flushing' \in BOOLEAN /\ endEmitted' \in BOOLEAN /\ dropped' \subseteq 1..MaxPush
      BY <1>1, <1>3, <2>1 DEF TypeOK
    <3>2. micro' \in Seq(Jobs)
      BY <2>2 DEF Takes
    <3> QED
      BY <1>1, <3>1, <3>2 DEF TypeOK
  <2>6. LossInv'
    <3>1. \A k \in DOMAIN micro' : k + 1 \in DOMAIN micro /\ micro'[k] = micro[k + 1]
      BY <2>2 DEF Takes
    <3> QED
      BY <1>1, <1>7, <3>1 DEF LossInv
  <2> QED
    BY <1>5, <2>3, <2>4, <2>5, <2>6
<1> QED
  BY <1>8, <1>9

LEMMA RunCloseStep == IInv /\ RunClose => IInv'
<1> SUFFICES ASSUME IInv, RunClose PROVE IInv'
  OBVIOUS
<1> USE DEF IInv
<1>1. /\ micro # <<>> /\ Now.job = "close" /\ closes' = closes + 1 /\ micro' = Tail(micro)
      /\ UNCHANGED <<buf, ended, endEmitted, flushing, flowing, parked, destroyed, data, onEnd, onClose,
                     timer, pushed, delivered, dropped, ends, endAfterClose, calls, lossy, torn, early,
                     released>>
  BY DEF RunClose, state, listeners, flags
<1>2. 1 \in DOMAIN micro /\ Now = micro[1] /\ Takes /\ micro[1].items = <<>> /\ micro[1].job = "close"
  BY <1>1, FirstJob, Taking DEF TypeOK, JobsInv
<1>3. /\ Len(micro) \in Nat \ {0} /\ DOMAIN micro = 1..Len(micro) /\ micro' \in Seq(Jobs)
      /\ DOMAIN micro' = 1..(Len(micro) - 1)
      /\ \A k \in DOMAIN micro' : k \in Nat /\ k + 1 \in DOMAIN micro /\ k + 1 # 1 /\ micro'[k] = micro[k + 1]
  BY <1>2 DEF Takes
<1>4. destroyed /\ ~parked /\ closes = 0 /\ closes' = 1
  BY <1>1, <1>2 DEF CloseInv
<1>5. LineInv'
  <2>1. Left(micro')
    BY <1>2 DEF Left, Takes
  <2>2. delivered' \in Seq(Nat) /\ dropped' = dropped \cup ToSet(micro[1].items)
    BY <1>1, <1>2, ShortLines, ChunksAreNumbers DEF TypeOK
  <2> QED
    BY <1>1, <2>1, <2>2, LineTaken
<1>6. TypeOK' /\ DroppedInv'
  BY <1>1, <1>3, <1>4 DEF TypeOK, DroppedInv
<1>7. LossInv'
  BY <1>1, <1>3 DEF LossInv
<1>8. JobsInv'
  BY <1>1, <1>3 DEF JobsInv
<1>9. EndInv'
  BY <1>1, <1>3 DEF EndInv
<1>10. \A k \in DOMAIN micro' : micro'[k].job # "close"
  <2> SUFFICES ASSUME NEW k \in DOMAIN micro', micro'[k].job = "close" PROVE FALSE
    OBVIOUS
  <2>1. k + 1 \in DOMAIN micro /\ micro[k + 1].job = "close" /\ k + 1 # 1
    BY <1>3
  <2> QED
    BY <1>2, <2>1 DEF CloseInv
<1>11. CloseInv'
  BY <1>1, <1>4, <1>10 DEF CloseInv
<1>12. OrderInv'
  <2>1. early \/ released \/ (endEmitted /\ \A j \in DOMAIN micro : j > 1 => micro[j].job # "end")
    BY <1>2 DEF OrderInv
  <2>2. \A k \in DOMAIN micro' : k + 1 \in DOMAIN micro /\ k + 1 > 1 /\ micro'[k] = micro[k + 1]
    BY <1>3
  <2>3. ~endAfterClose
    BY <1>4 DEF OrderInv
  <2> QED
    BY <1>1, <1>4, <1>10, <2>1, <2>2, <2>3 DEF OrderInv
<1> QED
  BY <1>5, <1>6, <1>7, <1>8, <1>9, <1>11, <1>12

LEMMA RunEndStep == IInv /\ RunEnd => IInv'
<1> SUFFICES ASSUME IInv, RunEnd PROVE IInv'
  OBVIOUS
<1> USE DEF IInv
<1> DEFINE n == Len(micro)
<1>1. /\ micro # <<>> /\ Now.job = "end" /\ ends' = ends + 1 /\ parked' = FALSE
      /\ endAfterClose' = (endAfterClose \/ closes > 0)
      /\ micro' = IF parked THEN Append(Tail(micro), CloseJob) ELSE Tail(micro)
      /\ UNCHANGED <<buf, ended, endEmitted, flushing, flowing, destroyed, data, onEnd, onClose,
                     timer, pushed, delivered, dropped, closes, calls, lossy, torn, early, released>>
  BY DEF RunEnd, listeners, flags
<1>2. /\ 1 \in DOMAIN micro /\ Now = micro[1] /\ micro[1].items = <<>> /\ micro[1].job = "end"
      /\ micro \in Seq(Jobs)
  BY <1>1, FirstJob DEF TypeOK, JobsInv
<1>3. /\ endEmitted /\ ends = 0 /\ ends' = 1 /\ ended /\ buf = <<>> /\ ~flushing
      /\ \A k \in DOMAIN micro : k # 1 => k > 1 /\ micro[k].items = <<>> /\ micro[k].job # "end"
  <2>1. \A k \in DOMAIN micro : k # 1 => k > 1
    BY <1>2
  <2> QED
    BY <1>1, <1>2, <2>1 DEF EndInv
<1>4. CloseJob \in Jobs /\ CloseJob.job = "close" /\ CloseJob.items = <<>>
  BY NewJobs
<1>5. /\ n \in Nat \ {0} /\ DOMAIN micro = 1..n /\ micro' \in Seq(Jobs)
      /\ \A k \in 1..(n - 1) : k + 1 \in 1..n /\ k + 1 # 1 /\ micro'[k] = micro[k + 1]
      /\ \A k \in 1..n : k # 1 => k - 1 \in 1..(n - 1) /\ micro'[k - 1] = micro[k]
      /\ parked => DOMAIN micro' = 1..n /\ micro'[n] = CloseJob
      /\ ~parked => DOMAIN micro' = 1..(n - 1)
  <2>1. CASE parked
    BY <1>1, <1>2, <1>4, <2>1, TakingAndQueueing DEF TakesAndQueues
  <2>2. CASE ~parked
    <3>1. Takes
      BY <1>1, <1>2, <2>2, Taking
    <3>2. /\ n \in Nat \ {0} /\ DOMAIN micro = 1..n /\ DOMAIN micro' = 1..(n - 1)
          /\ micro' \in Seq(Jobs) /\ \A k \in 1..(n - 1) : micro'[k] = micro[k + 1]
      BY <3>1 DEF Takes
    <3> HIDE DEF n
    <3>3. /\ \A k \in 1..(n - 1) : k + 1 \in 1..n /\ k + 1 # 1
          /\ \A k \in 1..n : k # 1 => k - 1 \in 1..(n - 1) /\ (k - 1) + 1 = k
      BY <3>2
    <3> QED
      BY <2>2, <3>2, <3>3
  <2> QED
    BY <2>1, <2>2
<1> HIDE DEF n
<1>6. \A k \in DOMAIN micro' : /\ k \in Nat
                               /\ \/ parked /\ k = n /\ micro'[k] = CloseJob
                                  \/ k \in 1..(n - 1) /\ k + 1 \in DOMAIN micro /\ k + 1 # 1
                                       /\ micro'[k] = micro[k + 1]
  BY <1>5
<1>7. \A k \in DOMAIN micro' : micro'[k].items = <<>> /\ micro'[k].job # "end"
  BY <1>3, <1>4, <1>6
<1>8. LineInv'
  <2>1. Left(micro')
    BY <1>4, <1>5 DEF Left, n
  <2>2. delivered' \in Seq(Nat) /\ dropped' = dropped \cup ToSet(micro[1].items)
    BY <1>1, <1>2, ShortLines, ChunksAreNumbers DEF TypeOK
  <2> QED
    BY <1>1, <2>1, <2>2, LineTaken
<1>9. TypeOK' /\ DroppedInv'
  <2>1. endAfterClose' \in BOOLEAN
    BY <1>1, Zenon
  <2>2. parked' \in BOOLEAN
    BY <1>1
  <2>3. ends' \in 0..1
    BY <1>3
  <2> QED
    BY <1>1, <1>5, <2>1, <2>2, <2>3 DEF TypeOK, DroppedInv
<1>10. LossInv'
  BY <1>1, <1>7 DEF LossInv
<1>11. JobsInv'
  <2>1. \A k \in DOMAIN micro' : micro'[k].job # "flush" /\ micro'[k].job # "data"
    BY <1>3, <1>4, <1>6 DEF JobsInv
  <2> QED
    BY <1>7, <2>1 DEF JobsInv
<1>12. EndInv'
  BY <1>1, <1>3, <1>7 DEF EndInv
<1>13. CloseInv'
  <2>1. CASE parked
    <3>1. destroyed /\ closes = 0 /\ \A k \in DOMAIN micro : micro[k].job # "close"
      BY <2>1 DEF CloseInv
    <3>2. \A k \in DOMAIN micro' : micro'[k].job = "close" => k = n
      BY <1>6, <3>1
    <3>3. n \in DOMAIN micro' /\ micro'[n].job = "close"
      BY <1>4, <1>5, <2>1
    <3> QED
      BY <1>1, <3>1, <3>2, <3>3 DEF CloseInv
  <2>2. CASE ~parked
    <3>1. \A k \in DOMAIN micro' : micro'[k] = micro[k + 1] /\ k + 1 \in DOMAIN micro
      BY <1>6, <2>2
    <3>2. (\E k \in DOMAIN micro : micro[k].job = "close") => \E k \in DOMAIN micro' : micro'[k].job = "close"
      BY <1>2, <1>5, <2>2
    <3> QED
      BY <1>1, <1>6, <2>2, <3>1, <3>2 DEF CloseInv
  <2> QED
    BY <2>1, <2>2
<1>14. OrderInv'
  <2>1. closes > 0 => closes = 1
    BY DEF TypeOK
  <2>2. closes = 1 => early \/ released
    BY <1>2 DEF OrderInv
  <2>3. endAfterClose' => closes' = 1 /\ (early' \/ released')
    BY <1>1, <2>1, <2>2 DEF OrderInv
  <2> QED
    BY <1>1, <1>3, <1>7, <2>3 DEF OrderInv
<1> QED
  BY <1>8, <1>9, <1>10, <1>11, <1>12, <1>13, <1>14

-----------------------------------------------------------------------------
\* What the stream's jobs and its buffer hold, and what 'end' and 'close' wait
\* for, is an inductive invariant.
THEOREM Inductive == Spec => []IInv
<1>1. IInv /\ [Next]_vars => IInv'
  <2> SUFFICES ASSUME IInv, [Next]_vars PROVE IInv'
    OBVIOUS
  <2>1. CASE RunJob
    BY <2>1, RunDataStep, FlushOneStep, FlushDoneStep, RunEndStep, RunCloseStep DEF RunJob
  <2>2. CASE Consumer
    BY <2>2, OnDataStep, OnEndStep, OnCloseStep, ResumeStep, DestroyStep, DetachStep DEF Consumer
  <2>3. CASE UNCHANGED vars
    <3>1. TypeOK' /\ LossInv' /\ DroppedInv'
      BY <2>3 DEF vars, state, listeners, observed, flags, IInv, TypeOK, LossInv, DroppedInv
    <3> QED
      BY <2>3, <3>1, Stays DEF vars, state, listeners, observed, flags, IInv
  <2> QED
    BY <2>1, <2>2, <2>3, PushStep, PushEofStep, TimerStep DEF Next
<1> QED
  BY InitIInv, <1>1, PTL DEF Spec

\* Type correctness, for any number of chunks and of calls.
THEOREM TypeCorrect == Spec => []TypeOK
<1>1. IInv => TypeOK
  BY DEF IInv
<1> QED
  BY Inductive, <1>1, PTL

\* No chunk is lost, duplicated or overtaken, unless the consumer resumed or
\* detached, or a flush was under way when it was buffered.
THEOREM LosesNothing == Spec => []NothingLost
<1>1. IInv => NothingLost
  <2> SUFFICES ASSUME IInv PROVE NothingLost
    OBVIOUS
  <2> DEFINE n    == Len(micro)
             line == <<delivered>> \o Items \o <<buf>>
  <2>1. dropped # {} => lossy
    BY DEF IInv, LossInv
  <2>2. ASSUME ~torn
        PROVE  /\ \A i \in DOMAIN line : Ascending(line[i])
               /\ \A i, k \in DOMAIN line : i < k => Before(line[i], line[k])
               /\ UNION {ToSet(line[i]) : i \in DOMAIN line} = (1..pushed) \ dropped
    <3>1. /\ n \in Nat /\ DOMAIN micro = 1..n
          /\ \A i \in 1..n : micro[i].items \in Seq(1..MaxPush)
          /\ delivered \in Seq(1..MaxPush) /\ buf \in Seq(1..MaxPush)
      <4>1. micro \in Seq(Jobs) /\ delivered \in Seq(1..MaxPush) /\ buf \in Seq(1..MaxPush)
        BY DEF IInv, TypeOK
      <4>2. n \in Nat /\ DOMAIN micro = 1..n /\ \A i \in 1..n : micro[i] \in Jobs
        BY <4>1
      <4> QED
        BY <4>1, <4>2 DEF Jobs
    <3>2. Items \in Seq(Seq(1..MaxPush)) /\ Len(Items) = n /\ \A i \in 1..n : Items[i] = micro[i].items
      BY <3>1 DEF Items
    <3>3. /\ DOMAIN line = 1..(n + 2) /\ line[1] = delivered /\ line[n + 2] = buf
          /\ \A i \in 1..n : line[i + 1] = micro[i].items
      BY <3>1, <3>2
    <3> HIDE DEF line, n
    <3>4. /\ Ascending(delivered) /\ Ascending(buf) /\ Before(delivered, buf)
          /\ \A i \in 1..n : /\ Ascending(micro[i].items)
                             /\ Before(delivered, micro[i].items)
                             /\ Before(micro[i].items, buf)
                             /\ ToSet(micro[i].items) \subseteq 1..pushed
                             /\ \A k \in 1..n : i < k => Before(micro[i].items, micro[k].items)
          /\ ToSet(delivered) \cup Waiting \cup ToSet(buf) = (1..pushed) \ dropped
      BY <2>2, <3>1 DEF IInv, LineInv
    <3>5. \A i \in 1..(n + 2) : \/ i = 1 /\ line[i] = delivered
                                \/ i = n + 2 /\ line[i] = buf
                                \/ i # 1 /\ i - 1 \in 1..n /\ line[i] = micro[i - 1].items
      <4> SUFFICES ASSUME NEW i \in 1..(n + 2), i # 1, i # n + 2
                   PROVE  i - 1 \in 1..n /\ line[i] = micro[i - 1].items
        BY <3>3
      <4>1. i - 1 \in 1..n /\ (i - 1) + 1 = i
        BY <3>1
      <4> QED
        BY <3>3, <4>1
    <3>6. \A i \in DOMAIN line : Ascending(line[i])
      BY <3>3, <3>4, <3>5
    <3>7. ASSUME NEW i \in 1..(n + 2), NEW k \in 1..(n + 2), i < k
          PROVE  Before(line[i], line[k])
      <4>1. CASE i = 1
        BY <3>1, <3>4, <3>5, <3>7, <4>1
      <4>2. CASE i # 1 /\ k = n + 2
        BY <3>1, <3>4, <3>5, <3>7, <4>2
      <4>3. CASE i # 1 /\ k # n + 2
        <5>1. /\ i - 1 \in 1..n /\ k - 1 \in 1..n /\ i - 1 < k - 1
              /\ line[i] = micro[i - 1].items /\ line[k] = micro[k - 1].items
          BY <3>1, <3>5, <3>7, <4>3
        <5> QED
          BY <3>4, <5>1
      <4> QED
        BY <4>1, <4>2, <4>3
    <3>8. UNION {ToSet(line[i]) : i \in DOMAIN line} = ToSet(delivered) \cup Waiting \cup ToSet(buf)
      <4>1. \A i \in DOMAIN line : ToSet(line[i]) \subseteq ToSet(delivered) \cup Waiting \cup ToSet(buf)
        BY <3>1, <3>3, <3>4, <3>5 DEF Waiting
      <4>2. 1 \in DOMAIN line /\ n + 2 \in DOMAIN line
        BY <3>1, <3>3
      <4>3. \A c \in Waiting : \E i \in DOMAIN line : c \in ToSet(line[i])
        <5> SUFFICES ASSUME NEW c \in Waiting PROVE \E i \in DOMAIN line : c \in ToSet(line[i])
          OBVIOUS
        <5>1. PICK k \in 1..n : c \in ToSet(micro[k].items)
          BY <3>1 DEF Waiting
        <5>2. k + 1 \in DOMAIN line /\ line[k + 1] = micro[k].items
          BY <3>1, <3>3
        <5> QED
          BY <5>1, <5>2
      <4> QED
        BY <3>3, <4>1, <4>2, <4>3
    <3> QED
      BY <3>3, <3>4, <3>6, <3>7, <3>8
  <2> QED
    BY <2>1, <2>2 DEF NothingLost
<1> QED
  BY Inductive, <1>1, PTL

\* 'end' follows every chunk, and a destroyed stream has one 'close', which is
\* not ahead of an 'end' that is due unless it was let go.
THEOREM EndsThenCloses == Spec => []EndThenClose
<1>1. IInv => EndThenClose
  <2> SUFFICES ASSUME IInv PROVE EndThenClose
    OBVIOUS
  <2> USE DEF IInv
  <2>1. ends = 1 => ended /\ buf = <<>> /\ \A i \in DOMAIN micro : Items[i] = <<>>
    BY DEF EndInv, Items
  <2>2. endAfterClose => early \/ released
    BY DEF OrderInv
  <2>3. Closings = {} \/ \E i \in DOMAIN micro : Closings = {i}
    BY DEF Closings, CloseInv
  <2>4. Cardinality(Closings) = IF Closings = {} THEN 0 ELSE 1
    BY <2>3, FS_EmptySet, FS_Singleton
  <2>5. closes \in 0..1
    BY DEF TypeOK
  <2>7. CASE Closings = {}
    <3>1. \A i \in DOMAIN micro : micro[i].job # "close"
      BY <2>7 DEF Closings
    <3>2. (IF parked THEN 1 ELSE 0) + closes = (IF destroyed THEN 1 ELSE 0)
      BY <2>5, <3>1 DEF CloseInv
    <3> QED
      BY <2>1, <2>2, <2>4, <2>5, <2>7, <3>2 DEF EndThenClose
  <2>8. Closings # {} => EndThenClose
    <3> SUFFICES ASSUME Closings # {} PROVE EndThenClose
      OBVIOUS
    <3>1. destroyed /\ ~parked /\ closes = 0
      BY DEF Closings, CloseInv
    <3> QED
      BY <2>1, <2>2, <2>4, <3>1 DEF EndThenClose
  <2> QED
    BY <2>7, <2>8
<1> QED
  BY Inductive, <1>1, PTL

-----------------------------------------------------------------------------
\* What the stream owes is queued: an 'end' that is due, the end of a flush, and
\* the 'end' that a parked 'close' waits for has not come.
HasJob(name) == \E i \in DOMAIN micro : micro[i].job = name

OwedInv ==
  /\ ~EndDue(ended, buf, flushing, flowing, Listening)
  /\ flushing => HasJob("flush")
  /\ endEmitted => ends = 1 \/ HasJob("end")
  /\ parked => ended /\ ends = 0
  /\ ~torn /\ flowing => buf = <<>>

\* With no microtask left, a stream that somebody reads has delivered all that
\* was pushed, unless a chunk was buffered under a flush; with nothing in its
\* buffer, its 'end' has come if EOF has, and its 'close' if it is destroyed.
AtRest ==
  micro = <<>> =>
    /\ ~torn /\ (data # "none" \/ flowing) =>
         buf = <<>> /\ ToSet(delivered) = (1..pushed) \ dropped
    /\ buf = <<>> /\ (flowing \/ Listening) =>
         /\ ended => ends = 1
         /\ destroyed => closes = 1

LEMMA QueueingKeeps ==
  ASSUME NEW j, Queues(j), NEW name, HasJob(name) \/ j.job = name
  PROVE  HasJob(name)'
<1>1. CASE HasJob(name)
  <2>1. PICK i \in DOMAIN micro : micro[i].job = name
    BY <1>1 DEF HasJob
  <2>2. i \in DOMAIN micro' /\ micro'[i] = micro[i]
    BY <2>1 DEF Queues
  <2> QED
    BY <2>1, <2>2 DEF HasJob
<1>2. CASE j.job = name
  <2>1. Len(micro) + 1 \in DOMAIN micro' /\ micro'[Len(micro) + 1] = j
    BY DEF Queues
  <2> QED
    BY <1>2, <2>1 DEF HasJob
<1> QED
  BY <1>1, <1>2

\* Taking the first job, with or without queueing another, keeps the others.
LEMMA TakingKeeps ==
  ASSUME micro \in Seq(Jobs), micro # <<>>, NEW q \in Seq(Jobs), q = Tail(micro),
         NEW name, HasJob(name), Now.job # name
  PROVE  \E i \in DOMAIN q : q[i].job = name
<1>1. PICK i \in DOMAIN micro : micro[i].job = name
  BY DEF HasJob
<1>2. i # 1
  BY <1>1, FirstJob
<1>3. i - 1 \in DOMAIN q /\ q[i - 1] = micro[i]
  BY <1>2
<1> QED
  BY <1>1, <1>3

\* _maybeEnd leaves no 'end' that is due, and whatever was queued.
LEMMA MaybeEndOwes ==
  ASSUME NEW q \in Seq(Jobs), NEW e, NEW b, NEW fl, NEW flow, NEW l,
         MaybeEnd(e, b, fl, flow, l, q), UNCHANGED ends,
         endEmitted \in BOOLEAN,
         endEmitted => ends = 1 \/ \E i \in DOMAIN q : q[i].job = "end"
  PROVE  /\ ~(e /\ ~endEmitted' /\ ~fl /\ b = <<>> /\ (flow \/ l))
         /\ endEmitted' => ends' = 1 \/ HasJob("end")'
         /\ \A name : (\E i \in DOMAIN q : q[i].job = name) => HasJob(name)'
<1>1. CASE EndDue(e, b, fl, flow, l)
  <2>1. micro' = Append(q, EndJob) /\ endEmitted' = TRUE
    BY <1>1 DEF MaybeEnd
  <2>2. EndJob \in Jobs /\ EndJob.job = "end"
    BY NewJobs
  <2>3. /\ Len(q) + 1 \in DOMAIN micro' /\ micro'[Len(q) + 1] = EndJob
        /\ \A i \in DOMAIN q : i \in DOMAIN micro' /\ micro'[i] = q[i]
    BY <2>1, <2>2
  <2> QED
    BY <2>1, <2>2, <2>3 DEF HasJob
<1>2. CASE ~EndDue(e, b, fl, flow, l)
  <2>1. micro' = q /\ endEmitted' = endEmitted
    BY <1>2 DEF MaybeEnd
  <2>2. ~(e /\ ~endEmitted' /\ ~fl /\ b = <<>> /\ (flow \/ l))
    BY <1>2, <2>1 DEF EndDue
  <2> QED
    BY <2>1, <2>2 DEF HasJob
<1> QED
  BY <1>1, <1>2

\* So does _flushBuffered, followed or not by _maybeEnd.
LEMMA FlushOwes ==
  ASSUME IInv, OwedInv, NEW flow \in BOOLEAN, NEW l \in BOOLEAN, NEW o \in BOOLEAN,
         Flush(flow, l, o), buf = <<>> => o, UNCHANGED <<ended, ends, torn>>
  PROVE  /\ ~(ended' /\ ~endEmitted' /\ ~flushing' /\ buf' = <<>> /\ (flow \/ l))
         /\ flushing' => HasJob("flush")'
         /\ endEmitted' => ends' = 1 \/ HasJob("end")'
         /\ ~torn' => buf' = <<>>
<1>1. /\ micro \in Seq(Jobs) /\ buf \in Seq(1..MaxPush) /\ endEmitted \in BOOLEAN
      /\ ~torn /\ flushing => buf = <<>>
  BY DEF IInv, TypeOK, LineInv
<1>2. /\ endEmitted => ends = 1 \/ HasJob("end")
      /\ flushing => HasJob("flush")
  BY DEF OwedInv
<1>3. CASE buf # <<>> /\ ~flushing
  <2>1. micro' = Append(micro, FlushJob(buf)) /\ buf' = <<>> /\ flushing' = TRUE /\ UNCHANGED endEmitted
    BY <1>3 DEF Flush
  <2>2. Queues(FlushJob(buf)) /\ FlushJob(buf).job = "flush"
    BY <1>1, <2>1, NewJobs, Queueing
  <2>3. HasJob("flush")'
    BY <2>2, QueueingKeeps
  <2>4. HasJob("end") => HasJob("end")'
    BY <2>2, QueueingKeeps
  <2> QED
    BY <1>2, <2>1, <2>3, <2>4
<1>4. CASE buf = <<>> \/ flushing
  <2>1. /\ UNCHANGED <<buf, flushing>>
        /\ IF o THEN MaybeEnd(ended, buf, flushing, flow, l, micro) ELSE UNCHANGED <<micro, endEmitted>>
    BY <1>4 DEF Flush
  <2>2. CASE o
    <3>1. endEmitted => ends = 1 \/ \E i \in DOMAIN micro : micro[i].job = "end"
      BY <1>2 DEF HasJob
    <3>2. MaybeEnd(ended, buf, flushing, flow, l, micro)
      BY <2>1, <2>2
    <3>3. /\ ~(ended /\ ~endEmitted' /\ ~flushing /\ buf = <<>> /\ (flow \/ l))
          /\ endEmitted' => ends' = 1 \/ HasJob("end")'
          /\ \A name : (\E i \in DOMAIN micro : micro[i].job = name) => HasJob(name)'
      BY <1>1, <3>1, <3>2, MaybeEndOwes
    <3>4. HasJob("flush") => HasJob("flush")'
      BY <3>3 DEF HasJob
    <3> QED
      BY <1>1, <1>2, <1>4, <2>1, <3>3, <3>4
  <2>3. CASE ~o
    <3>1. buf # <<>> /\ flushing /\ UNCHANGED <<micro, endEmitted>>
      BY <1>4, <2>1, <2>3
    <3>2. HasJob("flush")' /\ (endEmitted' => ends' = 1 \/ HasJob("end")')
      BY <1>2, <3>1 DEF HasJob
    <3> QED
      BY <1>1, <2>1, <3>1, <3>2
  <2> QED
    BY <2>2, <2>3
<1> QED
  BY <1>3, <1>4

LEMMA ProducerOwes == IInv /\ OwedInv /\ (Push \/ PushEof) => OwedInv'
<1> SUFFICES ASSUME IInv, OwedInv, Push \/ PushEof PROVE OwedInv'
  OBVIOUS
<1>1. /\ micro \in Seq(Jobs) /\ endEmitted \in BOOLEAN /\ pushed \in 0..MaxPush
      /\ buf \in Seq(1..MaxPush)
  BY DEF IInv, TypeOK
<1>2. CASE Push
  <2>1. /\ ~ended /\ UNCHANGED <<ended, endEmitted, flushing, flowing, parked, ends>>
        /\ \/ micro' = Append(micro, DataJob(pushed + 1)) \/ UNCHANGED micro
        /\ \/ UNCHANGED <<buf, torn>> \/ ~flowing
    BY <1>2 DEF Push
  <2>2. DataJob(pushed + 1) \in Jobs
    <3>1. pushed + 1 \in 1..MaxPush
      BY <1>1, <1>2, ReadableAssumption DEF Push
    <3> QED
      BY <3>1, NewJobs
  <2>3. \A name : HasJob(name) => HasJob(name)'
    <3>1. CASE micro' = Append(micro, DataJob(pushed + 1))
      BY <1>1, <2>2, <3>1, Queueing, QueueingKeeps
    <3>2. CASE UNCHANGED micro
      BY <3>2 DEF HasJob
    <3> QED
      BY <2>1, <3>1, <3>2
  <2>4. ~EndDue(ended, buf, flushing, flowing, Listening)'
    BY <2>1 DEF EndDue
  <2>5. ~torn' /\ flowing' => buf' = <<>>
    BY <2>1 DEF OwedInv
  <2> QED
    BY <2>1, <2>3, <2>4, <2>5 DEF OwedInv
<1>3. CASE PushEof
  <2>1. /\ ended' = TRUE /\ MaybeEnd(TRUE, buf, flushing, flowing, Listening, micro)
        /\ UNCHANGED <<buf, flushing, flowing, parked, data, onEnd, ends, torn>>
    BY <1>3 DEF PushEof, listeners, observed, flags
  <2>2. endEmitted => ends = 1 \/ \E i \in DOMAIN micro : micro[i].job = "end"
    BY DEF OwedInv, HasJob
  <2>3. /\ ~(TRUE /\ ~endEmitted' /\ ~flushing /\ buf = <<>> /\ (flowing \/ Listening))
        /\ endEmitted' => ends' = 1 \/ HasJob("end")'
        /\ \A name : (\E i \in DOMAIN micro : micro[i].job = name) => HasJob(name)'
    BY <1>1, <2>1, <2>2, MaybeEndOwes
  <2>4. ~EndDue(ended, buf, flushing, flowing, Listening)'
    BY <2>1, <2>3 DEF EndDue, Listening
  <2>5. flushing' => HasJob("flush")'
    BY <2>1, <2>3 DEF OwedInv, HasJob
  <2> QED
    BY <2>1, <2>3, <2>4, <2>5 DEF OwedInv
<1> QED
  BY <1>2, <1>3

LEMMA ReaderOwes ==
  IInv /\ OwedInv /\ ((\E kind \in {"on", "once"} : OnData(kind)) \/ Resume \/ OnEnd) => OwedInv'
<1> SUFFICES ASSUME IInv, OwedInv, (\E kind \in {"on", "once"} : OnData(kind)) \/ Resume \/ OnEnd
             PROVE  OwedInv'
  OBVIOUS
<1>1. /\ micro \in Seq(Jobs) /\ endEmitted \in BOOLEAN /\ flowing \in BOOLEAN
      /\ Listening \in BOOLEAN
  BY DEF IInv, TypeOK, Listening
<1>2. CASE \E kind \in {"on", "once"} : OnData(kind)
  <2>1. /\ data' # "none" /\ Flush(flowing, TRUE, TRUE)
        /\ UNCHANGED <<ended, flowing, parked, ends, torn>>
    BY <1>2 DEF OnData, observed
  <2>2. /\ ~(ended' /\ ~endEmitted' /\ ~flushing' /\ buf' = <<>> /\ (flowing \/ TRUE))
        /\ flushing' => HasJob("flush")'
        /\ endEmitted' => ends' = 1 \/ HasJob("end")'
        /\ ~torn' => buf' = <<>>
    BY <1>1, <2>1, FlushOwes
  <2>3. ~EndDue(ended, buf, flushing, flowing, Listening)'
    BY <2>1, <2>2 DEF EndDue, Listening
  <2> QED
    BY <2>1, <2>2, <2>3 DEF OwedInv
<1>3. CASE Resume
  <2> DEFINE o == buf = <<>>
  <2>1. /\ flowing' = TRUE /\ Flush(TRUE, Listening, o)
        /\ UNCHANGED <<ended, parked, data, onEnd, ends, torn>>
    BY <1>3 DEF Resume, observed, listeners
  <2>2. o \in BOOLEAN /\ (buf = <<>> => o)
    OBVIOUS
  <2> HIDE DEF o
  <2>3. /\ ~(ended' /\ ~endEmitted' /\ ~flushing' /\ buf' = <<>> /\ (TRUE \/ Listening))
        /\ flushing' => HasJob("flush")'
        /\ endEmitted' => ends' = 1 \/ HasJob("end")'
        /\ ~torn' => buf' = <<>>
    BY <1>1, <2>1, <2>2, FlushOwes
  <2>4. ~EndDue(ended, buf, flushing, flowing, Listening)'
    BY <2>3 DEF EndDue
  <2> QED
    BY <2>1, <2>3, <2>4 DEF OwedInv
<1>4. CASE OnEnd
  <2>1. /\ onEnd' = TRUE /\ MaybeEnd(ended, buf, flushing, flowing, TRUE, micro)
        /\ UNCHANGED <<buf, ended, flushing, flowing, parked, ends, torn>>
    BY <1>4 DEF OnEnd, observed, flags
  <2>2. endEmitted => ends = 1 \/ \E i \in DOMAIN micro : micro[i].job = "end"
    BY DEF OwedInv, HasJob
  <2>3. /\ ~(ended /\ ~endEmitted' /\ ~flushing /\ buf = <<>> /\ (flowing \/ TRUE))
        /\ endEmitted' => ends' = 1 \/ HasJob("end")'
        /\ \A name : (\E i \in DOMAIN micro : micro[i].job = name) => HasJob(name)'
    BY <1>1, <2>1, <2>2, MaybeEndOwes
  <2>4. ~EndDue(ended, buf, flushing, flowing, Listening)'
    BY <2>1, <2>3 DEF EndDue
  <2>5. flushing' => HasJob("flush")'
    BY <2>1, <2>3 DEF OwedInv, HasJob
  <2> QED
    BY <2>1, <2>3, <2>4, <2>5 DEF OwedInv
<1> QED
  BY <1>2, <1>3, <1>4

\* The others queue a 'close' at most, and make nothing due.
LEMMA CloserOwes ==
  IInv /\ OwedInv /\ (OnClose \/ Timer \/ Destroy \/ OffData \/ OffEnd \/ Pause) => OwedInv'
<1> SUFFICES ASSUME IInv, OwedInv, OnClose \/ Timer \/ Destroy \/ OffData \/ OffEnd \/ Pause
             PROVE  OwedInv'
  OBVIOUS
<1>1. /\ UNCHANGED <<buf, ended, endEmitted, flushing, ends, torn>>
      /\ flowing' => flowing
      /\ Listening' => Listening
      /\ parked' => parked \/ (ended /\ ~endEmitted)
      /\ micro' = Append(micro, CloseJob) \/ UNCHANGED micro
  <2>1. CASE OnClose \/ Timer
    BY <2>1 DEF OnClose, Timer, ReleaseClose, listeners, observed, Listening
  <2>2. CASE Destroy
    BY <2>2 DEF Destroy, listeners, observed, Listening
  <2>3. CASE OffData \/ OffEnd \/ Pause
    BY <2>3 DEF OffData, OffEnd, Pause, listeners, observed, state, flags, Listening
  <2> QED
    BY <2>1, <2>2, <2>3
<1>2. \A name : HasJob(name) => HasJob(name)'
  <2>1. CASE micro' = Append(micro, CloseJob)
    <3>1. Queues(CloseJob)
      BY <2>1, NewJobs, Queueing DEF IInv, TypeOK
    <3> QED
      BY <3>1, QueueingKeeps
  <2>2. CASE UNCHANGED micro
    BY <2>2 DEF HasJob
  <2> QED
    BY <1>1, <2>1, <2>2
<1>3. ~EndDue(ended, buf, flushing, flowing, Listening)'
  BY <1>1 DEF OwedInv, EndDue
<1>4. parked' => ended' /\ ends' = 0
  BY <1>1 DEF OwedInv, IInv, TypeOK, EndInv
<1> QED
  BY <1>1, <1>2, <1>3, <1>4 DEF OwedInv

LEMMA JobOwes == IInv /\ OwedInv /\ RunJob => OwedInv'
<1> SUFFICES ASSUME IInv, OwedInv, RunJob PROVE OwedInv'
  OBVIOUS
<1> DEFINE rest == Tail(micro)
<1>1. /\ micro \in Seq(Jobs) /\ micro # <<>> /\ rest \in Seq(Jobs) /\ endEmitted \in BOOLEAN
      /\ 1 \in DOMAIN micro /\ Now = micro[1] /\ Now \in Jobs
  <2>1. micro # <<>>
    BY DEF RunJob, RunData, FlushOne, FlushDone, RunEnd, RunClose
  <2>2. micro \in Seq(Jobs) /\ endEmitted \in BOOLEAN
    BY DEF IInv, TypeOK
  <2> QED
    BY <2>1, <2>2, FirstJob, HeadAndTail
<1>2. \A name : HasJob(name) /\ Now.job # name => \E i \in DOMAIN rest : rest[i].job = name
  <2>1. rest = Tail(micro)
    OBVIOUS
  <2> HIDE DEF rest
  <2> QED
    BY <1>1, <2>1, TakingKeeps
<1>3. CASE RunData \/ RunClose
  <2>1. /\ UNCHANGED <<buf, ended, endEmitted, flushing, flowing, parked, ends, torn, onEnd>>
        /\ data' = data \/ data' = "none"
        /\ micro' = rest /\ Now.job \in {"data", "close"}
    BY <1>3 DEF RunData, RunClose, Emit, state, flags, listeners
  <2>2. HasJob("flush") => HasJob("flush")'
    BY <1>2, <2>1 DEF HasJob
  <2>3. HasJob("end") => HasJob("end")'
    BY <1>2, <2>1 DEF HasJob
  <2>4. ~EndDue(ended, buf, flushing, flowing, Listening)'
    BY <2>1 DEF OwedInv, EndDue, Listening
  <2> QED
    BY <2>1, <2>2, <2>3, <2>4 DEF OwedInv
<1>4. CASE FlushOne
  <2>1. /\ UNCHANGED <<buf, ended, endEmitted, flushing, flowing, parked, ends, torn, onEnd>>
        /\ data' = data \/ data' = "none"
        /\ Now.job = "flush" /\ Now.items # <<>> /\ Now.items \in Seq(1..MaxPush)
        /\ micro' = <<FlushJob(Tail(Now.items))>> \o rest
    <3>1. Now.items \in Seq(1..MaxPush)
      BY <1>1 DEF Jobs
    <3> QED
      BY <1>4, <3>1 DEF FlushOne, Emit, state, flags
  <2>2. FlushJob(Tail(Now.items)) \in Jobs /\ FlushJob(Tail(Now.items)).job = "flush"
    BY <2>1, HeadAndTail, NewJobs
  <2>3. /\ DOMAIN micro' = DOMAIN micro /\ micro'[1] = FlushJob(Tail(Now.items))
        /\ \A k \in DOMAIN micro : k # 1 => micro'[k] = micro[k]
    BY <1>1, <2>1, <2>2, Replacing
  <2>4. HasJob("flush")'
    BY <1>1, <2>2, <2>3 DEF HasJob
  <2>5. HasJob("end") => HasJob("end")'
    BY <1>1, <2>1, <2>3 DEF HasJob
  <2>6. ~EndDue(ended, buf, flushing, flowing, Listening)'
    BY <2>1 DEF OwedInv, EndDue, Listening
  <2> QED
    BY <2>1, <2>4, <2>5, <2>6 DEF OwedInv
<1>5. CASE FlushDone
  <2>1. /\ Now.job = "flush" /\ flushing' = FALSE
        /\ MaybeEnd(ended, buf, FALSE, flowing, Listening, rest)
        /\ UNCHANGED <<buf, ended, flowing, parked, data, onEnd, ends, torn>>
    BY <1>5 DEF FlushDone, listeners, flags
  <2>2. endEmitted => ends = 1 \/ \E i \in DOMAIN rest : rest[i].job = "end"
    BY <1>2, <2>1 DEF OwedInv
  <2> HIDE DEF rest
  <2>3. /\ ~(ended /\ ~endEmitted' /\ ~FALSE /\ buf = <<>> /\ (flowing \/ Listening))
        /\ endEmitted' => ends' = 1 \/ HasJob("end")'
    BY <1>1, <2>1, <2>2, MaybeEndOwes
  <2>4. ~EndDue(ended, buf, flushing, flowing, Listening)'
    BY <2>1, <2>3 DEF EndDue, Listening
  <2> QED
    BY <2>1, <2>3, <2>4 DEF OwedInv
<1>6. CASE RunEnd
  <2>1. /\ Now.job = "end" /\ ends' = ends + 1 /\ parked' = FALSE
        /\ micro' = Append(rest, CloseJob) \/ micro' = rest
        /\ UNCHANGED <<buf, ended, endEmitted, flushing, flowing, data, onEnd, torn>>
    BY <1>6 DEF RunEnd, listeners, flags
  <2>2. endEmitted /\ ends' = 1 /\ ~flushing
    BY <1>1, <2>1 DEF IInv, EndInv
  <2>3. ~EndDue(ended, buf, flushing, flowing, Listening)'
    BY <2>1, <2>2 DEF EndDue
  <2> QED
    BY <2>1, <2>2, <2>3 DEF OwedInv
<1> QED
  BY <1>3, <1>4, <1>5, <1>6 DEF RunJob

\* What a stream owes to whoever reads it, it has done when it is at rest: the
\* part of ReaderGetsEnd and DestroyedCloses that is not about time.
THEOREM RestIsDone == Spec => []AtRest
<1>1. Init => OwedInv
  <2> SUFFICES ASSUME Init PROVE OwedInv
    OBVIOUS
  <2> QED
    BY DEF Init, OwedInv, EndDue, Listening
<1>2. IInv /\ OwedInv /\ [Next]_vars => OwedInv'
  <2> SUFFICES ASSUME IInv, OwedInv, [Next]_vars PROVE OwedInv'
    OBVIOUS
  <2>1. CASE UNCHANGED vars
    <3>1. UNCHANGED <<buf, ended, endEmitted, flushing, flowing, parked, data, onEnd, micro, ends, torn>>
      BY <2>1 DEF vars, state, listeners, observed, flags
    <3>2. ~EndDue(ended, buf, flushing, flowing, Listening)'
      BY <3>1 DEF OwedInv, EndDue, Listening
    <3> QED
      BY <3>1, <3>2 DEF OwedInv, HasJob
  <2> QED
    BY <2>1, ProducerOwes, ReaderOwes, CloserOwes, JobOwes DEF Next, Consumer
<1>3. IInv /\ OwedInv => AtRest
  <2> SUFFICES ASSUME IInv, OwedInv, micro = <<>> PROVE AtRest
    BY DEF AtRest
  <2>1. \A name : ~HasJob(name)
    BY DEF HasJob
  <2>2. ~flushing /\ (endEmitted => ends = 1)
    BY <2>1 DEF OwedInv
  <2>3. ASSUME ~torn, data # "none" \/ flowing
        PROVE  buf = <<>> /\ ToSet(delivered) = (1..pushed) \ dropped
    <3>1. buf = <<>>
      BY <2>3 DEF OwedInv, IInv, LineInv
    <3>2. Waiting = {} /\ ToSet(buf) = {}
      BY <3>1, ShortLines DEF Waiting
    <3>3. ToSet(delivered) \cup Waiting \cup ToSet(buf) = (1..pushed) \ dropped
      BY <2>3 DEF IInv, LineInv
    <3> QED
      BY <3>1, <3>2, <3>3
  <2>4. ASSUME buf = <<>>, flowing \/ Listening
        PROVE  (ended => ends = 1) /\ (destroyed => closes = 1)
    <3>1. ended => ends = 1
      BY <2>2, <2>4 DEF OwedInv, EndDue
    <3>2. ~parked
      BY <3>1 DEF OwedInv
    <3>3. destroyed => closes = 1
      BY <3>2 DEF IInv, CloseInv
    <3> QED
      BY <3>1, <3>3
  <2> QED
    BY <2>3, <2>4 DEF AtRest
<1> QED
  BY Inductive, <1>1, <1>2, <1>3, PTL DEF Spec
=============================================================================
