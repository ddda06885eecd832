------------------------- MODULE ChildProcessProofs -------------------------
(***************************************************************************)
(* Proofs about ChildProcess, for any streams, chunks and calls on stdin:  *)
(* output reaches the collector in order and is not lost, and the child's  *)
(* life is reported once and in order.                                     *)
(***************************************************************************)
EXTENDS ChildProcess, TLAPS, FiniteSetTheorems

-----------------------------------------------------------------------------
\* All of s's pipe has been read, and nobody is left to write more.
Over(s) == taken[s] = wrote[s] /\ child # "running" /\ ~orphan

\* A loop has one read, outstanding or queued; queued, it is behind all that the
\* stream has queued.  A loop ends at the end of its pipe, or because of a cancel.
DrainInv ==
  /\ \A i \in DOMAIN micro :
       /\ micro[i].job \notin {"read", "data"} => micro[i].of = "none" /\ micro[i].chunk = 0
       /\ micro[i].job = "data" => micro[i].of \in Streams /\ micro[i].chunk # 0
       /\ micro[i].job = "read" =>
            /\ micro[i].of \in Streams /\ ~awaiting[micro[i].of] /\ child # "unlaunched"
            /\ micro[i].chunk = 0 => cancelled[micro[i].of] \/ Over(micro[i].of)
            /\ \A j \in DOMAIN micro : micro[j].of = micro[i].of => j <= i
  /\ \A s \in Streams :
       /\ awaiting[s] => child # "unlaunched"
       /\ ended[s] => cancelled[s] \/ Over(s)
       /\ torn[s] => cancelled[s] \/ child = "unlaunched"
  /\ child = "unlaunched" => ~orphan

Final == {"exit", "waitError", "close", "unlaunched"}

\* One job at a time carries the child's life on, and each event has its moment.
LifeInv ==
  /\ child = "running" => status = "none"
  /\ child # "gone" => waited = "pending"
  /\ \A i \in DOMAIN micro : micro[i].job \in Final =>
       /\ \A j \in DOMAIN micro : micro[j].job \in Final => j = i
       /\ micro[i].job \in {"exit", "waitError"} => waited = "settled"
       /\ micro[i].job = "close" => waited = "handled" /\ Happened("exit") /\ ~Happened("close")
       /\ micro[i].job = "unlaunched" => child = "unlaunched" /\ ~Happened("error")
  /\ Happened("exit") => waited = "handled"
  /\ Happened("error") => waited = "handled" \/ child = "unlaunched"
  /\ Happened("close") => Happened("exit") \/ Happened("error")
  /\ callbacks # <<>> => Happened("exit") \/ Happened("error")
  /\ Happened("spawn") => ~spawnTimer

\* OutputInOrder, chunk by chunk.
LineInv ==
  \A s \in Streams :
    /\ Len(collected[s]) <= taken[s] /\ \A n \in DOMAIN collected[s] : collected[s][n] = n
    /\ \A i \in DOMAIN micro : micro[i].of = s /\ micro[i].chunk # 0 =>
         /\ Len(collected[s]) < micro[i].chunk /\ micro[i].chunk <= taken[s]
         /\ \A j \in DOMAIN micro :
              micro[j].of = s /\ micro[j].chunk # 0 /\ i < j => micro[i].chunk < micro[j].chunk
    /\ \A c \in (Len(collected[s]) + 1)..taken[s] :
         \E i \in DOMAIN micro : micro[i].of = s /\ micro[i].chunk = c

IInv == TypeOK /\ DrainInv /\ LineInv /\ LifeInv /\ LifecycleInOrder
-----------------------------------------------------------------------------
\* The queue, after the first k jobs are taken and those of new are added.
Follows(k, new) ==
  /\ micro' \in Seq(Jobs) /\ new \in Seq(Jobs)
  /\ k \in {0, 1} /\ Len(micro) \in Nat /\ Len(new) \in Nat /\ k <= Len(micro)
  /\ DOMAIN micro = 1..Len(micro) /\ DOMAIN new = 1..Len(new)
  /\ DOMAIN micro' = 1..(Len(micro) - k + Len(new))
  /\ \A i \in 1..(Len(micro) - k) : micro'[i] = micro[i + k]
  /\ \A i \in DOMAIN new : micro'[Len(micro) - k + i] = new[i]

LEMMA ElementTyped ==
  ASSUME NEW S, NEW q \in Seq(S), NEW i \in DOMAIN q
  PROVE  q[i] \in S
OBVIOUS

LEMMA Appending ==
  ASSUME micro \in Seq(Jobs), NEW new \in Seq(Jobs), micro' = micro \o new
  PROVE  Follows(0, new)
BY DEF Follows

LEMMA Taking ==
  ASSUME micro \in Seq(Jobs), micro # <<>>, NEW new \in Seq(Jobs), micro' = Tail(micro) \o new
  PROVE  Follows(1, new) /\ Head(micro) = micro[1] /\ 1 \in DOMAIN micro
<1>1. /\ Tail(micro) \in Seq(Jobs) /\ Len(Tail(micro)) = Len(micro) - 1
      /\ Len(micro) \in Nat \ {0} /\ Len(new) \in Nat
      /\ \A i \in 1..(Len(micro) - 1) : Tail(micro)[i] = micro[i + 1]
  OBVIOUS
<1> DEFINE t == Tail(micro)
<1>2. Head(micro) = micro[1] /\ 1 \in DOMAIN micro
  OBVIOUS
<1> HIDE DEF t
<1>3. /\ t \o new \in Seq(Jobs) /\ Len(t \o new) = Len(t) + Len(new)
      /\ \A i \in 1..Len(t) : (t \o new)[i] = t[i]
      /\ \A i \in 1..Len(new) : (t \o new)[Len(t) + i] = new[i]
  BY <1>1 DEF t
<1>4. micro' = t \o new /\ Len(t) = Len(micro) - 1
  BY <1>1 DEF t
<1>5. \A i \in 1..(Len(micro) - 1) : t[i] = micro[i + 1]
  BY <1>1 DEF t
<1>6. DOMAIN micro' = 1..(Len(micro) - 1 + Len(new))
  BY <1>1, <1>3, <1>4
<1>7. \A i \in 1..(Len(micro) - 1) : micro'[i] = micro[i + 1]
  BY <1>3, <1>4, <1>5
<1>8. \A i \in DOMAIN new : micro'[Len(micro) - 1 + i] = new[i]
  BY <1>1, <1>3, <1>4
<1> QED
  BY <1>1, <1>2, <1>3, <1>4, <1>6, <1>7, <1>8 DEF Follows

LEMMA JobTyped ==
  /\ \A n \in {"exit", "close", "waitError", "unlaunched", "stdinClose", "stdinFinish"} :
       Job(n) \in Jobs /\ Job(n).job = n /\ Job(n).of = "none" /\ Job(n).chunk = 0
  /\ \A n \in {"read", "data"}, s \in Streams, c \in 0..MaxChunks :
       /\ StreamJob(n, s, c) \in Jobs /\ StreamJob(n, s, c).job = n
       /\ StreamJob(n, s, c).of = s /\ StreamJob(n, s, c).chunk = c
<1>1. ASSUME NEW n \in {"exit", "close", "waitError", "unlaunched", "stdinClose", "stdinFinish"}
      PROVE  Job(n) \in Jobs /\ Job(n).job = n /\ Job(n).of = "none" /\ Job(n).chunk = 0
  BY ChildProcessAssumption DEF Job, Jobs, ChildProcessAssumption
<1>2. ASSUME NEW n \in {"read", "data"}, NEW s \in Streams, NEW c \in 0..MaxChunks
      PROVE  /\ StreamJob(n, s, c) \in Jobs /\ StreamJob(n, s, c).job = n
             /\ StreamJob(n, s, c).of = s /\ StreamJob(n, s, c).chunk = c
  BY DEF StreamJob, Jobs
<1> QED
  BY <1>1, <1>2

\* A finite set in some order.
LEMMA SetToSeqIs ==
  ASSUME NEW S, IsFiniteSet(S)
  PROVE  /\ SetToSeq(S) \in Seq(S)
         /\ \A i, j \in DOMAIN SetToSeq(S) : SetToSeq(S)[i] = SetToSeq(S)[j] => i = j
<1>1. Cardinality(S) \in Nat /\ ExistsBijection(1..Cardinality(S), S)
  BY FS_CardinalityType
<1>2. \E f \in [1..Cardinality(S) -> S] : IsInjective(f)
  BY <1>1 DEF ExistsBijection, Bijection, Injection, Surjection, IsInjective
<1>3. SetToSeq(S) \in [1..Cardinality(S) -> S] /\ IsInjective(SetToSeq(S))
  BY <1>2 DEF SetToSeq
<1> QED
  BY <1>1, <1>3 DEF IsInjective

\* What a cancel adds for the streams in S: one read each, with no chunk.
Ends(S) == SetToSeq({StreamJob("read", s, 0) : s \in S})

LEMMA EndsAre ==
  ASSUME NEW S \in SUBSET Streams
  PROVE  /\ Ends(S) \in Seq(Jobs)
         /\ \A i \in DOMAIN Ends(S) : /\ Ends(S)[i].job = "read" /\ Ends(S)[i].of \in S
                                      /\ Ends(S)[i].chunk = 0
         /\ \A i, j \in DOMAIN Ends(S) : Ends(S)[i].of = Ends(S)[j].of => i = j
<1> DEFINE R == {StreamJob("read", s, 0) : s \in S}
<1>1. IsFiniteSet(S)
  BY ChildProcessAssumption, FS_Subset DEF ChildProcessAssumption
<1>2. IsFiniteSet(R)
  <2> DEFINE f == [s \in S |-> StreamJob("read", s, 0)]
  <2>1. f \in Surjection(S, R)
    BY DEF Surjection
  <2> QED
    BY <1>1, <2>1, FS_Surjection
<1>3. R \subseteq Jobs /\ \A r \in R : r.job = "read" /\ r.of \in S /\ r.chunk = 0
                                      /\ r = StreamJob("read", r.of, 0)
  <2>1. 0 \in 0..MaxChunks
    BY ChildProcessAssumption DEF ChildProcessAssumption
  <2>2. ASSUME NEW s \in S
        PROVE  /\ StreamJob("read", s, 0) \in Jobs /\ StreamJob("read", s, 0).job = "read"
               /\ StreamJob("read", s, 0).of = s /\ StreamJob("read", s, 0).chunk = 0
    BY <2>1, JobTyped
  <2> QED
    BY <2>2
<1>4. /\ Ends(S) \in Seq(R)
      /\ \A i, j \in DOMAIN Ends(S) : Ends(S)[i] = Ends(S)[j] => i = j
  BY <1>2, SetToSeqIs DEF Ends
<1>5. \A i \in DOMAIN Ends(S) : Ends(S)[i] \in R
  BY <1>4
<1>6. Ends(S) \in Seq(Jobs)
  BY <1>3, <1>4, <1>5
<1> QED
  BY <1>3, <1>4, <1>5, <1>6

\* Where each job comes from, and where each goes.
LEMMA Shifted ==
  ASSUME NEW k, NEW new, Follows(k, new)
  PROVE  /\ k \in {0, 1}
         /\ \A i \in DOMAIN micro : i \in Nat /\ i >= 1
         /\ \A i \in DOMAIN micro : i > k => i - k \in DOMAIN micro' /\ micro'[i - k] = micro[i]
         /\ \A n \in DOMAIN new : /\ Len(micro) - k + n \in DOMAIN micro'
                                  /\ micro'[Len(micro) - k + n] = new[n]
         /\ \A i \in DOMAIN micro' :
              \/ i + k \in DOMAIN micro /\ micro'[i] = micro[i + k]
              \/ \E n \in DOMAIN new : i = Len(micro) - k + n /\ micro'[i] = new[n]
<1> USE DEF Follows
<1>1. ASSUME NEW i \in DOMAIN micro, i > k PROVE i - k \in DOMAIN micro' /\ micro'[i - k] = micro[i]
  <2>1. i - k \in 1..(Len(micro) - k) /\ (i - k) + k = i /\ i - k \in DOMAIN micro'
    BY <1>1
  <2>2. micro'[i - k] = micro[(i - k) + k]
    BY <2>1
  <2> QED
    BY <2>1, <2>2
<1>2. ASSUME NEW n \in DOMAIN new
      PROVE  Len(micro) - k + n \in DOMAIN micro' /\ micro'[Len(micro) - k + n] = new[n]
  BY <1>2
<1>3. ASSUME NEW i \in DOMAIN micro', i <= Len(micro) - k
      PROVE  i + k \in DOMAIN micro /\ micro'[i] = micro[i + k]
  BY <1>3
<1>4. ASSUME NEW i \in DOMAIN micro', i > Len(micro) - k
      PROVE  \E n \in DOMAIN new : i = Len(micro) - k + n /\ micro'[i] = new[n]
  <2> DEFINE n == i - (Len(micro) - k)
  <2>1. n \in DOMAIN new /\ i = Len(micro) - k + n
    BY <1>4
  <2> QED
    BY <2>1
<1> QED
  BY <1>1, <1>2, <1>3, <1>4

\* A job that is not the child's disturbs nothing of its life.
LEMMA LifeInvFrame ==
  ASSUME IInv, NEW k, NEW new, Follows(k, new), \A i \in DOMAIN new : new[i].job \notin Final,
         UNCHANGED <<child, status, waited, events, callbacks, spawnTimer>>
  PROVE  LifeInv'
<1> USE DEF IInv, LifeInv, Happened
<1>1. \A i \in DOMAIN micro' : micro'[i].job \in Final =>
        /\ i + k \in DOMAIN micro /\ micro'[i] = micro[i + k]
  BY Shifted
<1>2. ASSUME NEW i \in DOMAIN micro', micro'[i].job \in Final,
             NEW j \in DOMAIN micro', micro'[j].job \in Final
      PROVE  j = i
  <2>1. i + k = j + k
    BY <1>1, <1>2
  <2>2. i \in Nat /\ j \in Nat /\ k \in {0, 1}
    BY DEF Follows
  <2> QED
    BY <2>1, <2>2
<1> QED
  BY <1>1, <1>2

LEMMA PrefixFacts ==
  ASSUME NEW S, NEW s \in Seq(S), NEW t \in Seq(S), NEW x \in S
  PROVE  IsPrefix(t, t) /\ (IsPrefix(s, t) => IsPrefix(s, Append(t, x)))
BY DEF IsPrefix

\* What the collector gathers later comes behind what execFile handed over.
LEMMA LifecycleFrame ==
  ASSUME IInv, UNCHANGED <<child, status, events, callbacks>>,
         \A s \in Streams : \/ collected'[s] = collected[s]
                            \/ \E c \in 1..MaxChunks : collected'[s] = Append(collected[s], c)
  PROVE  LifecycleInOrder'
<1> USE DEF IInv, LifecycleInOrder, Happened
<1>1. ASSUME NEW i \in DOMAIN callbacks, NEW s \in Streams
      PROVE  IsPrefix(callbacks[i].out[s], collected'[s])
  <2>1. callbacks[i].out[s] \in Seq(1..MaxChunks) /\ collected[s] \in Seq(1..MaxChunks)
    <3>1. callbacks[i] \in [failed : BOOLEAN, out : Outputs]
      BY ElementTyped DEF TypeOK
    <3>2. callbacks[i].out \in Outputs
      BY <3>1
    <3> QED
      BY <3>2 DEF TypeOK, Outputs
  <2>2. IsPrefix(callbacks[i].out[s], collected[s])
    OBVIOUS
  <2>3. CASE collected'[s] = collected[s]
    BY <2>2, <2>3
  <2>4. ASSUME NEW c \in 1..MaxChunks, collected'[s] = Append(collected[s], c)
        PROVE  IsPrefix(callbacks[i].out[s], collected'[s])
    <3>1. IsPrefix(callbacks[i].out[s], Append(collected[s], c))
      BY <2>1, <2>2, PrefixFacts
    <3> QED
      BY <2>4, <3>1
  <2> QED
    BY <2>3, <2>4
<1> QED
  BY <1>1

LEMMA LifeFrame ==
  ASSUME IInv, NEW k, NEW new, Follows(k, new), \A i \in DOMAIN new : new[i].job \notin Final,
         UNCHANGED <<child, status, waited, events, callbacks, spawnTimer, collected>>
  PROVE  LifeInv' /\ LifecycleInOrder'
BY LifeInvFrame, LifecycleFrame

\* A job that is no stream's disturbs nothing of the streams.
LEMMA DrainFrame ==
  ASSUME IInv, NEW k, NEW new, Follows(k, new),
         k = 1 => micro[1].job \notin {"read", "data"},
         \A i \in DOMAIN new : /\ new[i].job \notin {"read", "data"}
                               /\ new[i].of = "none" /\ new[i].chunk = 0,
         UNCHANGED <<child, pipes, drains, collected>>
  PROVE  DrainInv' /\ LineInv'
<1> USE ChildProcessAssumption DEF ChildProcessAssumption, IInv, pipes, drains
<1>1. \A i \in DOMAIN micro' :
        \/ i + k \in DOMAIN micro /\ micro'[i] = micro[i + k]
        \/ /\ micro'[i].job \notin {"read", "data"} /\ micro'[i].of = "none"
           /\ micro'[i].chunk = 0
  BY Shifted
<1>2. k \in {0, 1} /\ \A i \in DOMAIN micro' : i \in Nat
  BY DEF Follows
<1>3. DrainInv'
  <2> USE DEF DrainInv, Over
  <2>1. ASSUME NEW i \in DOMAIN micro', micro'[i].job = "read", NEW j \in DOMAIN micro',
               micro'[j].of = micro'[i].of
        PROVE  j <= i
    <3>1. i + k \in DOMAIN micro /\ micro'[i] = micro[i + k] /\ micro'[i].of # "none"
      BY <1>1, <2>1
    <3>2. j + k \in DOMAIN micro /\ micro'[j] = micro[j + k]
      BY <1>1, <2>1, <3>1
    <3>3. j + k <= i + k
      BY <2>1, <3>1, <3>2
    <3> QED
      BY <1>2, <3>3
  <2> QED
    BY <1>1, <2>1
<1>4. LineInv'
  <2> USE DEF LineInv
  <2> SUFFICES ASSUME NEW s \in Streams
               PROVE  /\ Len(collected[s]) <= taken[s] /\ \A n \in DOMAIN collected[s] : collected[s][n] = n
                      /\ \A i \in DOMAIN micro' : micro'[i].of = s /\ micro'[i].chunk # 0 =>
                           /\ Len(collected[s]) < micro'[i].chunk /\ micro'[i].chunk <= taken[s]
                           /\ \A j \in DOMAIN micro' :
                                micro'[j].of = s /\ micro'[j].chunk # 0 /\ i < j
                                  => micro'[i].chunk < micro'[j].chunk
                      /\ \A c \in (Len(collected[s]) + 1)..taken[s] :
                           \E i \in DOMAIN micro' : micro'[i].of = s /\ micro'[i].chunk = c
    OBVIOUS
  <2>1. ASSUME NEW i \in DOMAIN micro', micro'[i].of = s, micro'[i].chunk # 0
        PROVE  i + k \in DOMAIN micro /\ micro'[i] = micro[i + k]
    BY <1>1, <2>1
  <2>2. ASSUME NEW i \in DOMAIN micro', micro'[i].of = s, micro'[i].chunk # 0,
               NEW j \in DOMAIN micro', micro'[j].of = s, micro'[j].chunk # 0, i < j
        PROVE  micro'[i].chunk < micro'[j].chunk
    <3>1. i + k < j + k
      BY <1>2, <2>2
    <3> QED
      BY <2>1, <2>2, <3>1
  <2>3. ASSUME NEW c \in (Len(collected[s]) + 1)..taken[s]
        PROVE  \E i \in DOMAIN micro' : micro'[i].of = s /\ micro'[i].chunk = c
    <3>1. PICK i \in DOMAIN micro : micro[i].of = s /\ micro[i].chunk = c
      BY <2>3
    <3>2. c # 0
      BY DEF TypeOK, Outputs
    <3>3. i > k
      BY <1>2, <3>1, <3>2, Shifted DEF DrainInv
    <3> QED
      BY <3>1, <3>3, Shifted
  <2> QED
    BY <2>1, <2>2, <2>3
<1> QED
  BY <1>3, <1>4

-----------------------------------------------------------------------------
LEMMA Queued ==
  ASSUME micro \in Seq(Jobs), NEW j \in Jobs, micro' = Append(micro, j)
  PROVE  Follows(0, <<j>>) /\ DOMAIN <<j>> = {1} /\ <<j>>[1] = j
<1>1. <<j>> \in Seq(Jobs) /\ micro' = micro \o <<j>> /\ DOMAIN <<j>> = {1} /\ <<j>>[1] = j
  OBVIOUS
<1> QED
  BY <1>1, Appending

LEMMA Taken ==
  ASSUME micro \in Seq(Jobs), micro # <<>>, micro' = Tail(micro)
  PROVE  Follows(1, <<>>) /\ DOMAIN <<>> = {} /\ Head(micro) = micro[1] /\ 1 \in DOMAIN micro
<1>1. <<>> \in Seq(Jobs) /\ Tail(micro) = Tail(micro) \o <<>> /\ DOMAIN <<>> = {}
  OBVIOUS
<1> QED
  BY <1>1, Taking

In(q, e) == \E i \in DOMAIN q : q[i] = e
Ordered(q) ==
  /\ \A i, j \in DOMAIN q : q[i] = q[j] => i = j
  /\ ~(In(q, "exit") /\ In(q, "error"))
  /\ \A i \in DOMAIN q : q[i] = "close" => \E j \in 1..(i - 1) : q[j] \in {"exit", "error"}

\* An event that has not happened, in its place, keeps the order.
LEMMA EventInOrder ==
  ASSUME NEW q \in Seq(Events), NEW e \in Events
  PROVE  /\ Append(q, e) \in Seq(Events)
         /\ \A x : In(Append(q, e), x) <=> In(q, x) \/ x = e
         /\ Ordered(q) /\ ~In(q, e) /\ (e = "exit" => ~In(q, "error"))
              /\ (e = "error" => ~In(q, "exit"))
              /\ (e = "close" => In(q, "exit") \/ In(q, "error"))
            => Ordered(Append(q, e))
<1> DEFINE r == Append(q, e)
<1>1. /\ r \in Seq(Events) /\ Len(q) \in Nat /\ DOMAIN q = 1..Len(q) /\ DOMAIN r = 1..(Len(q) + 1)
      /\ \A i \in 1..Len(q) : r[i] = q[i]
      /\ r[Len(q) + 1] = e
  OBVIOUS
<1> HIDE DEF r
<1>2. \A x : In(r, x) <=> In(q, x) \/ x = e
  <2> SUFFICES ASSUME NEW x PROVE In(r, x) <=> In(q, x) \/ x = e
    OBVIOUS
  <2>1. In(q, x) => In(r, x)
    BY <1>1 DEF In
  <2>2. x = e => In(r, x)
    BY <1>1 DEF In
  <2>3. In(r, x) => In(q, x) \/ x = e
    BY <1>1 DEF In
  <2> QED
    BY <2>1, <2>2, <2>3
<1>3. ASSUME Ordered(q), ~In(q, e), e = "exit" => ~In(q, "error"), e = "error" => ~In(q, "exit"),
             e = "close" => In(q, "exit") \/ In(q, "error")
      PROVE  Ordered(r)
  <2>1. \A i, j \in DOMAIN r : r[i] = r[j] => i = j
    BY <1>1, <1>3 DEF Ordered, In
  <2>2. ~(In(r, "exit") /\ In(r, "error"))
    BY <1>2, <1>3 DEF Ordered
  <2>3. ASSUME NEW i \in DOMAIN r, r[i] = "close"
        PROVE  \E j \in 1..(i - 1) : r[j] \in {"exit", "error"}
    <3>1. CASE i \in DOMAIN q
      <4>1. PICK j \in 1..(i - 1) : q[j] \in {"exit", "error"}
        BY <1>1, <1>3, <2>3, <3>1 DEF Ordered
      <4>2. j \in 1..Len(q)
        BY <1>1, <3>1, <4>1
      <4> QED
        BY <1>1, <4>1, <4>2
    <3>2. CASE i = Len(q) + 1
      <4>1. PICK j \in DOMAIN q : q[j] \in {"exit", "error"}
        BY <1>1, <1>3, <2>3, <3>2 DEF In
      <4> QED
        BY <1>1, <3>2, <4>1
    <3> QED
      BY <1>1, <3>1, <3>2
  <2> QED
    BY <2>1, <2>2, <2>3 DEF Ordered
<1> QED
  BY <1>1, <1>2, <1>3 DEF r

\* What execFile hands over, collected or nothing, is a prefix of what is collected.
LEMMA HandedOver ==
  ASSUME IInv
  PROVE  /\ collected \in Outputs /\ \A s \in Streams : IsPrefix(collected[s], collected[s])
         /\ Nothing \in Outputs /\ \A s \in Streams : IsPrefix(Nothing[s], collected[s])
<1>1. collected \in Outputs
  BY DEF IInv, TypeOK
<1>2. Nothing \in Outputs /\ \A s \in Streams : Nothing[s] = <<>>
  BY DEF Nothing, Outputs
<1>3. ASSUME NEW s \in Streams
      PROVE  IsPrefix(collected[s], collected[s]) /\ IsPrefix(<<>>, collected[s])
  <2>1. collected[s] \in Seq(1..MaxChunks)
    BY <1>1 DEF Outputs
  <2> QED
    BY <2>1 DEF IsPrefix
<1> QED
  BY <1>1, <1>2, <1>3

\* The first call of the callback, and what it gets.
LEMMA FirstCallback ==
  ASSUME callbacks = <<>>, NEW f \in BOOLEAN, NEW t \in BOOLEAN, NEW o \in Outputs,
         Callback(f, o, t)
  PROVE  /\ callbacks' \in Seq([failed : BOOLEAN, out : Outputs]) /\ threw' \in BOOLEAN
         /\ DOMAIN callbacks' = {1} /\ Len(callbacks') = 1 /\ callbacks' # <<>>
         /\ callbacks'[1].failed = f /\ callbacks'[1].out = o
<1> DEFINE c == [failed |-> f, out |-> o]
<1>1. c \in [failed : BOOLEAN, out : Outputs] /\ c.failed = f /\ c.out = o
  OBVIOUS
<1>2. callbacks' = <<c>> /\ threw' = t
  BY DEF Callback
<1> HIDE DEF c
<1>3. /\ <<c>> \in Seq([failed : BOOLEAN, out : Outputs]) /\ DOMAIN <<c>> = {1}
      /\ Len(<<c>>) = 1 /\ <<c>> # <<>> /\ <<c>>[1] = c
  BY <1>1
<1> QED
  BY <1>1, <1>2, <1>3

LEMMA LifecycleIs ==
  LifecycleInOrder <=>
    /\ Ordered(events)
    /\ child = "unlaunched" => ~In(events, "exit")
    /\ Len(callbacks) <= 1
    /\ \A i \in DOMAIN callbacks :
         /\ ~callbacks[i].failed => status = "ok" /\ In(events, "exit")
         /\ \A s \in Streams : IsPrefix(callbacks[i].out[s], collected[s])
BY DEF LifecycleInOrder, Ordered, In, Happened

-----------------------------------------------------------------------------
\* stdin has its own events, and shares the queue.
LEMMA StdinKeeps ==
  ASSUME IInv, StdinEnd \/ StdinDestroyed \/ RunStdin
  PROVE  IInv'
<1> USE DEF IInv
<1>1. UNCHANGED <<child, status, pipes, drains, collected, waited, spawnTimer, outcome>>
  BY DEF StdinEnd, StdinDestroyed, RunStdin
<1>2. \E k, new : /\ Follows(k, new) /\ (k = 1 => micro[1].job \notin {"read", "data"})
                  /\ \A i \in DOMAIN new : /\ new[i].job \in {"stdinClose", "stdinFinish"}
                                           /\ new[i].of = "none" /\ new[i].chunk = 0
  <2>1. CASE StdinEnd
    <3> DEFINE j == Job("stdinFinish")
    <3>1. j \in Jobs /\ j.job = "stdinFinish" /\ j.of = "none" /\ j.chunk = 0
      BY JobTyped
    <3>2. micro' = Append(micro, j)
      BY <2>1 DEF StdinEnd
    <3> HIDE DEF j
    <3>3. Follows(0, <<j>>) /\ DOMAIN <<j>> = {1} /\ <<j>>[1] = j
      BY <3>1, <3>2, Queued DEF TypeOK
    <3> QED
      BY <3>1, <3>3
  <2>2. CASE StdinDestroyed
    <3> DEFINE j == Job("stdinClose")
    <3>1. j \in Jobs /\ j.job = "stdinClose" /\ j.of = "none" /\ j.chunk = 0
      BY JobTyped
    <3>2. micro' = Append(micro, j)
      BY <2>2 DEF StdinDestroyed, StdinDestroy
    <3> HIDE DEF j
    <3>3. Follows(0, <<j>>) /\ DOMAIN <<j>> = {1} /\ <<j>>[1] = j
      BY <3>1, <3>2, Queued DEF TypeOK
    <3> QED
      BY <3>1, <3>3
  <2>3. CASE RunStdin
    <3>1. micro # <<>> /\ micro' = Tail(micro) /\ Head(micro).job \in {"stdinClose", "stdinFinish"}
      BY <2>3 DEF RunStdin, Due, Rest
    <3> QED
      BY <3>1, Taken DEF TypeOK
  <2> QED
    BY <2>1, <2>2, <2>3
<1>3. PICK k, new : /\ Follows(k, new) /\ (k = 1 => micro[1].job \notin {"read", "data"})
                    /\ \A i \in DOMAIN new : /\ new[i].job \in {"stdinClose", "stdinFinish"}
                                             /\ new[i].of = "none" /\ new[i].chunk = 0
  BY <1>2
<1>4. DrainInv' /\ LineInv'
  BY <1>1, <1>3, DrainFrame
<1>5. LifeInv' /\ LifecycleInOrder'
  BY <1>1, <1>3, LifeFrame DEF Final, outcome
<1>6. micro' \in Seq(Jobs)
  BY <1>3 DEF Follows
<1>7. /\ stdinEnded' \in BOOLEAN /\ stdinNative' \in {"open", "closed"}
      /\ stdinEvents' \in Seq({"finish", "close"}) /\ calls' \in 0..MaxCalls
  <2> USE DEF TypeOK
  <2>1. CASE StdinEnd
    BY <2>1, ChildProcessAssumption DEF StdinEnd, Call, ChildProcessAssumption
  <2>2. CASE StdinDestroyed
    BY <2>2, ChildProcessAssumption DEF StdinDestroyed, StdinDestroy, Call, ChildProcessAssumption
  <2>3. CASE RunStdin
    <3>1. /\ stdinEvents \o <<"finish", "close">> \in Seq({"finish", "close"})
          /\ Append(stdinEvents, "close") \in Seq({"finish", "close"})
      OBVIOUS
    <3>2. stdinEvents' \in Seq({"finish", "close"})
      BY <2>3, <3>1 DEF RunStdin
    <3> QED
      BY <2>3, <3>2 DEF RunStdin
  <2> QED
    BY <2>1, <2>2, <2>3
<1>8. TypeOK'
  BY <1>1, <1>6, <1>7 DEF TypeOK, pipes, drains, outcome
<1> QED
  BY <1>4, <1>5, <1>8

\* wait() settles once, when nothing else of the child's life is queued.
LEMMA WaitSettlesKeeps ==
  ASSUME IInv, NEW ok \in BOOLEAN, WaitSettles(ok)
  PROVE  IInv'
<1> USE DEF IInv, WaitSettles
<1> DEFINE j == Job(IF ok THEN "exit" ELSE "waitError")
<1>1. j \in Jobs /\ j.job \in {"exit", "waitError"} /\ j.of = "none" /\ j.chunk = 0
  BY JobTyped
<1> HIDE DEF j
<1>2. micro' = Append(micro, j)
  BY DEF j
<1>3. Follows(0, <<j>>) /\ DOMAIN <<j>> = {1} /\ <<j>>[1] = j
  BY <1>1, <1>2, Queued DEF TypeOK
<1>4. DrainInv' /\ LineInv'
  BY <1>1, <1>3, DrainFrame
<1>5. LifecycleInOrder'
  BY LifecycleFrame DEF outcome
<1>6. LifeInv'
  <2> USE DEF LifeInv, Happened, outcome
  <2>1. \A i \in DOMAIN micro : micro[i].job \notin Final
    BY DEF Final
  <2>2. \A i \in DOMAIN micro' : micro'[i].job \in Final => i = Len(micro) + 1 /\ micro'[i] = j
    BY <1>3, <2>1 DEF Follows
  <2>3. waited' = "settled" /\ child' = child /\ child = "gone"
    OBVIOUS
  <2> QED
    BY <1>1, <2>2, <2>3
<1>7. TypeOK'
  BY <1>3 DEF TypeOK, Follows, pipes, drains, outcome, stdin
<1> QED
  BY <1>4, <1>5, <1>6, <1>7

\* The child and its descendant write, fork and exit; the loops see it later.
LEMMA OsKeeps ==
  ASSUME IInv, Os
  PROVE  IInv'
<1> USE DEF IInv
<1>1. UNCHANGED <<drains, collected, waited, spawnTimer, micro, outcome, stdin>>
  BY DEF Os, Fork, PipeWrite, Exit
<1>2. \A s \in Streams : ~Over(s)
  BY DEF Os, Fork, PipeWrite, Exit, Over
<1>3. /\ child \in {"running", "gone"} /\ child' \in {"running", "gone"}
      /\ \/ child' = child /\ status' = status
         \/ child = "running" /\ child' = "gone"
  <2>1. CASE Fork
    BY <2>1 DEF Fork
  <2>2. ASSUME NEW s \in Streams, PipeWrite(s)
        PROVE  child \in {"running", "gone"} /\ child' = child /\ status' = status
    BY <2>2 DEF PipeWrite, TypeOK, DrainInv
  <2>3. ASSUME NEW how \in {"ok", "nonzero", "signal"}, Exit(how)
        PROVE  child = "running" /\ child' = "gone"
    BY <2>3 DEF Exit
  <2> QED
    BY <2>1, <2>2, <2>3 DEF Os
<1>4. TypeOK'
  <2> USE DEF TypeOK, drains, outcome, stdin
  <2>1. CASE Fork
    BY <1>1, <2>1 DEF Fork
  <2>2. ASSUME NEW s \in Streams, PipeWrite(s) PROVE TypeOK'
    <3>1. wrote' \in [Streams -> 0..MaxChunks]
      BY <2>2, ChildProcessAssumption DEF PipeWrite, ChildProcessAssumption
    <3> QED
      BY <1>1, <2>2, <3>1 DEF PipeWrite
  <2>3. ASSUME NEW how \in {"ok", "nonzero", "signal"}, Exit(how) PROVE TypeOK'
    BY <1>1, <2>3 DEF Exit, pipes
  <2> QED
    BY <2>1, <2>2, <2>3 DEF Os
<1>5. DrainInv'
  BY <1>1, <1>2, <1>3 DEF DrainInv, drains
<1>6. LineInv'
  BY <1>1 DEF LineInv, drains
<1>7. LifeInv'
  BY <1>1, <1>3 DEF LifeInv, Happened, outcome
<1>8. LifecycleInOrder'
  <2>1. \A i \in DOMAIN callbacks : ~callbacks[i].failed => child # "running"
    BY DEF LifeInv, LifecycleInOrder
  <2> QED
    BY <1>1, <1>3, <2>1 DEF LifecycleInOrder, LifeInv, Happened, outcome
<1> QED
  BY <1>4, <1>5, <1>6, <1>7, <1>8

LEMMA SpawnEventKeeps ==
  ASSUME IInv, SpawnEvent
  PROVE  IInv'
<1> USE DEF IInv, SpawnEvent
<1>1. UNCHANGED <<child, status, pipes, drains, collected, waited, micro, callbacks, threw, stdin>>
  OBVIOUS
<1>2. ~In(events, "spawn") /\ events \in Seq(Events) /\ events' = Append(events, "spawn")
  BY DEF LifeInv, Happened, In, TypeOK
<1>3. Ordered(events)
  BY LifecycleIs
<1>4. "spawn" \in Events
  BY DEF Events
<1>5. /\ events' \in Seq(Events) /\ Ordered(events')
      /\ \A x : In(events', x) <=> In(events, x) \/ x = "spawn"
  BY <1>2, <1>3, <1>4, EventInOrder
<1>6. TypeOK'
  BY <1>5 DEF TypeOK, pipes, drains, stdin
<1>7. DrainInv' /\ LineInv'
  BY DEF DrainInv, LineInv, Over, pipes, drains
<1>8. LifeInv'
  <2>1. \A x : Happened(x)' <=> Happened(x) \/ x = "spawn"
    BY <1>5 DEF In, Happened
  <2>2. spawnTimer' = FALSE /\ UNCHANGED <<child, status, waited, micro, callbacks>>
    OBVIOUS
  <2>3. /\ Happened("exit")' <=> Happened("exit")
        /\ Happened("error")' <=> Happened("error")
        /\ Happened("close")' <=> Happened("close")
    BY <2>1
  <2> HIDE DEF Happened
  <2> QED
    BY <2>2, <2>3 DEF LifeInv
<1>9. LifecycleInOrder'
  <2>1. In(events', "exit") <=> In(events, "exit")
    BY <1>5
  <2>2. /\ child = "unlaunched" => ~In(events', "exit")
        /\ Len(callbacks) <= 1
        /\ \A i \in DOMAIN callbacks :
             /\ ~callbacks[i].failed => status = "ok" /\ In(events', "exit")
             /\ \A s \in Streams : IsPrefix(callbacks[i].out[s], collected[s])
    BY <2>1, LifecycleIs
  <2> QED
    BY <1>5, <2>2 DEF LifecycleInOrder, Ordered, In, Happened
<1> QED
  BY <1>6, <1>7, <1>8, <1>9

\* What LifeInv says when no job of the child's life is left.
LEMMA NoneLeft ==
  ASSUME IInv, 1 \in DOMAIN micro, micro[1].job \in Final, NEW new, Follows(1, new),
         \A i \in DOMAIN new : new[i].job \notin Final
  PROVE  \A i \in DOMAIN micro' : micro'[i].job \notin Final
<1> SUFFICES ASSUME NEW i \in DOMAIN micro', micro'[i].job \in Final PROVE FALSE
  OBVIOUS
<1>1. i + 1 \in DOMAIN micro /\ micro'[i] = micro[i + 1]
  BY Shifted
<1>2. i + 1 = 1
  BY <1>1 DEF IInv, LifeInv
<1> QED
  BY <1>2 DEF Follows

\* An event that comes with the first callback.
LEMMA ReportInOrder ==
  ASSUME IInv, callbacks = <<>>, NEW f \in BOOLEAN, NEW t \in BOOLEAN, NEW o \in Outputs,
         Callback(f, o, t), \A s \in Streams : IsPrefix(o[s], collected[s]),
         UNCHANGED <<child, status, collected>>, Ordered(events'),
         ~f => status = "ok" /\ In(events', "exit"),
         child = "unlaunched" => ~In(events', "exit")
  PROVE  LifecycleInOrder'
<1>1. /\ Len(callbacks') <= 1
      /\ \A i \in DOMAIN callbacks' :
           /\ ~callbacks'[i].failed => status = "ok" /\ In(events', "exit")
           /\ \A s \in Streams : IsPrefix(callbacks'[i].out[s], collected[s])
  <2>1. /\ DOMAIN callbacks' = {1} /\ Len(callbacks') = 1 /\ callbacks'[1].failed = f
        /\ callbacks'[1].out = o
    BY FirstCallback
  <2> QED
    BY <2>1
<1> QED
  BY <1>1 DEF LifecycleInOrder, Ordered, In, Happened

LEMMA RunWaitErrorKeeps ==
  ASSUME IInv, NEW throws \in BOOLEAN, RunWaitError(throws)
  PROVE  IInv'
<1> USE DEF IInv, RunWaitError
<1>1. Follows(1, <<>>) /\ DOMAIN <<>> = {} /\ 1 \in DOMAIN micro /\ micro[1].job = "waitError"
  BY Taken DEF TypeOK, Due, Rest
<1>2. waited = "settled" /\ child = "gone"
  BY <1>1 DEF LifeInv, Final, TypeOK
<1>3. /\ ~In(events, "exit") /\ ~In(events, "error") /\ ~In(events, "close") /\ callbacks = <<>>
  BY <1>2 DEF LifeInv, Happened, In
<1>4. /\ "error" \in Events /\ events \in Seq(Events) /\ events' = Append(events, "error")
      /\ Ordered(events)
  BY LifecycleIs DEF Events, TypeOK
<1>5. /\ events' \in Seq(Events) /\ Ordered(events')
      /\ \A x : In(events', x) <=> In(events, x) \/ x = "error"
  BY <1>3, <1>4, EventInOrder
<1>6. DrainInv' /\ LineInv'
  BY <1>1, DrainFrame
<1>7. LifecycleInOrder'
  <2>1. Callback(TRUE, Nothing, throws) /\ UNCHANGED <<child, status, collected>>
    OBVIOUS
  <2>2. child # "unlaunched"
    BY <1>2
  <2> QED
    BY <1>3, <1>5, <2>1, <2>2, HandedOver, ReportInOrder
<1>8. LifeInv'
  <2>1. \A i \in DOMAIN micro' : micro'[i].job \notin Final
    BY <1>1, NoneLeft DEF Final
  <2>2. /\ Happened("error")' /\ ~Happened("exit")' /\ ~Happened("close")'
        /\ Happened("spawn")' <=> Happened("spawn")
    BY <1>3, <1>5 DEF In, Happened
  <2>3. waited' = "handled" /\ UNCHANGED <<child, status, spawnTimer>>
    OBVIOUS
  <2> HIDE DEF Happened
  <2> QED
    BY <1>2, <2>1, <2>2, <2>3 DEF LifeInv
<1>9. TypeOK'
  <2>1. callbacks' \in Seq([failed : BOOLEAN, out : Outputs]) /\ threw' \in BOOLEAN
    <3>1. Callback(TRUE, Nothing, throws)
      OBVIOUS
    <3> QED
      BY <1>3, <3>1, HandedOver, FirstCallback
  <2> QED
    BY <1>1, <1>5, <2>1 DEF TypeOK, Follows, pipes, drains, stdin
<1> QED
  BY <1>6, <1>7, <1>8, <1>9

\* A failed launch: 'error', and 'close' unless the callback threw.
LEMMA RunUnlaunchedKeeps ==
  ASSUME IInv, NEW throws \in BOOLEAN, RunUnlaunched(throws)
  PROVE  IInv'
<1> USE DEF IInv, RunUnlaunched
<1>1. Follows(1, <<>>) /\ DOMAIN <<>> = {} /\ 1 \in DOMAIN micro /\ micro[1].job = "unlaunched"
  BY Taken DEF TypeOK, Due, Rest
<1>2. child = "unlaunched" /\ ~In(events, "error")
  BY <1>1 DEF LifeInv, Final, Happened, In
<1>3. ~In(events, "exit") /\ ~In(events, "close") /\ callbacks = <<>> /\ waited = "pending"
  BY <1>2 DEF LifeInv, Happened, In
<1> DEFINE e1 == Append(events, "error")
           e2 == Append(e1, "close")
<1>4. {"error", "close"} \subseteq Events /\ events \in Seq(Events) /\ Ordered(events)
  BY LifecycleIs DEF Events, TypeOK
<1>5. /\ e1 \in Seq(Events) /\ Ordered(e1)
      /\ \A x : In(e1, x) <=> In(events, x) \/ x = "error"
  BY <1>2, <1>3, <1>4, EventInOrder
<1>6. events' = e1 \/ events' = e2
  <2>1. events \o <<"error">> = e1
    BY <1>4
  <2>2. events \o <<"error", "close">> = e2
    BY <1>4
  <2> QED
    BY <2>1, <2>2
<1> HIDE DEF e1
<1>7. /\ e2 \in Seq(Events) /\ Ordered(e2)
      /\ \A x : In(e2, x) <=> In(e1, x) \/ x = "close"
  BY <1>3, <1>4, <1>5, EventInOrder
<1> HIDE DEF e2
<1>8. /\ events' \in Seq(Events) /\ Ordered(events')
      /\ In(events', "error") /\ ~In(events', "exit")
      /\ In(events', "spawn") <=> In(events, "spawn")
  BY <1>3, <1>5, <1>6, <1>7
<1>9. DrainInv' /\ LineInv'
  BY <1>1, DrainFrame
<1>10. Callback(TRUE, Nothing, throws) /\ UNCHANGED <<child, status, collected>>
  OBVIOUS
<1>11. LifecycleInOrder'
  BY <1>3, <1>8, <1>10, HandedOver, ReportInOrder
<1>12. LifeInv'
  <2>1. \A i \in DOMAIN micro' : micro'[i].job \notin Final
    BY <1>1, NoneLeft DEF Final
  <2>2. /\ Happened("error")' /\ ~Happened("exit")'
        /\ Happened("spawn")' <=> Happened("spawn")
    BY <1>8 DEF In, Happened
  <2>3. UNCHANGED <<child, status, waited, spawnTimer>>
    OBVIOUS
  <2> HIDE DEF Happened
  <2> QED
    BY <1>2, <1>3, <2>1, <2>2, <2>3 DEF LifeInv
<1>13. TypeOK'
  <2>1. callbacks' \in Seq([failed : BOOLEAN, out : Outputs]) /\ threw' \in BOOLEAN
    BY <1>3, <1>10, HandedOver, FirstCallback
  <2> QED
    BY <1>1, <1>8, <2>1 DEF TypeOK, Follows, pipes, drains, stdin
<1> QED
  BY <1>9, <1>11, <1>12, <1>13

LEMMA Replacing ==
  ASSUME micro \in Seq(Jobs), micro # <<>>, NEW j \in Jobs, micro' = <<j>> \o Tail(micro)
  PROVE  /\ micro' \in Seq(Jobs) /\ DOMAIN micro' = DOMAIN micro /\ micro'[1] = j
         /\ \A i \in DOMAIN micro : i # 1 => micro'[i] = micro[i]
         /\ \A i \in DOMAIN micro' : i \in Nat
<1> DEFINE h == <<j>>
           t == Tail(micro)
<1>1. /\ h \in Seq(Jobs) /\ Len(h) = 1 /\ h[1] = j /\ t \in Seq(Jobs)
      /\ Len(t) = Len(micro) - 1 /\ Len(micro) \in Nat \ {0} /\ DOMAIN micro = 1..Len(micro)
      /\ \A i \in 1..(Len(micro) - 1) : t[i] = micro[i + 1]
  OBVIOUS
<1>2. micro' = h \o t
  OBVIOUS
<1> HIDE DEF h, t
<1>3. micro' \in Seq(Jobs) /\ Len(micro') = Len(h) + Len(t)
  BY <1>1, <1>2
<1>4. \A i \in 1..Len(h) : micro'[i] = h[i]
  BY <1>1, <1>2
<1>5. \A i \in 1..Len(t) : micro'[Len(h) + i] = t[i]
  BY <1>1, <1>2
<1>6. Len(micro') = Len(micro) /\ DOMAIN micro' = 1..Len(micro')
  BY <1>1, <1>3
<1>7. ASSUME NEW i \in DOMAIN micro, i # 1 PROVE micro'[i] = micro[i]
  <2>1. i - 1 \in 1..Len(t) /\ Len(h) + (i - 1) = i
    BY <1>1, <1>7
  <2>2. micro'[i] = t[i - 1] /\ t[i - 1] = micro[(i - 1) + 1]
    BY <1>1, <1>5, <2>1
  <2> QED
    BY <1>1, <2>1, <2>2
<1> QED
  BY <1>1, <1>3, <1>4, <1>6, <1>7

\* 'exit'; the 'close' that is next takes the place of the job.
LEMMA RunExitKeeps ==
  ASSUME IInv, NEW throws \in BOOLEAN, RunExit(throws)
  PROVE  IInv'
<1> USE DEF IInv, RunExit
<1>1. micro # <<>> /\ Head(micro) = micro[1] /\ 1 \in DOMAIN micro /\ micro[1].job = "exit"
      /\ micro \in Seq(Jobs)
  BY DEF TypeOK, Due
<1>2. waited = "settled" /\ child = "gone"
  BY <1>1 DEF LifeInv, Final, TypeOK
<1>3. /\ ~In(events, "exit") /\ ~In(events, "error") /\ ~In(events, "close") /\ callbacks = <<>>
  BY <1>2 DEF LifeInv, Happened, In
<1>4. /\ "exit" \in Events /\ events \in Seq(Events) /\ events' = Append(events, "exit")
      /\ Ordered(events)
  BY LifecycleIs DEF Events, TypeOK
<1>5. /\ events' \in Seq(Events) /\ Ordered(events')
      /\ \A x : In(events', x) <=> In(events, x) \/ x = "exit"
  BY <1>3, <1>4, EventInOrder
<1> DEFINE f == status # "ok"
           c == Job("close")
<1>6. f \in BOOLEAN /\ Callback(f, collected, throws) /\ UNCHANGED <<child, status, collected>>
  OBVIOUS
<1>7. c \in Jobs /\ c.job = "close" /\ c.of = "none" /\ c.chunk = 0
  BY JobTyped
<1>8. micro' = IF throws THEN Tail(micro) ELSE <<c>> \o Tail(micro)
  BY DEF Rest
<1>9. /\ micro' \in Seq(Jobs) /\ \A i \in DOMAIN micro' : i \in Nat
      /\ throws => Follows(1, <<>>)
      /\ ~throws => /\ DOMAIN micro' = DOMAIN micro /\ micro'[1] = c
                    /\ \A i \in DOMAIN micro : i # 1 => micro'[i] = micro[i]
  <2> HIDE DEF c
  <2>1. CASE throws
    <3>1. micro' = Tail(micro)
      BY <1>8, <2>1
    <3> QED
      BY <1>1, <2>1, <3>1, Taken DEF Follows
  <2>2. CASE ~throws
    <3>1. micro' = <<c>> \o Tail(micro)
      BY <1>8, <2>2
    <3> QED
      BY <1>1, <1>7, <2>2, <3>1, Replacing
  <2> QED
    BY <2>1, <2>2
<1> HIDE DEF c
<1>10. DrainInv' /\ LineInv'
  <2>1. CASE throws
    BY <1>1, <1>9, <2>1, DrainFrame
  <2>2. CASE ~throws
    <3>1. DrainInv'
      <4>1. \A i \in DOMAIN micro' : micro'[i].job = "read" \/ micro'[i].job = "data"
                                       => micro'[i] = micro[i]
        BY <1>7, <1>9, <2>2
      <4>2. \A i \in DOMAIN micro' : micro'[i] = micro[i] \/ micro'[i].of = "none"
        BY <1>7, <1>9, <2>2
      <4>3. \A i \in DOMAIN micro' :
              micro'[i].job \notin {"read", "data"} => micro'[i].of = "none" /\ micro'[i].chunk = 0
        BY <1>7, <1>9, <2>2 DEF DrainInv
      <4>4. ASSUME NEW i \in DOMAIN micro', micro'[i].job = "read", NEW j \in DOMAIN micro',
                   micro'[j].of = micro'[i].of
            PROVE  j <= i
        <5>1. i \in DOMAIN micro /\ micro'[i] = micro[i] /\ micro[i].of \in Streams
          BY <1>9, <2>2, <4>1, <4>4 DEF DrainInv
        <5>2. j \in DOMAIN micro /\ micro'[j] = micro[j]
          BY <1>9, <2>2, <4>2, <4>4, <5>1, ChildProcessAssumption DEF ChildProcessAssumption
        <5> QED
          BY <4>4, <5>1, <5>2 DEF DrainInv
      <4>5. UNCHANGED <<child, orphan, wrote, taken, awaiting, cancelled, torn, ended>>
        BY DEF pipes, drains
      <4>6. ASSUME NEW i \in DOMAIN micro'
            PROVE  /\ micro'[i].job = "data" => micro'[i].of \in Streams /\ micro'[i].chunk # 0
                   /\ micro'[i].job = "read" =>
                        /\ micro'[i].of \in Streams /\ ~awaiting[micro'[i].of]
                        /\ child # "unlaunched"
                        /\ micro'[i].chunk = 0 => cancelled[micro'[i].of] \/ Over(micro'[i].of)
        BY <1>9, <2>2, <4>1 DEF DrainInv
      <4>7. \A s \in Streams : Over(s)' <=> Over(s)
        BY <4>5 DEF Over
      <4> HIDE DEF RunExit
      <4> QED
        BY <4>3, <4>4, <4>5, <4>6, <4>7 DEF DrainInv
    <3>2. LineInv'
      <4>1. \A i \in DOMAIN micro : micro[i].chunk # 0 => i # 1
        BY <1>1 DEF DrainInv
      <4>2. \A i \in DOMAIN micro' : micro'[i].chunk # 0 => micro'[i] = micro[i]
        BY <1>7, <1>9, <2>2
      <4>3. ASSUME NEW s \in Streams, NEW c1 \in (Len(collected[s]) + 1)..taken[s]
            PROVE  \E i \in DOMAIN micro' : micro'[i].of = s /\ micro'[i].chunk = c1
        <5>1. PICK i \in DOMAIN micro : micro[i].of = s /\ micro[i].chunk = c1
          BY <4>3 DEF LineInv
        <5>2. c1 # 0
          BY DEF TypeOK, Outputs
        <5> QED
          BY <1>9, <2>2, <4>1, <5>1, <5>2
      <4>4. UNCHANGED <<collected, taken>>
        BY DEF drains
      <4>5. \A i \in DOMAIN micro' : micro'[i].chunk # 0 => i \in DOMAIN micro /\ micro'[i] = micro[i]
        BY <1>9, <2>2, <4>2
      <4>6. LineInv
        OBVIOUS
      <4> HIDE DEF RunExit, IInv
      <4>7. ASSUME NEW s \in Streams, NEW i \in DOMAIN micro', micro'[i].of = s, micro'[i].chunk # 0
            PROVE  /\ Len(collected[s]) < micro'[i].chunk /\ micro'[i].chunk <= taken[s]
                   /\ \A j \in DOMAIN micro' :
                        micro'[j].of = s /\ micro'[j].chunk # 0 /\ i < j
                          => micro'[i].chunk < micro'[j].chunk
        BY <4>5, <4>6, <4>7 DEF LineInv
      <4>8. \A s \in Streams : /\ Len(collected[s]) <= taken[s]
                               /\ \A n \in DOMAIN collected[s] : collected[s][n] = n
        BY <4>6 DEF LineInv
      <4> QED
        BY <4>3, <4>4, <4>7, <4>8 DEF LineInv
    <3> QED
      BY <3>1, <3>2
  <2> QED
    BY <2>1, <2>2
<1>11. LifecycleInOrder'
  <2> HIDE DEF f
  <2>1. ~f => status = "ok" /\ In(events', "exit")
    BY <1>5 DEF f
  <2>2. child # "unlaunched"
    BY <1>2
  <2> QED
    BY <1>3, <1>5, <1>6, <2>1, <2>2, HandedOver, ReportInOrder
<1>12. LifeInv'
  <2>1. \A i \in DOMAIN micro' : micro'[i].job \in Final => micro'[i] = c /\ i = 1
    <3>1. CASE throws
      BY <1>1, <1>9, <3>1, NoneLeft DEF Final
    <3>2. CASE ~throws
      BY <1>1, <1>9, <3>2 DEF LifeInv, Final
    <3> QED
      BY <3>1, <3>2
  <2>2. /\ Happened("exit")' /\ ~Happened("error")' /\ ~Happened("close")'
        /\ Happened("spawn")' <=> Happened("spawn")
    BY <1>3, <1>5 DEF In, Happened
  <2>3. waited' = "handled" /\ UNCHANGED <<child, status, spawnTimer>>
    OBVIOUS
  <2> HIDE DEF Happened
  <2> QED
    <3>1. \A i \in DOMAIN micro' : micro'[i].job \in Final =>
            micro'[i].job = "close" /\ \A j \in DOMAIN micro' : micro'[j].job \in Final => j = i
      BY <1>7, <2>1
    <3>2. child = "gone" /\ \A i \in DOMAIN micro' :
            micro'[i].job = "close" => micro'[i].job \notin {"exit", "waitError", "unlaunched"}
      BY <1>2
    <3>3. Happened("spawn") => ~spawnTimer
      BY DEF LifeInv
    <3> HIDE DEF RunExit, IInv
    <3> QED
      BY <2>2, <2>3, <3>1, <3>2, <3>3 DEF LifeInv
<1>13. TypeOK'
  <2>1. callbacks' \in Seq([failed : BOOLEAN, out : Outputs]) /\ threw' \in BOOLEAN
    <3> HIDE DEF f
    <3> QED
      BY <1>3, <1>6, HandedOver, FirstCallback
  <2> QED
    BY <1>5, <1>9, <2>1 DEF TypeOK, pipes, drains, stdin
<1> QED
  BY <1>10, <1>11, <1>12, <1>13

\* Whatever reads a loop may be in: what a stream has queued is behind what the
\* collector has.
LEMMA LineTyped ==
  ASSUME IInv, NEW s \in Streams
  PROVE  /\ Len(collected[s]) \in Nat /\ collected[s] \in Seq(1..MaxChunks)
         /\ DOMAIN collected[s] = 1..Len(collected[s])
         /\ taken[s] \in Nat /\ wrote[s] \in Nat /\ taken[s] <= MaxChunks /\ wrote[s] <= MaxChunks
         /\ micro \in Seq(Jobs) /\ \A i \in DOMAIN micro : micro[i] \in Jobs /\ micro[i].chunk \in Nat
<1>1. collected[s] \in Seq(1..MaxChunks) /\ taken[s] \in 0..MaxChunks /\ wrote[s] \in 0..MaxChunks
      /\ micro \in Seq(Jobs)
  BY DEF IInv, TypeOK, Outputs
<1>2. \A i \in DOMAIN micro : micro[i] \in Jobs
  BY <1>1, ElementTyped
<1>3. \A j \in Jobs : j.chunk \in Nat
  BY ChildProcessAssumption DEF Jobs, ChildProcessAssumption
<1> QED
  BY <1>1, <1>2, <1>3, ChildProcessAssumption DEF ChildProcessAssumption

\* A cancel: the reads of S that are outstanding resolve with the end.
LEMMA CancelKeepsDrain ==
  ASSUME IInv, NEW S \in SUBSET Streams, NEW k, NEW new, Follows(k, new),
         k = 1 => micro[1].job \notin {"read", "data"},
         \A i \in DOMAIN new :
           \/ /\ new[i].job = "read" /\ new[i].of \in S /\ awaiting[new[i].of] /\ new[i].chunk = 0
           \/ new[i].job = "stdinClose" /\ new[i].of = "none" /\ new[i].chunk = 0,
         \A i, j \in DOMAIN new : new[i].job = "read" /\ new[i].of = new[j].of => i = j,
         \A s \in Streams : /\ cancelled'[s] <=> cancelled[s] \/ s \in S
                            /\ awaiting'[s] <=> awaiting[s] /\ s \notin S
                            /\ torn'[s] => torn[s] \/ s \in S,
         UNCHANGED <<child, pipes, taken, ended, collected>>
  PROVE  DrainInv' /\ LineInv'
<1> USE DEF pipes
<1>1. \A i \in DOMAIN micro' :
        \/ i + k \in DOMAIN micro /\ micro'[i] = micro[i + k]
        \/ \E n \in DOMAIN new : i = Len(micro) - k + n /\ micro'[i] = new[n]
  BY Shifted
<1>2. k \in {0, 1} /\ Len(micro) \in Nat /\ \A i \in DOMAIN micro' : i \in Nat
  BY DEF Follows
<1>3. \A s \in Streams : awaiting[s] =>
        \A i \in DOMAIN micro : ~(micro[i].job = "read" /\ micro[i].of = s)
  BY DEF IInv, DrainInv
<1>4. \A s \in Streams : Over(s)' <=> Over(s)
  BY DEF Over
<1>5. ASSUME NEW i \in DOMAIN micro'
      PROVE  /\ micro'[i].job \notin {"read", "data"} => micro'[i].of = "none" /\ micro'[i].chunk = 0
             /\ micro'[i].job = "data" => micro'[i].of \in Streams /\ micro'[i].chunk # 0
             /\ micro'[i].job = "read" =>
                  /\ micro'[i].of \in Streams /\ ~awaiting'[micro'[i].of] /\ child # "unlaunched"
                  /\ micro'[i].chunk = 0 => cancelled'[micro'[i].of] \/ Over(micro'[i].of)
  <2>1. CASE i + k \in DOMAIN micro /\ micro'[i] = micro[i + k]
    BY <2>1 DEF IInv, DrainInv
  <2>2. CASE \E n \in DOMAIN new : i = Len(micro) - k + n /\ micro'[i] = new[n]
    <3>1. PICK n \in DOMAIN new : micro'[i] = new[n]
      BY <2>2
    <3> QED
      BY <3>1 DEF IInv, DrainInv
  <2> QED
    BY <1>1, <2>1, <2>2
<1>6. ASSUME NEW i \in DOMAIN micro', micro'[i].job = "read", NEW j \in DOMAIN micro',
             micro'[j].of = micro'[i].of
      PROVE  j <= i
  <2>1. micro'[i].of \in Streams
    BY <1>5, <1>6
  <2>2. CASE i + k \in DOMAIN micro /\ micro'[i] = micro[i + k]
    <3>1. ~awaiting[micro'[i].of] /\ micro'[j].of # "none"
      BY <1>6, <2>1, <2>2, ChildProcessAssumption DEF IInv, DrainInv, ChildProcessAssumption
    <3>2. j + k \in DOMAIN micro /\ micro'[j] = micro[j + k]
      BY <1>1, <1>6, <3>1
    <3>3. j + k <= i + k
      BY <1>6, <2>2, <3>2 DEF IInv, DrainInv
    <3> QED
      BY <1>2, <3>3
  <2>3. CASE \E n \in DOMAIN new : i = Len(micro) - k + n /\ micro'[i] = new[n]
    <3>1. PICK n \in DOMAIN new : i = Len(micro) - k + n /\ micro'[i] = new[n]
      BY <2>3
    <3>2. CASE j + k \in DOMAIN micro
      BY <1>2, <3>1, <3>2 DEF Follows
    <3>3. CASE \E m \in DOMAIN new : j = Len(micro) - k + m /\ micro'[j] = new[m]
      <4>1. PICK m \in DOMAIN new : j = Len(micro) - k + m /\ micro'[j] = new[m]
        BY <3>3
      <4>2. n = m
        BY <1>6, <3>1, <4>1
      <4> QED
        BY <1>2, <3>1, <4>1, <4>2
    <3> QED
      BY <1>1, <3>2, <3>3
  <2> QED
    BY <1>1, <2>2, <2>3
<1>7. DrainInv'
  <2>1. \A s \in Streams : /\ awaiting'[s] => child # "unlaunched"
                           /\ ended[s] => cancelled'[s] \/ Over(s)
                           /\ torn'[s] => cancelled'[s] \/ child = "unlaunched"
    BY DEF IInv, DrainInv
  <2>2. child = "unlaunched" => ~orphan
    BY DEF IInv, DrainInv
  <2> QED
    BY <1>4, <1>5, <1>6, <2>1, <2>2 DEF DrainInv
<1>8. LineInv'
  <2>1. ASSUME NEW i \in DOMAIN micro', micro'[i].chunk # 0
        PROVE  i + k \in DOMAIN micro /\ micro'[i] = micro[i + k]
    BY <1>1, <2>1
  <2> SUFFICES ASSUME NEW s \in Streams
               PROVE  /\ Len(collected[s]) <= taken[s] /\ \A n \in DOMAIN collected[s] : collected[s][n] = n
                      /\ \A i \in DOMAIN micro' : micro'[i].of = s /\ micro'[i].chunk # 0 =>
                           /\ Len(collected[s]) < micro'[i].chunk /\ micro'[i].chunk <= taken[s]
                           /\ \A j \in DOMAIN micro' :
                                micro'[j].of = s /\ micro'[j].chunk # 0 /\ i < j
                                  => micro'[i].chunk < micro'[j].chunk
                      /\ \A c \in (Len(collected[s]) + 1)..taken[s] :
                           \E i \in DOMAIN micro' : micro'[i].of = s /\ micro'[i].chunk = c
    BY DEF LineInv
  <2>2. ASSUME NEW i \in DOMAIN micro', micro'[i].of = s, micro'[i].chunk # 0,
               NEW j \in DOMAIN micro', micro'[j].of = s, micro'[j].chunk # 0, i < j
        PROVE  micro'[i].chunk < micro'[j].chunk
    <3>1. i + k < j + k
      BY <1>2, <2>2
    <3> QED
      BY <2>1, <2>2, <3>1 DEF IInv, LineInv
  <2>3. ASSUME NEW c \in (Len(collected[s]) + 1)..taken[s]
        PROVE  \E i \in DOMAIN micro' : micro'[i].of = s /\ micro'[i].chunk = c
    <3>1. PICK i \in DOMAIN micro : micro[i].of = s /\ micro[i].chunk = c
      BY <2>3 DEF IInv, LineInv
    <3>2. c # 0
      BY LineTyped
    <3>3. i > k
      BY <1>2, <3>1, <3>2, Shifted DEF IInv, DrainInv
    <3> QED
      BY <3>1, <3>3, Shifted
  <2> QED
    BY <2>1, <2>2, <2>3 DEF IInv, LineInv
<1> QED
  BY <1>7, <1>8

\* child.stdout.destroy()
LEMMA DestroyStreamKeeps ==
  ASSUME IInv, NEW s \in Streams, DestroyStream(s)
  PROVE  IInv'
<1> DEFINE O == {t \in {s} : awaiting[t]}
<1>1. O \in SUBSET Streams
  OBVIOUS
<1>2. /\ UNCHANGED <<child, status, pipes, taken, ended, collected, waited, spawnTimer, outcome, stdin>>
      /\ torn' = [torn EXCEPT ![s] = TRUE]
      /\ cancelled' = [t \in Streams |-> cancelled[t] \/ t \in {s}]
      /\ awaiting' = [t \in Streams |-> awaiting[t] /\ t \notin {s}]
      /\ micro' = micro \o Ends(O)
  BY DEF DestroyStream, CancelReaders, Ends
<1>3. torn \in Flags /\ awaiting \in Flags /\ cancelled \in Flags /\ micro \in Seq(Jobs)
  BY DEF IInv, TypeOK
<1> DEFINE new == Ends(O)
<1>4. /\ new \in Seq(Jobs)
      /\ \A i \in DOMAIN new : new[i].job = "read" /\ new[i].of \in O /\ new[i].chunk = 0
      /\ \A i, j \in DOMAIN new : new[i].of = new[j].of => i = j
  BY <1>1, EndsAre
<1>5. micro' = micro \o new
  BY <1>2
<1> HIDE DEF new
<1>6. Follows(0, new)
  BY <1>3, <1>4, <1>5, Appending
<1>7. DrainInv' /\ LineInv'
  <2> DEFINE S == {s}
  <2>1. \A t \in Streams : /\ cancelled'[t] <=> cancelled[t] \/ t \in S
                           /\ awaiting'[t] <=> awaiting[t] /\ t \notin S
                           /\ torn'[t] => torn[t] \/ t \in S
    BY <1>2, <1>3 DEF Flags
  <2>2. \A i \in DOMAIN new :
          new[i].job = "read" /\ new[i].of \in S /\ awaiting[new[i].of] /\ new[i].chunk = 0
    BY <1>4
  <2>3. S \in SUBSET Streams
    OBVIOUS
  <2>4. \A i, j \in DOMAIN new : new[i].job = "read" /\ new[i].of = new[j].of => i = j
    BY <1>4
  <2>5. UNCHANGED <<child, pipes, taken, ended, collected>>
    BY <1>2
  <2>6. 0 = 1 => micro[1].job \notin {"read", "data"}
    OBVIOUS
  <2> HIDE DEF O, S
  <2> QED
    BY <1>6, <2>1, <2>2, <2>3, <2>4, <2>5, <2>6, CancelKeepsDrain
<1>8. LifeInv' /\ LifecycleInOrder'
  BY <1>2, <1>4, <1>6, LifeFrame DEF Final, outcome
<1>9. TypeOK'
  <2>1. torn' \in Flags /\ awaiting' \in Flags /\ cancelled' \in Flags /\ micro' \in Seq(Jobs)
    BY <1>2, <1>3, <1>6 DEF Flags, Follows
  <2> QED
    BY <1>2, <2>1 DEF IInv, TypeOK, pipes, outcome, stdin
<1> QED
  BY <1>7, <1>8, <1>9 DEF IInv

\* 'close', and what wait()'s handler does after it.
LEMMA RunCloseKeeps ==
  ASSUME IInv, RunClose
  PROVE  IInv'
<1> DEFINE O == {s \in Streams : awaiting[s]}
           c == Job("stdinClose")
<1>1. O \in SUBSET Streams /\ micro \in Seq(Jobs) /\ micro # <<>> /\ Head(micro).job = "close"
      /\ awaiting \in Flags /\ cancelled \in Flags
  BY DEF IInv, TypeOK, RunClose, Due
<1>2. c \in Jobs /\ c.job = "stdinClose" /\ c.of = "none" /\ c.chunk = 0
  BY JobTyped
<1>3. /\ Ends(O) \in Seq(Jobs)
      /\ \A i \in DOMAIN Ends(O) : /\ Ends(O)[i].job = "read" /\ Ends(O)[i].of \in O
                                   /\ Ends(O)[i].chunk = 0
      /\ \A i, j \in DOMAIN Ends(O) : Ends(O)[i].of = Ends(O)[j].of => i = j
  BY <1>1, EndsAre
<1>4. /\ UNCHANGED <<child, status, pipes, taken, torn, ended, collected, waited, spawnTimer,
                     callbacks, threw, stdinEvents, calls>>
      /\ events' = Append(events, "close")
      /\ cancelled' = [s \in Streams |-> TRUE] /\ awaiting' = [s \in Streams |-> FALSE]
      /\ stdinEnded' \in BOOLEAN /\ stdinNative' \in {"open", "closed"}
      /\ \/ micro' = Tail(micro) \o Ends(O)
         \/ micro' = Append(Tail(micro) \o Ends(O), c)
  BY DEF RunClose, StdinDestroy, Ends, Rest, IInv, TypeOK
<1>5. \E new \in Seq(Jobs) :
        /\ micro' = Tail(micro) \o new
        /\ \A i \in DOMAIN new : \/ /\ new[i].job = "read" /\ new[i].of \in O /\ new[i].chunk = 0
                                 \/ new[i].job = "stdinClose" /\ new[i].of = "none" /\ new[i].chunk = 0
        /\ \A i, j \in DOMAIN new : new[i].job = "read" /\ new[i].of = new[j].of => i = j
  <2>1. CASE micro' = Tail(micro) \o Ends(O)
    BY <1>3, <2>1
  <2>2. CASE micro' = Append(Tail(micro) \o Ends(O), c)
    <3> DEFINE e == Ends(O)
               t == Tail(micro)
               new == Append(e, c)
    <3>1. t \in Seq(Jobs) /\ e \in Seq(Jobs)
      BY <1>1, <1>3
    <3>2. micro' = Append(t \o e, c)
      BY <2>2
    <3>3. /\ \A i \in DOMAIN e : e[i].job = "read" /\ e[i].of \in O /\ e[i].chunk = 0
          /\ \A i, j \in DOMAIN e : e[i].of = e[j].of => i = j
      BY <1>3
    <3> HIDE DEF e, t, c
    <3>4. new \in Seq(Jobs) /\ Append(t \o e, c) = t \o new
      BY <1>2, <3>1
    <3>5. /\ DOMAIN new = 1..(Len(e) + 1) /\ Len(e) \in Nat /\ DOMAIN e = 1..Len(e)
          /\ \A i \in 1..Len(e) : new[i] = e[i]
          /\ new[Len(e) + 1] = c
      BY <1>2, <3>1
    <3> HIDE DEF new
    <3>6. "none" \notin O
      BY ChildProcessAssumption DEF ChildProcessAssumption
    <3> HIDE DEF O
    <3>7. ASSUME NEW i \in DOMAIN new
          PROVE  /\ \/ new[i].job = "read" /\ new[i].of \in O /\ new[i].chunk = 0
                    \/ new[i].job = "stdinClose" /\ new[i].of = "none" /\ new[i].chunk = 0
                 /\ new[i].job = "read" => i \in DOMAIN e /\ new[i] = e[i]
                 /\ new[i].of \in O => i \in DOMAIN e /\ new[i] = e[i]
      BY <1>2, <3>3, <3>5, <3>6
    <3>8. ASSUME NEW i \in DOMAIN new, NEW j \in DOMAIN new,
                 new[i].job = "read", new[i].of = new[j].of
          PROVE  i = j
      <4>1. i \in DOMAIN e /\ new[i] = e[i] /\ new[i].of \in O
        BY <3>3, <3>7, <3>8
      <4>2. j \in DOMAIN e /\ new[j] = e[j]
        BY <3>7, <3>8, <4>1
      <4> QED
        BY <3>3, <3>8, <4>1, <4>2
    <3> QED
      BY <3>2, <3>4, <3>7, <3>8 DEF t
  <2> QED
    BY <1>4, <2>1, <2>2
<1>6. PICK new \in Seq(Jobs) :
        /\ micro' = Tail(micro) \o new
        /\ \A i \in DOMAIN new : \/ /\ new[i].job = "read" /\ new[i].of \in O /\ new[i].chunk = 0
                                 \/ new[i].job = "stdinClose" /\ new[i].of = "none" /\ new[i].chunk = 0
        /\ \A i, j \in DOMAIN new : new[i].job = "read" /\ new[i].of = new[j].of => i = j
  BY <1>5
<1>7. Follows(1, new) /\ 1 \in DOMAIN micro /\ micro[1].job = "close"
  BY <1>1, <1>6, Taking
<1>8. DrainInv' /\ LineInv'
  <2>1. \A s \in Streams : /\ cancelled'[s] <=> cancelled[s] \/ s \in Streams
                           /\ awaiting'[s] <=> awaiting[s] /\ s \notin Streams
                           /\ torn'[s] => torn[s] \/ s \in Streams
    BY <1>4
  <2>2. \A i \in DOMAIN new :
          \/ /\ new[i].job = "read" /\ new[i].of \in Streams /\ awaiting[new[i].of]
             /\ new[i].chunk = 0
          \/ new[i].job = "stdinClose" /\ new[i].of = "none" /\ new[i].chunk = 0
    BY <1>6
  <2>3. Streams \in SUBSET Streams /\ micro[1].job \notin {"read", "data"}
    BY <1>7
  <2>4. \A i, j \in DOMAIN new : new[i].job = "read" /\ new[i].of = new[j].of => i = j
    BY <1>6
  <2> HIDE DEF O
  <2> QED
    BY <1>4, <1>7, <2>1, <2>2, <2>3, <2>4, CancelKeepsDrain
<1>9. waited = "handled" /\ In(events, "exit") /\ ~In(events, "close")
  BY <1>7 DEF IInv, LifeInv, Final, Happened, In
<1>10. /\ events' \in Seq(Events) /\ Ordered(events')
       /\ \A x : In(events', x) <=> In(events, x) \/ x = "close"
  <2>1. "close" \in Events /\ events \in Seq(Events) /\ Ordered(events)
    BY LifecycleIs DEF IInv, Events, TypeOK
  <2> QED
    BY <1>4, <1>9, <2>1, EventInOrder
<1>11. LifeInv'
  <2>1. \A i \in DOMAIN micro' : micro'[i].job \notin Final
    <3>1. micro[1].job \in Final /\ \A i \in DOMAIN new : new[i].job \notin Final
      BY <1>6, <1>7 DEF Final
    <3> QED
      BY <1>7, <3>1, NoneLeft
  <2>2. /\ Happened("exit")' /\ (Happened("error")' <=> Happened("error"))
        /\ Happened("spawn")' <=> Happened("spawn")
    BY <1>9, <1>10 DEF In, Happened
  <2>3. waited' = "handled" /\ UNCHANGED <<child, status, spawnTimer, callbacks>>
    BY <1>4, <1>9
  <2> QED
    BY <1>9, <2>1, <2>2, <2>3 DEF IInv, LifeInv
<1>12. LifecycleInOrder'
  <2>1. In(events', "exit") <=> In(events, "exit")
    BY <1>10
  <2>2. /\ child = "unlaunched" => ~In(events', "exit")
        /\ Len(callbacks) <= 1
        /\ \A i \in DOMAIN callbacks :
             /\ ~callbacks[i].failed => status = "ok" /\ In(events', "exit")
             /\ \A s \in Streams : IsPrefix(callbacks[i].out[s], collected[s])
    BY <2>1, LifecycleIs DEF IInv
  <2> QED
    BY <1>4, <1>10, <2>2 DEF LifecycleInOrder, Ordered, In, Happened
<1>13. TypeOK'
  <2>1. cancelled' \in Flags /\ awaiting' \in Flags /\ micro' \in Seq(Jobs)
    BY <1>4, <1>7 DEF Flags, Follows
  <2> QED
    BY <1>4, <1>10, <2>1 DEF IInv, TypeOK, pipes
<1> QED
  BY <1>8, <1>11, <1>12, <1>13 DEF IInv

\* 'close' whose listener throws: the queue loses the handler, and no more.
LEMMA RunCloseThrowsKeeps ==
  ASSUME IInv, RunCloseThrows
  PROVE  IInv'
<1> USE DEF IInv, RunCloseThrows
<1>1. Follows(1, <<>>) /\ DOMAIN <<>> = {} /\ 1 \in DOMAIN micro /\ micro[1].job = "close"
  BY Taken DEF TypeOK, Due, Rest
<1>2. waited = "handled" /\ In(events, "exit") /\ ~In(events, "close")
  BY <1>1 DEF LifeInv, Final, Happened, In
<1>3. /\ events' \in Seq(Events) /\ Ordered(events')
      /\ \A x : In(events', x) <=> In(events, x) \/ x = "close"
  <2>1. /\ "close" \in Events /\ events \in Seq(Events) /\ Ordered(events)
        /\ events' = Append(events, "close")
    BY LifecycleIs DEF Events, TypeOK
  <2> QED
    BY <1>2, <2>1, EventInOrder
<1>4. DrainInv' /\ LineInv'
  BY <1>1, DrainFrame
<1>5. LifeInv'
  <2>1. \A i \in DOMAIN micro' : micro'[i].job \notin Final
    BY <1>1, NoneLeft DEF Final
  <2>2. /\ Happened("exit")' /\ (Happened("error")' <=> Happened("error"))
        /\ Happened("spawn")' <=> Happened("spawn")
    BY <1>2, <1>3 DEF In, Happened
  <2>3. waited' = "handled" /\ UNCHANGED <<child, status, spawnTimer, callbacks>>
    BY <1>2
  <2> HIDE DEF Happened
  <2> QED
    BY <1>2, <2>1, <2>2, <2>3 DEF LifeInv
<1>6. LifecycleInOrder'
  <2>1. In(events', "exit") <=> In(events, "exit")
    BY <1>3
  <2>2. /\ child = "unlaunched" => ~In(events', "exit")
        /\ Len(callbacks) <= 1
        /\ \A i \in DOMAIN callbacks :
             /\ ~callbacks[i].failed => status = "ok" /\ In(events', "exit")
             /\ \A s \in Streams : IsPrefix(callbacks[i].out[s], collected[s])
    BY <2>1, LifecycleIs
  <2> QED
    BY <1>3, <2>2 DEF LifecycleInOrder, Ordered, In, Happened
<1>7. TypeOK'
  BY <1>1, <1>3 DEF TypeOK, Follows, pipes, drains, stdin
<1> QED
  BY <1>4, <1>5, <1>6, <1>7

\* A read resolves: with the next chunk, behind the others, or with the end of a
\* pipe that has been read whole.
LEMMA ReadSettlesKeeps ==
  ASSUME IInv, NEW s \in Streams, ReadSettles(s)
  PROVE  IInv'
<1>1. PICK c \in 0..MaxChunks :
        /\ micro' = Append(micro, StreamJob("read", s, c))
        /\ taken' \in [Streams -> 0..MaxChunks]
        /\ \A t \in Streams : t # s => taken'[t] = taken[t]
        /\ \/ c = taken[s] + 1 /\ taken'[s] = c
           \/ c = 0 /\ taken'[s] = taken[s] /\ Over(s)
  <2>1. taken \in [Streams -> 0..MaxChunks] /\ wrote \in [Streams -> 0..MaxChunks]
    BY DEF IInv, TypeOK
  <2>2. 0 \in 0..MaxChunks
    BY ChildProcessAssumption DEF ChildProcessAssumption
  <2>3. CASE /\ taken[s] < wrote[s] /\ taken' = [taken EXCEPT ![s] = @ + 1]
             /\ micro' = Append(micro, StreamJob("read", s, taken[s] + 1))
    <3>1. taken[s] + 1 \in 0..MaxChunks
      BY <2>1, <2>3, ChildProcessAssumption DEF ChildProcessAssumption
    <3>2. taken' \in [Streams -> 0..MaxChunks] /\ taken'[s] = taken[s] + 1
          /\ \A t \in Streams : t # s => taken'[t] = taken[t]
      BY <2>1, <2>3, <3>1
    <3> QED
      BY <2>3, <3>1, <3>2
  <2>4. CASE /\ taken[s] = wrote[s] /\ child = "gone" /\ ~orphan /\ UNCHANGED taken
             /\ micro' = Append(micro, StreamJob("read", s, 0))
    BY <2>1, <2>2, <2>4 DEF Over
  <2> QED
    BY <2>3, <2>4 DEF ReadSettles
<1>2. /\ awaiting[s] /\ ~cancelled[s]
      /\ awaiting' = [awaiting EXCEPT ![s] = FALSE]
      /\ UNCHANGED <<child, status, pipes, cancelled, torn, ended, collected, waited, spawnTimer,
                     outcome, stdin>>
  BY DEF ReadSettles
<1> DEFINE r == StreamJob("read", s, c)
<1>3. r \in Jobs /\ r.job = "read" /\ r.of = s /\ r.chunk = c
  BY JobTyped
<1>4. micro' = Append(micro, r)
  BY <1>1
<1> HIDE DEF r
<1>5. Follows(0, <<r>>) /\ DOMAIN <<r>> = {1} /\ <<r>>[1] = r
  BY <1>3, <1>4, Queued DEF IInv, TypeOK
<1>6. /\ DOMAIN micro' = 1..(Len(micro) + 1) /\ DOMAIN micro = 1..Len(micro) /\ Len(micro) \in Nat
      /\ \A i \in DOMAIN micro : micro'[i] = micro[i]
      /\ micro'[Len(micro) + 1] = r
  BY <1>5 DEF Follows
<1>7. LifeInv' /\ LifecycleInOrder'
  BY <1>2, <1>3, <1>5, LifeFrame DEF Final, outcome
<1>8. /\ child # "unlaunched"
      /\ \A i \in DOMAIN micro : ~(micro[i].job = "read" /\ micro[i].of = s)
  BY <1>2 DEF IInv, DrainInv
<1>9. awaiting' \in Flags /\ ~awaiting'[s] /\ \A t \in Streams : t # s => awaiting'[t] = awaiting[t]
  BY <1>2 DEF IInv, TypeOK, Flags
<1>10. TypeOK'
  BY <1>1, <1>2, <1>5, <1>9 DEF IInv, TypeOK, Follows, pipes, outcome, stdin
<1>11. DrainInv'
  <2> DEFINE Done(t) == taken'[t] = wrote[t] /\ child # "running" /\ ~orphan
  <2>1. /\ \A t \in Streams : Over(t) => Done(t)
        /\ \A t \in Streams : Over(t)' <=> Done(t)
    <3>1. taken[s] = wrote[s] => taken'[s] = taken[s]
      BY <1>1, <1>2 DEF ReadSettles, IInv, TypeOK
    <3> QED
      BY <1>1, <1>2, <3>1 DEF Over, pipes
  <2> HIDE DEF Done
  <2>2. ASSUME NEW i \in DOMAIN micro'
        PROVE  /\ micro'[i].job \notin {"read", "data"}
                    => micro'[i].of = "none" /\ micro'[i].chunk = 0
               /\ micro'[i].job = "data" => micro'[i].of \in Streams /\ micro'[i].chunk # 0
               /\ micro'[i].job = "read" =>
                    /\ micro'[i].of \in Streams /\ ~awaiting'[micro'[i].of]
                    /\ micro'[i].chunk = 0 => cancelled[micro'[i].of] \/ Done(micro'[i].of)
    <3>1. CASE i \in DOMAIN micro
      <4>1. micro'[i] = micro[i]
        BY <1>6, <3>1
      <4>2. micro[i].job = "read" => micro[i].of \in Streams /\ micro[i].of # s
        BY <1>8, <3>1 DEF IInv, DrainInv
      <4> QED
        BY <1>9, <2>1, <3>1, <4>1, <4>2 DEF IInv, DrainInv
    <3>2. CASE i = Len(micro) + 1
      <4>1. c = 0 => Done(s)
        BY <1>1, <2>1, LineTyped
      <4>2. micro'[i] = r
        BY <1>6, <3>2
      <4> QED
        BY <1>3, <1>9, <4>1, <4>2
    <3> QED
      BY <1>6, <3>1, <3>2
  <2>3. ASSUME NEW i \in DOMAIN micro', micro'[i].job = "read", NEW j \in DOMAIN micro',
               micro'[j].of = micro'[i].of
        PROVE  j <= i
    <3>1. CASE i \in DOMAIN micro
      <4>1. micro'[i].of \in Streams /\ micro'[i].of # s
        BY <1>6, <1>8, <2>3, <3>1 DEF IInv, DrainInv
      <4>2. j \in DOMAIN micro
        BY <1>3, <1>6, <2>3, <4>1
      <4> QED
        BY <1>6, <2>3, <3>1, <4>2 DEF IInv, DrainInv
    <3>2. CASE i = Len(micro) + 1
      BY <1>6, <3>2
    <3> QED
      BY <1>6, <3>1, <3>2
  <2>4. /\ \A t \in Streams : /\ ended[t] => cancelled[t] \/ Over(t)'
                              /\ torn[t] => cancelled[t] \/ child = "unlaunched"
        /\ child = "unlaunched" => ~orphan
    BY <2>1 DEF IInv, DrainInv
  <2>5. UNCHANGED <<child, cancelled, torn, ended, orphan>>
    BY <1>2 DEF pipes
  <2>6. \A t \in Streams : awaiting'[t] => child # "unlaunched"
    BY <1>8
  <2> QED
    BY <1>8, <1>9, <2>1, <2>2, <2>3, <2>4, <2>5, <2>6 DEF DrainInv
<1>12. LineInv'
  <2> SUFFICES ASSUME NEW t \in Streams
               PROVE  /\ Len(collected[t]) <= taken'[t]
                      /\ \A n \in DOMAIN collected[t] : collected[t][n] = n
                      /\ \A i \in DOMAIN micro' : micro'[i].of = t /\ micro'[i].chunk # 0 =>
                           /\ Len(collected[t]) < micro'[i].chunk /\ micro'[i].chunk <= taken'[t]
                           /\ \A j \in DOMAIN micro' :
                                micro'[j].of = t /\ micro'[j].chunk # 0 /\ i < j
                                  => micro'[i].chunk < micro'[j].chunk
                      /\ \A n \in (Len(collected[t]) + 1)..taken'[t] :
                           \E i \in DOMAIN micro' : micro'[i].of = t /\ micro'[i].chunk = n
    BY <1>2 DEF LineInv
  <2>1. LineInv /\ Len(collected[t]) \in Nat /\ taken[t] \in Nat
        /\ \A i \in DOMAIN micro : micro[i].chunk \in Nat
    BY LineTyped DEF IInv
  <2>2. taken[t] <= taken'[t] /\ (t = s /\ c # 0 => c = taken[t] + 1 /\ taken'[t] = c)
        /\ (t # s \/ c = 0 => taken'[t] = taken[t])
    BY <1>1, <2>1
  <2>3. Len(collected[t]) <= taken[t]
    BY <2>1 DEF LineInv
  <2>4. ASSUME NEW i \in DOMAIN micro', micro'[i].of = t, micro'[i].chunk # 0
        PROVE  /\ Len(collected[t]) < micro'[i].chunk /\ micro'[i].chunk <= taken'[t]
               /\ i \in DOMAIN micro => micro'[i] = micro[i] /\ micro'[i].chunk <= taken[t]
               /\ i \notin DOMAIN micro => i = Len(micro) + 1 /\ micro'[i].chunk = taken[t] + 1
    <3>1. CASE i \in DOMAIN micro
      BY <1>6, <2>1, <2>2, <2>4, <3>1 DEF LineInv
    <3>2. CASE i = Len(micro) + 1
      BY <1>3, <1>6, <2>1, <2>2, <2>3, <2>4, <3>2
    <3> QED
      BY <1>6, <3>1, <3>2
  <2>5. ASSUME NEW i \in DOMAIN micro', micro'[i].of = t, micro'[i].chunk # 0,
               NEW j \in DOMAIN micro', micro'[j].of = t, micro'[j].chunk # 0, i < j
        PROVE  micro'[i].chunk < micro'[j].chunk
    <3>1. i \in DOMAIN micro
      BY <1>6, <2>5
    <3>2. CASE j \in DOMAIN micro
      BY <1>6, <2>1, <2>5, <3>1, <3>2 DEF LineInv
    <3>3. CASE j \notin DOMAIN micro
      BY <1>6, <2>1, <2>4, <2>5, <3>1, <3>3
    <3> QED
      BY <3>2, <3>3
  <2>6. ASSUME NEW n \in (Len(collected[t]) + 1)..taken'[t]
        PROVE  \E i \in DOMAIN micro' : micro'[i].of = t /\ micro'[i].chunk = n
    <3>1. CASE n \in (Len(collected[t]) + 1)..taken[t]
      <4>1. PICK i \in DOMAIN micro : micro[i].of = t /\ micro[i].chunk = n
        BY <2>1, <3>1 DEF LineInv
      <4> QED
        BY <1>6, <4>1
    <3>2. CASE n \notin (Len(collected[t]) + 1)..taken[t]
      <4>1. t = s /\ c # 0 /\ n = c
        BY <2>1, <2>2, <2>6, <3>2
      <4> QED
        BY <1>3, <1>6, <4>1
    <3> QED
      BY <3>1, <3>2
  <2> QED
    BY <2>1, <2>2, <2>3, <2>4, <2>5, <2>6 DEF LineInv
<1> QED
  BY <1>7, <1>10, <1>11, <1>12 DEF IInv

\* The collector gets the first of its stream's chunks.
LEMMA RunDataKeeps ==
  ASSUME IInv, RunData
  PROVE  IInv'
<1>1. Follows(1, <<>>) /\ DOMAIN <<>> = {} /\ Head(micro) = micro[1] /\ 1 \in DOMAIN micro
      /\ micro[1].job = "data"
  BY Taken DEF IInv, TypeOK, RunData, Due, Rest
<1> DEFINE s == micro[1].of
           c == micro[1].chunk
<1>2. s \in Streams /\ c # 0 /\ c \in Nat /\ c \in 1..MaxChunks
  <2>1. s \in Streams /\ c # 0
    BY <1>1 DEF IInv, DrainInv
  <2>2. micro[1] \in Jobs
    BY <1>1, <2>1, LineTyped
  <2> QED
    BY <2>1, <2>2, ChildProcessAssumption DEF Jobs, ChildProcessAssumption
<1>3. collected' = [collected EXCEPT ![s] = Append(@, c)]
  BY <1>1 DEF RunData, Of, Chunk
<1>4. UNCHANGED <<child, status, pipes, drains, waited, spawnTimer, outcome, stdin>>
  BY DEF RunData
<1>5. /\ \A i \in DOMAIN micro' : i + 1 \in DOMAIN micro /\ micro'[i] = micro[i + 1] /\ i \in Nat
      /\ \A i \in DOMAIN micro : i # 1 => i - 1 \in DOMAIN micro' /\ micro'[i - 1] = micro[i]
      /\ \A i \in DOMAIN micro : i \in Nat /\ i >= 1
  <2>1. \A i \in DOMAIN micro : i # 1 => i > 1
    BY <1>1 DEF Follows
  <2> QED
    BY <1>1, <2>1, Shifted DEF Follows
<1> HIDE DEF c, s
<1>6. c = Len(collected[s]) + 1
  <2>1. LineInv /\ Len(collected[s]) \in Nat /\ taken[s] \in Nat
        /\ \A i \in DOMAIN micro : micro[i].chunk \in Nat
    BY <1>2, LineTyped DEF IInv
  <2>2. Len(collected[s]) < c /\ c <= taken[s]
    BY <1>1, <1>2, <2>1 DEF LineInv, c, s
  <2>3. PICK i \in DOMAIN micro : micro[i].of = s /\ micro[i].chunk = Len(collected[s]) + 1
    BY <1>2, <2>1, <2>2 DEF LineInv
  <2>4. i # 1 => c < micro[i].chunk
    <3>1. 1 \in DOMAIN micro /\ micro[1].of = s /\ micro[1].chunk = c /\ c # 0
      BY <1>1, <1>2 DEF c, s
    <3>2. \A j \in DOMAIN micro :
            micro[j].of = s /\ micro[j].chunk # 0 /\ 1 < j => micro[1].chunk < micro[j].chunk
      BY <1>2, <2>1, <3>1 DEF LineInv
    <3>3. i # 1 => 1 < i
      BY <1>5
    <3>4. micro[i].of = s /\ micro[i].chunk # 0
      BY <2>1, <2>3
    <3> QED
      BY <3>1, <3>2, <3>3, <3>4
  <2> QED
    BY <1>2, <2>1, <2>2, <2>3, <2>4 DEF c
<1>7. /\ collected' \in Outputs
      /\ \A t \in Streams : t # s => collected'[t] = collected[t]
      /\ collected'[s] = Append(collected[s], c)
  <2>1. collected \in Outputs /\ collected[s] \in Seq(1..MaxChunks)
    BY <1>2, LineTyped DEF IInv, TypeOK
  <2>2. Append(collected[s], c) \in Seq(1..MaxChunks)
    BY <1>2, <2>1
  <2> QED
    BY <1>2, <1>3, <2>1, <2>2 DEF Outputs
<1>8. TypeOK'
  BY <1>1, <1>4, <1>7 DEF IInv, TypeOK, Follows, pipes, drains, outcome, stdin
<1>9. LifeInv'
  BY <1>1, <1>4, LifeInvFrame DEF outcome
<1>10. LifecycleInOrder'
  BY <1>2, <1>4, <1>7, LifecycleFrame DEF outcome
<1>11. DrainInv'
  <2>1. ASSUME NEW i \in DOMAIN micro', micro'[i].job = "read", NEW j \in DOMAIN micro',
               micro'[j].of = micro'[i].of
        PROVE  j <= i
    <3>1. j + 1 <= i + 1
      BY <1>5, <2>1 DEF IInv, DrainInv
    <3> QED
      BY <1>5, <3>1
  <2>2. \A t \in Streams : Over(t)' <=> Over(t)
    BY <1>4 DEF Over, pipes, drains
  <2>3. UNCHANGED <<child, orphan, awaiting, cancelled, torn, ended>>
    BY <1>4 DEF pipes, drains
  <2>4. ASSUME NEW i \in DOMAIN micro'
        PROVE  /\ micro'[i].job \notin {"read", "data"}
                    => micro'[i].of = "none" /\ micro'[i].chunk = 0
               /\ micro'[i].job = "data" => micro'[i].of \in Streams /\ micro'[i].chunk # 0
               /\ micro'[i].job = "read" =>
                    /\ micro'[i].of \in Streams /\ ~awaiting[micro'[i].of] /\ child # "unlaunched"
                    /\ micro'[i].chunk = 0 => cancelled[micro'[i].of] \/ Over(micro'[i].of)
    BY <1>5 DEF IInv, DrainInv
  <2> QED
    BY <2>1, <2>2, <2>3, <2>4 DEF IInv, DrainInv
<1>12. LineInv'
  <2> SUFFICES ASSUME NEW t \in Streams
               PROVE  /\ Len(collected'[t]) <= taken[t]
                      /\ \A n \in DOMAIN collected'[t] : collected'[t][n] = n
                      /\ \A i \in DOMAIN micro' : micro'[i].of = t /\ micro'[i].chunk # 0 =>
                           /\ Len(collected'[t]) < micro'[i].chunk /\ micro'[i].chunk <= taken[t]
                           /\ \A j \in DOMAIN micro' :
                                micro'[j].of = t /\ micro'[j].chunk # 0 /\ i < j
                                  => micro'[i].chunk < micro'[j].chunk
                      /\ \A n \in (Len(collected'[t]) + 1)..taken[t] :
                           \E i \in DOMAIN micro' : micro'[i].of = t /\ micro'[i].chunk = n
    BY <1>4 DEF LineInv, drains
  <2>1. /\ LineInv /\ Len(collected[t]) \in Nat /\ taken[t] \in Nat
        /\ \A i \in DOMAIN micro : micro[i].chunk \in Nat
        /\ collected[t] \in Seq(1..MaxChunks) /\ DOMAIN collected[t] = 1..Len(collected[t])
    BY LineTyped DEF IInv
  <2>2. ASSUME NEW i \in DOMAIN micro', micro'[i].of = t, micro'[i].chunk # 0,
               NEW j \in DOMAIN micro', micro'[j].of = t, micro'[j].chunk # 0, i < j
        PROVE  micro'[i].chunk < micro'[j].chunk
    <3>1. i + 1 < j + 1
      BY <1>5, <2>2
    <3> QED
      BY <1>5, <2>1, <2>2, <3>1 DEF LineInv
  <2>3. CASE t # s
    <3>1. collected'[t] = collected[t]
      BY <1>7, <2>3
    <3>2. ASSUME NEW n \in (Len(collected[t]) + 1)..taken[t]
          PROVE  \E i \in DOMAIN micro' : micro'[i].of = t /\ micro'[i].chunk = n
      <4>1. PICK i \in DOMAIN micro : micro[i].of = t /\ micro[i].chunk = n
        BY <2>1, <3>2 DEF LineInv
      <4>2. i # 1
        BY <2>3, <4>1 DEF s
      <4> QED
        BY <1>5, <4>1, <4>2
    <3>3. \A i \in DOMAIN micro' : micro'[i].of = t /\ micro'[i].chunk # 0 =>
             Len(collected[t]) < micro'[i].chunk /\ micro'[i].chunk <= taken[t]
      BY <1>5, <2>1 DEF LineInv
    <3> QED
      BY <2>1, <2>2, <3>1, <3>2, <3>3 DEF LineInv
  <2>4. CASE t = s
    <3> DEFINE q == collected[t]
    <3>1. /\ collected'[t] = Append(q, c) /\ q \in Seq(1..MaxChunks)
          /\ Len(q) \in Nat /\ DOMAIN q = 1..Len(q)
      BY <1>7, <2>1, <2>4
    <3>2. c = Len(q) + 1
      BY <1>6, <2>4
    <3>3. /\ Len(collected'[t]) = c /\ DOMAIN collected'[t] = 1..c
          /\ \A n \in 1..Len(q) : collected'[t][n] = q[n]
          /\ collected'[t][c] = c
      <4> HIDE DEF q
      <4> QED
        BY <1>2, <3>1, <3>2
    <3>4. \A n \in DOMAIN collected'[t] : collected'[t][n] = n
      <4>1. \A n \in 1..Len(q) : q[n] = n
        BY <2>1, <3>1 DEF LineInv
      <4> HIDE DEF q
      <4> QED
        BY <1>2, <3>1, <3>2, <3>3, <4>1
    <3>5. c <= taken[t]
      BY <1>1, <1>2, <2>1, <2>4 DEF LineInv, c, s
    <3>6. ASSUME NEW i \in DOMAIN micro', micro'[i].of = t, micro'[i].chunk # 0
          PROVE  c < micro'[i].chunk /\ micro'[i].chunk <= taken[t]
      <4>1. 1 < i + 1
        <5>1. i >= 1
          BY <1>1 DEF Follows
        <5> QED
          BY <1>5, <5>1
      <4> QED
        BY <1>1, <1>2, <1>5, <2>1, <2>4, <3>6, <4>1 DEF LineInv, c, s
    <3>7. ASSUME NEW n \in (c + 1)..taken[t]
          PROVE  \E i \in DOMAIN micro' : micro'[i].of = t /\ micro'[i].chunk = n
      <4>1. n \in (Len(collected[t]) + 1)..taken[t] /\ n # c
        BY <1>2, <2>1, <3>2, <3>7
      <4>2. PICK i \in DOMAIN micro : micro[i].of = t /\ micro[i].chunk = n
        BY <2>1, <4>1 DEF LineInv
      <4>3. i # 1
        BY <4>1, <4>2 DEF c
      <4> QED
        BY <1>5, <4>2, <4>3
    <3> QED
      BY <2>2, <3>3, <3>4, <3>5, <3>6, <3>7
  <2> QED
    BY <2>3, <2>4
<1> QED
  BY <1>8, <1>9, <1>10, <1>11, <1>12 DEF IInv

LEMMA ConcatIs ==
  ASSUME NEW S, NEW u \in Seq(S), NEW w \in Seq(S)
  PROVE  /\ u \o w \in Seq(S) /\ Len(u \o w) = Len(u) + Len(w)
         /\ \A i \in 1..Len(u) : (u \o w)[i] = u[i]
         /\ \A i \in 1..Len(w) : (u \o w)[Len(u) + i] = w[i]
OBVIOUS

\* A loop has its read: the stream had nothing else queued, so what it queues is next.
LEMMA RunReadKeeps ==
  ASSUME IInv, RunRead
  PROVE  IInv'
<1>1. micro \in Seq(Jobs) /\ micro # <<>> /\ Head(micro) = micro[1] /\ 1 \in DOMAIN micro
      /\ micro[1].job = "read"
  BY DEF IInv, TypeOK, RunRead, Due
<1> DEFINE s == micro[1].of
           c == micro[1].chunk
           d == StreamJob("data", s, c)
           r == StreamJob("read", s, 0)
           goesOn == c # 0 /\ ~torn[s]
<1>2. s \in Streams /\ c \in Nat /\ c \in 0..MaxChunks /\ ~awaiting[s] /\ child # "unlaunched"
      /\ (c = 0 => cancelled[s] \/ Over(s)) /\ \A j \in DOMAIN micro : micro[j].of = s => j = 1
  <2>1. /\ s \in Streams /\ ~awaiting[s] /\ child # "unlaunched"
        /\ c = 0 => cancelled[s] \/ Over(s)
        /\ \A j \in DOMAIN micro : micro[j].of = s => j <= 1
    BY <1>1 DEF IInv, DrainInv
  <2>2. micro[1] \in Jobs /\ \A j \in DOMAIN micro : j \in Nat /\ j >= 1
    BY <1>1, <2>1, LineTyped
  <2> QED
    BY <2>1, <2>2, ChildProcessAssumption DEF Jobs, ChildProcessAssumption
<1>3. /\ awaiting' = [awaiting EXCEPT ![s] = goesOn /\ ~cancelled[s]]
      /\ ended' = [ended EXCEPT ![s] = ~goesOn]
      /\ micro' = Tail(micro) \o (IF c # 0 THEN <<d>> ELSE <<>>)
                    \o (IF goesOn /\ cancelled[s] THEN <<r>> ELSE <<>>)
      /\ UNCHANGED <<child, status, pipes, taken, cancelled, torn, collected, waited, spawnTimer,
                     outcome, stdin>>
  BY <1>1 DEF RunRead, Of, Chunk, Rest
<1>4. /\ d \in Jobs /\ d.job = "data" /\ d.of = s /\ d.chunk = c
      /\ r \in Jobs /\ r.job = "read" /\ r.of = s /\ r.chunk = 0
  BY <1>2, JobTyped, ChildProcessAssumption DEF ChildProcessAssumption
<1>5. PICK new \in Seq(Jobs) :
        /\ Follows(1, new)
        /\ DOMAIN new \subseteq {1, 2}
        /\ c # 0 => 1 \in DOMAIN new
        /\ 1 \in DOMAIN new => c # 0 /\ new[1] = d
        /\ 2 \in DOMAIN new => goesOn /\ cancelled[s] /\ new[2] = r
  <2> HIDE DEF d, r
  <2>1. Tail(micro) \in Seq(Jobs)
    BY <1>1
  <2>2. CASE c = 0
    <3>1. micro' = Tail(micro) \o <<>> /\ <<>> \in Seq(Jobs) /\ DOMAIN <<>> = {}
      BY <1>3, <2>1, <2>2
    <3> QED
      BY <1>1, <2>2, <3>1, Taking
  <2>3. CASE c # 0 /\ ~(goesOn /\ cancelled[s])
    <3>1. micro' = Tail(micro) \o <<d>>
      <4>1. micro' = (Tail(micro) \o <<d>>) \o <<>>
        BY <1>3, <2>3
      <4> QED
        BY <1>4, <2>1, <4>1
    <3>2. <<d>> \in Seq(Jobs) /\ DOMAIN <<d>> = {1} /\ <<d>>[1] = d
      BY <1>4
    <3>3. Follows(1, <<d>>)
      BY <1>1, <3>1, <3>2, Taking
    <3> QED
      BY <2>3, <3>2, <3>3
  <2>4. CASE goesOn /\ cancelled[s]
    <3> DEFINE t == Tail(micro)
               u == t \o <<d>>
    <3>1. micro' = u \o <<r>>
      BY <1>3, <2>4
    <3>2. /\ t \in Seq(Jobs) /\ Len(t) = Len(micro) - 1 /\ Len(micro) \in Nat \ {0}
          /\ DOMAIN micro = 1..Len(micro)
          /\ \A i \in 1..(Len(micro) - 1) : t[i] = micro[i + 1]
      BY <1>1
    <3> HIDE DEF t
    <3>3. /\ u \in Seq(Jobs) /\ Len(u) = Len(micro) /\ u[Len(micro)] = d
          /\ \A i \in 1..(Len(micro) - 1) : u[i] = t[i]
      BY <1>4, <3>2
    <3> HIDE DEF u
    <3>4. /\ micro' \in Seq(Jobs) /\ Len(micro') = Len(micro) + 1 /\ micro'[Len(micro) + 1] = r
          /\ \A i \in 1..Len(micro) : micro'[i] = u[i]
          /\ DOMAIN micro' = 1..(Len(micro) + 1)
      <4> DEFINE w == <<r>>
      <4>1. w \in Seq(Jobs) /\ Len(w) = 1 /\ w[1] = r /\ micro' = u \o w
        BY <1>4, <3>1
      <4> HIDE DEF w
      <4>2. u \in Seq(Jobs) /\ Len(u) = Len(micro) /\ Len(micro) \in Nat
        BY <3>2, <3>3
      <4>5. /\ u \o w \in Seq(Jobs) /\ Len(u \o w) = Len(u) + Len(w)
            /\ \A i \in 1..Len(u) : (u \o w)[i] = u[i]
            /\ (u \o w)[Len(u) + 1] = w[1]
        <5>1. w \in Seq(Jobs) /\ Len(w) = 1
          BY <4>1
        <5>2. /\ u \o w \in Seq(Jobs) /\ Len(u \o w) = Len(u) + Len(w)
              /\ \A i \in 1..Len(u) : (u \o w)[i] = u[i]
              /\ \A i \in 1..Len(w) : (u \o w)[Len(u) + i] = w[i]
          <6>1. u \in Seq(Jobs) /\ w \in Seq(Jobs)
            BY <4>2, <5>1
          <6> QED
            BY ONLY <6>1, ConcatIs
        <5>3. 1 \in 1..Len(w)
          BY <5>1
        <5>4. (u \o w)[Len(u) + 1] = w[1]
          BY <5>2, <5>3
        <5> QED
          BY <5>2, <5>4
      <4>3. micro'[Len(micro) + 1] = r
        BY <4>1, <4>2, <4>5
      <4>4. DOMAIN micro' = 1..(Len(micro) + 1)
        BY <4>1, <4>2, <4>5
      <4> QED
        BY <4>1, <4>2, <4>3, <4>4, <4>5
    <3> DEFINE new == <<d, r>>
    <3>5. /\ new \in Seq(Jobs) /\ Len(new) = 2 /\ DOMAIN new = 1..2
          /\ new[1] = d /\ new[2] = r
      BY <1>4
    <3> HIDE DEF new
    <3>6. \A i \in 1..(Len(micro) - 1) : micro'[i] = micro[i + 1]
      BY <3>2, <3>3, <3>4
    <3>7. ASSUME NEW n \in DOMAIN new PROVE micro'[Len(micro) - 1 + n] = new[n]
      <4>1. n = 1 \/ n = 2
        BY <3>5
      <4>2. Len(micro) - 1 + 1 = Len(micro) /\ Len(micro) - 1 + 2 = Len(micro) + 1
            /\ Len(micro) \in 1..Len(micro)
        BY <3>2
      <4>3. micro'[Len(micro)] = d
        BY <3>3, <3>4, <4>2
      <4> QED
        BY <3>4, <3>5, <4>1, <4>2, <4>3
    <3>8. DOMAIN micro' = 1..(Len(micro) - 1 + Len(new)) /\ 1 <= Len(micro)
      BY <3>2, <3>4, <3>5
    <3>9. Follows(1, new)
      BY <3>2, <3>4, <3>5, <3>6, <3>7, <3>8 DEF Follows
    <3> QED
      BY <2>4, <3>5, <3>9 DEF goesOn
  <2> QED
    BY <2>2, <2>3, <2>4
<1>6. Follows(1, new)
  BY <1>5
<1> HIDE DEF s, c, d, r, goesOn
<1>7. /\ \A i \in DOMAIN micro' :
           \/ i + 1 \in DOMAIN micro /\ micro'[i] = micro[i + 1] /\ micro'[i].of # s
           \/ c # 0 /\ i = Len(micro) /\ micro'[i] = d
           \/ goesOn /\ cancelled[s] /\ i = Len(micro) + 1 /\ micro'[i] = r
      /\ \A i \in DOMAIN micro : i # 1 => i - 1 \in DOMAIN micro' /\ micro'[i - 1] = micro[i]
      /\ c # 0 => Len(micro) \in DOMAIN micro' /\ micro'[Len(micro)] = d
      /\ \A i \in DOMAIN micro' : i \in Nat /\ i >= 1
      /\ Len(micro) \in Nat /\ DOMAIN micro = 1..Len(micro)
  <2>1. Len(micro) \in Nat /\ DOMAIN micro = 1..Len(micro) /\ \A i \in DOMAIN micro' : i \in Nat /\ i >= 1
    BY <1>6 DEF Follows
  <2>2. ASSUME NEW i \in DOMAIN micro', i + 1 \in DOMAIN micro, micro'[i] = micro[i + 1]
        PROVE  micro'[i].of # s
    <3>1. i + 1 # 1
      BY <2>1
    <3> QED
      BY <1>2, <2>2, <3>1
  <2>3. ASSUME NEW i \in DOMAIN micro', NEW n \in DOMAIN new, i = Len(micro) - 1 + n,
               micro'[i] = new[n]
        PROVE  \/ c # 0 /\ i = Len(micro) /\ micro'[i] = d
               \/ goesOn /\ cancelled[s] /\ i = Len(micro) + 1 /\ micro'[i] = r
    <3>1. n \in {1, 2}
      BY <1>5
    <3>2. CASE n = 1
      <4>1. 1 \in DOMAIN new /\ micro'[i] = new[1] /\ i = Len(micro) - 1 + 1
        BY <2>3, <3>2
      <4>2. c # 0 /\ new[1] = d
        BY <1>5, <4>1
      <4>3. i = Len(micro)
        BY <2>1, <4>1
      <4> QED
        BY <4>1, <4>2, <4>3
    <3>3. CASE n = 2
      <4>1. 2 \in DOMAIN new /\ micro'[i] = new[2] /\ i = Len(micro) - 1 + 2
        BY <2>3, <3>3
      <4>2. goesOn /\ cancelled[s] /\ new[2] = r
        BY <1>5, <4>1
      <4>3. i = Len(micro) + 1
        BY <2>1, <4>1
      <4> QED
        BY <4>1, <4>2, <4>3
    <3> QED
      BY <3>1, <3>2, <3>3
  <2>4. \A i \in DOMAIN micro' :
           \/ i + 1 \in DOMAIN micro /\ micro'[i] = micro[i + 1]
           \/ \E n \in DOMAIN new : i = Len(micro) - 1 + n /\ micro'[i] = new[n]
    BY <1>6, Shifted
  <2>5. ASSUME NEW i \in DOMAIN micro, i # 1 PROVE i - 1 \in DOMAIN micro' /\ micro'[i - 1] = micro[i]
    <3>1. i > 1
      BY <2>1, <2>5
    <3> QED
      BY <1>6, <3>1, Shifted
  <2>6. c # 0 => Len(micro) \in DOMAIN micro' /\ micro'[Len(micro)] = d
    <3>1. 1 \in DOMAIN new => /\ Len(micro) - 1 + 1 \in DOMAIN micro'
                              /\ micro'[Len(micro) - 1 + 1] = new[1]
      BY <1>6, Shifted
    <3> QED
      BY <1>5, <2>1, <3>1
  <2> QED
    BY <2>1, <2>2, <2>3, <2>4, <2>5, <2>6
<1>8. LifeInv' /\ LifecycleInOrder'
  <2>1. \A i \in DOMAIN new : new[i].job \notin Final
    BY <1>4, <1>5 DEF Final
  <2> QED
    BY <1>3, <1>6, <2>1, LifeFrame DEF outcome
<1>9. /\ awaiting' \in Flags /\ ended' \in Flags /\ micro' \in Seq(Jobs)
      /\ awaiting'[s] => ~cancelled[s]
      /\ awaiting'[s] => goesOn
      /\ ended'[s] => ~goesOn
      /\ \A t \in Streams : t # s => awaiting'[t] = awaiting[t] /\ ended'[t] = ended[t]
  <2>1. awaiting \in Flags /\ ended \in Flags /\ cancelled \in Flags
    BY DEF IInv, TypeOK
  <2>2. goesOn \in BOOLEAN /\ cancelled[s] \in BOOLEAN
    BY <1>2, <2>1 DEF goesOn, Flags
  <2> QED
    BY <1>2, <1>3, <1>6, <2>1, <2>2 DEF Flags, Follows
<1>10. TypeOK'
  BY <1>3, <1>9 DEF IInv, TypeOK, pipes, outcome, stdin
<1>11. DrainInv'
  <2>1. /\ \A t \in Streams : Over(t)' <=> Over(t)
        /\ UNCHANGED <<child, orphan, cancelled, torn>>
    BY <1>3 DEF Over, pipes
  <2>2. ASSUME NEW i \in DOMAIN micro'
        PROVE  /\ micro'[i].job \notin {"read", "data"}
                    => micro'[i].of = "none" /\ micro'[i].chunk = 0
               /\ micro'[i].job = "data" => micro'[i].of \in Streams /\ micro'[i].chunk # 0
               /\ micro'[i].job = "read" =>
                    /\ micro'[i].of \in Streams /\ ~awaiting'[micro'[i].of] /\ child # "unlaunched"
                    /\ micro'[i].chunk = 0 => cancelled[micro'[i].of] \/ Over(micro'[i].of)
    <3>1. CASE i + 1 \in DOMAIN micro /\ micro'[i] = micro[i + 1] /\ micro'[i].of # s
      BY <1>9, <3>1 DEF IInv, DrainInv
    <3>2. CASE c # 0 /\ micro'[i] = d
      BY <1>2, <1>4, <3>2
    <3>3. CASE cancelled[s] /\ micro'[i] = r
      BY <1>2, <1>4, <1>9, <3>3
    <3> QED
      BY <1>7, <3>1, <3>2, <3>3
  <2>3. ASSUME NEW i \in DOMAIN micro', micro'[i].job = "read", NEW j \in DOMAIN micro',
               micro'[j].of = micro'[i].of
        PROVE  j <= i
    <3>1. CASE i + 1 \in DOMAIN micro /\ micro'[i] = micro[i + 1] /\ micro'[i].of # s
      <4>1. j + 1 \in DOMAIN micro /\ micro'[j] = micro[j + 1]
        BY <1>4, <1>7, <2>3, <3>1
      <4>2. j + 1 <= i + 1
        BY <2>3, <3>1, <4>1 DEF IInv, DrainInv
      <4> QED
        BY <1>7, <4>2
    <3>2. CASE i = Len(micro) + 1
      <4>1. j + 1 \in DOMAIN micro \/ j = Len(micro) \/ j = Len(micro) + 1
        BY <1>7
      <4> QED
        BY <1>7, <3>2, <4>1
    <3> QED
      BY <1>4, <1>7, <2>3, <3>1, <3>2
  <2>4. \A t \in Streams : /\ awaiting'[t] => child # "unlaunched"
                           /\ ended'[t] => cancelled[t] \/ Over(t)
                           /\ torn[t] => cancelled[t] \/ child = "unlaunched"
    BY <1>2, <1>9 DEF IInv, DrainInv, goesOn
  <2> QED
    BY <2>1, <2>2, <2>3, <2>4 DEF IInv, DrainInv
<1>12. LineInv'
  <2> SUFFICES ASSUME NEW t \in Streams
               PROVE  /\ Len(collected[t]) <= taken[t]
                      /\ \A n \in DOMAIN collected[t] : collected[t][n] = n
                      /\ \A i \in DOMAIN micro' : micro'[i].of = t /\ micro'[i].chunk # 0 =>
                           /\ Len(collected[t]) < micro'[i].chunk /\ micro'[i].chunk <= taken[t]
                           /\ \A j \in DOMAIN micro' :
                                micro'[j].of = t /\ micro'[j].chunk # 0 /\ i < j
                                  => micro'[i].chunk < micro'[j].chunk
                      /\ \A n \in (Len(collected[t]) + 1)..taken[t] :
                           \E i \in DOMAIN micro' : micro'[i].of = t /\ micro'[i].chunk = n
    <3>1. UNCHANGED <<collected, taken>>
      BY <1>3
    <3> QED
      BY <3>1 DEF LineInv
  <2>1. LineInv /\ Len(collected[t]) \in Nat /\ taken[t] \in Nat
        /\ \A i \in DOMAIN micro : micro[i].chunk \in Nat
    BY LineTyped DEF IInv
  <2>2. CASE t # s
    <3>1. ASSUME NEW i \in DOMAIN micro', micro'[i].of = t
          PROVE  i + 1 \in DOMAIN micro /\ micro'[i] = micro[i + 1]
      BY <1>4, <1>7, <2>2, <3>1
    <3>2. ASSUME NEW i \in DOMAIN micro', micro'[i].of = t, micro'[i].chunk # 0,
                 NEW j \in DOMAIN micro', micro'[j].of = t, micro'[j].chunk # 0, i < j
          PROVE  micro'[i].chunk < micro'[j].chunk
      <4>1. i + 1 < j + 1
        BY <1>7, <3>2
      <4> QED
        BY <2>1, <3>1, <3>2, <4>1 DEF LineInv
    <3>3. ASSUME NEW n \in (Len(collected[t]) + 1)..taken[t]
          PROVE  \E i \in DOMAIN micro' : micro'[i].of = t /\ micro'[i].chunk = n
      <4>1. PICK i \in DOMAIN micro : micro[i].of = t /\ micro[i].chunk = n
        BY <2>1, <3>3 DEF LineInv
      <4>2. i # 1
        BY <2>2, <4>1 DEF s
      <4> QED
        BY <1>7, <4>1, <4>2
    <3> QED
      BY <2>1, <3>1, <3>2, <3>3 DEF LineInv
  <2>3. CASE t = s
    <3>1. ASSUME NEW n \in (Len(collected[t]) + 1)..taken[t] PROVE n = c
      BY <1>2, <2>1, <2>3, <3>1 DEF LineInv, c
    <3>2. c # 0 => Len(collected[t]) < c /\ c <= taken[t]
      BY <1>1, <2>1, <2>3 DEF LineInv, c, s
    <3>3. ASSUME NEW i \in DOMAIN micro', micro'[i].of = t, micro'[i].chunk # 0
          PROVE  i = Len(micro) /\ micro'[i].chunk = c
      BY <1>4, <1>7, <2>3, <3>3
    <3>4. ASSUME NEW n \in (Len(collected[t]) + 1)..taken[t]
          PROVE  \E i \in DOMAIN micro' : micro'[i].of = t /\ micro'[i].chunk = n
      <4>1. n = c /\ c # 0
        BY <2>1, <3>1, <3>4
      <4> QED
        BY <1>4, <1>7, <2>3, <4>1
    <3> QED
      BY <1>7, <2>1, <3>2, <3>3, <3>4 DEF LineInv
  <2> QED
    BY <2>2, <2>3
<1> QED
  BY <1>8, <1>10, <1>11, <1>12 DEF IInv

-----------------------------------------------------------------------------
LEMMA InitInvariant == Init => IInv
<1> SUFFICES ASSUME Init PROVE IInv
  OBVIOUS
<1> USE ChildProcessAssumption DEF ChildProcessAssumption
<1> DEFINE a == Job("stdinClose")
           b == Job("unlaunched")
<1>1. /\ a \in Jobs /\ a.job = "stdinClose" /\ a.of = "none" /\ a.chunk = 0
      /\ b \in Jobs /\ b.job = "unlaunched" /\ b.of = "none" /\ b.chunk = 0
  BY JobTyped
<1>2. \/ micro = <<>>
      \/ micro = <<a, b>> /\ child = "unlaunched"
  BY DEF Init
<1> HIDE DEF a, b
<1>3. /\ micro \in Seq(Jobs)
      /\ \A i \in DOMAIN micro : i \in {1, 2} /\ child = "unlaunched"
      /\ 1 \in DOMAIN micro => micro[1] = a
      /\ 2 \in DOMAIN micro => micro[2] = b
  <2>1. CASE micro = <<>>
    BY <2>1
  <2>2. CASE micro = <<a, b>> /\ child = "unlaunched"
    BY <1>1, <2>2
  <2> QED
    BY <1>2, <2>1, <2>2
<1>4. TypeOK
  <2>1. awaiting \in Flags /\ torn \in Flags /\ ended \in Flags
    BY DEF Init, Flags
  <2>4. /\ cancelled \in Flags
        /\ wrote \in [Streams -> 0..MaxChunks] /\ taken \in [Streams -> 0..MaxChunks]
    BY DEF Init, Flags
  <2>5. stdinNative \in {"open", "closed"} /\ child \in {"running", "gone", "unlaunched"}
    BY DEF Init
  <2>7. spawnTimer \in BOOLEAN /\ stdinEnded \in BOOLEAN
    BY Zenon DEF Init
  <2>6. orphan \in BOOLEAN /\ threw \in BOOLEAN
    BY Zenon DEF Init
  <2>9. calls \in 0..MaxCalls
    BY DEF Init
  <2>8. status = "none" /\ waited = "pending"
    BY DEF Init
  <2>2. collected \in Outputs
    BY DEF Init, Outputs
  <2>3. /\ events \in Seq(Events) /\ callbacks \in Seq([failed : BOOLEAN, out : Outputs])
        /\ stdinEvents \in Seq({"finish", "close"})
    BY DEF Init
  <2> QED
    BY <1>3, <2>1, <2>2, <2>3, <2>4, <2>5, <2>6, <2>7, <2>8, <2>9 DEF TypeOK
<1>5. DrainInv
  BY <1>1, <1>3 DEF Init, DrainInv, Over
<1>6. LineInv
  BY <1>1, <1>3 DEF Init, LineInv
<1>7. LifeInv
  BY <1>1, <1>3 DEF Init, LifeInv, Happened, Final
<1>8. LifecycleInOrder
  BY DEF Init, LifecycleInOrder, Happened
<1> QED
  BY <1>4, <1>5, <1>6, <1>7, <1>8 DEF IInv

LEMMA NextKeeps == IInv /\ [Next]_vars => IInv'
<1> SUFFICES ASSUME IInv, [Next]_vars PROVE IInv'
  OBVIOUS
<1>1. CASE RunJob
  BY <1>1, RunCloseKeeps, RunCloseThrowsKeeps, RunReadKeeps, RunDataKeeps, StdinKeeps, RunExitKeeps, RunWaitErrorKeeps,
     RunUnlaunchedKeeps DEF RunJob
<1>2. CASE Settle
  BY <1>2, WaitSettlesKeeps, ReadSettlesKeeps DEF Settle
<1>3. CASE Os
  BY <1>3, OsKeeps
<1>4. CASE Caller
  BY <1>4, StdinKeeps, DestroyStreamKeeps DEF Caller
<1>5. CASE SpawnEvent
  BY <1>5, SpawnEventKeeps
<1>6. CASE UNCHANGED vars
  BY <1>6 DEF vars, pipes, drains, outcome, stdin, IInv, TypeOK, DrainInv, Over, LineInv, LifeInv,
              Happened, LifecycleInOrder
<1> QED
  BY <1>1, <1>2, <1>3, <1>4, <1>5, <1>6 DEF Next

\* The invariant that carries the others.
THEOREM Inductive == Spec => []IInv
BY InitInvariant, NextKeeps, PTL DEF Spec

\* Type correctness, for every value of the constants.
THEOREM TypeCorrect == Spec => []TypeOK
<1>1. IInv => TypeOK
  BY DEF IInv
<1> QED
  BY <1>1, Inductive, PTL

\* Output reaches the collector whole and in the order it was written, however
\* reads, cancels and a destroyed stream meet.
THEOREM DeliversInOrder == Spec => []OutputInOrder
<1>1. IInv => OutputInOrder
  <2> SUFFICES ASSUME IInv, NEW s \in Streams
               PROVE  /\ Len(collected[s]) <= taken[s]
                      /\ \A n \in DOMAIN collected[s] : collected[s][n] = n
                      /\ {micro[i].chunk : i \in Coming(s)} = (Len(collected[s]) + 1)..taken[s]
                      /\ \A i, j \in Coming(s) : i < j => micro[i].chunk < micro[j].chunk
                      /\ ended[s] /\ ~cancelled[s] => taken[s] = wrote[s]
    BY DEF OutputInOrder
  <2>1. LineInv /\ Len(collected[s]) \in Nat /\ taken[s] \in Nat
        /\ \A i \in DOMAIN micro : micro[i].chunk \in Nat
    BY LineTyped DEF IInv
  <2>2. ASSUME NEW i \in Coming(s)
        PROVE  micro[i].chunk \in (Len(collected[s]) + 1)..taken[s]
    BY <2>1, <2>2 DEF LineInv, Coming
  <2>3. ASSUME NEW n \in (Len(collected[s]) + 1)..taken[s]
        PROVE  \E i \in Coming(s) : micro[i].chunk = n
    <3>1. PICK i \in DOMAIN micro : micro[i].of = s /\ micro[i].chunk = n
      BY <2>1, <2>3 DEF LineInv
    <3>2. n # 0
      BY <2>1, <2>3
    <3> QED
      BY <3>1, <3>2 DEF Coming
  <2>4. {micro[i].chunk : i \in Coming(s)} = (Len(collected[s]) + 1)..taken[s]
    BY <2>2, <2>3
  <2>5. \A i, j \in Coming(s) : i < j => micro[i].chunk < micro[j].chunk
    BY <2>1 DEF LineInv, Coming
  <2>6. ended[s] /\ ~cancelled[s] => taken[s] = wrote[s]
    BY DEF IInv, DrainInv, Over
  <2> QED
    BY <2>1, <2>4, <2>5, <2>6 DEF LineInv
<1> QED
  BY <1>1, Inductive, PTL

\* The child's life is reported once and in order, and execFile calls back once,
\* with a prefix of the output.
THEOREM ReportsInOrder == Spec => []LifecycleInOrder
<1>1. IInv => LifecycleInOrder
  BY DEF IInv
<1> QED
  BY <1>1, Inductive, PTL

-----------------------------------------------------------------------------
\* What is owed is queued: once wait() has settled, its handler; once that has
\* run, a 'close', unless it reported an error or a listener threw; after a
\* 'close' that no listener threw out of, no loop reads on; and a loop that has
\* not ended has its read.
HasJob(name) == \E i \in DOMAIN micro : micro[i].job = name
Reading(s)   == \E i \in DOMAIN micro : micro[i].job = "read" /\ micro[i].of = s

LifeOwed ==
  /\ waited = "settled" => HasJob("exit") \/ HasJob("waitError")
  /\ waited = "handled" => /\ callbacks # <<>>
                           /\ Happened("error") \/ threw \/ HasJob("close") \/ Happened("close")
  /\ child = "unlaunched" => HasJob("unlaunched") \/ callbacks # <<>>

StdinOwed ==
  /\ stdinEnded => stdinNative = "closed"
  /\ waited = "handled" /\ Happened("close") /\ ~threw => stdinEnded

DrainOwed ==
  /\ waited = "handled" /\ Happened("close") /\ ~threw => \A s \in Streams : cancelled[s]
  /\ \A s \in Streams : /\ cancelled[s] => ~awaiting[s]
                        /\ awaiting[s] \/ ended[s] \/ Reading(s)

OwedInv == LifeOwed /\ StdinOwed /\ DrainOwed

\* With no microtask left, a launch that failed, and a wait() that settled, have
\* been reported to execFile's callback, once; and if the child exited and no
\* listener threw, 'close' was emitted, stdin is closed and every loop has
\* ended, whatever a descendant does with the pipes.
ReapedAtRest ==
  micro = <<>> =>
    /\ child = "unlaunched" \/ waited # "pending" => Len(callbacks) = 1
    /\ waited # "pending" =>
         \/ Happened("error") \/ threw
         \/ /\ Happened("close") /\ stdinNative = "closed"
            /\ \A s \in Streams : ended[s]

\* The queue keeps all it had, or all but its first job.
AllKept == \A i \in DOMAIN micro : \E j \in DOMAIN micro' : micro'[j] = micro[i]
Kept    == \A i \in DOMAIN micro : i # 1 => \E j \in DOMAIN micro' : micro'[j] = micro[i]
Gets(x) == \E j \in DOMAIN micro' : micro'[j] = x

LEMMA FollowsKeeps ==
  ASSUME NEW k, NEW new, Follows(k, new)
  PROVE  (k = 0 => AllKept) /\ Kept /\ \A n \in DOMAIN new : Gets(new[n])
<1>1. /\ k \in {0, 1}
      /\ \A i \in DOMAIN micro : i \in Nat /\ i >= 1
      /\ \A i \in DOMAIN micro : i > k => i - k \in DOMAIN micro' /\ micro'[i - k] = micro[i]
      /\ \A n \in DOMAIN new : /\ Len(micro) - k + n \in DOMAIN micro'
                               /\ micro'[Len(micro) - k + n] = new[n]
  BY Shifted
<1>2. \A i \in DOMAIN micro : i > k => \E j \in DOMAIN micro' : micro'[j] = micro[i]
  BY <1>1
<1>3. \A i \in DOMAIN micro : (k = 0 => i > k) /\ (i # 1 => i > k)
  BY <1>1
<1>4. \A n \in DOMAIN new : Gets(new[n])
  BY <1>1 DEF Gets
<1> QED
  BY <1>2, <1>3, <1>4 DEF AllKept, Kept

LEMMA JobsKept ==
  /\ AllKept => /\ \A name : HasJob(name) => HasJob(name)'
                /\ \A s : Reading(s) => Reading(s)'
  /\ Kept => /\ \A name : HasJob(name) /\ micro[1].job # name => HasJob(name)'
             /\ \A s : Reading(s) /\ ~(micro[1].job = "read" /\ micro[1].of = s) => Reading(s)'
  /\ \A x : Gets(x) => HasJob(x.job)' /\ (x.job = "read" => Reading(x.of)')
BY DEF AllKept, Kept, Gets, HasJob, Reading

LEMMA EventsAre ==
  ASSUME events \in Seq(Events), NEW new \in Seq(Events), events' = events \o new
  PROVE  \A e : Happened(e)' <=> Happened(e) \/ In(new, e)
<1>1. /\ Len(events) \in Nat /\ DOMAIN events = 1..Len(events)
      /\ Len(new) \in Nat /\ DOMAIN new = 1..Len(new)
      /\ DOMAIN events' = 1..(Len(events) + Len(new))
      /\ \A i \in 1..Len(events) : events'[i] = events[i]
      /\ \A i \in 1..Len(new) : events'[Len(events) + i] = new[i]
  OBVIOUS
<1>2. ASSUME NEW e, NEW i \in DOMAIN events', events'[i] = e
      PROVE  Happened(e) \/ In(new, e)
  <2>1. CASE i \in DOMAIN events
    BY <1>1, <1>2, <2>1 DEF Happened
  <2>2. CASE i \notin DOMAIN events
    <3>1. i - Len(events) \in DOMAIN new /\ Len(events) + (i - Len(events)) = i
      BY <1>1, <2>2
    <3> QED
      BY <1>1, <1>2, <3>1 DEF In
  <2> QED
    BY <2>1, <2>2
<1>3. ASSUME NEW e, Happened(e) PROVE Happened(e)'
  BY <1>1, <1>3 DEF Happened
<1>4. ASSUME NEW e, In(new, e) PROVE Happened(e)'
  <2>1. PICK i \in DOMAIN new : new[i] = e
    BY <1>4 DEF In
  <2>2. Len(events) + i \in DOMAIN events' /\ events'[Len(events) + i] = e
    BY <1>1, <2>1
  <2> QED
    BY <2>2 DEF Happened
<1>5. \A e : Happened(e)' => Happened(e) \/ In(new, e)
  BY <1>2 DEF Happened
<1> QED
  BY <1>3, <1>4, <1>5

LEMMA EventIs ==
  ASSUME events \in Seq(Events), NEW e \in Events, events' = Append(events, e)
  PROVE  \A d : Happened(d)' <=> Happened(d) \/ d = e
<1>1. <<e>> \in Seq(Events) /\ events' = events \o <<e>> /\ \A d : In(<<e>>, d) <=> d = e
  BY DEF In
<1> QED
  BY <1>1, EventsAre

\* A finite set in some order leaves nothing of it out.
LEMMA SetToSeqCovers ==
  ASSUME NEW S, IsFiniteSet(S)
  PROVE  \A x \in S : \E i \in DOMAIN SetToSeq(S) : SetToSeq(S)[i] = x
<1> DEFINE n == Cardinality(S)
           f == SetToSeq(S)
<1>1. n \in Nat /\ ExistsBijection(1..n, S)
  BY FS_CardinalityType
<1>2. \E g \in [1..n -> S] : IsInjective(g)
  BY <1>1 DEF ExistsBijection, Bijection, Injection, Surjection, IsInjective
<1>3. f \in [1..n -> S] /\ IsInjective(f)
  BY <1>2 DEF SetToSeq
<1>4. Cardinality(1..n) = n
  BY <1>1, FS_Interval
<1> HIDE DEF f, n
<1>5. f \in Injection(1..n, S)
  BY <1>3 DEF Injection, IsInjective
<1>6. f \in Surjection(1..n, S)
  BY <1>4, <1>5, FS_Injection DEF n
<1>7. \A x \in S : \E i \in 1..n : f[i] = x
  BY <1>6 DEF Surjection
<1> QED
  BY <1>3, <1>7 DEF f

\* A cancel gives each stream whose read is outstanding one that has ended.
LEMMA EndsCover ==
  ASSUME NEW S \in SUBSET Streams
  PROVE  \A s \in S : \E i \in DOMAIN Ends(S) : Ends(S)[i].job = "read" /\ Ends(S)[i].of = s
<1> DEFINE R == {StreamJob("read", s, 0) : s \in S}
<1>1. IsFiniteSet(S)
  BY ChildProcessAssumption, FS_Subset DEF ChildProcessAssumption
<1>2. IsFiniteSet(R)
  <2> DEFINE f == [s \in S |-> StreamJob("read", s, 0)]
  <2>1. f \in Surjection(S, R)
    BY DEF Surjection
  <2> QED
    BY <1>1, <2>1, FS_Surjection
<1>3. \A r \in R : \E i \in DOMAIN SetToSeq(R) : SetToSeq(R)[i] = r
  <2> HIDE DEF R
  <2> QED
    BY <1>2, SetToSeqCovers
<1>4. Ends(S) = SetToSeq(R)
  BY DEF Ends
<1> SUFFICES ASSUME NEW s \in S
             PROVE  \E i \in DOMAIN Ends(S) : Ends(S)[i].job = "read" /\ Ends(S)[i].of = s
  OBVIOUS
<1>5. PICK i \in DOMAIN Ends(S) : Ends(S)[i] = StreamJob("read", s, 0)
  <2>1. StreamJob("read", s, 0) \in R
    OBVIOUS
  <2> HIDE DEF R
  <2> QED
    BY <1>3, <1>4, <2>1
<1> QED
  BY <1>5 DEF StreamJob

-----------------------------------------------------------------------------
\* What does not touch the child's life, and no loop, leaves what is owed.
LEMMA OwedFrame ==
  ASSUME OwedInv, AllKept \/ (Kept /\ micro[1].job \notin Final \cup {"read"}),
         UNCHANGED <<waited, callbacks, threw>>,
         child' = "unlaunched" => child = "unlaunched",
         \A e \in {"error", "close"} : Happened(e)' <=> Happened(e)
  PROVE  /\ LifeOwed'
         /\ UNCHANGED <<cancelled, awaiting, ended>> => DrainOwed'
         /\ UNCHANGED stdin => StdinOwed'
<1>1. \A name \in Final : HasJob(name) => HasJob(name)'
  BY JobsKept
<1>2. \A s : Reading(s) => Reading(s)'
  BY JobsKept
<1>3. LifeOwed'
  BY <1>1 DEF OwedInv, LifeOwed, Final
<1>4. UNCHANGED <<cancelled, awaiting, ended>> => DrainOwed'
  BY <1>2 DEF OwedInv, DrainOwed
<1>5. UNCHANGED stdin => StdinOwed'
  BY DEF OwedInv, StdinOwed, stdin
<1> QED
  BY <1>3, <1>4, <1>5

LEMMA OsOwes == IInv /\ OwedInv /\ (Os \/ SpawnEvent) => OwedInv'
<1> SUFFICES ASSUME IInv, OwedInv, Os \/ SpawnEvent PROVE OwedInv'
  OBVIOUS
<1>1. /\ UNCHANGED <<micro, waited, callbacks, threw, cancelled, awaiting, ended, stdin>>
      /\ child' = "unlaunched" => child = "unlaunched"
  BY DEF Os, Fork, PipeWrite, Exit, SpawnEvent, drains, outcome
<1>2. \A e \in {"error", "close"} : Happened(e)' <=> Happened(e)
  <2>1. CASE Os
    BY <2>1 DEF Os, Fork, PipeWrite, Exit, outcome, Happened
  <2>2. CASE SpawnEvent
    <3>1. events \in Seq(Events) /\ "spawn" \in Events /\ events' = Append(events, "spawn")
      BY <2>2 DEF IInv, TypeOK, Events, SpawnEvent
    <3> QED
      BY <3>1, EventIs
  <2> QED
    BY <2>1, <2>2
<1>3. AllKept
  BY <1>1 DEF AllKept
<1> QED
  BY <1>1, <1>2, <1>3, OwedFrame DEF OwedInv

LEMMA WaitOwes == IInv /\ OwedInv /\ (\E ok \in BOOLEAN : WaitSettles(ok)) => OwedInv'
<1> SUFFICES ASSUME IInv, OwedInv, NEW ok \in BOOLEAN, WaitSettles(ok) PROVE OwedInv'
  OBVIOUS
<1> DEFINE j == Job(IF ok THEN "exit" ELSE "waitError")
<1>1. j \in Jobs /\ j.job \in {"exit", "waitError"}
  BY JobTyped
<1>2. /\ child = "gone" /\ waited' = "settled" /\ micro' = Append(micro, j)
      /\ UNCHANGED <<child, cancelled, awaiting, ended, stdin, events>>
  BY DEF WaitSettles, drains, outcome
<1> HIDE DEF j
<1>3. Follows(0, <<j>>) /\ DOMAIN <<j>> = {1} /\ <<j>>[1] = j
  BY <1>1, <1>2, Queued DEF IInv, TypeOK
<1>4. AllKept /\ Gets(j)
  <2>1. AllKept /\ \A n \in {1} : Gets(<<j>>[n])
    BY <1>3, FollowsKeeps
  <2> QED
    BY <1>3, <2>1
<1>5. HasJob("exit")' \/ HasJob("waitError")'
  BY <1>1, <1>4, JobsKept
<1>6. \A s : Reading(s) => Reading(s)'
  BY <1>4, JobsKept
<1>7. LifeOwed'
  BY <1>2, <1>5 DEF LifeOwed
<1>8. StdinOwed'
  BY <1>2 DEF StdinOwed, OwedInv, stdin
<1>9. DrainOwed'
  BY <1>2, <1>6 DEF DrainOwed, OwedInv
<1> QED
  BY <1>7, <1>8, <1>9 DEF OwedInv

LEMMA StdinOwes == IInv /\ OwedInv /\ (StdinEnd \/ StdinDestroyed \/ RunStdin) => OwedInv'
<1> SUFFICES ASSUME IInv, OwedInv, StdinEnd \/ StdinDestroyed \/ RunStdin PROVE OwedInv'
  OBVIOUS
<1>1. /\ UNCHANGED <<child, waited, callbacks, threw, events, cancelled, awaiting, ended>>
      /\ \/ stdinEnded' = TRUE /\ stdinNative' = "closed"
         \/ UNCHANGED <<stdinEnded, stdinNative>>
  BY DEF StdinEnd, StdinDestroyed, RunStdin, StdinDestroy, drains, outcome
<1>2. AllKept \/ (Kept /\ micro[1].job \notin Final \cup {"read"})
  <2>1. CASE StdinEnd \/ StdinDestroyed
    <3>1. PICK j \in Jobs : micro' = Append(micro, j)
      BY <2>1, JobTyped DEF StdinEnd, StdinDestroyed, StdinDestroy
    <3> QED
      BY <3>1, Queued, FollowsKeeps DEF IInv, TypeOK
  <2>2. CASE RunStdin
    <3>1. micro # <<>> /\ micro' = Tail(micro) /\ Head(micro).job \in {"stdinClose", "stdinFinish"}
      BY <2>2 DEF RunStdin, Due, Rest
    <3>2. Follows(1, <<>>) /\ Head(micro) = micro[1]
      BY <3>1, Taken DEF IInv, TypeOK
    <3>3. Kept
      BY <3>2, FollowsKeeps
    <3> QED
      BY <3>1, <3>2, <3>3 DEF Final
  <2> QED
    BY <2>1, <2>2
<1>3. \A e \in {"error", "close"} : Happened(e)' <=> Happened(e)
  BY <1>1 DEF Happened
<1>4. LifeOwed' /\ DrainOwed'
  BY <1>1, <1>2, <1>3, OwedFrame
<1>5. StdinOwed'
  BY <1>1, <1>3 DEF StdinOwed, OwedInv
<1> QED
  BY <1>4, <1>5 DEF OwedInv

LEMMA Reassociated ==
  ASSUME NEW S, NEW u \in Seq(S), NEW v \in Seq(S), NEW w \in Seq(S)
  PROVE  (u \o v) \o w = u \o (v \o w)
OBVIOUS

\* A read or a chunk that is taken off the queue: a loop goes on, or has ended.
LEMMA LoopOwes ==
  IInv /\ OwedInv /\ (RunRead \/ RunData \/ (\E s \in Streams : ReadSettles(s) \/ DestroyStream(s)))
    => OwedInv'
<1> SUFFICES ASSUME IInv, OwedInv,
                    RunRead \/ RunData \/ (\E s \in Streams : ReadSettles(s) \/ DestroyStream(s))
             PROVE  OwedInv'
  OBVIOUS
<1>1. UNCHANGED <<child, waited, callbacks, threw, events, stdin>>
  BY DEF RunRead, RunData, ReadSettles, DestroyStream, outcome
<1>2. \A e \in {"error", "close"} : Happened(e)' <=> Happened(e)
  BY <1>1 DEF Happened
<1>3. StdinOwed'
  BY <1>1, <1>2 DEF StdinOwed, OwedInv, stdin
<1>4. /\ micro \in Seq(Jobs) /\ awaiting \in Flags /\ cancelled \in Flags /\ ended \in Flags
  BY DEF IInv, TypeOK
<1>5. CASE RunData
  <2>1. /\ micro # <<>> /\ micro' = Tail(micro) /\ Head(micro).job = "data"
        /\ UNCHANGED <<cancelled, awaiting, ended>>
    BY <1>5 DEF RunData, Due, Rest, drains
  <2>2. Follows(1, <<>>) /\ Head(micro) = micro[1]
    BY <1>4, <2>1, Taken
  <2>3. Kept /\ micro[1].job \notin Final \cup {"read"}
    BY <2>1, <2>2, FollowsKeeps DEF Final
  <2> QED
    BY <1>1, <1>2, <1>3, <2>1, <2>3, OwedFrame DEF OwedInv
<1>6. ASSUME NEW s \in Streams, ReadSettles(s) PROVE LifeOwed' /\ DrainOwed'
  <2>1. PICK c : /\ micro' = Append(micro, StreamJob("read", s, c))
                 /\ awaiting' = [awaiting EXCEPT ![s] = FALSE]
                 /\ StreamJob("read", s, c) \in Jobs
                 /\ UNCHANGED <<cancelled, ended>>
    <3>1. taken[s] \in 0..MaxChunks /\ wrote[s] \in 0..MaxChunks
      BY DEF IInv, TypeOK
    <3>2. CASE taken[s] < wrote[s] /\ micro' = Append(micro, StreamJob("read", s, taken[s] + 1))
      <4>1. taken[s] + 1 \in 0..MaxChunks
        BY <3>1, <3>2, ChildProcessAssumption DEF ChildProcessAssumption
      <4> QED
        BY <1>6, <3>2, <4>1, JobTyped DEF ReadSettles
    <3>3. CASE micro' = Append(micro, StreamJob("read", s, 0))
      <4>1. 0 \in 0..MaxChunks
        BY ChildProcessAssumption DEF ChildProcessAssumption
      <4> QED
        BY <1>6, <3>3, <4>1, JobTyped DEF ReadSettles
    <3> QED
      BY <1>6, <3>2, <3>3 DEF ReadSettles
  <2> DEFINE j == StreamJob("read", s, c)
  <2>2. j.job = "read" /\ j.of = s
    BY DEF StreamJob
  <2>3. j \in Jobs /\ micro' = Append(micro, j)
    BY <2>1
  <2> HIDE DEF j
  <2>4. Follows(0, <<j>>) /\ DOMAIN <<j>> = {1} /\ <<j>>[1] = j
    BY <1>4, <2>3, Queued
  <2>5. AllKept /\ Gets(j)
    <3>1. AllKept /\ \A n \in {1} : Gets(<<j>>[n])
      BY <2>4, FollowsKeeps
    <3> QED
      BY <2>4, <3>1
  <2>6. Reading(s)' /\ \A t : Reading(t) => Reading(t)'
    BY <2>2, <2>5, JobsKept
  <2>7. \A t \in Streams : (awaiting'[t] => awaiting[t]) /\ (t # s => awaiting'[t] = awaiting[t])
    BY <1>4, <2>1 DEF Flags
  <2>8. DrainOwed'
    BY <1>1, <1>2, <2>1, <2>6, <2>7 DEF DrainOwed, OwedInv
  <2> QED
    BY <1>1, <1>2, <2>5, <2>8, OwedFrame
<1>7. ASSUME NEW s \in Streams, DestroyStream(s) PROVE LifeOwed' /\ DrainOwed'
  <2> DEFINE O == {t \in {s} : awaiting[t]}
             new == Ends(O)
  <2>1. /\ UNCHANGED ended
        /\ cancelled' = [t \in Streams |-> cancelled[t] \/ t \in {s}]
        /\ awaiting' = [t \in Streams |-> awaiting[t] /\ t \notin {s}]
        /\ micro' = micro \o new
    BY <1>7 DEF DestroyStream, CancelReaders, Ends
  <2>2. /\ new \in Seq(Jobs)
        /\ awaiting[s] => \E i \in DOMAIN new : new[i].job = "read" /\ new[i].of = s
    <3>1. O \in SUBSET Streams /\ (awaiting[s] => s \in O)
      OBVIOUS
    <3> HIDE DEF O
    <3> QED
      BY <3>1, EndsAre, EndsCover
  <2> HIDE DEF new
  <2>3. Follows(0, new)
    BY <1>4, <2>1, <2>2, Appending
  <2>4. AllKept /\ \A n \in DOMAIN new : Gets(new[n])
    BY <2>3, FollowsKeeps
  <2>5. /\ awaiting[s] => Reading(s)'
        /\ \A t : Reading(t) => Reading(t)'
    BY <2>2, <2>4, JobsKept
  <2>6. \A t \in Streams : /\ awaiting'[t] <=> awaiting[t] /\ t # s
                           /\ cancelled'[t] <=> cancelled[t] \/ t = s
    BY <2>1
  <2>7. DrainOwed'
    BY <1>1, <1>2, <2>1, <2>5, <2>6 DEF DrainOwed, OwedInv
  <2> QED
    BY <1>1, <1>2, <2>4, <2>7, OwedFrame
<1>8. CASE RunRead
  <2>0. PICK s, c : s = micro[1].of /\ c = micro[1].chunk
    OBVIOUS
  <2> DEFINE goesOn == c # 0 /\ ~torn[s]
             d      == StreamJob("data", s, c)
             r      == StreamJob("read", s, 0)
             pushed == IF c # 0 THEN <<d>> ELSE <<>>
             last   == IF goesOn /\ cancelled[s] THEN <<r>> ELSE <<>>
  <2>1. micro # <<>> /\ Head(micro) = micro[1] /\ 1 \in DOMAIN micro /\ micro[1].job = "read"
    BY <1>4, <1>8 DEF RunRead, Due
  <2>2. s \in Streams /\ c \in 0..MaxChunks
    <3>1. micro[1] \in Jobs
      BY <1>4, <2>1, ElementTyped
    <3> QED
      BY <2>0, <2>1, <3>1 DEF IInv, DrainInv, Jobs
  <2>3. /\ awaiting' = [awaiting EXCEPT ![s] = goesOn /\ ~cancelled[s]]
        /\ ended' = [ended EXCEPT ![s] = ~goesOn]
        /\ micro' = Tail(micro) \o pushed \o last
        /\ UNCHANGED cancelled
    BY <1>8, <2>0, <2>1 DEF RunRead, Of, Chunk, Rest
  <2>4. d \in Jobs /\ r \in Jobs /\ r.job = "read" /\ r.of = s
    BY <2>2, JobTyped, ChildProcessAssumption DEF ChildProcessAssumption
  <2>5. /\ pushed \in Seq(Jobs) /\ last \in Seq(Jobs)
        /\ goesOn /\ cancelled[s] => 1 \in DOMAIN last /\ last[1] = r /\ Len(last) = 1
    <3> HIDE DEF d, r, goesOn
    <3> QED
      BY <2>4
  <2>6. Tail(micro) \in Seq(Jobs)
    BY <1>4, <2>1
  <2> DEFINE t   == Tail(micro)
             new == pushed \o last
             on  == goesOn /\ cancelled[s]
  <2> HIDE DEF r, pushed, last, t
  <2>7. /\ new \in Seq(Jobs) /\ micro' = t \o new
        /\ on => \E i \in DOMAIN new : new[i] = r
    <3> HIDE DEF goesOn, on
    <3>1. new \in Seq(Jobs) /\ micro' = t \o new
      <4>1. t \in Seq(Jobs) /\ micro' = (t \o pushed) \o last
        BY <2>3, <2>6 DEF t
      <4>2. (t \o pushed) \o last = t \o (pushed \o last)
        BY ONLY <2>5, <4>1, Reassociated
      <4> QED
        BY <2>5, <4>1, <4>2
    <3>2. ASSUME on PROVE Len(pushed) + 1 \in DOMAIN new /\ new[Len(pushed) + 1] = r
      <4>1. Len(last) = 1 /\ last[1] = r
        BY <2>5, <3>2 DEF on
      <4>2. /\ Len(pushed) \in Nat /\ Len(new) = Len(pushed) + Len(last)
            /\ \A i \in 1..Len(last) : new[Len(pushed) + i] = last[i]
        BY <2>5, ConcatIs
      <4>3. DOMAIN new = 1..Len(new)
        BY <3>1
      <4> QED
        BY <4>1, <4>2, <4>3
    <3> QED
      BY <3>1, <3>2
  <2> HIDE DEF new
  <2>8. Follows(1, new)
    BY <1>4, <2>1, <2>7, Taking DEF t
  <2>9. Kept /\ \A n \in DOMAIN new : Gets(new[n])
    BY <2>8, FollowsKeeps
  <2>10. \A name \in Final : HasJob(name) => HasJob(name)'
    BY <2>1, <2>9, JobsKept DEF Final
  <2>11. /\ \A u : Reading(u) /\ u # s => Reading(u)'
         /\ on => Reading(s)'
    <3> HIDE DEF on
    <3>1. \A u : Reading(u) /\ u # s => Reading(u)'
      BY <2>0, <2>9, JobsKept
    <3>2. on => Gets(r)
      BY <2>7, <2>9
    <3>3. Gets(r) => Reading(s)'
      BY <2>4, JobsKept
    <3> QED
      BY <3>1, <3>2, <3>3
  <2>12. LifeOwed'
    BY <1>1, <1>2, <2>10 DEF LifeOwed, OwedInv, Final
  <2>13. /\ awaiting'[s] = (goesOn /\ ~cancelled[s]) /\ ended'[s] = ~goesOn
         /\ \A u \in Streams : u # s => awaiting'[u] = awaiting[u] /\ ended'[u] = ended[u]
    <3> HIDE DEF goesOn
    <3> QED
      BY <1>4, <2>2, <2>3 DEF Flags
  <2>14. (cancelled[s] => ~awaiting'[s]) /\ (awaiting'[s] \/ ended'[s] \/ Reading(s)')
    <3> HIDE DEF goesOn
    <3>1. cancelled[s] => ~awaiting'[s]
      BY <2>13
    <3>2. awaiting'[s] \/ ended'[s] \/ on
      BY <2>13 DEF on
    <3> QED
      BY <2>11, <3>1, <3>2
  <2>15. DrainOwed'
    <3> HIDE DEF goesOn, on
    <3>1. \A u \in Streams : u # s => /\ cancelled'[u] => ~awaiting'[u]
                                      /\ awaiting'[u] \/ ended'[u] \/ Reading(u)'
      BY <2>3, <2>11, <2>13 DEF DrainOwed, OwedInv
    <3>2. waited' = "handled" /\ Happened("close")' /\ ~threw' => \A u \in Streams : cancelled'[u]
      BY <1>1, <1>2, <2>3 DEF DrainOwed, OwedInv
    <3>3. \A u \in Streams : /\ cancelled'[u] => ~awaiting'[u]
                             /\ awaiting'[u] \/ ended'[u] \/ Reading(u)'
      <4> SUFFICES ASSUME NEW u \in Streams
                   PROVE  /\ cancelled'[u] => ~awaiting'[u]
                          /\ awaiting'[u] \/ ended'[u] \/ Reading(u)'
        OBVIOUS
      <4>1. CASE u = s
        BY <2>3, <2>14, <4>1
      <4> QED
        BY <3>1, <4>1
    <3> QED
      BY <3>2, <3>3 DEF DrainOwed
  <2> QED
    BY <1>3, <2>12, <2>15 DEF OwedInv
<1> QED
  BY <1>1, <1>2, <1>3, <1>5, <1>6, <1>7, <1>8 DEF OwedInv

\* What execFile's callback makes of the history.
LEMMA CallbackIs ==
  ASSUME IInv, NEW failed \in BOOLEAN, NEW out, NEW throws \in BOOLEAN,
         Callback(failed, out, throws)
  PROVE  callbacks' # <<>> /\ threw' = throws
BY DEF Callback, IInv, TypeOK

\* wait()'s handler, or the failed launch's microtask, reports.
LEMMA ReportOwes ==
  IInv /\ OwedInv /\ (\E throws \in BOOLEAN : RunExit(throws) \/ RunWaitError(throws)
                                                \/ RunUnlaunched(throws)) => OwedInv'
<1> SUFFICES ASSUME IInv, OwedInv, NEW throws \in BOOLEAN,
                    RunExit(throws) \/ RunWaitError(throws) \/ RunUnlaunched(throws)
             PROVE  OwedInv'
  OBVIOUS
<1>1. /\ micro # <<>> /\ micro \in Seq(Jobs) /\ Head(micro) = micro[1] /\ 1 \in DOMAIN micro
      /\ micro[1].job \in {"exit", "waitError", "unlaunched"}
      /\ UNCHANGED <<child, drains, stdin>>
  <2>1. /\ Due("exit") \/ Due("waitError") \/ Due("unlaunched")
        /\ UNCHANGED <<child, drains, stdin>>
    BY DEF RunExit, RunWaitError, RunUnlaunched
  <2>2. micro \in Seq(Jobs)
    BY DEF IInv, TypeOK
  <2>3. micro # <<>> /\ Head(micro).job \in {"exit", "waitError", "unlaunched"}
    BY <2>1 DEF Due
  <2>4. Head(micro) = micro[1] /\ 1 \in DOMAIN micro
    BY <2>2, <2>3
  <2> QED
    BY <2>1, <2>2, <2>3, <2>4
<1>2. callbacks' # <<>> /\ threw' = throws
  <2>1. (status # "ok") \in BOOLEAN /\ TRUE \in BOOLEAN
    OBVIOUS
  <2>2. CASE RunExit(throws)
    BY <2>1, <2>2, CallbackIs DEF RunExit
  <2>3. CASE RunWaitError(throws) \/ RunUnlaunched(throws)
    BY <2>1, <2>3, CallbackIs DEF RunWaitError, RunUnlaunched
  <2> QED
    BY <2>2, <2>3
<1>3. events \in Seq(Events) /\ Events = {"spawn", "exit", "close", "error"}
  BY DEF IInv, TypeOK, Events
<1>4. ASSUME Kept
      PROVE  \A s : Reading(s) => Reading(s)'
  BY <1>1, <1>4, JobsKept
<1>5. CASE RunExit(throws)
  <2> DEFINE c == Job("close")
  <2>1. /\ micro[1].job = "exit" /\ waited' = "handled" /\ events' = Append(events, "exit")
        /\ micro' = IF throws THEN Tail(micro) ELSE <<c>> \o Tail(micro)
    BY <1>1, <1>5 DEF RunExit, Due, Rest
  <2>2. waited = "settled" /\ child = "gone"
    BY <1>1, <2>1 DEF IInv, LifeInv, Final, TypeOK
  <2>3. ~Happened("close")'
    <3>1. ~Happened("close")
      BY <2>2 DEF IInv, LifeInv
    <3> QED
      BY <1>3, <2>1, <3>1, EventIs
  <2>4. c \in Jobs /\ c.job = "close"
    BY JobTyped
  <2> HIDE DEF c
  <2>5. Kept /\ (~throws => Gets(c))
    <3>1. CASE throws
      <4>1. Follows(1, <<>>)
        BY <1>1, <2>1, <3>1, Taken
      <4> QED
        BY <3>1, <4>1, FollowsKeeps
    <3>2. CASE ~throws
      <4>1. micro' = <<c>> \o Tail(micro)
        BY <2>1, <3>2
      <4>2. /\ DOMAIN micro' = DOMAIN micro /\ micro'[1] = c
            /\ \A i \in DOMAIN micro : i # 1 => micro'[i] = micro[i]
        BY <1>1, <2>4, <4>1, Replacing
      <4> QED
        BY <1>1, <4>2 DEF Kept, Gets
    <3> QED
      BY <3>1, <3>2
  <2>6. throws \/ HasJob("close")'
    BY <2>4, <2>5, JobsKept
  <2>7. LifeOwed'
    BY <1>1, <1>2, <2>1, <2>2, <2>6 DEF LifeOwed
  <2>8. StdinOwed'
    BY <1>1, <2>3 DEF StdinOwed, OwedInv, stdin
  <2>9. DrainOwed'
    BY <1>1, <1>4, <2>3, <2>5 DEF DrainOwed, OwedInv, drains
  <2> QED
    BY <2>7, <2>8, <2>9 DEF OwedInv
<1>6. CASE RunWaitError(throws)
  <2>1. /\ micro[1].job = "waitError" /\ waited' = "handled" /\ events' = Append(events, "error")
        /\ micro' = Tail(micro)
    BY <1>1, <1>6 DEF RunWaitError, Due, Rest
  <2>2. waited = "settled" /\ child = "gone"
    BY <1>1, <2>1 DEF IInv, LifeInv, Final, TypeOK
  <2>3. ~Happened("close")' /\ Happened("error")'
    <3>1. ~Happened("close")
      BY <2>2 DEF IInv, LifeInv
    <3> QED
      BY <1>3, <2>1, <3>1, EventIs
  <2>4. Follows(1, <<>>)
    BY <1>1, <2>1, Taken
  <2>5. Kept
    BY <2>4, FollowsKeeps
  <2>6. LifeOwed'
    BY <1>1, <1>2, <2>1, <2>2, <2>3 DEF LifeOwed
  <2>7. StdinOwed'
    BY <1>1, <2>3 DEF StdinOwed, OwedInv, stdin
  <2>8. DrainOwed'
    BY <1>1, <1>4, <2>3, <2>5 DEF DrainOwed, OwedInv, drains
  <2> QED
    BY <2>6, <2>7, <2>8 DEF OwedInv
<1>7. CASE RunUnlaunched(throws)
  <2>1. /\ micro[1].job = "unlaunched" /\ UNCHANGED waited /\ micro' = Tail(micro)
    BY <1>1, <1>7 DEF RunUnlaunched, Due, Rest
  <2>2. waited = "pending"
    BY <1>1, <2>1 DEF IInv, LifeInv, Final, TypeOK
  <2>3. Follows(1, <<>>)
    BY <1>1, <2>1, Taken
  <2>4. Kept
    BY <2>3, FollowsKeeps
  <2>5. LifeOwed'
    BY <1>2, <2>1, <2>2 DEF LifeOwed
  <2>6. StdinOwed'
    BY <1>1, <2>1, <2>2 DEF StdinOwed, OwedInv, stdin
  <2>7. DrainOwed'
    BY <1>1, <1>4, <2>1, <2>2, <2>4 DEF DrainOwed, OwedInv, drains
  <2> QED
    BY <2>5, <2>6, <2>7 DEF OwedInv
<1> QED
  BY <1>5, <1>6, <1>7

LEMMA AppendedConcat ==
  \A u, w \in Seq(Jobs), x \in Jobs :
    Append(w, x) \in Seq(Jobs) /\ Append(u \o w, x) = u \o Append(w, x)
<1> SUFFICES ASSUME NEW u \in Seq(Jobs), NEW w \in Seq(Jobs), NEW x \in Jobs
             PROVE  Append(w, x) \in Seq(Jobs) /\ Append(u \o w, x) = u \o Append(w, x)
  OBVIOUS
<1> QED
  OBVIOUS

\* The handler's 'close' cancels every loop, and closes stdin.
LEMMA CloseOwes == IInv /\ OwedInv /\ RunClose => OwedInv'
<1> SUFFICES ASSUME IInv, OwedInv, RunClose PROVE OwedInv'
  OBVIOUS
<1> DEFINE O == {s \in Streams : awaiting[s]}
           e == Ends(O)
           c == Job("stdinClose")
           t == Tail(micro)
<1>1. /\ micro # <<>> /\ micro \in Seq(Jobs) /\ Head(micro) = micro[1] /\ 1 \in DOMAIN micro
      /\ micro[1].job = "close" /\ t \in Seq(Jobs)
  BY DEF IInv, TypeOK, RunClose, Due
<1>2. /\ UNCHANGED <<child, ended, waited, callbacks, threw>>
      /\ events' = Append(events, "close")
      /\ cancelled' = [s \in Streams |-> TRUE] /\ awaiting' = [s \in Streams |-> FALSE]
      /\ stdinEnded' /\ stdinNative' = "closed"
      /\ micro' = t \o e \/ micro' = Append(t \o e, c)
  BY DEF RunClose, StdinDestroy, Ends, Rest, OwedInv, StdinOwed, IInv, TypeOK
<1>3. /\ c \in Jobs /\ e \in Seq(Jobs)
      /\ \A s \in Streams : awaiting[s] => \E i \in DOMAIN e : e[i].job = "read" /\ e[i].of = s
  <2>1. O \in SUBSET Streams /\ \A s \in Streams : awaiting[s] => s \in O
    OBVIOUS
  <2> HIDE DEF O
  <2> QED
    BY <2>1, EndsAre, EndsCover, JobTyped
<1> HIDE DEF e, c, t
<1>4. PICK new \in Seq(Jobs) : micro' = t \o new /\ \A i \in DOMAIN e : i \in DOMAIN new /\ new[i] = e[i]
  <2>1. CASE micro' = t \o e
    BY <1>3, <2>1
  <2>2. CASE micro' = Append(t \o e, c)
    <3>1. Append(e, c) \in Seq(Jobs) /\ Append(t \o e, c) = t \o Append(e, c)
      <4>1. c \in Jobs /\ e \in Seq(Jobs) /\ t \in Seq(Jobs)
        BY <1>1, <1>3
      <4> QED
        BY ONLY <4>1, AppendedConcat
    <3>2. \A i \in DOMAIN e : i \in DOMAIN Append(e, c) /\ Append(e, c)[i] = e[i]
      BY <1>3
    <3> QED
      BY <2>2, <3>1, <3>2
  <2> QED
    BY <1>2, <2>1, <2>2
<1>5. Follows(1, new)
  BY <1>1, <1>4, Taking DEF t
<1>6. Kept /\ \A n \in DOMAIN new : Gets(new[n])
  BY <1>5, FollowsKeeps
<1>7. /\ \A s : Reading(s) => Reading(s)'
      /\ \A s \in Streams : awaiting[s] => Reading(s)'
  <2>1. \A s : Reading(s) => Reading(s)'
    BY <1>1, <1>6, JobsKept
  <2>2. ASSUME NEW s \in Streams, awaiting[s] PROVE Reading(s)'
    <3>1. PICK i \in DOMAIN e : e[i].job = "read" /\ e[i].of = s
      BY <1>3, <2>2
    <3>2. Gets(e[i])
      BY <1>4, <1>6
    <3>3. PICK j \in DOMAIN micro' : micro'[j] = e[i]
      BY <3>2 DEF Gets
    <3> QED
      BY <3>1, <3>3 DEF Reading
  <2> QED
    BY <2>1, <2>2
<1>8. Happened("close")' /\ (Happened("error") => Happened("error")')
  <2>1. events \in Seq(Events) /\ "close" \in Events
    BY DEF IInv, TypeOK, Events
  <2> QED
    BY <1>2, <2>1, EventIs
<1>9. waited = "handled" /\ child = "gone"
  BY <1>1 DEF IInv, LifeInv, Final, TypeOK
<1>10. LifeOwed'
  BY <1>2, <1>8, <1>9 DEF LifeOwed, OwedInv
<1>11. StdinOwed'
  BY <1>2 DEF StdinOwed
<1>12. DrainOwed'
  BY <1>2, <1>7 DEF DrainOwed, OwedInv
<1> QED
  BY <1>10, <1>11, <1>12 DEF OwedInv

\* A listener that throws out of the handler leaves nothing owed but the events.
LEMMA CloseThrowsOwes == IInv /\ OwedInv /\ RunCloseThrows => OwedInv'
<1> SUFFICES ASSUME IInv, OwedInv, RunCloseThrows PROVE OwedInv'
  OBVIOUS
<1>1. Follows(1, <<>>) /\ 1 \in DOMAIN micro /\ micro[1].job = "close"
  BY Taken DEF IInv, TypeOK, RunCloseThrows, Due, Rest
<1>2. /\ UNCHANGED <<child, waited, callbacks, cancelled, awaiting, ended, stdin>>
      /\ threw'
  BY DEF RunCloseThrows, drains
<1>3. waited = "handled" /\ child = "gone"
  BY <1>1 DEF IInv, LifeInv, Final, TypeOK
<1>4. \A s : Reading(s) => Reading(s)'
  BY <1>1, FollowsKeeps, JobsKept
<1>5. LifeOwed'
  BY <1>2, <1>3 DEF LifeOwed, OwedInv
<1>6. StdinOwed'
  BY <1>2 DEF StdinOwed, OwedInv, stdin
<1>7. DrainOwed'
  BY <1>2, <1>4 DEF DrainOwed, OwedInv
<1> QED
  BY <1>5, <1>6, <1>7 DEF OwedInv

\* What is owed to the caller of execFile, and to the pipes, has been done when no
\* microtask is left: the part of Reaped that is not about time.
THEOREM RestIsReaped == Spec => []ReapedAtRest
<1>1. Init => OwedInv
  <2> SUFFICES ASSUME Init PROVE OwedInv
    OBVIOUS
  <2>1. child = "unlaunched" => HasJob("unlaunched")
    <3> SUFFICES ASSUME child = "unlaunched" PROVE HasJob("unlaunched")
      OBVIOUS
    <3>1. micro = <<Job("stdinClose"), Job("unlaunched")>>
      BY DEF Init
    <3>2. 2 \in DOMAIN micro /\ micro[2].job = "unlaunched"
      BY <3>1 DEF Job
    <3> QED
      BY <3>2 DEF HasJob
  <2>2. \A s \in Streams : ~cancelled[s] /\ (awaiting[s] \/ ended[s])
    BY DEF Init
  <2> QED
    BY <2>1, <2>2 DEF Init, OwedInv, LifeOwed, StdinOwed, DrainOwed
<1>2. IInv /\ OwedInv /\ [Next]_vars => OwedInv'
  <2> SUFFICES ASSUME IInv, OwedInv, [Next]_vars PROVE OwedInv'
    OBVIOUS
  <2>1. CASE UNCHANGED vars
    BY <2>1 DEF vars, pipes, drains, outcome, stdin, OwedInv, LifeOwed, StdinOwed, DrainOwed,
                Happened, HasJob, Reading
  <2> QED
    BY <2>1, OsOwes, WaitOwes, StdinOwes, LoopOwes, ReportOwes, CloseOwes, CloseThrowsOwes
       DEF Next, RunJob, Settle, Caller
<1>3. IInv /\ OwedInv => ReapedAtRest
  <2> SUFFICES ASSUME IInv, OwedInv, micro = <<>> PROVE ReapedAtRest
    BY DEF ReapedAtRest
  <2>1. (\A name : ~HasJob(name)) /\ (\A s : ~Reading(s))
    BY DEF HasJob, Reading
  <2>2. waited # "pending" => waited = "handled"
    BY <2>1 DEF OwedInv, LifeOwed, IInv, TypeOK
  <2>3. child = "unlaunched" \/ waited # "pending" => Len(callbacks) = 1
    <3>1. child = "unlaunched" \/ waited # "pending" => callbacks # <<>>
      BY <2>1, <2>2 DEF OwedInv, LifeOwed
    <3>2. Len(callbacks) \in Nat /\ Len(callbacks) <= 1 /\ (callbacks # <<>> => Len(callbacks) # 0)
      BY DEF IInv, TypeOK, LifecycleInOrder
    <3> QED
      BY <3>1, <3>2
  <2>4. ASSUME waited # "pending", ~Happened("error"), ~threw
        PROVE  /\ Happened("close") /\ stdinNative = "closed"
               /\ \A s \in Streams : ended[s]
    <3>1. Happened("close")
      BY <2>1, <2>2, <2>4 DEF OwedInv, LifeOwed
    <3>2. stdinNative = "closed"
      BY <2>2, <2>4, <3>1 DEF OwedInv, StdinOwed
    <3>3. \A s \in Streams : ended[s]
      BY <2>1, <2>2, <2>4, <3>1 DEF OwedInv, DrainOwed
    <3> QED
      BY <3>1, <3>2, <3>3
  <2> QED
    BY <2>3, <2>4 DEF ReapedAtRest
<1> QED
  BY Inductive, <1>1, <1>2, <1>3, PTL DEF Spec
=============================================================================
