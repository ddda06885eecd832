-------------------------- MODULE HttpClientProofs --------------------------
(***************************************************************************)
(* Proofs about HttpClient, for any exchanges and any number of calls.     *)
(* Four invariants, each inductive with those before it: the types; the    *)
(* control (Control: which jobs are queued, who may still tear the request *)
(* down, what its owner has heard); the order of what is sent (Sending);   *)
(* and the bytes read (Stream: how many of them have been handled, and     *)
(* where those went).  With the first two goes what the request owes its   *)
(* owner (OwedInv).  What the body decoder does is HttpServerProofs' part: *)
(* Server is that module, over the constants both share.                   *)
(***************************************************************************)
EXTENDS HttpClient, TLAPS, SequenceTheorems

-----------------------------------------------------------------------------
\* The microtask queue: the jobs due, and how many of a kind there can be.
Names(q) == {q[i].job : i \in DOMAIN q}

Setup    == {"assign", "opened", "refused", "ready"}
Handling == {"read", "parse", "eof", "error"}
Pumping  == {"opened", "refused"} \cup Handling
Settling == {"fail", "close"}

\* At most one job of these.
One(q, jobs) == \A i, j \in DOMAIN q : q[i].job \in jobs /\ q[j].job \in jobs => i = j

\* The connection is set up, read and settled one job at a time, and the
\* request has heard of it before anything that was read.
InOrder(q) ==
  /\ One(q, Setup) /\ One(q, Pumping) /\ One(q, Settling)
  /\ \A i, j \in DOMAIN q : q[i].job = "ready" /\ q[j].job \in Handling => i < j

LEMMA OneTail ==
  ASSUME NEW S, NEW q \in Seq(S), q # <<>>, NEW jobs, One(q, jobs)
  PROVE  /\ One(Tail(q), jobs)
         /\ Head(q).job \in jobs => Names(Tail(q)) \cap jobs = {}
<1>1. /\ Tail(q) \in Seq(S) /\ Len(q) \in Nat \ {0} /\ Len(Tail(q)) = Len(q) - 1
      /\ \A i \in 1..Len(Tail(q)) : Tail(q)[i] = q[i + 1] /\ i + 1 \in 1..Len(q)
      /\ DOMAIN q = 1..Len(q) /\ DOMAIN Tail(q) = 1..Len(Tail(q)) /\ Head(q) = q[1]
  OBVIOUS
<1> DEFINE t == Tail(q)
<1> HIDE DEF t
<1>2. One(t, jobs)
  <2> SUFFICES ASSUME NEW i \in DOMAIN t, NEW j \in DOMAIN t, t[i].job \in jobs, t[j].job \in jobs
               PROVE  i = j
    BY DEF One
  <2>1. i + 1 = j + 1
    BY <1>1 DEF One, t
  <2> QED
    BY <2>1, <1>1 DEF t
<1>3. ASSUME Head(q).job \in jobs, NEW i \in DOMAIN t, t[i].job \in jobs
      PROVE  FALSE
  <2>1. 1 = i + 1
    BY <1>1, <1>3 DEF One, t
  <2> QED
    BY <2>1, <1>1 DEF t
<1> QED
  BY <1>2, <1>3 DEF Names, t

LEMMA NamesTail ==
  ASSUME NEW S, NEW q \in Seq(S), q # <<>>
  PROVE  /\ Names(q) = {Head(q).job} \cup Names(Tail(q))
         /\ InOrder(q) => /\ InOrder(Tail(q))
                          /\ Head(q).job \in Setup => Names(Tail(q)) \cap Setup = {}
                          /\ Head(q).job \in Pumping => Names(Tail(q)) \cap Pumping = {}
                          /\ Head(q).job \in Settling => Names(Tail(q)) \cap Settling = {}
                          /\ Head(q).job \in Handling => "ready" \notin Names(Tail(q))
<1>1. /\ Tail(q) \in Seq(S) /\ Len(q) \in Nat \ {0} /\ Len(Tail(q)) = Len(q) - 1
      /\ \A i \in 1..Len(Tail(q)) : Tail(q)[i] = q[i + 1] /\ i + 1 \in 1..Len(q)
      /\ DOMAIN q = 1..Len(q) /\ DOMAIN Tail(q) = 1..Len(Tail(q)) /\ Head(q) = q[1]
  OBVIOUS
<1> DEFINE t == Tail(q)
<1> HIDE DEF t
<1>2. Names(q) = {Head(q).job} \cup Names(t)
  <2>1. ASSUME NEW i \in 1..Len(q), i # 1
        PROVE  i - 1 \in 1..Len(t) /\ q[i] = t[i - 1]
    BY <1>1, <2>1 DEF t
  <2>2. \A i \in DOMAIN q : q[i].job \in {Head(q).job} \cup Names(t)
    BY <1>1, <2>1 DEF Names, t
  <2>3. \A i \in DOMAIN t : t[i].job \in Names(q)
    BY <1>1 DEF Names, t
  <2> QED
    BY <2>2, <2>3, <1>1 DEF Names
<1>3. ASSUME InOrder(q)
      PROVE  \A i, j \in DOMAIN t : t[i].job = "ready" /\ t[j].job \in Handling => i < j
  <2> SUFFICES ASSUME NEW i \in DOMAIN t, NEW j \in DOMAIN t,
                      t[i].job = "ready", t[j].job \in Handling
               PROVE  i < j
    OBVIOUS
  <2>1. i + 1 < j + 1
    BY <1>1, <1>3 DEF InOrder, t
  <2> QED
    BY <2>1, <1>1 DEF t
<1>4. ASSUME InOrder(q), Head(q).job \in Handling, NEW i \in DOMAIN t, t[i].job = "ready"
      PROVE  FALSE
  <2>1. i + 1 < 1
    BY <1>1, <1>4 DEF InOrder, t
  <2> QED
    BY <2>1, <1>1 DEF t
<1> QED
  BY <1>2, <1>3, <1>4, OneTail DEF InOrder, Names, t

LEMMA NamesAppend ==
  ASSUME NEW S, NEW q \in Seq(S), NEW x \in S
  PROVE  /\ Append(q, x) \in Seq(S) /\ Names(Append(q, x)) = Names(q) \cup {x.job}
         /\ /\ InOrder(q)
            /\ x.job \in Setup => Names(q) \cap Setup = {}
            /\ x.job \in Pumping => Names(q) \cap Pumping = {}
            /\ x.job \in Settling => Names(q) \cap Settling = {}
            /\ x.job = "ready" => Names(q) \cap Handling = {}
            => InOrder(Append(q, x))
<1> DEFINE p == Append(q, x)
<1>1. /\ p \in Seq(S) /\ Len(q) \in Nat /\ Len(p) = Len(q) + 1
      /\ \A i \in 1..Len(q) : p[i] = q[i] /\ i \in 1..Len(p)
      /\ p[Len(p)] = x /\ Len(p) \in 1..Len(p)
      /\ DOMAIN q = 1..Len(q) /\ DOMAIN p = 1..Len(p)
      /\ \A i \in 1..Len(p) : i = Len(p) \/ i \in 1..Len(q)
  OBVIOUS
<1> HIDE DEF p
<1>2. Names(p) = Names(q) \cup {x.job}
  <2>1. \A i \in DOMAIN p : p[i].job \in Names(q) \cup {x.job}
    BY <1>1 DEF Names
  <2>2. x.job \in Names(p) /\ \A i \in DOMAIN q : q[i].job \in Names(p)
    BY <1>1 DEF Names
  <2> QED
    BY <2>1, <2>2 DEF Names
<1>3. ASSUME NEW jobs, One(q, jobs), x.job \in jobs => Names(q) \cap jobs = {}
      PROVE  One(p, jobs)
  <2> SUFFICES ASSUME NEW i \in DOMAIN p, NEW j \in DOMAIN p, p[i].job \in jobs, p[j].job \in jobs
               PROVE  i = j
    BY DEF One
  <2>1. CASE i = Len(p) /\ j = Len(p)
    BY <2>1
  <2>2. CASE i \in 1..Len(q) /\ j \in 1..Len(q)
    BY <2>2, <1>1, <1>3 DEF One
  <2>3. CASE i \in 1..Len(q) /\ j = Len(p)
    <3>1. q[i].job \in Names(q) /\ q[i].job \in jobs /\ x.job \in jobs
      BY <2>3, <1>1 DEF Names
    <3> QED
      BY <3>1, <1>3
  <2>4. CASE j \in 1..Len(q) /\ i = Len(p)
    <3>1. q[j].job \in Names(q) /\ q[j].job \in jobs /\ x.job \in jobs
      BY <2>4, <1>1 DEF Names
    <3> QED
      BY <3>1, <1>3
  <2> QED
    BY <2>1, <2>2, <2>3, <2>4, <1>1
<1>4. ASSUME InOrder(q), x.job = "ready" => Names(q) \cap Handling = {}
      PROVE  \A i, j \in DOMAIN p : p[i].job = "ready" /\ p[j].job \in Handling => i < j
  <2> SUFFICES ASSUME NEW i \in DOMAIN p, NEW j \in DOMAIN p,
                      p[i].job = "ready", p[j].job \in Handling
               PROVE  i < j
    OBVIOUS
  <2>1. CASE i \in 1..Len(q) /\ j \in 1..Len(q)
    BY <2>1, <1>1, <1>4 DEF InOrder
  <2>2. CASE i \in 1..Len(q) /\ j = Len(p)
    BY <2>2, <1>1
  <2>3. CASE i = Len(p) /\ j \in 1..Len(q)
    <3>1. q[j].job \in Names(q) /\ q[j].job \in Handling /\ x.job = "ready"
      BY <2>3, <1>1 DEF Names
    <3> QED
      BY <3>1, <1>4
  <2>4. CASE i = Len(p) /\ j = Len(p)
    BY <2>4, <1>1 DEF Handling
  <2> QED
    BY <2>1, <2>2, <2>3, <2>4, <1>1
<1>5. ASSUME InOrder(q),
             x.job \in Setup => Names(q) \cap Setup = {},
             x.job \in Pumping => Names(q) \cap Pumping = {},
             x.job \in Settling => Names(q) \cap Settling = {},
             x.job = "ready" => Names(q) \cap Handling = {}
      PROVE  InOrder(p)
  BY <1>3, <1>4, <1>5 DEF InOrder
<1> QED
  BY <1>1, <1>2, <1>5 DEF p

LEMMA NamesCons ==
  ASSUME NEW S, NEW q \in Seq(S), NEW x \in S
  PROVE  /\ <<x>> \o q \in Seq(S) /\ Names(<<x>> \o q) = {x.job} \cup Names(q)
         /\ /\ InOrder(q) /\ x.job \in Handling
            /\ Names(q) \cap Pumping = {} /\ "ready" \notin Names(q)
            => InOrder(<<x>> \o q)
<1> DEFINE p == <<x>> \o q
<1>1. /\ p \in Seq(S) /\ Len(q) \in Nat /\ Len(p) = 1 + Len(q)
      /\ \A i \in 1..Len(q) : p[i + 1] = q[i] /\ i + 1 \in 1..Len(p)
      /\ p[1] = x /\ 1 \in 1..Len(p)
      /\ DOMAIN q = 1..Len(q) /\ DOMAIN p = 1..Len(p)
  OBVIOUS
<1>2. \A i \in 1..Len(p) : i = 1 \/ (i - 1 \in 1..Len(q) /\ p[i] = q[i - 1] /\ i \in Int)
  OBVIOUS
<1> HIDE DEF p
<1>3. Names(p) = {x.job} \cup Names(q)
  <2>1. \A i \in DOMAIN p : p[i].job \in Names(q) \cup {x.job}
    BY <1>1, <1>2 DEF Names
  <2>2. x.job \in Names(p) /\ \A i \in DOMAIN q : q[i].job \in Names(p)
    BY <1>1 DEF Names
  <2> QED
    BY <2>1, <2>2 DEF Names
<1>4. ASSUME NEW jobs, One(q, jobs), x.job \in jobs => Names(q) \cap jobs = {}
      PROVE  One(p, jobs)
  <2> SUFFICES ASSUME NEW i \in DOMAIN p, NEW j \in DOMAIN p, p[i].job \in jobs, p[j].job \in jobs
               PROVE  i = j
    BY DEF One
  <2>1. ASSUME NEW k \in DOMAIN p, p[k].job \in jobs, x.job \in jobs
        PROVE  k = 1
    <3>1. CASE k - 1 \in 1..Len(q) /\ p[k] = q[k - 1]
      <4>1. q[k - 1].job \in Names(q) \cap jobs
        BY <3>1, <2>1, <1>1 DEF Names
      <4> QED
        BY <4>1, <2>1, <1>4
    <3> QED
      BY <3>1, <2>1, <1>1, <1>2
  <2>2. CASE x.job \in jobs
    BY <2>1, <2>2
  <2>3. CASE x.job \notin jobs
    <3>1. i # 1 /\ j # 1
      BY <2>3, <1>1
    <3>2. i - 1 = j - 1
      BY <3>1, <1>1, <1>2, <1>4 DEF One
    <3> QED
      BY <3>1, <3>2, <1>1, <1>2
  <2> QED
    BY <2>2, <2>3
<1>5. ASSUME InOrder(q), x.job \in Handling, "ready" \notin Names(q)
      PROVE  \A i, j \in DOMAIN p : p[i].job = "ready" /\ p[j].job \in Handling => i < j
  <2>1. ASSUME NEW i \in DOMAIN p
        PROVE  p[i].job # "ready"
    <3>1. CASE i = 1
      BY <1>1, <1>5, <3>1 DEF Handling
    <3>2. CASE i - 1 \in 1..Len(q) /\ p[i] = q[i - 1]
      <4>1. q[i - 1].job \in Names(q)
        BY <1>1, <3>2 DEF Names
      <4> QED
        BY <1>5, <3>2, <4>1
    <3> QED
      BY <1>1, <1>2, <3>1, <3>2
  <2> QED
    BY <2>1
<1>6. ASSUME InOrder(q), x.job \in Handling, Names(q) \cap Pumping = {}, "ready" \notin Names(q)
      PROVE  InOrder(p)
  <2>1. x.job \notin Setup /\ x.job \notin Settling
    BY <1>6 DEF Handling, Setup, Settling
  <2> QED
    BY <1>4, <1>5, <1>6, <2>1 DEF InOrder
<1> QED
  BY <1>1, <1>3, <1>6 DEF p

-----------------------------------------------------------------------------
\* What HttpServerProofs proves of the parser both modules use, about the
\* client's own copy of it.
Server == INSTANCE HttpServerProofs WITH
  Requests <- {}, MaxWrites <- 0, MaxCloses <- 0, listener <- 0, phase <- 0, result <- 0,
  head <- 0, pump <- 0, reqErrors <- 0, clientErrors <- 0, written <- 0, writing <- 0,
  wire <- 0, cut <- 0

OneEnd(d) == d.bad => d.done = FALSE /\ d.mode = "chunked"

LEMMA SameText ==
  /\ \A b, n : Server!After(b, n) = After(b, n)
  /\ \A b : Server!headEndIndex(b) = headEndIndex(b)
  /\ \A a, b : Server!IsPrefix(a, b) = IsPrefix(a, b)
BY DEF After, Server!After, headEndIndex, Server!headEndIndex, IndexOfMark, Server!IndexOfMark,
  Crlf, Server!Crlf, Min, Server!Min, IsPrefix, Server!IsPrefix

LEMMA SameDecoder ==
  /\ Server!Decoders = Decoders
  /\ \A F : Server!Decoder(F) = Decoder(F)
  /\ \A d : Server!OneEnd(d) = OneEnd(d)
BY DEF Decoders, Server!Decoders, Decoder, Server!Decoder, Framing, Server!Framing, OneEnd,
  Server!OneEnd

LEMMA SameLoop == Server!Loop = Loop
BY Zenon DEF Loop, Server!Loop, LoopStates, Server!LoopStates, Stops, Server!Stops, Turn,
  Server!Turn, TakeSize, Server!TakeSize, TakeData, Server!TakeData, TakeTrailer,
  Server!TakeTrailer, Decoders, Server!Decoders, indexOfCRLF, Server!indexOfCRLF, IndexOfMark,
  Server!IndexOfMark, After, Server!After, Crlf, Server!Crlf, Min, Server!Min

LEMMA SamePush ==
  /\ \A d, b : Server!push(d, b) = push(d, b)
  /\ \A F, b : Server!WholeBody(F, b) = WholeBody(F, b)
<1>1. \A d, b : Server!push(d, b) = push(d, b)
  BY SameLoop, Zenon DEF push, Server!push, Chunks, Server!Chunks, Outcome, Server!Outcome, Min,
    Server!Min, LoopStates, Server!LoopStates, Decoders, Server!Decoders
<1>2. \A F, b : Server!WholeBody(F, b) = WholeBody(F, b)
  BY SameLoop, Zenon DEF WholeBody, Server!WholeBody, Min, Server!Min, Decoder, Server!Decoder,
    Framing, Server!Framing
<1> QED
  BY <1>1, <1>2

LEMMA PushIs ==
  ASSUME NEW S \in SUBSET STRING, NEW d \in Decoders, d.pending \in Seq(S), OneEnd(d),
         NEW bytes \in Seq(S)
  PROVE  LET p == push(d, bytes) IN
         /\ p.dec \in Decoders /\ p.dec.pending \in Seq(S) /\ p.out \in Seq(S)
         /\ p.dec.mode = d.mode /\ OneEnd(p.dec)
         /\ d.bad => p.dec.bad /\ p.out = <<>>
<1>1. d \in Server!Decoders /\ Server!OneEnd(d) /\ bytes \in Seq(STRING)
  BY SameDecoder, SeqMonotonic
<1>2. LET p == Server!push(d, bytes) IN
      p.dec \in Server!Decoders /\ p.dec.pending \in Seq(S) /\ p.out \in Seq(S)
  BY <1>1, Server!PushTyped, HttpWireAssumption
<1>3. LET p == Server!push(d, bytes) IN
      /\ p.dec.mode = d.mode /\ Server!OneEnd(p.dec)
      /\ d.bad => p.dec.bad /\ p.out = <<>>
  BY <1>1, Server!PushKeeps, HttpWireAssumption
<1> QED
  BY <1>2, <1>3, SameDecoder, SamePush

LEMMA HeadEndIs ==
  ASSUME NEW S, NEW b \in Seq(S)
  PROVE  headEndIndex(b) \in Nat /\ (headEndIndex(b) # 0 => headEndIndex(b) + 3 <= Len(b))
BY Server!HeadEnd4, SameText, HttpWireAssumption

LEMMA HeadEndStays ==
  ASSUME NEW S, NEW a \in Seq(S), NEW b \in Seq(S), headEndIndex(a) # 0
  PROVE  headEndIndex(a \o b) = headEndIndex(a)
BY Server!HeadEndStays, SameText, HttpWireAssumption

LEMMA AfterIs ==
  ASSUME NEW S, NEW b \in Seq(S), NEW n \in Nat, n <= Len(b)
  PROVE  /\ After(b, n) \in Seq(S) /\ Len(After(b, n)) = Len(b) - n
         /\ \A i \in 1..(Len(b) - n) : After(b, n)[i] = b[n + i]
BY Server!AfterIs, SameText, HttpWireAssumption

LEMMA AfterConcat ==
  ASSUME NEW S, NEW a \in Seq(S), NEW b \in Seq(S), NEW n \in Nat, n <= Len(a)
  PROVE  After(a \o b, n) = After(a, n) \o b
<1>1. Server!After(a \o b, n) = Server!After(a, n) \o b
  BY Server!AfterConcat, HttpWireAssumption
<1> QED
  BY <1>1, SameText

LEMMA SliceIs ==
  ASSUME NEW S, NEW w \in Seq(S), NEW m \in Nat, NEW n \in Nat, m <= n, n <= Len(w)
  PROVE  SubSeq(w, m + 1, n) \in Seq(S) /\ Len(SubSeq(w, m + 1, n)) = n - m
BY Server!SliceTyped, HttpWireAssumption

LEMMA SlicesMeet ==
  ASSUME NEW S, NEW w \in Seq(S), NEW m \in Nat, NEW k \in Nat, NEW n \in Nat,
         m <= k, k <= n, n <= Len(w)
  PROVE  SubSeq(w, m + 1, k) \o SubSeq(w, k + 1, n) = SubSeq(w, m + 1, n)
BY Server!SlicesMeet, HttpWireAssumption

LEMMA PrefixOfConcat ==
  ASSUME NEW S, NEW a \in Seq(S), NEW b \in Seq(S)
  PROVE  IsPrefix(a, a \o b) /\ IsPrefix(a, a)
BY Server!PrefixOfConcat, SameText, HttpWireAssumption

\* The bodies with an end of their own, the decoder that starts to read one, and
\* what one has been fed (see HttpServerProofs).
Framings == Server!Framings
Fed(F, d, g, c) == Server!Fed(F, d, g, c)

LEMMA FirstDecoder ==
  ASSUME NEW F \in Framings
  PROVE  /\ Decoder(F) \in Decoders /\ Decoder(F).mode = F.mode /\ Decoder(F).bad = FALSE
         /\ Decoder(F).pending = <<>> /\ F.mode \in {"none", "length", "chunked"}
BY Server!DecoderTyped, SameDecoder, HttpWireAssumption DEF Framings, Server!Framings

LEMMA FedStill ==
  ASSUME NEW F \in Framings, NEW d \in Decoders, NEW g, NEW c \in Seq(STRING), Fed(F, d, g, c)
  PROVE  d.done = FALSE /\ d.bad = FALSE /\ d.mode = F.mode
BY Server!FedGoesOn, SameDecoder, HttpWireAssumption DEF Framings, Fed

LEMMA PushNext ==
  ASSUME NEW F \in Framings, NEW d \in Decoders, NEW g \in Seq(STRING), NEW c \in Seq(STRING),
         Fed(F, d, g, c), NEW b \in Seq(STRING), NEW r \in Seq(STRING)
  PROVE  LET p == push(d, b) IN
         /\ ~p.dec.bad /\ ~p.dec.done => Fed(F, p.dec, g \o p.out, c \o b)
         /\ ~p.dec.bad /\ p.dec.done => g \o p.out = WholeBody(F, (c \o b) \o r)
         /\ IsPrefix(g \o p.out, WholeBody(F, (c \o b) \o r))
<1>1. d \in Server!Decoders /\ F \in Server!Framings /\ Server!Fed(F, d, g, c)
  BY SameDecoder DEF Framings, Fed
<1>2. LET p == Server!push(d, b) IN
      /\ ~p.dec.bad /\ ~p.dec.done => Server!Fed(F, p.dec, g \o p.out, c \o b)
      /\ ~p.dec.bad /\ p.dec.done => g \o p.out = Server!WholeBody(F, (c \o b) \o r)
      /\ Server!IsPrefix(g \o p.out, Server!WholeBody(F, (c \o b) \o r))
  BY <1>1, Server!PushFed, HttpWireAssumption
<1> QED
  BY <1>2, SameText, SamePush DEF Fed

LEMMA PushFirst ==
  ASSUME NEW F \in Framings, NEW b \in Seq(STRING), NEW r \in Seq(STRING)
  PROVE  LET p == push(Decoder(F), b) IN
         /\ ~p.dec.bad /\ ~p.dec.done => Fed(F, p.dec, p.out, b)
         /\ ~p.dec.bad /\ p.dec.done => p.out = WholeBody(F, b \o r)
         /\ IsPrefix(p.out, WholeBody(F, b \o r))
BY Server!PushFirst, SameDecoder, SameText, SamePush, HttpWireAssumption DEF Framings, Fed

\* A head's framing, and with it what the decoder starts from.
LEMMA HeadIs ==
  ASSUME NEW b
  PROVE  /\ splitHead(b).status \in Nat /\ splitHead(b).te \in {"absent", "chunked", "other"}
         /\ splitHead(b).cl \in Nat \cup {-1, -2}
BY HttpWireAssumption DEF splitHead

LEMMA FramingIs ==
  ASSUME NEW b, NEW m
  PROVE  LET F == bodyFraming(splitHead(b), TRUE, m) IN
         F.mode = "refused" \/ F = Framing("eof", 0) \/ F \in Framings
<1> DEFINE h == splitHead(b)
           F == bodyFraming(h, TRUE, m)
           Known(f) == f.mode = "refused" \/ f = Framing("eof", 0) \/ f \in Framings
<1>1. h.te \in {"absent", "chunked", "other"} /\ h.cl \in Nat \cup {-1, -2}
  BY HeadIs
<1>2. /\ Known(Framing("none", 0)) /\ Known(Framing("chunked", 0)) /\ Known(Framing("eof", 0))
      /\ \A n \in Nat : Known(Framing("length", n))
  BY DEF Framings, Server!Framings, Framing
<1>3. Known(Framing("refused", 0))
  BY DEF Framing
<1> HIDE DEF h, Known
<1>4. ASSUME m = "HEAD" \/ h.status \in {204, 304} \cup 100..199
      PROVE  Known(F)
  BY <1>2, <1>4 DEF bodyFraming
<1>5. ASSUME ~(m = "HEAD" \/ h.status \in {204, 304} \cup 100..199)
      PROVE  Known(F)
  <2>1. CASE h.te = "chunked"
    BY <1>2, <1>5, <2>1 DEF bodyFraming
  <2>2. CASE h.te = "other"
    BY <1>3, <1>5, <2>2 DEF bodyFraming
  <2>3. CASE h.te = "absent" /\ h.cl \in Nat
    BY <1>2, <1>5, <2>3 DEF bodyFraming
  <2>4. CASE h.te = "absent" /\ h.cl = -2
    BY <1>3, <1>5, <2>4 DEF bodyFraming
  <2>5. CASE h.te = "absent" /\ h.cl = -1
    BY <1>2, <1>5, <2>5 DEF bodyFraming
  <2> QED
    BY <1>1, <2>1, <2>2, <2>3, <2>4, <2>5
<1>6. Known(F)
  BY <1>4, <1>5
<1> QED
  BY <1>6 DEF Known, h

-----------------------------------------------------------------------------
\* The invariant of the request's control.
due     == Names(micro)
Reading == reading \/ due \cap Pumping # {}

\* What each job that is due says of the socket.
Queued ==
  /\ InOrder(micro)
  /\ reading => due \cap Pumping = {}
  /\ "assign" \in due => ~assigned
  /\ "opened" \in due => connecting /\ native = "open"
  /\ "refused" \in due => connecting /\ native = "closed"
  /\ "ready" \in due => ~connecting /\ ~listening
  /\ reading \/ due \cap Handling # {} => ~connecting
  /\ "parse" \in due => listening /\ stage = "head"
  /\ Reading => resErrors = 0 /\ ~ended

\* The way of the native socket and of the ClientSocket around it.
Connection ==
  /\ native = "none" => connecting /\ ~Reading
  /\ ~assigned => native = "none"
  /\ connecting => chain = <<>> /\ ~listening /\ ~handed
  /\ ~connecting => native # "none"
  /\ ~listening => stage = "head"
  /\ handed => stage = "done"
  /\ ~connecting /\ ~listening /\ "ready" \notin due => sockDestroyed
  /\ early => sockDestroyed /\ (destroyed \/ (connecting /\ native = "closed"))
  /\ listening => ~early
  /\ sockDestroyed /\ connecting => early
  /\ stage = "done" /\ ~handed => native # "open"

\* Whoever tears the request down takes the socket with it.
TornDown ==
  /\ destroyed => closed
  /\ closed => destroyed \/ assigned
  /\ assigned /\ closed => sockDestroyed \/ handed
  /\ sockDestroyed /\ (connecting \/ Reading) => closed
  /\ native = "open" /\ (sockDestroyed \/ closed) => handed \/ early \/ resErrors = 1

\* What the owner has heard.
Heard ==
  /\ due \cap Settling # {} => closed /\ closes = 0 /\ errors = 0
  /\ ~closed => closes = 0
  /\ closes <= 1 /\ errors <= closes
  /\ complete => closed /\ stage = "done"
  /\ stage = "head" => responses = 0
  /\ stage = "body" /\ dec.done => "read" \in due
  /\ OneEnd(dec)

\* A request that failed by itself has nothing on its way that would complete it.
Failing == errors = 1 \/ "fail" \in due
Failed ==
  Failing /\ ~destroyed /\ ~broken =>
    /\ native # "none"
    /\ due \cap {"read", "parse", "opened"} = {}
    /\ reading => native # "open"
    /\ stage = "body" => ~dec.done
    /\ complete => dec.mode = "eof"

Control == Queued /\ Connection /\ TornDown /\ Heard /\ Failed

-----------------------------------------------------------------------------
\* Jobs are added behind the others, or a job is replaced by what it goes on with.
Typed ==
  /\ micro \in Seq([job : JobNames, bytes : Bytes])
  /\ native \in {"none", "open", "closed"} /\ stage \in {"head", "body", "done"}
  /\ reading \in BOOLEAN /\ broken \in BOOLEAN /\ assigned \in BOOLEAN /\ connecting \in BOOLEAN
  /\ sockDestroyed \in BOOLEAN /\ listening \in BOOLEAN /\ ended \in BOOLEAN
  /\ destroyed \in BOOLEAN /\ closed \in BOOLEAN /\ handed \in BOOLEAN /\ complete \in BOOLEAN
  /\ early \in BOOLEAN /\ dec.done \in BOOLEAN /\ dec.bad \in BOOLEAN
  /\ errors \in Nat /\ closes \in Nat /\ resErrors \in Nat

LEMMA TypedIs == TypeOK => Typed
BY DEF TypeOK, Typed, Decoders

\* Nothing but reads of the wire carries bytes.
LEMMA JobTyped ==
  ASSUME NEW j \in JobNames
  PROVE  Job(j) \in [job : JobNames, bytes : Bytes] /\ Job(j).job = j
<1>1. <<>> \in Bytes
  BY DEF Bytes
<1> QED
  BY <1>1 DEF Job

LEMMA DueAppend ==
  ASSUME Typed, NEW x \in [job : JobNames, bytes : Bytes], micro' = Append(micro, x)
  PROVE  /\ due' = due \cup {x.job}
         /\ /\ InOrder(micro)
            /\ x.job \in Setup => due \cap Setup = {}
            /\ x.job \in Pumping => due \cap Pumping = {}
            /\ x.job \in Settling => due \cap Settling = {}
            /\ x.job = "ready" => due \cap Handling = {}
            => InOrder(micro')
<1> DEFINE S == [job : JobNames, bytes : Bytes]
           p == Append(micro, x)
<1> HIDE DEF S
<1>1. micro \in Seq(S) /\ x \in S
  BY DEF Typed, S
<1>2. /\ Names(p) = due \cup {x.job}
      /\ /\ InOrder(micro)
         /\ x.job \in Setup => due \cap Setup = {}
         /\ x.job \in Pumping => due \cap Pumping = {}
         /\ x.job \in Settling => due \cap Settling = {}
         /\ x.job = "ready" => due \cap Handling = {}
         => InOrder(p)
  BY <1>1, NamesAppend DEF due
<1>3. micro' = p
  OBVIOUS
<1> HIDE DEF p
<1> QED
  BY <1>2, <1>3 DEF due

\* The jobs behind the one that runs.
LEMMA DueRest ==
  ASSUME Typed, InOrder(micro), NEW j, Due(j)
  PROVE  /\ Rest \in Seq([job : JobNames, bytes : Bytes]) /\ InOrder(Rest)
         /\ due = {j} \cup Names(Rest)
         /\ j \in Setup => Names(Rest) \cap Setup = {}
         /\ j \in Pumping => Names(Rest) \cap Pumping = {}
         /\ j \in Settling => Names(Rest) \cap Settling = {}
         /\ j \in Handling => "ready" \notin Names(Rest)
<1>1. micro # <<>> /\ Head(micro).job = j /\ Rest = Tail(micro)
  BY DEF Due, Now, Rest
<1>2. Tail(micro) \in Seq([job : JobNames, bytes : Bytes])
  BY <1>1 DEF Typed
<1> QED
  BY <1>1, <1>2, NamesTail DEF due, Typed

LEMMA DueRestAppend ==
  ASSUME Typed, InOrder(micro), NEW j, Due(j),
         NEW x \in [job : JobNames, bytes : Bytes], micro' = Append(Rest, x)
  PROVE  /\ due' = Names(Rest) \cup {x.job}
         /\ /\ x.job \in Setup => Names(Rest) \cap Setup = {}
            /\ x.job \in Pumping => Names(Rest) \cap Pumping = {}
            /\ x.job \in Settling => Names(Rest) \cap Settling = {}
            /\ x.job = "ready" => Names(Rest) \cap Handling = {}
            => InOrder(micro')
<1>1. Rest \in Seq([job : JobNames, bytes : Bytes]) /\ InOrder(Rest)
  BY DueRest
<1> DEFINE S == [job : JobNames, bytes : Bytes]
           p == Append(Rest, x)
<1> HIDE DEF S
<1>2. Rest \in Seq(S) /\ x \in S
  BY <1>1 DEF S
<1>3. /\ Names(p) = Names(Rest) \cup {x.job}
      /\ /\ x.job \in Setup => Names(Rest) \cap Setup = {}
         /\ x.job \in Pumping => Names(Rest) \cap Pumping = {}
         /\ x.job \in Settling => Names(Rest) \cap Settling = {}
         /\ x.job = "ready" => Names(Rest) \cap Handling = {}
         => InOrder(p)
  BY <1>1, <1>2, NamesAppend
<1>4. micro' = p
  OBVIOUS
<1> HIDE DEF p
<1> QED
  BY <1>3, <1>4 DEF due

LEMMA DueRestCons ==
  ASSUME Typed, InOrder(micro), NEW j \in Handling, Due(j),
         NEW x \in [job : JobNames, bytes : Bytes], x.job \in Handling, micro' = <<x>> \o Rest
  PROVE  due' = Names(Rest) \cup {x.job} /\ InOrder(micro')
<1>1. /\ Rest \in Seq([job : JobNames, bytes : Bytes]) /\ InOrder(Rest)
      /\ Names(Rest) \cap Pumping = {} /\ "ready" \notin Names(Rest)
  BY DueRest DEF Pumping
<1> DEFINE S == [job : JobNames, bytes : Bytes]
           p == <<x>> \o Rest
<1> HIDE DEF S
<1>2. Rest \in Seq(S) /\ x \in S
  BY <1>1 DEF S
<1>3. Names(p) = {x.job} \cup Names(Rest) /\ InOrder(p)
  BY <1>1, <1>2, NamesCons
<1>4. micro' = p
  OBVIOUS
<1> HIDE DEF p
<1> QED
  BY <1>3, <1>4 DEF due

-----------------------------------------------------------------------------
\* A step that leaves the control alone, or moves only what it does not look at.
control == <<native, reading, broken, assigned, connecting, sockDestroyed, listening, ended, chain,
             destroyed, closed, stage, dec, handed, micro, errors, closes, responses, complete,
             resErrors, early>>

LEMMA ControlStutter ==
  ASSUME Control, UNCHANGED control
  PROVE  Control'
BY DEF Control, Queued, Connection, TornDown, Heard, Failed, Failing, Reading, due, control

LEMMA InitControl == Init => Control
<1> SUFFICES ASSUME Init PROVE Control
  OBVIOUS
<1> DEFINE q == <<Job("assign")>>
<1>1. Names(q) = {"assign"} /\ InOrder(q)
  <2>1. DOMAIN q = {1} /\ q[1].job = "assign"
    BY DEF Job
  <2> QED
    BY <2>1 DEF Names, InOrder, One, Handling
<1>2. micro = q
  BY DEF Init
<1> HIDE DEF q
<1>3. due = {"assign"} /\ InOrder(micro)
  BY <1>1, <1>2 DEF due
<1>4. OneEnd(dec) /\ dec.bad = FALSE
  BY DEF Init, Decoder, OneEnd
<1> QED
  BY <1>3, <1>4 DEF Init, Control, Queued, Connection, TornDown, Heard, Failed, Failing, Reading,
    Pumping, Handling, Settling

\* The owner's calls: a write goes to the queue or the chain.
LEMMA EnqueueControl ==
  ASSUME Control, Typed, NEW parts, Enqueue(parts),
         UNCHANGED <<native, reading, broken, assigned, connecting, sockDestroyed, listening, ended,
                     destroyed, closed, stage, dec, handed, micro, errors, closes, responses,
                     complete, resErrors, early>>
  PROVE  Control'
<1>1. connecting' => chain' = <<>>
  BY DEF Enqueue, Control, Connection, Typed
<1> QED
  BY <1>1 DEF Control, Queued, Connection, TornDown, Heard, Failed, Failing, Reading, due

-----------------------------------------------------------------------------
\* The symbols of the exchanges.
Alphabet == UNION {ToSet(x.wire) : x \in Exchanges}

LEMMA WireIs ==
  ASSUME NEW x \in Exchanges
  PROVE  /\ x.wire \in Seq(STRING) /\ x.wire \in Bytes /\ x.payload \in Seq(STRING)
         /\ x.start \in Nat /\ Len(x.wire) \in Nat
<1>1. x.wire \in Seq(STRING) /\ x.payload \in Seq(STRING) /\ x.start \in Nat
  BY HttpClientAssumption
<1> DEFINE w == x.wire
<1>2. \A i \in 1..Len(w) : w[i] \in Alphabet
  <2>1. ToSet(w) \subseteq Alphabet
    BY DEF Alphabet
  <2>2. \A i \in 1..Len(w) : w[i] \in ToSet(w)
    BY <1>1 DEF ToSet
  <2> QED
    BY <2>1, <2>2
<1>3. w \in Seq(STRING) /\ Len(w) \in Nat
  BY <1>1
<1> HIDE DEF w
<1>4. w \in Seq(Alphabet)
  BY <1>2, <1>3
<1> QED
  BY <1>1, <1>3, <1>4 DEF Bytes, Alphabet, w

LEMMA AlphabetIsText ==
  Alphabet \in SUBSET STRING /\ Bytes = Seq(Alphabet) /\ Bytes \subseteq Seq(STRING)
<1>1. ASSUME NEW x \in Exchanges, NEW c \in ToSet(x.wire)
      PROVE  c \in STRING
  <2>1. x.wire \in Seq(STRING)
    BY WireIs
  <2> QED
    BY <2>1 DEF ToSet
<1>2. Alphabet \subseteq STRING
  BY <1>1 DEF Alphabet
<1>3. Bytes = Seq(Alphabet)
  BY DEF Bytes, Alphabet
<1> HIDE DEF Alphabet
<1>4. Seq(Alphabet) \subseteq Seq(STRING)
  BY <1>2, SeqMonotonic
<1> QED
  BY <1>2, <1>3, <1>4

\* The job that runs, and what a push of its bytes returns.
LEMMA NowTyped ==
  ASSUME TypeOK, NEW j, Due(j)
  PROVE  Now.bytes \in Bytes
<1> DEFINE S == [job : JobNames, bytes : Bytes]
<1>1. micro \in Seq(S) /\ micro # <<>>
  BY DEF TypeOK, Due
<1> HIDE DEF S
<1>2. Head(micro) \in S
  BY <1>1
<1> QED
  BY <1>2 DEF Now, S

LEMMA PushOfBody ==
  ASSUME TypeOK, Due("read"), OneEnd(dec)
  PROVE  LET p == push(dec, Now.bytes) IN
         /\ p.dec \in Decoders /\ OneEnd(p.dec) /\ p.dec.mode = dec.mode
         /\ p.dec.pending \in Bytes /\ p.out \in Bytes
         /\ dec.bad => p.dec.bad /\ p.out = <<>>
<1>1. Alphabet \in SUBSET STRING /\ Bytes = Seq(Alphabet)
  BY AlphabetIsText
<1>2. dec \in Decoders /\ dec.pending \in Seq(Alphabet) /\ Now.bytes \in Seq(Alphabet)
  BY <1>1, NowTyped DEF TypeOK
<1> QED
  BY <1>1, <1>2, PushIs

LEMMA ResponseDecoder ==
  ASSUME ParseResponse
  PROVE  /\ Decoder(ResponseFraming) \in Decoders /\ Decoder(ResponseFraming).pending = <<>>
         /\ ResponseFraming = Framing("eof", 0) \/ ResponseFraming \in Framings
<1>1. ResponseFraming = Framing("eof", 0) \/ ResponseFraming \in Framings
  BY FramingIs DEF ParseResponse, ResponseFraming, ParsedHead
<1>2. ASSUME ResponseFraming = Framing("eof", 0)
      PROVE  Decoder(ResponseFraming) \in Decoders /\ Decoder(ResponseFraming).pending = <<>>
  BY <1>2 DEF Decoder, Decoders, Framing
<1>3. ASSUME ResponseFraming \in Framings
      PROVE  Decoder(ResponseFraming) \in Decoders /\ Decoder(ResponseFraming).pending = <<>>
  BY <1>3, FirstDecoder
<1> QED
  BY <1>1, <1>2, <1>3

\* Bytes of the wire are bytes.
LEMMA ReadTyped ==
  ASSUME TypeOK, NEW n \in 1..(Len(exchange.wire) - pos)
  PROVE  LET x == Read(SubSeq(exchange.wire, pos + 1, pos + n)) IN
         x \in [job : JobNames, bytes : Bytes] /\ x.job = "read"
<1> DEFINE A == UNION {ToSet(x.wire) : x \in Exchanges}
           w == exchange.wire
           b == SubSeq(w, pos + 1, pos + n)
<1>1. exchange \in Exchanges /\ pos \in 0..Len(w) /\ Bytes = Seq(A)
  BY DEF TypeOK, Bytes
<1>2. w \in Seq(STRING)
  BY <1>1, HttpClientAssumption
<1>3. Len(w) \in Nat /\ DOMAIN w = 1..Len(w)
  BY <1>2
<1>4. \A i \in 1..Len(w) : w[i] \in A
  BY <1>1, <1>3 DEF ToSet
<1>5. \A i \in (pos + 1)..(pos + n) : w[i] \in A
  BY <1>1, <1>3, <1>4
<1>6. b \in Seq(A)
  <2> HIDE DEF A, w
  <2>1. pos + 1 \in Int /\ pos + n \in Int
    BY <1>1, <1>3
  <2> QED
    BY <1>5, <2>1, SubSeqProperties
<1> QED
  BY <1>1, <1>6 DEF Read, JobNames

\* The calls: destroy() settles the request if nothing has.
LEMMA DestroyControl ==
  ASSUME Control, Typed, NEW withError \in BOOLEAN, Destroy(withError)
  PROVE  Control'
<1> DEFINE j == IF withError THEN "fail" ELSE "close"
<1>1. Job(j) \in [job : JobNames, bytes : Bytes] /\ Job(j).job = j
  BY JobTyped DEF JobNames
<1>2. j \in Settling /\ j \notin Pumping \cup Setup \cup Handling /\ j \in {"fail", "close"}
  BY DEF Settling, Pumping, Setup, Handling
<1>3. IF closed THEN due' = due /\ InOrder(micro')
      ELSE due' = due \cup {j} /\ InOrder(micro')
  <2>1. CASE closed
    BY <2>1 DEF Destroy, Control, Queued, due
  <2>2. CASE ~closed
    <3>1. micro' = Append(micro, Job(j)) /\ due \cap Settling = {}
      BY <2>2 DEF Destroy, Control, Heard
    <3> HIDE DEF j
    <3> QED
      BY <1>1, <1>2, <2>2, <3>1, DueAppend DEF Control, Queued
  <2> QED
    BY <2>1, <2>2
<1> HIDE DEF j
<1>4. Queued'
  BY <1>2, <1>3 DEF Control, Typed, Queued, Connection, TornDown, Heard, Failed, Failing,
    Reading, Pumping, Handling, Setup, Settling, Destroy, SockDestroy, parser, outgoing,
    response, events, socket, reads
<1>5. Connection'
  BY <1>2, <1>3 DEF Control, Typed, Queued, Connection, TornDown, Heard, Failed, Failing,
    Reading, Pumping, Handling, Setup, Settling, Destroy, SockDestroy, parser, outgoing,
    response, events, socket, reads
<1>6. TornDown'
  BY <1>2, <1>3 DEF Control, Typed, Queued, Connection, TornDown, Heard, Failed, Failing,
    Reading, Pumping, Handling, Setup, Settling, Destroy, SockDestroy, parser, outgoing,
    response, events, socket, reads
<1>7. Heard'
  BY <1>2, <1>3 DEF Control, Typed, Queued, Connection, TornDown, Heard, Failed, Failing,
    Reading, Pumping, Handling, Setup, Settling, Destroy, SockDestroy, parser, outgoing,
    response, events, socket, reads
<1>8. Failed'
  BY <1>2, <1>3 DEF Control, Typed, Queued, Connection, TornDown, Heard, Failed, Failing,
    Reading, Pumping, Handling, Setup, Settling, Destroy, SockDestroy, parser, outgoing,
    response, events, socket, reads
<1> QED
  BY <1>4, <1>5, <1>6, <1>7, <1>8 DEF Control

\* The native socket connects, or does not.
LEMMA ConnectedControl ==
  ASSUME Control, Typed, NEW ok \in BOOLEAN, Connected(ok)
  PROVE  Control'
<1> DEFINE j == IF ok THEN "opened" ELSE "refused"
<1>1. Job(j) \in [job : JobNames, bytes : Bytes] /\ Job(j).job = j
  BY JobTyped DEF JobNames
<1>2. due = {}
  BY DEF Connected, due, Names
<1>3. due' = {j} /\ InOrder(micro') /\ j = (IF ok THEN "opened" ELSE "refused")
  <2>1. micro' = Append(micro, Job(j))
    BY DEF Connected
  <2>2. j # "ready"
    OBVIOUS
  <2> HIDE DEF j
  <2>3. due' = {j} /\ InOrder(micro')
    BY <1>1, <1>2, <2>1, <2>2, DueAppend DEF Control, Queued
  <2> QED
    BY <2>3 DEF j
<1> HIDE DEF j
<1>4. Queued'
  BY <1>2, <1>3 DEF Control, Typed, Queued, Connection, TornDown, Heard, Failed, Failing,
    Reading, Pumping, Handling, Setup, Settling, Connected, parser, outgoing, response, events,
    socket, reads, request
<1>5. Connection'
  BY <1>2, <1>3 DEF Control, Typed, Queued, Connection, TornDown, Heard, Failed, Failing,
    Reading, Pumping, Handling, Setup, Settling, Connected, parser, outgoing, response, events,
    socket, reads, request
<1>6. TornDown'
  BY <1>2, <1>3 DEF Control, Typed, Queued, Connection, TornDown, Heard, Failed, Failing,
    Reading, Pumping, Handling, Setup, Settling, Connected, parser, outgoing, response, events,
    socket, reads, request
<1>7. Heard'
  BY <1>2, <1>3 DEF Control, Typed, Queued, Connection, TornDown, Heard, Failed, Failing,
    Reading, Pumping, Handling, Setup, Settling, Connected, parser, outgoing, response, events,
    socket, reads, request
<1>8. Failed'
  BY <1>2, <1>3 DEF Control, Typed, Queued, Connection, TornDown, Heard, Failed, Failing,
    Reading, Pumping, Handling, Setup, Settling, Connected, parser, outgoing, response, events,
    socket, reads, request
<1> QED
  BY <1>4, <1>5, <1>6, <1>7, <1>8 DEF Control

\* A read returns bytes.
LEMMA ReadBytesControl ==
  ASSUME Control, Typed, TypeOK, ReadBytes
  PROVE  Control'
<1>1. PICK n \in 1..(Len(exchange.wire) - pos) :
             micro' = Append(micro, Read(SubSeq(exchange.wire, pos + 1, pos + n)))
  BY DEF ReadBytes
<1> DEFINE x == Read(SubSeq(exchange.wire, pos + 1, pos + n))
<1>2. x \in [job : JobNames, bytes : Bytes] /\ x.job = "read"
  BY ReadTyped
<1>3. due' = due \cup {"read"} /\ InOrder(micro') /\ due \cap Pumping = {}
  <2>1. micro' = Append(micro, x) /\ due \cap Pumping = {}
    BY <1>1 DEF ReadBytes, Control, Queued
  <2> HIDE DEF x
  <2> QED
    BY <1>2, <2>1, DueAppend DEF Control, Queued, Setup, Settling
<1> HIDE DEF x
<1>4. Queued'
  BY <1>3 DEF Control, Typed, Queued, Connection, TornDown, Heard, Failed, Failing, Reading,
    Pumping, Handling, Setup, Settling, ReadBytes, parser, outgoing, response, events, socket,
    reads, request, teardown
<1>5. Connection'
  BY <1>3 DEF Control, Typed, Queued, Connection, TornDown, Heard, Failed, Failing, Reading,
    Pumping, Handling, Setup, Settling, ReadBytes, parser, outgoing, response, events, socket,
    reads, request, teardown
<1>6. TornDown'
  BY <1>3 DEF Control, Typed, Queued, Connection, TornDown, Heard, Failed, Failing, Reading,
    Pumping, Handling, Setup, Settling, ReadBytes, parser, outgoing, response, events, socket,
    reads, request, teardown
<1>7. Heard'
  BY <1>3 DEF Control, Typed, Queued, Connection, TornDown, Heard, Failed, Failing, Reading,
    Pumping, Handling, Setup, Settling, ReadBytes, parser, outgoing, response, events, socket,
    reads, request, teardown
<1>8. Failed'
  BY <1>3 DEF Control, Typed, Queued, Connection, TornDown, Heard, Failed, Failing, Reading,
    Pumping, Handling, Setup, Settling, ReadBytes, parser, outgoing, response, events, socket,
    reads, request, teardown
<1> QED
  BY <1>4, <1>5, <1>6, <1>7, <1>8 DEF Control

\* A read ends.
LEMMA ReadEndsControl ==
  ASSUME Control, Typed, NEW how \in {"eof", "error"}, ReadEnds(how)
  PROVE  Control'
<1>1. Job(how) \in [job : JobNames, bytes : Bytes] /\ Job(how).job = how
  BY JobTyped DEF JobNames
<1>2. due \cap Pumping = {} /\ micro' = Append(micro, Job(how))
  BY DEF ReadEnds, Control, Queued
<1>3. due' = due \cup {how} /\ InOrder(micro')
  BY <1>1, <1>2, DueAppend DEF Control, Queued, Setup, Settling
<1>4. Queued'
  BY <1>2, <1>3 DEF Control, Typed, Queued, Connection, TornDown, Heard, Failed, Failing,
    Reading, Pumping, Handling, Setup, Settling, ReadEnds, parser, outgoing, response, events,
    socket, reads, request, teardown
<1>5. Connection'
  BY <1>2, <1>3 DEF Control, Typed, Queued, Connection, TornDown, Heard, Failed, Failing,
    Reading, Pumping, Handling, Setup, Settling, ReadEnds, parser, outgoing, response, events,
    socket, reads, request, teardown
<1>6. TornDown'
  BY <1>2, <1>3 DEF Control, Typed, Queued, Connection, TornDown, Heard, Failed, Failing,
    Reading, Pumping, Handling, Setup, Settling, ReadEnds, parser, outgoing, response, events,
    socket, reads, request, teardown
<1>7. Heard'
  BY <1>2, <1>3 DEF Control, Typed, Queued, Connection, TornDown, Heard, Failed, Failing,
    Reading, Pumping, Handling, Setup, Settling, ReadEnds, parser, outgoing, response, events,
    socket, reads, request, teardown
<1>8. Failed'
  BY <1>2, <1>3 DEF Control, Typed, Queued, Connection, TornDown, Heard, Failed, Failing,
    Reading, Pumping, Handling, Setup, Settling, ReadEnds, parser, outgoing, response, events,
    socket, reads, request, teardown
<1> QED
  BY <1>4, <1>5, <1>6, <1>7, <1>8 DEF Control

\* A write goes out, is dropped, or fails and with it the request.
LEMMA WriteNextControl ==
  ASSUME Control, Typed, NEW ok \in BOOLEAN, WriteNext(ok)
  PROVE  Control'
<1>1. Job("fail") \in [job : JobNames, bytes : Bytes] /\ Job("fail").job = "fail"
  BY JobTyped DEF JobNames
<1>2. ~connecting /\ assigned
  BY DEF WriteNext, Control, Connection, Typed
<1>3. \/ /\ UNCHANGED <<micro, closed, sockDestroyed, native, early, broken>>
         /\ due' = due /\ InOrder(micro')
      \/ /\ ~sockDestroyed /\ broken' /\ closed /\ due' = due /\ InOrder(micro')
         /\ UNCHANGED <<micro, closed, sockDestroyed, native, early>>
      \/ /\ ~sockDestroyed /\ broken' /\ ~closed /\ closed' /\ sockDestroyed' /\ native' = "closed"
         /\ early' = early /\ due' = due \cup {"fail"} /\ InOrder(micro')
  <2>1. CASE UNCHANGED <<micro, broken, teardown>>
    BY <2>1 DEF Control, Queued, due, teardown
  <2>2. CASE ~sockDestroyed /\ ~ok /\ broken' = TRUE /\ Fail(micro) /\ closed
    BY <2>2 DEF Control, Queued, due, teardown, Fail
  <2>3. CASE ~sockDestroyed /\ ~ok /\ broken' = TRUE /\ Fail(micro) /\ ~closed
    <3>1. micro' = Append(micro, Job("fail")) /\ due \cap Settling = {}
      BY <2>3 DEF Fail, Control, Heard
    <3>2. due' = due \cup {"fail"} /\ InOrder(micro')
      BY <1>1, <3>1, DueAppend DEF Control, Queued, Setup, Pumping, Handling
    <3> QED
      BY <1>2, <2>3, <3>2 DEF Fail, SockDestroy, Typed
  <2> QED
    BY <2>1, <2>2, <2>3 DEF WriteNext
<1>4. Queued'
  BY <1>2, <1>3 DEF Control, Typed, Queued, Connection, TornDown, Heard, Failed, Failing,
    Reading, Pumping, Handling, Setup, Settling, WriteNext, parser, response, events, socket,
    reads, request
<1>5. Connection'
  BY <1>2, <1>3 DEF Control, Typed, Queued, Connection, TornDown, Heard, Failed, Failing,
    Reading, Pumping, Handling, Setup, Settling, WriteNext, parser, response, events, socket,
    reads, request
<1>6. TornDown'
  BY <1>2, <1>3 DEF Control, Typed, Queued, Connection, TornDown, Heard, Failed, Failing,
    Reading, Pumping, Handling, Setup, Settling, WriteNext, parser, response, events, socket,
    reads, request
<1>7. Heard'
  BY <1>2, <1>3 DEF Control, Typed, Queued, Connection, TornDown, Heard, Failed, Failing,
    Reading, Pumping, Handling, Setup, Settling, WriteNext, parser, response, events, socket,
    reads, request
<1>8. Failed'
  BY <1>2, <1>3 DEF Control, Typed, Queued, Connection, TornDown, Heard, Failed, Failing,
    Reading, Pumping, Handling, Setup, Settling, WriteNext, parser, response, events, socket,
    reads, request
<1> QED
  BY <1>4, <1>5, <1>6, <1>7, <1>8 DEF Control

-----------------------------------------------------------------------------
\* The ways a job settles the request: it fails, closes, or finishes; or it only
\* ends the ClientSocket.
SettlesBy(name) ==
  /\ InOrder(micro')
  /\ due' = IF closed THEN Names(Rest) ELSE Names(Rest) \cup {name}
  /\ closed' = TRUE
FailsWith ==
  /\ SettlesBy("fail")
  /\ IF ~closed /\ assigned THEN SockDestroy ELSE UNCHANGED <<sockDestroyed, native, early>>
ClosesWith   == SettlesBy("close")
FinishesWith == SettlesBy("close") /\ SockDestroy
SockEnds ==
  /\ sockDestroyed' = TRUE /\ due' = Names(Rest) /\ InOrder(micro')
  /\ UNCHANGED <<closed, native, early>>

LEMMA JobSettles ==
  ASSUME Control, Typed, NEW j, Due(j), NEW name \in Settling, j \notin Settling,
         micro' = IF closed THEN Rest ELSE Append(Rest, Job(name)), closed' = TRUE
  PROVE  SettlesBy(name)
<1>1. Job(name) \in [job : JobNames, bytes : Bytes] /\ Job(name).job = name
  BY JobTyped DEF Settling, JobNames
<1>2. name \notin Setup \cup Pumping \cup Handling
  BY DEF Setup, Pumping, Handling, Settling
<1>3. /\ Rest \in Seq([job : JobNames, bytes : Bytes]) /\ InOrder(Rest)
      /\ due = {j} \cup Names(Rest)
  BY DueRest DEF Control, Queued
<1>4. CASE closed
  BY <1>3, <1>4 DEF SettlesBy, due
<1>5. CASE ~closed
  <2>1. micro' = Append(Rest, Job(name)) /\ Names(Rest) \cap Settling = {}
    BY <1>3, <1>5 DEF Control, Heard
  <2>2. due' = Names(Rest) \cup {name} /\ InOrder(micro')
    BY <1>1, <1>2, <2>1, DueRestAppend DEF Control, Queued, Settling
  <2> QED
    BY <1>5, <2>2 DEF SettlesBy
<1> QED
  BY <1>4, <1>5

LEMMA FailSettles ==
  ASSUME Control, Typed, NEW j, Due(j), j \notin Settling, Fail(Rest)
  PROVE  FailsWith
<1>1. micro' = (IF closed THEN Rest ELSE Append(Rest, Job("fail"))) /\ closed' = TRUE
  BY DEF Fail, teardown, Typed
<1>2. SettlesBy("fail")
  BY <1>1, JobSettles DEF Settling
<1>3. IF ~closed /\ assigned THEN SockDestroy ELSE UNCHANGED <<sockDestroyed, native, early>>
  BY DEF Fail, teardown, Typed
<1> QED
  BY <1>2, <1>3 DEF FailsWith

LEMMA CloseSettles ==
  ASSUME Control, Typed, NEW j, Due(j), j \notin Settling, Close(Rest)
  PROVE  ClosesWith
BY JobSettles DEF Close, ClosesWith, Settling

LEMMA FinishSettles ==
  ASSUME Control, Typed, NEW j, Due(j), j \notin Settling, FinishBody(Rest)
  PROVE  FinishesWith /\ stage' = "done" /\ complete' = TRUE
BY CloseSettles DEF FinishBody, FinishesWith, ClosesWith

LEMMA AfterHeadTyped ==
  ASSUME TypeOK, HeadEnd > 0
  PROVE  AfterHead \in Bytes /\ HeadEnd \in Nat /\ HeadEnd + 3 <= Len(buf)
<1> DEFINE A == UNION {ToSet(x.wire) : x \in Exchanges}
<1>1. buf \in Seq(A) /\ Bytes = Seq(A)
  BY DEF TypeOK, Bytes
<1> HIDE DEF A
<1>2. HeadEnd \in Nat /\ HeadEnd + 3 <= Len(buf)
  BY <1>1, HeadEndIs DEF HeadEnd
<1>3. After(buf, HeadEnd + 3) \in Seq(A)
  BY <1>1, <1>2, AfterIs
<1> QED
  BY <1>1, <1>2, <1>3 DEF AfterHead

\* The microtasks.  The request gets its socket.
LEMMA AssignControl ==
  ASSUME Control, Typed, RunAssign
  PROVE  Control'
<1>1. /\ due = {"assign"} \cup Names(Rest) /\ InOrder(Rest)
      /\ "assign" \in Setup => Names(Rest) \cap Setup = {}
      /\ "assign" \in Pumping => Names(Rest) \cap Pumping = {}
      /\ "assign" \in Settling => Names(Rest) \cap Settling = {}
      /\ "assign" \in Handling => "ready" \notin Names(Rest)
  BY DueRest DEF RunAssign, Control, Queued
<1>2. due' = Names(Rest) /\ InOrder(micro')
  BY <1>1 DEF RunAssign, due
<1>4. Queued'
  BY <1>1, <1>2 DEF Control, Typed, Queued, Connection, TornDown, Heard, Failed, Failing,
    Reading, Pumping, Handling, Setup, Settling, RunAssign, SockDestroy, parser, outgoing,
    response, events, reads, request
<1>5. Connection'
  BY <1>1, <1>2 DEF Control, Typed, Queued, Connection, TornDown, Heard, Failed, Failing,
    Reading, Pumping, Handling, Setup, Settling, RunAssign, SockDestroy, parser, outgoing,
    response, events, reads, request
<1>6. TornDown'
  BY <1>1, <1>2 DEF Control, Typed, Queued, Connection, TornDown, Heard, Failed, Failing,
    Reading, Pumping, Handling, Setup, Settling, RunAssign, SockDestroy, parser, outgoing,
    response, events, reads, request
<1>7. Heard'
  BY <1>1, <1>2 DEF Control, Typed, Queued, Connection, TornDown, Heard, Failed, Failing,
    Reading, Pumping, Handling, Setup, Settling, RunAssign, SockDestroy, parser, outgoing,
    response, events, reads, request
<1>8. Failed'
  BY <1>1, <1>2 DEF Control, Typed, Queued, Connection, TornDown, Heard, Failed, Failing,
    Reading, Pumping, Handling, Setup, Settling, RunAssign, SockDestroy, parser, outgoing,
    response, events, reads, request
<1> QED
  BY <1>4, <1>5, <1>6, <1>7, <1>8 DEF Control

\* The socket is up.
LEMMA OpenedControl ==
  ASSUME Control, Typed, RunOpened
  PROVE  Control'
<1>1. /\ due = {"opened"} \cup Names(Rest) /\ InOrder(Rest)
      /\ "opened" \in Setup => Names(Rest) \cap Setup = {}
      /\ "opened" \in Pumping => Names(Rest) \cap Pumping = {}
      /\ "opened" \in Settling => Names(Rest) \cap Settling = {}
      /\ "opened" \in Handling => "ready" \notin Names(Rest)
  BY DueRest DEF RunOpened, Control, Queued
<1>2. Job("ready") \in [job : JobNames, bytes : Bytes] /\ Job("ready").job = "ready"
  BY JobTyped DEF JobNames
<1>3. due' = Names(Rest) \cup {"ready"} /\ InOrder(micro')
  <2>1. micro' = Append(Rest, Job("ready")) /\ Due("opened")
    BY DEF RunOpened
  <2> QED
    BY <1>1, <1>2, <2>1, DueRestAppend DEF Control, Queued, Setup, Pumping, Handling, Settling
<1>4. Queued'
  BY <1>1, <1>3 DEF Control, Typed, Queued, Connection, TornDown, Heard, Failed, Failing,
    Reading, Pumping, Handling, Setup, Settling, RunOpened, parser, outgoing, response, events,
    reads, request, teardown
<1>5. Connection'
  BY <1>1, <1>3 DEF Control, Typed, Queued, Connection, TornDown, Heard, Failed, Failing,
    Reading, Pumping, Handling, Setup, Settling, RunOpened, parser, outgoing, response, events,
    reads, request, teardown
<1>6. TornDown'
  BY <1>1, <1>3 DEF Control, Typed, Queued, Connection, TornDown, Heard, Failed, Failing,
    Reading, Pumping, Handling, Setup, Settling, RunOpened, parser, outgoing, response, events,
    reads, request, teardown
<1>7. Heard'
  BY <1>1, <1>3 DEF Control, Typed, Queued, Connection, TornDown, Heard, Failed, Failing,
    Reading, Pumping, Handling, Setup, Settling, RunOpened, parser, outgoing, response, events,
    reads, request, teardown
<1>8. Failed'
  BY <1>1, <1>3 DEF Control, Typed, Queued, Connection, TornDown, Heard, Failed, Failing,
    Reading, Pumping, Handling, Setup, Settling, RunOpened, parser, outgoing, response, events,
    reads, request, teardown
<1> QED
  BY <1>4, <1>5, <1>6, <1>7, <1>8 DEF Control

\* The request reads the response from now on, unless it was destroyed.
LEMMA ReadyControl ==
  ASSUME Control, Typed, RunReady
  PROVE  Control'
<1>1. /\ due = {"ready"} \cup Names(Rest) /\ InOrder(Rest)
      /\ "ready" \in Setup => Names(Rest) \cap Setup = {}
      /\ "ready" \in Pumping => Names(Rest) \cap Pumping = {}
      /\ "ready" \in Settling => Names(Rest) \cap Settling = {}
      /\ "ready" \in Handling => "ready" \notin Names(Rest)
  BY DueRest DEF RunReady, Control, Queued
<1>2. due' = Names(Rest) /\ InOrder(micro')
  BY <1>1 DEF RunReady, due
<1>3. connecting' => chain' = <<>>
  BY <1>1 DEF RunReady, Control, Queued, Connection
<1>4. Queued'
  BY <1>1, <1>2, <1>3 DEF Control, Typed, Queued, Connection, TornDown, Heard, Failed, Failing,
    Reading, Pumping, Handling, Setup, Settling, RunReady, SockDestroy, parser, response,
    events, reads, request
<1>5. Connection'
  BY <1>1, <1>2, <1>3 DEF Control, Typed, Queued, Connection, TornDown, Heard, Failed, Failing,
    Reading, Pumping, Handling, Setup, Settling, RunReady, SockDestroy, parser, response,
    events, reads, request
<1>6. TornDown'
  BY <1>1, <1>2, <1>3 DEF Control, Typed, Queued, Connection, TornDown, Heard, Failed, Failing,
    Reading, Pumping, Handling, Setup, Settling, RunReady, SockDestroy, parser, response,
    events, reads, request
<1>7. Heard'
  BY <1>1, <1>2, <1>3 DEF Control, Typed, Queued, Connection, TornDown, Heard, Failed, Failing,
    Reading, Pumping, Handling, Setup, Settling, RunReady, SockDestroy, parser, response,
    events, reads, request
<1>8. Failed'
  BY <1>1, <1>2, <1>3 DEF Control, Typed, Queued, Connection, TornDown, Heard, Failed, Failing,
    Reading, Pumping, Handling, Setup, Settling, RunReady, SockDestroy, parser, response,
    events, reads, request
<1> QED
  BY <1>4, <1>5, <1>6, <1>7, <1>8 DEF Control

\* The connection was refused.
LEMMA RefusedControl ==
  ASSUME Control, Typed, RunRefused
  PROVE  Control'
<1>1. /\ due = {"refused"} \cup Names(Rest) /\ InOrder(Rest)
      /\ "refused" \in Setup => Names(Rest) \cap Setup = {}
      /\ "refused" \in Pumping => Names(Rest) \cap Pumping = {}
      /\ "refused" \in Settling => Names(Rest) \cap Settling = {}
      /\ "refused" \in Handling => "ready" \notin Names(Rest)
  BY DueRest DEF RunRefused, Control, Queued
<1>2. FailsWith
  BY FailSettles DEF Settling, RunRefused
<1>4. Queued'
  BY <1>1, <1>2 DEF Control, Typed, Queued, Connection, TornDown, Heard, Failed, Failing,
    Reading, Pumping, Handling, Setup, Settling, RunRefused, FailsWith, SettlesBy, SockDestroy,
    parser, outgoing, response, events, socket, reads, request
<1>5. Connection'
  BY <1>1, <1>2 DEF Control, Typed, Queued, Connection, TornDown, Heard, Failed, Failing,
    Reading, Pumping, Handling, Setup, Settling, RunRefused, FailsWith, SettlesBy, SockDestroy,
    parser, outgoing, response, events, socket, reads, request
<1>6. TornDown'
  BY <1>1, <1>2 DEF Control, Typed, Queued, Connection, TornDown, Heard, Failed, Failing,
    Reading, Pumping, Handling, Setup, Settling, RunRefused, FailsWith, SettlesBy, SockDestroy,
    parser, outgoing, response, events, socket, reads, request
<1>7. Heard'
  BY <1>1, <1>2 DEF Control, Typed, Queued, Connection, TornDown, Heard, Failed, Failing,
    Reading, Pumping, Handling, Setup, Settling, RunRefused, FailsWith, SettlesBy, SockDestroy,
    parser, outgoing, response, events, socket, reads, request
<1>8. Failed'
  BY <1>1, <1>2 DEF Control, Typed, Queued, Connection, TornDown, Heard, Failed, Failing,
    Reading, Pumping, Handling, Setup, Settling, RunRefused, FailsWith, SettlesBy, SockDestroy,
    parser, outgoing, response, events, socket, reads, request
<1> QED
  BY <1>4, <1>5, <1>6, <1>7, <1>8 DEF Control

\* 'error' and 'close'.
LEMMA FailControl ==
  ASSUME Control, Typed, RunFail
  PROVE  Control'
<1>1. /\ due = {"fail"} \cup Names(Rest) /\ InOrder(Rest)
      /\ "fail" \in Setup => Names(Rest) \cap Setup = {}
      /\ "fail" \in Pumping => Names(Rest) \cap Pumping = {}
      /\ "fail" \in Settling => Names(Rest) \cap Settling = {}
      /\ "fail" \in Handling => "ready" \notin Names(Rest)
  BY DueRest DEF RunFail, Control, Queued
<1>2. due' = Names(Rest) /\ InOrder(micro')
  BY <1>1 DEF RunFail, due
<1>4. Queued'
  BY <1>1, <1>2 DEF Control, Typed, Queued, Connection, TornDown, Heard, Failed, Failing,
    Reading, Pumping, Handling, Setup, Settling, RunFail, parser, outgoing, response, socket,
    reads, request, teardown
<1>5. Connection'
  BY <1>1, <1>2 DEF Control, Typed, Queued, Connection, TornDown, Heard, Failed, Failing,
    Reading, Pumping, Handling, Setup, Settling, RunFail, parser, outgoing, response, socket,
    reads, request, teardown
<1>6. TornDown'
  BY <1>1, <1>2 DEF Control, Typed, Queued, Connection, TornDown, Heard, Failed, Failing,
    Reading, Pumping, Handling, Setup, Settling, RunFail, parser, outgoing, response, socket,
    reads, request, teardown
<1>7. Heard'
  BY <1>1, <1>2 DEF Control, Typed, Queued, Connection, TornDown, Heard, Failed, Failing,
    Reading, Pumping, Handling, Setup, Settling, RunFail, parser, outgoing, response, socket,
    reads, request, teardown
<1>8. Failed'
  BY <1>1, <1>2 DEF Control, Typed, Queued, Connection, TornDown, Heard, Failed, Failing,
    Reading, Pumping, Handling, Setup, Settling, RunFail, parser, outgoing, response, socket,
    reads, request, teardown
<1> QED
  BY <1>4, <1>5, <1>6, <1>7, <1>8 DEF Control

\* 'close' alone.
LEMMA CloseControl ==
  ASSUME Control, Typed, RunClose
  PROVE  Control'
<1>1. /\ due = {"close"} \cup Names(Rest) /\ InOrder(Rest)
      /\ "close" \in Setup => Names(Rest) \cap Setup = {}
      /\ "close" \in Pumping => Names(Rest) \cap Pumping = {}
      /\ "close" \in Settling => Names(Rest) \cap Settling = {}
      /\ "close" \in Handling => "ready" \notin Names(Rest)
  BY DueRest DEF RunClose, Control, Queued
<1>2. due' = Names(Rest) /\ InOrder(micro')
  BY <1>1 DEF RunClose, due
<1>4. Queued'
  BY <1>1, <1>2 DEF Control, Typed, Queued, Connection, TornDown, Heard, Failed, Failing,
    Reading, Pumping, Handling, Setup, Settling, RunClose, parser, outgoing, response, socket,
    reads, request, teardown
<1>5. Connection'
  BY <1>1, <1>2 DEF Control, Typed, Queued, Connection, TornDown, Heard, Failed, Failing,
    Reading, Pumping, Handling, Setup, Settling, RunClose, parser, outgoing, response, socket,
    reads, request, teardown
<1>6. TornDown'
  BY <1>1, <1>2 DEF Control, Typed, Queued, Connection, TornDown, Heard, Failed, Failing,
    Reading, Pumping, Handling, Setup, Settling, RunClose, parser, outgoing, response, socket,
    reads, request, teardown
<1>7. Heard'
  BY <1>1, <1>2 DEF Control, Typed, Queued, Connection, TornDown, Heard, Failed, Failing,
    Reading, Pumping, Handling, Setup, Settling, RunClose, parser, outgoing, response, socket,
    reads, request, teardown
<1>8. Failed'
  BY <1>1, <1>2 DEF Control, Typed, Queued, Connection, TornDown, Heard, Failed, Failing,
    Reading, Pumping, Handling, Setup, Settling, RunClose, parser, outgoing, response, socket,
    reads, request, teardown
<1> QED
  BY <1>4, <1>5, <1>6, <1>7, <1>8 DEF Control

\* Bytes the request does not listen for.
LEMMA UnheardControl ==
  ASSUME Control, Typed, RunReadUnheard
  PROVE  Control'
<1>1. /\ due = {"read"} \cup Names(Rest) /\ InOrder(Rest)
      /\ "read" \in Setup => Names(Rest) \cap Setup = {}
      /\ "read" \in Pumping => Names(Rest) \cap Pumping = {}
      /\ "read" \in Settling => Names(Rest) \cap Settling = {}
      /\ "read" \in Handling => "ready" \notin Names(Rest)
  BY DueRest DEF RunReadUnheard, Control, Queued
<1>2. due' = Names(Rest) /\ InOrder(micro')
  BY <1>1 DEF RunReadUnheard, due
<1>4. Queued'
  BY <1>1, <1>2 DEF Control, Typed, Queued, Connection, TornDown, Heard, Failed, Failing,
    Reading, Pumping, Handling, Setup, Settling, RunReadUnheard, ReadOn, parser, outgoing,
    response, events, socket, request, teardown
<1>5. Connection'
  BY <1>1, <1>2 DEF Control, Typed, Queued, Connection, TornDown, Heard, Failed, Failing,
    Reading, Pumping, Handling, Setup, Settling, RunReadUnheard, ReadOn, parser, outgoing,
    response, events, socket, request, teardown
<1>6. TornDown'
  BY <1>1, <1>2 DEF Control, Typed, Queued, Connection, TornDown, Heard, Failed, Failing,
    Reading, Pumping, Handling, Setup, Settling, RunReadUnheard, ReadOn, parser, outgoing,
    response, events, socket, request, teardown
<1>7. Heard'
  BY <1>1, <1>2 DEF Control, Typed, Queued, Connection, TornDown, Heard, Failed, Failing,
    Reading, Pumping, Handling, Setup, Settling, RunReadUnheard, ReadOn, parser, outgoing,
    response, events, socket, request, teardown
<1>8. Failed'
  BY <1>1, <1>2 DEF Control, Typed, Queued, Connection, TornDown, Heard, Failed, Failing,
    Reading, Pumping, Handling, Setup, Settling, RunReadUnheard, ReadOn, parser, outgoing,
    response, events, socket, request, teardown
<1> QED
  BY <1>4, <1>5, <1>6, <1>7, <1>8 DEF Control

\* Bytes of a head: the read turns into its parsing.
LEMMA ReadHeadControl ==
  ASSUME Control, Typed, RunReadHead
  PROVE  Control'
<1>1. /\ due = {"read"} \cup Names(Rest) /\ InOrder(Rest)
      /\ "read" \in Setup => Names(Rest) \cap Setup = {}
      /\ "read" \in Pumping => Names(Rest) \cap Pumping = {}
      /\ "read" \in Settling => Names(Rest) \cap Settling = {}
      /\ "read" \in Handling => "ready" \notin Names(Rest)
  BY DueRest DEF RunReadHead, Control, Queued
<1>2. Job("parse") \in [job : JobNames, bytes : Bytes] /\ Job("parse").job = "parse"
  BY JobTyped DEF JobNames
<1>3. due' = Names(Rest) \cup {"parse"} /\ InOrder(micro')
  BY <1>2, DueRestCons DEF RunReadHead, Control, Queued, Handling
<1>4. Queued'
  BY <1>1, <1>3 DEF Control, Typed, Queued, Connection, TornDown, Heard, Failed, Failing,
    Reading, Pumping, Handling, Setup, Settling, RunReadHead, outgoing, response, events,
    socket, reads, request, teardown
<1>5. Connection'
  BY <1>1, <1>3 DEF Control, Typed, Queued, Connection, TornDown, Heard, Failed, Failing,
    Reading, Pumping, Handling, Setup, Settling, RunReadHead, outgoing, response, events,
    socket, reads, request, teardown
<1>6. TornDown'
  BY <1>1, <1>3 DEF Control, Typed, Queued, Connection, TornDown, Heard, Failed, Failing,
    Reading, Pumping, Handling, Setup, Settling, RunReadHead, outgoing, response, events,
    socket, reads, request, teardown
<1>7. Heard'
  BY <1>1, <1>3 DEF Control, Typed, Queued, Connection, TornDown, Heard, Failed, Failing,
    Reading, Pumping, Handling, Setup, Settling, RunReadHead, outgoing, response, events,
    socket, reads, request, teardown
<1>8. Failed'
  BY <1>1, <1>3 DEF Control, Typed, Queued, Connection, TornDown, Heard, Failed, Failing,
    Reading, Pumping, Handling, Setup, Settling, RunReadHead, outgoing, response, events,
    socket, reads, request, teardown
<1> QED
  BY <1>4, <1>5, <1>6, <1>7, <1>8 DEF Control

\* Bytes of a body.  A decoder that found it malformed has not found its end.
LEMMA ReadBodyControl ==
  ASSUME Control, Typed, TypeOK, RunReadBody
  PROVE  Control'
<1>1. /\ due = {"read"} \cup Names(Rest) /\ InOrder(Rest)
      /\ "read" \in Setup => Names(Rest) \cap Setup = {}
      /\ "read" \in Pumping => Names(Rest) \cap Pumping = {}
      /\ "read" \in Settling => Names(Rest) \cap Settling = {}
      /\ "read" \in Handling => "ready" \notin Names(Rest)
  BY DueRest DEF RunReadBody, Control, Queued
<1>2. /\ dec' = push(dec, Now.bytes).dec /\ dec' \in Decoders
      /\ OneEnd(dec')
  BY PushOfBody DEF RunReadBody, Control, Heard
<1>3. \/ dec'.bad /\ FailsWith /\ UNCHANGED <<stage, complete>>
      \/ ~dec'.bad /\ dec'.done /\ FinishesWith /\ stage' = "done" /\ complete'
      \/ /\ ~dec'.bad /\ ~dec'.done /\ due' = Names(Rest) /\ InOrder(micro')
         /\ UNCHANGED <<stage, complete, teardown>>
  BY <1>1, <1>2, FailSettles, FinishSettles DEF Settling, RunReadBody, due
<1>9. /\ reading' = TRUE /\ stage = "body" /\ listening
      /\ UNCHANGED <<connecting, assigned, listening, handed, destroyed, broken, ended, chain,
                     responses, resErrors, errors, closes>>
  BY DEF RunReadBody, ReadOn, request, outgoing, events, socket, reads
<1>10. dec'.bad \in BOOLEAN /\ dec'.done \in BOOLEAN /\ ~(dec'.bad /\ dec'.done)
  BY <1>2 DEF Decoders, OneEnd
<1>4. Queued'
  BY <1>1, <1>3, <1>9, <1>10, <1>2 DEF Control, Typed, Queued, Connection, TornDown, Heard,
    Failed, Failing, Reading, Pumping, Handling, Setup, Settling, FailsWith, SettlesBy,
    FinishesWith, SockDestroy, teardown
<1>5. Connection'
  BY <1>1, <1>3, <1>9, <1>10, <1>2 DEF Control, Typed, Queued, Connection, TornDown, Heard,
    Failed, Failing, Reading, Pumping, Handling, Setup, Settling, FailsWith, SettlesBy,
    FinishesWith, SockDestroy, teardown
<1>6. TornDown'
  BY <1>1, <1>3, <1>9, <1>10, <1>2 DEF Control, Typed, Queued, Connection, TornDown, Heard,
    Failed, Failing, Reading, Pumping, Handling, Setup, Settling, FailsWith, SettlesBy,
    FinishesWith, SockDestroy, teardown
<1>7. Heard'
  BY <1>1, <1>3, <1>9, <1>10, <1>2 DEF Control, Typed, Queued, Connection, TornDown, Heard,
    Failed, Failing, Reading, Pumping, Handling, Setup, Settling, FailsWith, SettlesBy,
    FinishesWith, SockDestroy, teardown
<1>8. Failed'
  BY <1>1, <1>3, <1>9, <1>10, <1>2 DEF Control, Typed, Queued, Connection, TornDown, Heard,
    Failed, Failing, Reading, Pumping, Handling, Setup, Settling, FailsWith, SettlesBy,
    FinishesWith, SockDestroy, teardown
<1> QED
  BY <1>4, <1>5, <1>6, <1>7, <1>8 DEF Control

\* A head with its end still to come.
LEMMA PartialControl ==
  ASSUME Control, Typed, ParsePartial
  PROVE  Control'
<1>1. /\ due = {"parse"} \cup Names(Rest) /\ InOrder(Rest)
      /\ "parse" \in Setup => Names(Rest) \cap Setup = {}
      /\ "parse" \in Pumping => Names(Rest) \cap Pumping = {}
      /\ "parse" \in Settling => Names(Rest) \cap Settling = {}
      /\ "parse" \in Handling => "ready" \notin Names(Rest)
  BY DueRest DEF ParsePartial, Control, Queued
<1>2. due' = Names(Rest) /\ InOrder(micro')
  BY <1>1 DEF ParsePartial, due
<1>4. Queued'
  BY <1>1, <1>2 DEF Control, Typed, Queued, Connection, TornDown, Heard, Failed, Failing,
    Reading, Pumping, Handling, Setup, Settling, ParsePartial, ReadOn, parser, outgoing,
    response, events, socket, reads, request, teardown
<1>5. Connection'
  BY <1>1, <1>2 DEF Control, Typed, Queued, Connection, TornDown, Heard, Failed, Failing,
    Reading, Pumping, Handling, Setup, Settling, ParsePartial, ReadOn, parser, outgoing,
    response, events, socket, reads, request, teardown
<1>6. TornDown'
  BY <1>1, <1>2 DEF Control, Typed, Queued, Connection, TornDown, Heard, Failed, Failing,
    Reading, Pumping, Handling, Setup, Settling, ParsePartial, ReadOn, parser, outgoing,
    response, events, socket, reads, request, teardown
<1>7. Heard'
  BY <1>1, <1>2 DEF Control, Typed, Queued, Connection, TornDown, Heard, Failed, Failing,
    Reading, Pumping, Handling, Setup, Settling, ParsePartial, ReadOn, parser, outgoing,
    response, events, socket, reads, request, teardown
<1>8. Failed'
  BY <1>1, <1>2 DEF Control, Typed, Queued, Connection, TornDown, Heard, Failed, Failing,
    Reading, Pumping, Handling, Setup, Settling, ParsePartial, ReadOn, parser, outgoing,
    response, events, socket, reads, request, teardown
<1> QED
  BY <1>4, <1>5, <1>6, <1>7, <1>8 DEF Control

\* A head that is refused.
LEMMA ParseRefusedControl ==
  ASSUME Control, Typed, ParseRefused
  PROVE  Control'
<1>1. /\ due = {"parse"} \cup Names(Rest) /\ InOrder(Rest)
      /\ "parse" \in Setup => Names(Rest) \cap Setup = {}
      /\ "parse" \in Pumping => Names(Rest) \cap Pumping = {}
      /\ "parse" \in Settling => Names(Rest) \cap Settling = {}
      /\ "parse" \in Handling => "ready" \notin Names(Rest)
  BY DueRest DEF ParseRefused, Control, Queued
<1>2. FailsWith
  BY FailSettles DEF Settling, ParseRefused
<1>4. Queued'
  BY <1>1, <1>2 DEF Control, Typed, Queued, Connection, TornDown, Heard, Failed, Failing,
    Reading, Pumping, Handling, Setup, Settling, ParseRefused, ReadOn, FailsWith, SettlesBy,
    SockDestroy, parser, outgoing, response, events, socket, reads, request
<1>5. Connection'
  BY <1>1, <1>2 DEF Control, Typed, Queued, Connection, TornDown, Heard, Failed, Failing,
    Reading, Pumping, Handling, Setup, Settling, ParseRefused, ReadOn, FailsWith, SettlesBy,
    SockDestroy, parser, outgoing, response, events, socket, reads, request
<1>6. TornDown'
  BY <1>1, <1>2 DEF Control, Typed, Queued, Connection, TornDown, Heard, Failed, Failing,
    Reading, Pumping, Handling, Setup, Settling, ParseRefused, ReadOn, FailsWith, SettlesBy,
    SockDestroy, parser, outgoing, response, events, socket, reads, request
<1>7. Heard'
  BY <1>1, <1>2 DEF Control, Typed, Queued, Connection, TornDown, Heard, Failed, Failing,
    Reading, Pumping, Handling, Setup, Settling, ParseRefused, ReadOn, FailsWith, SettlesBy,
    SockDestroy, parser, outgoing, response, events, socket, reads, request
<1>8. Failed'
  BY <1>1, <1>2 DEF Control, Typed, Queued, Connection, TornDown, Heard, Failed, Failing,
    Reading, Pumping, Handling, Setup, Settling, ParseRefused, ReadOn, FailsWith, SettlesBy,
    SockDestroy, parser, outgoing, response, events, socket, reads, request
<1> QED
  BY <1>4, <1>5, <1>6, <1>7, <1>8 DEF Control

\* An upgrade: the socket has a new owner, or none and is closed.
LEMMA UpgradeControl ==
  ASSUME Control, Typed, NEW listened \in BOOLEAN, ParseUpgrade(listened)
  PROVE  Control'
<1>1. /\ due = {"parse"} \cup Names(Rest) /\ InOrder(Rest)
      /\ "parse" \in Setup => Names(Rest) \cap Setup = {}
      /\ "parse" \in Pumping => Names(Rest) \cap Pumping = {}
      /\ "parse" \in Settling => Names(Rest) \cap Settling = {}
      /\ "parse" \in Handling => "ready" \notin Names(Rest)
  BY DueRest DEF ParseUpgrade, Control, Queued
<1>2. ClosesWith
  BY CloseSettles DEF Settling, ParseUpgrade
<1>4. Queued'
  BY <1>1, <1>2 DEF Control, Typed, Queued, Connection, TornDown, Heard, Failed, Failing,
    Reading, Pumping, Handling, Setup, Settling, ParseUpgrade, ReadOn, ClosesWith, SettlesBy,
    SockDestroy, outgoing, response, events, socket, request
<1>5. Connection'
  BY <1>1, <1>2 DEF Control, Typed, Queued, Connection, TornDown, Heard, Failed, Failing,
    Reading, Pumping, Handling, Setup, Settling, ParseUpgrade, ReadOn, ClosesWith, SettlesBy,
    SockDestroy, outgoing, response, events, socket, request
<1>6. TornDown'
  BY <1>1, <1>2 DEF Control, Typed, Queued, Connection, TornDown, Heard, Failed, Failing,
    Reading, Pumping, Handling, Setup, Settling, ParseUpgrade, ReadOn, ClosesWith, SettlesBy,
    SockDestroy, outgoing, response, events, socket, request
<1>7. Heard'
  BY <1>1, <1>2 DEF Control, Typed, Queued, Connection, TornDown, Heard, Failed, Failing,
    Reading, Pumping, Handling, Setup, Settling, ParseUpgrade, ReadOn, ClosesWith, SettlesBy,
    SockDestroy, outgoing, response, events, socket, request
<1>8. Failed'
  BY <1>1, <1>2 DEF Control, Typed, Queued, Connection, TornDown, Heard, Failed, Failing,
    Reading, Pumping, Handling, Setup, Settling, ParseUpgrade, ReadOn, ClosesWith, SettlesBy,
    SockDestroy, outgoing, response, events, socket, request
<1> QED
  BY <1>4, <1>5, <1>6, <1>7, <1>8 DEF Control

\* The listener of an upgrade destroys the request with an error.
LEMMA UpgradeFailsControl ==
  ASSUME Control, Typed, ParseUpgradeFails
  PROVE  Control'
<1>1. /\ due = {"parse"} \cup Names(Rest) /\ InOrder(Rest)
      /\ "parse" \in Setup => Names(Rest) \cap Setup = {}
      /\ "parse" \in Pumping => Names(Rest) \cap Pumping = {}
      /\ "parse" \in Settling => Names(Rest) \cap Settling = {}
      /\ "parse" \in Handling => "ready" \notin Names(Rest)
  BY DueRest DEF ParseUpgradeFails, Control, Queued
<1>2. FailsWith
  BY FailSettles DEF Settling, ParseUpgradeFails
<1>4. Queued'
  BY <1>1, <1>2 DEF Control, Typed, Queued, Connection, TornDown, Heard, Failed, Failing,
    Reading, Pumping, Handling, Setup, Settling, ParseUpgradeFails, ReadOn, FailsWith, SettlesBy,
    SockDestroy, outgoing, response, events, socket
<1>5. Connection'
  BY <1>1, <1>2 DEF Control, Typed, Queued, Connection, TornDown, Heard, Failed, Failing,
    Reading, Pumping, Handling, Setup, Settling, ParseUpgradeFails, ReadOn, FailsWith, SettlesBy,
    SockDestroy, outgoing, response, events, socket
<1>6. TornDown'
  BY <1>1, <1>2 DEF Control, Typed, Queued, Connection, TornDown, Heard, Failed, Failing,
    Reading, Pumping, Handling, Setup, Settling, ParseUpgradeFails, ReadOn, FailsWith, SettlesBy,
    SockDestroy, outgoing, response, events, socket
<1>7. Heard'
  BY <1>1, <1>2 DEF Control, Typed, Queued, Connection, TornDown, Heard, Failed, Failing,
    Reading, Pumping, Handling, Setup, Settling, ParseUpgradeFails, ReadOn, FailsWith, SettlesBy,
    SockDestroy, outgoing, response, events, socket
<1>8. Failed'
  BY <1>1, <1>2 DEF Control, Typed, Queued, Connection, TornDown, Heard, Failed, Failing,
    Reading, Pumping, Handling, Setup, Settling, ParseUpgradeFails, ReadOn, FailsWith, SettlesBy,
    SockDestroy, outgoing, response, events, socket
<1> QED
  BY <1>4, <1>5, <1>6, <1>7, <1>8 DEF Control

\* The response starts, and the bytes behind its head are the body's first.
LEMMA ResponseControl ==
  ASSUME Control, Typed, TypeOK, ParseResponse
  PROVE  Control'
<1>1. /\ due = {"parse"} \cup Names(Rest) /\ InOrder(Rest)
      /\ "parse" \in Setup => Names(Rest) \cap Setup = {}
      /\ "parse" \in Pumping => Names(Rest) \cap Pumping = {}
      /\ "parse" \in Settling => Names(Rest) \cap Settling = {}
      /\ "parse" \in Handling => "ready" \notin Names(Rest)
  BY DueRest DEF ParseResponse, Control, Queued
<1>2. Read(AfterHead) \in [job : JobNames, bytes : Bytes] /\ Read(AfterHead).job = "read"
  BY AfterHeadTyped DEF ParseResponse, Read, JobNames
<1>3. due' = Names(Rest) \cup {"read"} /\ InOrder(micro')
  BY <1>2, DueRestCons DEF ParseResponse, Control, Queued, Handling
<1>9. dec'.bad = FALSE /\ OneEnd(dec')
  BY DEF ParseResponse, Decoder, OneEnd
<1>4. Queued'
  BY <1>1, <1>3, <1>9 DEF Control, Typed, Queued, Connection, TornDown, Heard, Failed, Failing,
    Reading, Pumping, Handling, Setup, Settling, ParseResponse, outgoing, events, socket,
    reads, request, teardown
<1>5. Connection'
  BY <1>1, <1>3, <1>9 DEF Control, Typed, Queued, Connection, TornDown, Heard, Failed, Failing,
    Reading, Pumping, Handling, Setup, Settling, ParseResponse, outgoing, events, socket,
    reads, request, teardown
<1>6. TornDown'
  BY <1>1, <1>3, <1>9 DEF Control, Typed, Queued, Connection, TornDown, Heard, Failed, Failing,
    Reading, Pumping, Handling, Setup, Settling, ParseResponse, outgoing, events, socket,
    reads, request, teardown
<1>7. Heard'
  BY <1>1, <1>3, <1>9 DEF Control, Typed, Queued, Connection, TornDown, Heard, Failed, Failing,
    Reading, Pumping, Handling, Setup, Settling, ParseResponse, outgoing, events, socket,
    reads, request, teardown
<1>8. Failed'
  BY <1>1, <1>3, <1>9 DEF Control, Typed, Queued, Connection, TornDown, Heard, Failed, Failing,
    Reading, Pumping, Handling, Setup, Settling, ParseResponse, outgoing, events, socket,
    reads, request, teardown
<1> QED
  BY <1>4, <1>5, <1>6, <1>7, <1>8 DEF Control

\* The read ended.
LEMMA EofControl ==
  ASSUME Control, Typed, RunEof
  PROVE  Control'
<1>1. /\ due = {"eof"} \cup Names(Rest) /\ InOrder(Rest)
      /\ "eof" \in Setup => Names(Rest) \cap Setup = {}
      /\ "eof" \in Pumping => Names(Rest) \cap Pumping = {}
      /\ "eof" \in Settling => Names(Rest) \cap Settling = {}
      /\ "eof" \in Handling => "ready" \notin Names(Rest)
  BY DueRest DEF RunEof, Control, Queued
<1>2. \/ /\ UNCHANGED <<closed, native, early, stage, complete, resErrors, sockDestroyed>>
         /\ due' = Names(Rest) /\ InOrder(micro')
      \/ /\ ~listening \/ stage = "done" \/ (stage = "head" /\ closed)
         /\ SockEnds /\ UNCHANGED <<stage, complete, resErrors>>
      \/ /\ listening /\ stage = "head" /\ ~closed
         /\ FailsWith /\ UNCHANGED <<stage, complete, resErrors>>
      \/ /\ listening /\ stage = "body" /\ EndsLegally(dec)
         /\ FinishesWith /\ stage' = "done" /\ complete' /\ UNCHANGED resErrors
      \/ /\ listening /\ stage = "body" /\ ~EndsLegally(dec) /\ resErrors' = resErrors + 1
         /\ SockEnds /\ UNCHANGED <<stage, complete>>
  <2>1. CASE micro' = Rest /\ UNCHANGED <<teardown, stage, complete, resErrors>>
    BY <1>1, <2>1 DEF teardown, due
  <2>2. CASE EmitEnd(Rest)
    BY <1>1, <2>2, FailSettles, FinishSettles
       DEF Settling, RunEof, EmitEnd, SockEnded, SockEnds, due
  <2> QED
    BY <2>1, <2>2 DEF RunEof
<1>9. ended' = TRUE
  BY DEF RunEof
<1>4. Queued'
  BY <1>1, <1>2, <1>9 DEF Control, Typed, Queued, Connection, TornDown, Heard, Failed, Failing,
    Reading, Pumping, Handling, Setup, Settling, RunEof, SockEnds, EndsLegally, FailsWith,
    SettlesBy, FinishesWith, SockDestroy, outgoing, events, socket, request
<1>5. Connection'
  BY <1>1, <1>2, <1>9 DEF Control, Typed, Queued, Connection, TornDown, Heard, Failed, Failing,
    Reading, Pumping, Handling, Setup, Settling, RunEof, SockEnds, EndsLegally, FailsWith,
    SettlesBy, FinishesWith, SockDestroy, outgoing, events, socket, request
<1>6. TornDown'
  <2>1. /\ resErrors = 0 /\ ~connecting /\ "ready" \notin due
        /\ ~listening => sockDestroyed
        /\ reading' = reading /\ ~reading /\ Names(Rest) \cap Pumping = {}
    BY <1>1 DEF Control, Queued, Connection, Reading, Pumping, Handling, Setup, RunEof
  <2>2. /\ UNCHANGED <<destroyed, assigned, connecting, listening, handed>>
        /\ resErrors' = resErrors \/ resErrors' = 1
    BY <1>2, <2>1 DEF RunEof, socket, request
  <2>3. ~Reading'
    BY <1>2, <2>1 DEF Reading, SockEnds, FailsWith, FinishesWith, SettlesBy, Settling, Pumping,
      Handling
  <2>5. CASE UNCHANGED <<closed, native, early, sockDestroyed, resErrors>>
    BY <2>2, <2>3, <2>5 DEF Control, TornDown
  <2>4. CASE /\ ~listening \/ stage = "done" \/ (stage = "head" /\ closed)
             /\ SockEnds /\ resErrors' = resErrors
    BY <2>1, <2>2, <2>3, <2>4 DEF Control, TornDown, Connection, SockEnds, Typed
  <2>6. CASE SockEnds /\ resErrors' = resErrors + 1
    BY <2>1, <2>2, <2>3, <2>6 DEF Control, TornDown, Connection, SockEnds, Typed
  <2>7. CASE FailsWith \/ FinishesWith
    BY <2>1, <2>2, <2>3, <2>7 DEF FailsWith, FinishesWith, SettlesBy, SockDestroy, Control,
      TornDown, Connection, Typed
  <2> QED
    BY <1>2, <2>4, <2>5, <2>6, <2>7
<1>7. Heard'
  BY <1>1, <1>2, <1>9 DEF Control, Typed, Queued, Connection, TornDown, Heard, Failed, Failing,
    Reading, Pumping, Handling, Setup, Settling, RunEof, SockEnds, EndsLegally, FailsWith,
    SettlesBy, FinishesWith, SockDestroy, outgoing, events, socket, request
<1>8. Failed'
  BY <1>1, <1>2, <1>9 DEF Control, Typed, Queued, Connection, TornDown, Heard, Failed, Failing,
    Reading, Pumping, Handling, Setup, Settling, RunEof, SockEnds, EndsLegally, FailsWith,
    SettlesBy, FinishesWith, SockDestroy, outgoing, events, socket, request
<1> QED
  BY <1>4, <1>5, <1>6, <1>7, <1>8 DEF Control

\* A read failed.
LEMMA ReadErrorControl ==
  ASSUME Control, Typed, RunReadError
  PROVE  Control'
<1>1. /\ due = {"error"} \cup Names(Rest) /\ InOrder(Rest)
      /\ "error" \in Setup => Names(Rest) \cap Setup = {}
      /\ "error" \in Pumping => Names(Rest) \cap Pumping = {}
      /\ "error" \in Settling => Names(Rest) \cap Settling = {}
      /\ "error" \in Handling => "ready" \notin Names(Rest)
  BY DueRest DEF RunReadError, Control, Queued
<1>2. \/ sockDestroyed /\ UNCHANGED teardown /\ due' = Names(Rest) /\ InOrder(micro')
      \/ ~sockDestroyed /\ FailsWith
  BY <1>1, FailSettles DEF Settling, RunReadError, Typed, due
<1>4. Queued'
  BY <1>1, <1>2 DEF Control, Typed, Queued, Connection, TornDown, Heard, Failed, Failing,
    Reading, Pumping, Handling, Setup, Settling, RunReadError, FailsWith, SettlesBy,
    SockDestroy, parser, outgoing, response, events, socket, reads, request, teardown
<1>5. Connection'
  BY <1>1, <1>2 DEF Control, Typed, Queued, Connection, TornDown, Heard, Failed, Failing,
    Reading, Pumping, Handling, Setup, Settling, RunReadError, FailsWith, SettlesBy,
    SockDestroy, parser, outgoing, response, events, socket, reads, request, teardown
<1>6. TornDown'
  BY <1>1, <1>2 DEF Control, Typed, Queued, Connection, TornDown, Heard, Failed, Failing,
    Reading, Pumping, Handling, Setup, Settling, RunReadError, FailsWith, SettlesBy,
    SockDestroy, parser, outgoing, response, events, socket, reads, request, teardown
<1>7. Heard'
  BY <1>1, <1>2 DEF Control, Typed, Queued, Connection, TornDown, Heard, Failed, Failing,
    Reading, Pumping, Handling, Setup, Settling, RunReadError, FailsWith, SettlesBy,
    SockDestroy, parser, outgoing, response, events, socket, reads, request, teardown
<1>8. Failed'
  BY <1>1, <1>2 DEF Control, Typed, Queued, Connection, TornDown, Heard, Failed, Failing,
    Reading, Pumping, Handling, Setup, Settling, RunReadError, FailsWith, SettlesBy,
    SockDestroy, parser, outgoing, response, events, socket, reads, request, teardown
<1> QED
  BY <1>4, <1>5, <1>6, <1>7, <1>8 DEF Control

\* The new owner of an upgraded socket listens.
LEMMA OwnerControl ==
  ASSUME Control, Typed, OwnerListens
  PROVE  Control'
<1>2. due' = due /\ InOrder(micro')
  BY DEF OwnerListens, Control, Queued, due
<1>4. Queued'
  BY <1>2 DEF Control, Typed, Queued, Connection, TornDown, Heard, Failed, Failing, Reading,
    Pumping, Handling, Setup, Settling, OwnerListens, parser, outgoing, response, events,
    socket, request
<1>5. Connection'
  BY <1>2 DEF Control, Typed, Queued, Connection, TornDown, Heard, Failed, Failing, Reading,
    Pumping, Handling, Setup, Settling, OwnerListens, parser, outgoing, response, events,
    socket, request
<1>6. TornDown'
  BY <1>2 DEF Control, Typed, Queued, Connection, TornDown, Heard, Failed, Failing, Reading,
    Pumping, Handling, Setup, Settling, OwnerListens, parser, outgoing, response, events,
    socket, request
<1>7. Heard'
  BY <1>2 DEF Control, Typed, Queued, Connection, TornDown, Heard, Failed, Failing, Reading,
    Pumping, Handling, Setup, Settling, OwnerListens, parser, outgoing, response, events,
    socket, request
<1>8. Failed'
  BY <1>2 DEF Control, Typed, Queued, Connection, TornDown, Heard, Failed, Failing, Reading,
    Pumping, Handling, Setup, Settling, OwnerListens, parser, outgoing, response, events,
    socket, request
<1> QED
  BY <1>4, <1>5, <1>6, <1>7, <1>8 DEF Control

-----------------------------------------------------------------------------
\* Types, by kind.
Place == exchange \in Exchanges /\ pos \in 0..Len(exchange.wire)
SocketFlags ==
  /\ native \in {"none", "open", "closed"}
  /\ finSent \in BOOLEAN /\ reading \in BOOLEAN /\ broken \in BOOLEAN
  /\ assigned \in BOOLEAN /\ connecting \in BOOLEAN /\ sockDestroyed \in BOOLEAN
  /\ listening \in BOOLEAN /\ ended \in BOOLEAN /\ endEmitted \in BOOLEAN
  /\ owner \in BOOLEAN /\ early \in BOOLEAN
RequestFlags ==
  /\ destroyed \in BOOLEAN /\ closed \in BOOLEAN /\ finished \in BOOLEAN
  /\ handed \in BOOLEAN /\ complete \in BOOLEAN
  /\ framed \in {"unset", "chunked", "length", "none"}
  /\ stage \in {"head", "body", "done"}
Parts == sent \in Seq(PartSet) /\ chain \in Seq(PartSet) /\ queue \in Seq(PartSet)
Texts ==
  /\ held \in Bytes /\ owned \in Bytes /\ buf \in Bytes /\ got \in Bytes
  /\ dec \in Decoders /\ dec.pending \in Bytes
JobSet == [job : JobNames, bytes : Bytes]
Queues == micro \in Seq(JobSet)
Counts ==
  /\ errors \in Nat /\ closes \in Nat /\ responses \in 0..1 /\ resErrors \in 0..1
  /\ calls \in 0..MaxCalls /\ asked \in 0..calls

LEMMA TypesAre ==
  TypeOK' <=> SocketFlags' /\ RequestFlags' /\ Place' /\ Parts' /\ Texts' /\ Queues' /\ Counts'
BY DEF TypeOK, SocketFlags, RequestFlags, Place, Parts, Texts, Queues, Counts, JobSet

LEMMA BytesAre ==
  /\ <<>> \in Bytes
  /\ \A a, b \in Bytes : a \o b \in Bytes
<1> DEFINE A == UNION {ToSet(x.wire) : x \in Exchanges}
<1>1. Bytes = Seq(A)
  BY DEF Bytes
<1> HIDE DEF A
<1> QED
  BY <1>1

LEMMA JobIn ==
  ASSUME NEW j \in JobNames
  PROVE  Job(j) \in JobSet
BY JobTyped DEF JobSet

LEMMA NowIn ==
  ASSUME TypeOK, NEW j, Due(j)
  PROVE  Rest \in Seq(JobSet) /\ Now.bytes \in Bytes
<1>1. micro \in Seq(JobSet) /\ micro # <<>>
  BY DEF TypeOK, JobSet, Due
<1>2. Tail(micro) \in Seq(JobSet) /\ Head(micro) \in JobSet
  BY <1>1
<1> QED
  BY <1>2 DEF Rest, Now, JobSet

\* The teardown leaves flags, and one job more at most.
LEMMA SockDestroyTyped ==
  ASSUME TypeOK, SockDestroy
  PROVE  sockDestroyed' \in BOOLEAN /\ early' \in BOOLEAN /\ native' \in {"none", "open", "closed"}
BY DEF TypeOK, SockDestroy

LEMMA FailTyped ==
  ASSUME TypeOK, NEW r \in Seq(JobSet), Fail(r)
  PROVE  /\ sockDestroyed' \in BOOLEAN /\ early' \in BOOLEAN
         /\ native' \in {"none", "open", "closed"} /\ closed' \in BOOLEAN
         /\ micro' \in Seq(JobSet)
<1>1. micro' \in Seq(JobSet)
  BY JobIn DEF Fail, JobNames
<1> QED
  BY <1>1, SockDestroyTyped DEF Fail, teardown, TypeOK

LEMMA CloseTyped ==
  ASSUME NEW r \in Seq(JobSet), Close(r)
  PROVE  closed' \in BOOLEAN /\ micro' \in Seq(JobSet)
BY JobIn DEF Close, JobNames

LEMMA FinishTyped ==
  ASSUME TypeOK, NEW r \in Seq(JobSet), FinishBody(r)
  PROVE  /\ sockDestroyed' \in BOOLEAN /\ early' \in BOOLEAN
         /\ native' \in {"none", "open", "closed"} /\ closed' \in BOOLEAN
         /\ micro' \in Seq(JobSet) /\ complete' \in BOOLEAN /\ stage' = "done"
BY CloseTyped, SockDestroyTyped DEF FinishBody

\* Only a body of known length has its length announced.
LEMMA AnnouncedIs ==
  ASSUME TypeOK, NEW n \in {-1, 0, 1}
  PROVE  /\ Announced(n) \in {"chunked", "length", "none"}
         /\ Announced(n) = "length" => n >= 0
<1>1. exchange \in Exchanges
  BY DEF TypeOK
<1>2. exchange.declared \in {"no", "length", "chunked"}
  BY <1>1, HttpClientAssumption
<1>3. n = -1 \/ n >= 0
  OBVIOUS
<1> QED
  BY <1>2, <1>3 DEF Announced

LEMMA PartsIn ==
  ASSUME TypeOK, NEW n \in {-1, 0, 1}, calls < MaxCalls
  PROVE  /\ FramingFor(n) \in {"chunked", "length", "none"}
         /\ HeadParts(n) \in Seq(PartSet) /\ LastParts(FramingFor(n)) \in Seq(PartSet)
         /\ \A k \in 0..1 : BodyParts(FramingFor(n), k) \in Seq(PartSet)
<1>1. Announced(n) \in {"chunked", "length", "none"}
  BY AnnouncedIs
<1>2. FramingFor(n) \in {"chunked", "length", "none"}
  BY <1>1 DEF FramingFor, TypeOK
<1>3. MaxCalls \in Nat /\ calls \in Nat /\ asked \in Nat /\ asked <= calls /\ 1 <= MaxCalls
  BY HttpClientAssumption DEF TypeOK
<1>4. \A f \in {"chunked", "length", "none"}, kind \in {"head", "body", "last"},
        k \in -1..MaxCalls : Part(kind, f, k) \in PartSet
  BY DEF Part, PartSet
<1>5. n \in -1..MaxCalls /\ 0 \in -1..MaxCalls
  BY <1>3
<1>6. HeadParts(n) \in Seq(PartSet)
  BY <1>1, <1>4, <1>5 DEF HeadParts
<1>7. LastParts(FramingFor(n)) \in Seq(PartSet)
  BY <1>2, <1>4, <1>5 DEF LastParts
<1>8. ASSUME NEW k \in 0..1
      PROVE  BodyParts(FramingFor(n), k) \in Seq(PartSet)
  <2>1. \A i \in 1..k : asked + i \in -1..MaxCalls
    BY <1>3
  <2>2. \A i \in 1..k : Part("body", FramingFor(n), asked + i) \in PartSet
    BY <1>2, <1>4, <2>1
  <2> QED
    BY <2>2 DEF BodyParts
<1> QED
  BY <1>2, <1>6, <1>7, <1>8

LEMMA EnqueueTyped ==
  ASSUME TypeOK, NEW parts \in Seq(PartSet), Enqueue(parts)
  PROVE  chain' \in Seq(PartSet) /\ queue' \in Seq(PartSet)
<1>1. chain \in Seq(PartSet) /\ queue \in Seq(PartSet)
  BY DEF TypeOK
<1>2. queue \o parts \in Seq(PartSet) /\ chain \o queue \in Seq(PartSet) /\ <<>> \in Seq(PartSet)
  BY <1>1
<1>3. (chain \o queue) \o parts \in Seq(PartSet)
  BY <1>2
<1> QED
  BY <1>1, <1>2, <1>3 DEF Enqueue

LEMMA WriteTypes ==
  ASSUME TypeOK, Control, Write
  PROVE  TypeOK'
<1>1. calls \in Nat /\ MaxCalls \in Nat /\ asked \in Nat /\ asked <= calls
  BY HttpClientAssumption DEF TypeOK
<1>2. calls < MaxCalls /\ Enqueue(HeadParts(-1) \o BodyParts(FramingFor(-1), 1))
  BY DEF Write, Call
<1>3. /\ HeadParts(-1) \o BodyParts(FramingFor(-1), 1) \in Seq(PartSet)
      /\ framed' \in {"chunked", "length", "none"}
  BY <1>2, PartsIn DEF Write
<1>4. chain' \in Seq(PartSet) /\ queue' \in Seq(PartSet)
  BY <1>2, <1>3, EnqueueTyped
<1>A. SocketFlags'
  BY <1>1, <1>3, <1>4 DEF SocketFlags, TypeOK, Write, Call, vars, parser, outgoing, response,
    events, socket, reads, request, teardown
<1>B. RequestFlags'
  BY <1>1, <1>3, <1>4 DEF RequestFlags, TypeOK, Write, Call, vars, parser, outgoing, response,
    events, socket, reads, request, teardown
<1>C. Place'
  BY <1>1, <1>3, <1>4 DEF Place, TypeOK, Write, Call, vars, parser, outgoing, response, events,
    socket, reads, request, teardown
<1>D. Parts'
  BY <1>1, <1>3, <1>4 DEF Parts, TypeOK, Write, Call, vars, parser, outgoing, response, events,
    socket, reads, request, teardown
<1>E. Texts'
  BY <1>1, <1>3, <1>4 DEF Texts, TypeOK, Write, Call, vars, parser, outgoing, response, events,
    socket, reads, request, teardown
<1>F. Queues'
  BY <1>1, <1>3, <1>4 DEF Queues, TypeOK, JobSet, Write, Call, vars, parser, outgoing,
    response, events, socket, reads, request, teardown
<1>G. Counts'
  BY <1>1, <1>3, <1>4 DEF Counts, TypeOK, Write, Call, vars, parser, outgoing, response,
    events, socket, reads, request, teardown
<1> QED
  BY <1>A, <1>B, <1>C, <1>D, <1>E, <1>F, <1>G, TypesAre

LEMMA FlushTypes ==
  ASSUME TypeOK, Control, FlushHeaders
  PROVE  TypeOK'
<1>1. calls \in Nat /\ MaxCalls \in Nat /\ asked \in Nat /\ asked <= calls
  BY HttpClientAssumption DEF TypeOK
<1>2. calls < MaxCalls /\ Enqueue(HeadParts(-1))
  BY DEF FlushHeaders, Call
<1>3. HeadParts(-1) \in Seq(PartSet) /\ framed' \in {"chunked", "length", "none"}
  BY <1>2, PartsIn DEF FlushHeaders
<1>4. chain' \in Seq(PartSet) /\ queue' \in Seq(PartSet)
  BY <1>2, <1>3, EnqueueTyped
<1>A. SocketFlags'
  BY <1>1, <1>3, <1>4 DEF SocketFlags, TypeOK, FlushHeaders, Call, vars, parser, outgoing,
    response, events, socket, reads, request, teardown
<1>B. RequestFlags'
  BY <1>1, <1>3, <1>4 DEF RequestFlags, TypeOK, FlushHeaders, Call, vars, parser, outgoing,
    response, events, socket, reads, request, teardown
<1>C. Place'
  BY <1>1, <1>3, <1>4 DEF Place, TypeOK, FlushHeaders, Call, vars, parser, outgoing, response,
    events, socket, reads, request, teardown
<1>D. Parts'
  BY <1>1, <1>3, <1>4 DEF Parts, TypeOK, FlushHeaders, Call, vars, parser, outgoing, response,
    events, socket, reads, request, teardown
<1>E. Texts'
  BY <1>1, <1>3, <1>4 DEF Texts, TypeOK, FlushHeaders, Call, vars, parser, outgoing, response,
    events, socket, reads, request, teardown
<1>F. Queues'
  BY <1>1, <1>3, <1>4 DEF Queues, TypeOK, JobSet, FlushHeaders, Call, vars, parser, outgoing,
    response, events, socket, reads, request, teardown
<1>G. Counts'
  BY <1>1, <1>3, <1>4 DEF Counts, TypeOK, FlushHeaders, Call, vars, parser, outgoing, response,
    events, socket, reads, request, teardown
<1> QED
  BY <1>A, <1>B, <1>C, <1>D, <1>E, <1>F, <1>G, TypesAre

LEMMA EndTypes ==
  ASSUME TypeOK, Control, NEW n \in 0..1, End(n)
  PROVE  TypeOK'
<1>1. calls \in Nat /\ MaxCalls \in Nat /\ asked \in Nat /\ asked <= calls
  BY HttpClientAssumption DEF TypeOK
<1>2. /\ calls < MaxCalls /\ n \in {-1, 0, 1}
      /\ Enqueue(HeadParts(n) \o BodyParts(FramingFor(n), n) \o LastParts(FramingFor(n)))
  BY DEF End, Call
<1>3. /\ HeadParts(n) \o BodyParts(FramingFor(n), n) \o LastParts(FramingFor(n)) \in Seq(PartSet)
      /\ framed' \in {"chunked", "length", "none"}
  <2>1. /\ HeadParts(n) \in Seq(PartSet) /\ BodyParts(FramingFor(n), n) \in Seq(PartSet)
        /\ LastParts(FramingFor(n)) \in Seq(PartSet)
        /\ FramingFor(n) \in {"chunked", "length", "none"}
    BY <1>2, PartsIn
  <2> QED
    BY <2>1 DEF End
<1>4. chain' \in Seq(PartSet) /\ queue' \in Seq(PartSet)
  BY <1>2, <1>3, EnqueueTyped
<1>A. SocketFlags'
  BY <1>1, <1>2, <1>3, <1>4 DEF SocketFlags, TypeOK, End, Call, vars, parser, outgoing,
    response, events, socket, reads, request, teardown
<1>B. RequestFlags'
  BY <1>1, <1>2, <1>3, <1>4 DEF RequestFlags, TypeOK, End, Call, vars, parser, outgoing,
    response, events, socket, reads, request, teardown
<1>C. Place'
  BY <1>1, <1>2, <1>3, <1>4 DEF Place, TypeOK, End, Call, vars, parser, outgoing, response,
    events, socket, reads, request, teardown
<1>D. Parts'
  BY <1>1, <1>2, <1>3, <1>4 DEF Parts, TypeOK, End, Call, vars, parser, outgoing, response,
    events, socket, reads, request, teardown
<1>E. Texts'
  BY <1>1, <1>2, <1>3, <1>4 DEF Texts, TypeOK, End, Call, vars, parser, outgoing, response,
    events, socket, reads, request, teardown
<1>F. Queues'
  BY <1>1, <1>2, <1>3, <1>4 DEF Queues, TypeOK, JobSet, End, Call, vars, parser, outgoing,
    response, events, socket, reads, request, teardown
<1>G. Counts'
  BY <1>1, <1>2, <1>3, <1>4 DEF Counts, TypeOK, End, Call, vars, parser, outgoing, response,
    events, socket, reads, request, teardown
<1> QED
  BY <1>A, <1>B, <1>C, <1>D, <1>E, <1>F, <1>G, TypesAre

LEMMA DestroyTypes ==
  ASSUME TypeOK, Control, NEW withError \in BOOLEAN, Destroy(withError)
  PROVE  TypeOK'
<1>1. calls \in Nat /\ MaxCalls \in Nat /\ asked \in Nat /\ asked <= calls
  BY HttpClientAssumption DEF TypeOK
<1>2. micro' \in Seq(JobSet)
  <2>1. micro \in Seq(JobSet) /\ Job("fail") \in JobSet /\ Job("close") \in JobSet
    BY JobIn DEF TypeOK, JobSet, JobNames
  <2> QED
    BY <2>1 DEF Destroy
<1>3. /\ sockDestroyed' \in BOOLEAN /\ early' \in BOOLEAN
      /\ native' \in {"none", "open", "closed"} /\ closed' = TRUE
  BY SockDestroyTyped DEF Destroy, TypeOK
<1>A. SocketFlags'
  BY <1>1, <1>2, <1>3 DEF SocketFlags, TypeOK, Destroy, Call, vars, parser, outgoing, response,
    events, socket, reads, request, teardown
<1>B. RequestFlags'
  BY <1>1, <1>2, <1>3 DEF RequestFlags, TypeOK, Destroy, Call, vars, parser, outgoing,
    response, events, socket, reads, request, teardown
<1>C. Place'
  BY <1>1, <1>2, <1>3 DEF Place, TypeOK, Destroy, Call, vars, parser, outgoing, response,
    events, socket, reads, request, teardown
<1>D. Parts'
  BY <1>1, <1>2, <1>3 DEF Parts, TypeOK, Destroy, Call, vars, parser, outgoing, response,
    events, socket, reads, request, teardown
<1>E. Texts'
  BY <1>1, <1>2, <1>3 DEF Texts, TypeOK, Destroy, Call, vars, parser, outgoing, response,
    events, socket, reads, request, teardown
<1>F. Queues'
  BY <1>1, <1>2, <1>3 DEF Queues, TypeOK, JobSet, Destroy, Call, vars, parser, outgoing,
    response, events, socket, reads, request, teardown
<1>G. Counts'
  BY <1>1, <1>2, <1>3 DEF Counts, TypeOK, Destroy, Call, vars, parser, outgoing, response,
    events, socket, reads, request, teardown
<1> QED
  BY <1>A, <1>B, <1>C, <1>D, <1>E, <1>F, <1>G, TypesAre

LEMMA ConnectedTypes ==
  ASSUME TypeOK, Control, NEW ok \in BOOLEAN, Connected(ok)
  PROVE  TypeOK'
<1>1. micro' \in Seq(JobSet)
  BY JobIn DEF Connected, TypeOK, JobSet, JobNames
<1>A. SocketFlags'
  BY <1>1 DEF SocketFlags, TypeOK, Connected, vars, parser, outgoing, response, events, socket,
    reads, request, teardown
<1>B. RequestFlags'
  BY <1>1 DEF RequestFlags, TypeOK, Connected, vars, parser, outgoing, response, events,
    socket, reads, request, teardown
<1>C. Place'
  BY <1>1 DEF Place, TypeOK, Connected, vars, parser, outgoing, response, events, socket,
    reads, request, teardown
<1>D. Parts'
  BY <1>1 DEF Parts, TypeOK, Connected, vars, parser, outgoing, response, events, socket,
    reads, request, teardown
<1>E. Texts'
  BY <1>1 DEF Texts, TypeOK, Connected, vars, parser, outgoing, response, events, socket,
    reads, request, teardown
<1>F. Queues'
  BY <1>1 DEF Queues, TypeOK, JobSet, Connected, vars, parser, outgoing, response, events,
    socket, reads, request, teardown
<1>G. Counts'
  BY <1>1 DEF Counts, TypeOK, Connected, vars, parser, outgoing, response, events, socket,
    reads, request, teardown
<1> QED
  BY <1>A, <1>B, <1>C, <1>D, <1>E, <1>F, <1>G, TypesAre

LEMMA ReadBytesTypes ==
  ASSUME TypeOK, Control, ReadBytes
  PROVE  TypeOK'
<1>1. PICK n \in 1..(Len(exchange.wire) - pos) :
             pos' = pos + n /\ micro' = Append(micro, Read(SubSeq(exchange.wire, pos + 1, pos + n)))
  BY DEF ReadBytes
<1>2. Read(SubSeq(exchange.wire, pos + 1, pos + n)) \in JobSet
  BY ReadTyped DEF JobSet
<1>3. micro' \in Seq(JobSet)
  BY <1>1, <1>2 DEF TypeOK, JobSet
<1>4. pos' \in 0..Len(exchange.wire)
  <2>1. exchange.wire \in Seq(STRING)
    BY HttpClientAssumption DEF TypeOK
  <2>2. Len(exchange.wire) \in Nat
    BY <2>1
  <2> QED
    BY <1>1, <2>2 DEF TypeOK
<1>A. SocketFlags'
  BY <1>3, <1>4 DEF SocketFlags, TypeOK, ReadBytes, vars, parser, outgoing, response, events,
    socket, reads, request, teardown
<1>B. RequestFlags'
  BY <1>3, <1>4 DEF RequestFlags, TypeOK, ReadBytes, vars, parser, outgoing, response, events,
    socket, reads, request, teardown
<1>C. Place'
  BY <1>3, <1>4 DEF Place, TypeOK, ReadBytes, vars, parser, outgoing, response, events, socket,
    reads, request, teardown
<1>D. Parts'
  BY <1>3, <1>4 DEF Parts, TypeOK, ReadBytes, vars, parser, outgoing, response, events, socket,
    reads, request, teardown
<1>E. Texts'
  BY <1>3, <1>4 DEF Texts, TypeOK, ReadBytes, vars, parser, outgoing, response, events, socket,
    reads, request, teardown
<1>F. Queues'
  BY <1>3, <1>4 DEF Queues, TypeOK, JobSet, ReadBytes, vars, parser, outgoing, response,
    events, socket, reads, request, teardown
<1>G. Counts'
  BY <1>3, <1>4 DEF Counts, TypeOK, ReadBytes, vars, parser, outgoing, response, events,
    socket, reads, request, teardown
<1> QED
  BY <1>A, <1>B, <1>C, <1>D, <1>E, <1>F, <1>G, TypesAre

LEMMA ReadEndsTypes ==
  ASSUME TypeOK, Control, NEW how \in {"eof", "error"}, ReadEnds(how)
  PROVE  TypeOK'
<1>1. micro' \in Seq(JobSet)
  BY JobIn DEF ReadEnds, TypeOK, JobSet, JobNames
<1>A. SocketFlags'
  <2>1. finSent' \in BOOLEAN /\ reading' = FALSE
    <3>1. finSent' = (how = "eof" /\ native = "open") /\ reading' = FALSE
      BY DEF ReadEnds
    <3>2. (how = "eof" /\ native = "open") \in BOOLEAN
      OBVIOUS
    <3> QED
      BY ONLY <3>1, <3>2, Zenon
  <2>2. UNCHANGED <<native, broken, assigned, connecting, sockDestroyed, listening, ended, endEmitted,
                    owner, early>>
    BY DEF ReadEnds, outgoing, socket, reads, teardown
  <2>3. SocketFlags
    BY DEF TypeOK, SocketFlags
  <2>4. /\ native' \in {"none", "open", "closed"} /\ broken' \in BOOLEAN /\ assigned' \in BOOLEAN
        /\ connecting' \in BOOLEAN /\ sockDestroyed' \in BOOLEAN /\ listening' \in BOOLEAN
    BY <2>2, <2>3 DEF SocketFlags
  <2>5. /\ ended' \in BOOLEAN /\ endEmitted' \in BOOLEAN /\ owner' \in BOOLEAN
        /\ early' \in BOOLEAN
    BY <2>2, <2>3 DEF SocketFlags
  <2> QED
    BY ONLY <2>1, <2>4, <2>5, Zenon DEF SocketFlags
<1>B. RequestFlags'
  BY <1>1 DEF RequestFlags, TypeOK, ReadEnds, vars, parser, outgoing, response, events, socket,
    reads, request, teardown
<1>C. Place'
  BY <1>1 DEF Place, TypeOK, ReadEnds, vars, parser, outgoing, response, events, socket, reads,
    request, teardown
<1>D. Parts'
  BY <1>1 DEF Parts, TypeOK, ReadEnds, vars, parser, outgoing, response, events, socket, reads,
    request, teardown
<1>E. Texts'
  BY <1>1 DEF Texts, TypeOK, ReadEnds, vars, parser, outgoing, response, events, socket, reads,
    request, teardown
<1>F. Queues'
  BY <1>1 DEF Queues, TypeOK, JobSet, ReadEnds, vars, parser, outgoing, response, events,
    socket, reads, request, teardown
<1>G. Counts'
  BY <1>1 DEF Counts, TypeOK, ReadEnds, vars, parser, outgoing, response, events, socket,
    reads, request, teardown
<1> QED
  BY <1>A, <1>B, <1>C, <1>D, <1>E, <1>F, <1>G, TypesAre

LEMMA WriteNextTypes ==
  ASSUME TypeOK, Control, NEW ok \in BOOLEAN, WriteNext(ok)
  PROVE  TypeOK'
<1>1. micro \in Seq(JobSet) /\ chain \in Seq(PartSet) /\ chain # <<>> /\ sent \in Seq(PartSet)
  BY DEF TypeOK, JobSet, WriteNext
<1>2. Tail(chain) \in Seq(PartSet) /\ Append(sent, Head(chain)) \in Seq(PartSet)
  BY <1>1
<1>3. /\ micro' \in Seq(JobSet) /\ sockDestroyed' \in BOOLEAN /\ early' \in BOOLEAN
      /\ native' \in {"none", "open", "closed"} /\ closed' \in BOOLEAN
  BY <1>1, FailTyped DEF WriteNext, TypeOK, teardown
<1>A. SocketFlags'
  BY <1>1, <1>2, <1>3 DEF SocketFlags, TypeOK, WriteNext, vars, parser, outgoing, response,
    events, socket, reads, request, teardown
<1>B. RequestFlags'
  BY <1>1, <1>2, <1>3 DEF RequestFlags, TypeOK, WriteNext, vars, parser, outgoing, response,
    events, socket, reads, request, teardown
<1>C. Place'
  BY <1>1, <1>2, <1>3 DEF Place, TypeOK, WriteNext, vars, parser, outgoing, response, events,
    socket, reads, request, teardown
<1>D. Parts'
  BY <1>1, <1>2, <1>3 DEF Parts, TypeOK, WriteNext, vars, parser, outgoing, response, events,
    socket, reads, request, teardown
<1>E. Texts'
  BY <1>1, <1>2, <1>3 DEF Texts, TypeOK, WriteNext, vars, parser, outgoing, response, events,
    socket, reads, request, teardown
<1>F. Queues'
  BY <1>1, <1>2, <1>3 DEF Queues, TypeOK, JobSet, WriteNext, vars, parser, outgoing, response,
    events, socket, reads, request, teardown
<1>G. Counts'
  BY <1>1, <1>2, <1>3 DEF Counts, TypeOK, WriteNext, vars, parser, outgoing, response, events,
    socket, reads, request, teardown
<1> QED
  BY <1>A, <1>B, <1>C, <1>D, <1>E, <1>F, <1>G, TypesAre

LEMMA AssignTypes ==
  ASSUME TypeOK, Control, RunAssign
  PROVE  TypeOK'
<1>1. Rest \in Seq(JobSet) /\ Now.bytes \in Bytes
  BY NowIn DEF RunAssign
<1>2. /\ sockDestroyed' \in BOOLEAN /\ early' \in BOOLEAN
      /\ native' \in {"none", "open", "closed"}
  BY SockDestroyTyped DEF RunAssign, TypeOK
<1>A. SocketFlags'
  BY <1>1, <1>2 DEF SocketFlags, TypeOK, RunAssign, vars, parser, outgoing, response, events,
    socket, reads, request, teardown
<1>B. RequestFlags'
  BY <1>1, <1>2 DEF RequestFlags, TypeOK, RunAssign, vars, parser, outgoing, response, events,
    socket, reads, request, teardown
<1>C. Place'
  BY <1>1, <1>2 DEF Place, TypeOK, RunAssign, vars, parser, outgoing, response, events, socket,
    reads, request, teardown
<1>D. Parts'
  BY <1>1, <1>2 DEF Parts, TypeOK, RunAssign, vars, parser, outgoing, response, events, socket,
    reads, request, teardown
<1>E. Texts'
  BY <1>1, <1>2 DEF Texts, TypeOK, RunAssign, vars, parser, outgoing, response, events, socket,
    reads, request, teardown
<1>F. Queues'
  BY <1>1, <1>2 DEF Queues, TypeOK, JobSet, RunAssign, vars, parser, outgoing, response,
    events, socket, reads, request, teardown
<1>G. Counts'
  BY <1>1, <1>2 DEF Counts, TypeOK, RunAssign, vars, parser, outgoing, response, events,
    socket, reads, request, teardown
<1> QED
  BY <1>A, <1>B, <1>C, <1>D, <1>E, <1>F, <1>G, TypesAre

LEMMA OpenedTypes ==
  ASSUME TypeOK, Control, RunOpened
  PROVE  TypeOK'
<1>1. Rest \in Seq(JobSet) /\ Now.bytes \in Bytes
  BY NowIn DEF RunOpened
<1>2. micro' \in Seq(JobSet)
  BY <1>1, JobIn DEF RunOpened, JobNames
<1>A. SocketFlags'
  BY <1>2 DEF SocketFlags, TypeOK, RunOpened, vars, parser, outgoing, response, events, socket,
    reads, request, teardown
<1>B. RequestFlags'
  BY <1>2 DEF RequestFlags, TypeOK, RunOpened, vars, parser, outgoing, response, events,
    socket, reads, request, teardown
<1>C. Place'
  BY <1>2 DEF Place, TypeOK, RunOpened, vars, parser, outgoing, response, events, socket,
    reads, request, teardown
<1>D. Parts'
  BY <1>2 DEF Parts, TypeOK, RunOpened, vars, parser, outgoing, response, events, socket,
    reads, request, teardown
<1>E. Texts'
  BY <1>2 DEF Texts, TypeOK, RunOpened, vars, parser, outgoing, response, events, socket,
    reads, request, teardown
<1>F. Queues'
  BY <1>2 DEF Queues, TypeOK, JobSet, RunOpened, vars, parser, outgoing, response, events,
    socket, reads, request, teardown
<1>G. Counts'
  BY <1>2 DEF Counts, TypeOK, RunOpened, vars, parser, outgoing, response, events, socket,
    reads, request, teardown
<1> QED
  BY <1>A, <1>B, <1>C, <1>D, <1>E, <1>F, <1>G, TypesAre

LEMMA ReadyTypes ==
  ASSUME TypeOK, Control, RunReady
  PROVE  TypeOK'
<1>1. Rest \in Seq(JobSet) /\ Now.bytes \in Bytes
  BY NowIn DEF RunReady
<1>2. /\ sockDestroyed' \in BOOLEAN /\ early' \in BOOLEAN
      /\ native' \in {"none", "open", "closed"}
      /\ chain' \in Seq(PartSet) /\ queue' \in Seq(PartSet)
  <2>1. <<>> \in Seq(PartSet)
    OBVIOUS
  <2> QED
    BY <2>1, SockDestroyTyped, EnqueueTyped DEF RunReady, TypeOK
<1>A. SocketFlags'
  BY <1>1, <1>2 DEF SocketFlags, TypeOK, RunReady, vars, parser, outgoing, response, events,
    socket, reads, request, teardown
<1>B. RequestFlags'
  BY <1>1, <1>2 DEF RequestFlags, TypeOK, RunReady, vars, parser, outgoing, response, events,
    socket, reads, request, teardown
<1>C. Place'
  BY <1>1, <1>2 DEF Place, TypeOK, RunReady, vars, parser, outgoing, response, events, socket,
    reads, request, teardown
<1>D. Parts'
  BY <1>1, <1>2 DEF Parts, TypeOK, RunReady, vars, parser, outgoing, response, events, socket,
    reads, request, teardown
<1>E. Texts'
  BY <1>1, <1>2 DEF Texts, TypeOK, RunReady, vars, parser, outgoing, response, events, socket,
    reads, request, teardown
<1>F. Queues'
  BY <1>1, <1>2 DEF Queues, TypeOK, JobSet, RunReady, vars, parser, outgoing, response, events,
    socket, reads, request, teardown
<1>G. Counts'
  BY <1>1, <1>2 DEF Counts, TypeOK, RunReady, vars, parser, outgoing, response, events, socket,
    reads, request, teardown
<1> QED
  BY <1>A, <1>B, <1>C, <1>D, <1>E, <1>F, <1>G, TypesAre

LEMMA RefusedTypes ==
  ASSUME TypeOK, Control, RunRefused
  PROVE  TypeOK'
<1>1. Rest \in Seq(JobSet) /\ Now.bytes \in Bytes
  BY NowIn DEF RunRefused
<1>2. /\ micro' \in Seq(JobSet) /\ sockDestroyed' \in BOOLEAN /\ early' \in BOOLEAN
      /\ native' \in {"none", "open", "closed"} /\ closed' \in BOOLEAN
  BY <1>1, FailTyped DEF RunRefused
<1>A. SocketFlags'
  BY <1>2 DEF SocketFlags, TypeOK, RunRefused, vars, parser, outgoing, response, events,
    socket, reads, request, teardown
<1>B. RequestFlags'
  BY <1>2 DEF RequestFlags, TypeOK, RunRefused, vars, parser, outgoing, response, events,
    socket, reads, request, teardown
<1>C. Place'
  BY <1>2 DEF Place, TypeOK, RunRefused, vars, parser, outgoing, response, events, socket,
    reads, request, teardown
<1>D. Parts'
  BY <1>2 DEF Parts, TypeOK, RunRefused, vars, parser, outgoing, response, events, socket,
    reads, request, teardown
<1>E. Texts'
  BY <1>2 DEF Texts, TypeOK, RunRefused, vars, parser, outgoing, response, events, socket,
    reads, request, teardown
<1>F. Queues'
  BY <1>2 DEF Queues, TypeOK, JobSet, RunRefused, vars, parser, outgoing, response, events,
    socket, reads, request, teardown
<1>G. Counts'
  BY <1>2 DEF Counts, TypeOK, RunRefused, vars, parser, outgoing, response, events, socket,
    reads, request, teardown
<1> QED
  BY <1>A, <1>B, <1>C, <1>D, <1>E, <1>F, <1>G, TypesAre

LEMMA SettleTypes ==
  ASSUME TypeOK, Control, RunFail \/ RunClose
  PROVE  TypeOK'
<1>1. Rest \in Seq(JobSet)
  BY NowIn DEF RunFail, RunClose
<1>A. SocketFlags'
  BY <1>1 DEF SocketFlags, TypeOK, RunFail, RunClose, vars, parser, outgoing, response, events,
    socket, reads, request, teardown
<1>B. RequestFlags'
  BY <1>1 DEF RequestFlags, TypeOK, RunFail, RunClose, vars, parser, outgoing, response,
    events, socket, reads, request, teardown
<1>C. Place'
  BY <1>1 DEF Place, TypeOK, RunFail, RunClose, vars, parser, outgoing, response, events,
    socket, reads, request, teardown
<1>D. Parts'
  BY <1>1 DEF Parts, TypeOK, RunFail, RunClose, vars, parser, outgoing, response, events,
    socket, reads, request, teardown
<1>E. Texts'
  BY <1>1 DEF Texts, TypeOK, RunFail, RunClose, vars, parser, outgoing, response, events,
    socket, reads, request, teardown
<1>F. Queues'
  BY <1>1 DEF Queues, TypeOK, JobSet, RunFail, RunClose, vars, parser, outgoing, response,
    events, socket, reads, request, teardown
<1>G. Counts'
  <2>1. /\ errors' \in {errors, errors + 1} /\ closes' = closes + 1
        /\ UNCHANGED <<responses, resErrors, calls, asked>>
    BY DEF RunFail, RunClose, outgoing, response, request
  <2>2. Counts
    BY DEF TypeOK, Counts
  <2>3. errors' \in Nat /\ closes' \in Nat
    BY <2>1, <2>2 DEF Counts
  <2> QED
    BY <2>1, <2>2, <2>3 DEF Counts
<1> QED
  BY <1>A, <1>B, <1>C, <1>D, <1>E, <1>F, <1>G, TypesAre

LEMMA UnheardTypes ==
  ASSUME TypeOK, Control, RunReadUnheard
  PROVE  TypeOK'
<1>1. Rest \in Seq(JobSet) /\ Now.bytes \in Bytes
  BY NowIn DEF RunReadUnheard
<1>2. owned' \in Bytes /\ held' \in Bytes
  BY <1>1, BytesAre DEF RunReadUnheard, TypeOK
<1>A. SocketFlags'
  BY <1>1, <1>2 DEF SocketFlags, TypeOK, RunReadUnheard, ReadOn, vars, parser, outgoing,
    response, events, socket, reads, request, teardown
<1>B. RequestFlags'
  BY <1>1, <1>2 DEF RequestFlags, TypeOK, RunReadUnheard, ReadOn, vars, parser, outgoing,
    response, events, socket, reads, request, teardown
<1>C. Place'
  BY <1>1, <1>2 DEF Place, TypeOK, RunReadUnheard, ReadOn, vars, parser, outgoing, response,
    events, socket, reads, request, teardown
<1>D. Parts'
  BY <1>1, <1>2 DEF Parts, TypeOK, RunReadUnheard, ReadOn, vars, parser, outgoing, response,
    events, socket, reads, request, teardown
<1>E. Texts'
  BY <1>1, <1>2 DEF Texts, TypeOK, RunReadUnheard, ReadOn, vars, parser, outgoing, response,
    events, socket, reads, request, teardown
<1>F. Queues'
  BY <1>1, <1>2 DEF Queues, TypeOK, JobSet, RunReadUnheard, ReadOn, vars, parser, outgoing,
    response, events, socket, reads, request, teardown
<1>G. Counts'
  BY <1>1, <1>2 DEF Counts, TypeOK, RunReadUnheard, ReadOn, vars, parser, outgoing, response,
    events, socket, reads, request, teardown
<1> QED
  BY <1>A, <1>B, <1>C, <1>D, <1>E, <1>F, <1>G, TypesAre

LEMMA ReadHeadTypes ==
  ASSUME TypeOK, Control, RunReadHead
  PROVE  TypeOK'
<1>1. Rest \in Seq(JobSet) /\ Now.bytes \in Bytes
  BY NowIn DEF RunReadHead
<1>2. buf' \in Bytes
  BY <1>1, BytesAre DEF RunReadHead, TypeOK
<1>3. micro' \in Seq(JobSet)
  <2>1. <<Job("parse")>> \in Seq(JobSet)
    BY JobIn DEF JobNames
  <2> QED
    BY <1>1, <2>1 DEF RunReadHead
<1>A. SocketFlags'
  BY <1>2, <1>3 DEF SocketFlags, TypeOK, RunReadHead, vars, parser, outgoing, response, events,
    socket, reads, request, teardown
<1>B. RequestFlags'
  BY <1>2, <1>3 DEF RequestFlags, TypeOK, RunReadHead, vars, parser, outgoing, response,
    events, socket, reads, request, teardown
<1>C. Place'
  BY <1>2, <1>3 DEF Place, TypeOK, RunReadHead, vars, parser, outgoing, response, events,
    socket, reads, request, teardown
<1>D. Parts'
  BY <1>2, <1>3 DEF Parts, TypeOK, RunReadHead, vars, parser, outgoing, response, events,
    socket, reads, request, teardown
<1>E. Texts'
  BY <1>2, <1>3 DEF Texts, TypeOK, RunReadHead, vars, parser, outgoing, response, events,
    socket, reads, request, teardown
<1>F. Queues'
  BY <1>2, <1>3 DEF Queues, TypeOK, JobSet, RunReadHead, vars, parser, outgoing, response,
    events, socket, reads, request, teardown
<1>G. Counts'
  BY <1>2, <1>3 DEF Counts, TypeOK, RunReadHead, vars, parser, outgoing, response, events,
    socket, reads, request, teardown
<1> QED
  BY <1>A, <1>B, <1>C, <1>D, <1>E, <1>F, <1>G, TypesAre

LEMMA ReadBodyTypes ==
  ASSUME TypeOK, Control, RunReadBody
  PROVE  TypeOK'
<1>1. Rest \in Seq(JobSet) /\ Now.bytes \in Bytes
  BY NowIn DEF RunReadBody
<1>2. dec' \in Decoders /\ dec'.pending \in Bytes /\ got' \in Bytes
  BY PushOfBody, BytesAre DEF RunReadBody, TypeOK, Control, Heard
<1>3. /\ sockDestroyed' \in BOOLEAN /\ early' \in BOOLEAN
      /\ native' \in {"none", "open", "closed"} /\ closed' \in BOOLEAN
      /\ micro' \in Seq(JobSet) /\ complete' \in BOOLEAN /\ stage' \in {"head", "body", "done"}
  BY <1>1, FailTyped, FinishTyped DEF RunReadBody, TypeOK, teardown
<1>A. SocketFlags'
  BY <1>2, <1>3 DEF SocketFlags, TypeOK, RunReadBody, ReadOn, vars, parser, outgoing, response,
    events, socket, reads, request, teardown
<1>B. RequestFlags'
  BY <1>2, <1>3 DEF RequestFlags, TypeOK, RunReadBody, ReadOn, vars, parser, outgoing,
    response, events, socket, reads, request, teardown
<1>C. Place'
  BY <1>2, <1>3 DEF Place, TypeOK, RunReadBody, ReadOn, vars, parser, outgoing, response,
    events, socket, reads, request, teardown
<1>D. Parts'
  BY <1>2, <1>3 DEF Parts, TypeOK, RunReadBody, ReadOn, vars, parser, outgoing, response,
    events, socket, reads, request, teardown
<1>E. Texts'
  BY <1>2, <1>3 DEF Texts, TypeOK, RunReadBody, ReadOn, vars, parser, outgoing, response,
    events, socket, reads, request, teardown
<1>F. Queues'
  BY <1>2, <1>3 DEF Queues, TypeOK, JobSet, RunReadBody, ReadOn, vars, parser, outgoing,
    response, events, socket, reads, request, teardown
<1>G. Counts'
  BY <1>2, <1>3 DEF Counts, TypeOK, RunReadBody, ReadOn, vars, parser, outgoing, response,
    events, socket, reads, request, teardown
<1> QED
  BY <1>A, <1>B, <1>C, <1>D, <1>E, <1>F, <1>G, TypesAre

LEMMA PartialTypes ==
  ASSUME TypeOK, Control, ParsePartial
  PROVE  TypeOK'
<1>1. Rest \in Seq(JobSet) /\ Now.bytes \in Bytes
  BY NowIn DEF ParsePartial
<1>A. SocketFlags'
  BY <1>1 DEF SocketFlags, TypeOK, ParsePartial, ReadOn, vars, parser, outgoing, response,
    events, socket, reads, request, teardown
<1>B. RequestFlags'
  BY <1>1 DEF RequestFlags, TypeOK, ParsePartial, ReadOn, vars, parser, outgoing, response,
    events, socket, reads, request, teardown
<1>C. Place'
  BY <1>1 DEF Place, TypeOK, ParsePartial, ReadOn, vars, parser, outgoing, response, events,
    socket, reads, request, teardown
<1>D. Parts'
  BY <1>1 DEF Parts, TypeOK, ParsePartial, ReadOn, vars, parser, outgoing, response, events,
    socket, reads, request, teardown
<1>E. Texts'
  BY <1>1 DEF Texts, TypeOK, ParsePartial, ReadOn, vars, parser, outgoing, response, events,
    socket, reads, request, teardown
<1>F. Queues'
  BY <1>1 DEF Queues, TypeOK, JobSet, ParsePartial, ReadOn, vars, parser, outgoing, response,
    events, socket, reads, request, teardown
<1>G. Counts'
  BY <1>1 DEF Counts, TypeOK, ParsePartial, ReadOn, vars, parser, outgoing, response, events,
    socket, reads, request, teardown
<1> QED
  BY <1>A, <1>B, <1>C, <1>D, <1>E, <1>F, <1>G, TypesAre

LEMMA InterimTypes ==
  ASSUME TypeOK, Control, ParseInterim
  PROVE  TypeOK'
<1>1. buf' \in Bytes
  BY AfterHeadTyped DEF ParseInterim
<1>A. SocketFlags'
  BY <1>1 DEF SocketFlags, TypeOK, ParseInterim, vars, parser, outgoing, response, events,
    socket, reads, request, teardown
<1>B. RequestFlags'
  BY <1>1 DEF RequestFlags, TypeOK, ParseInterim, vars, parser, outgoing, response, events,
    socket, reads, request, teardown
<1>C. Place'
  BY <1>1 DEF Place, TypeOK, ParseInterim, vars, parser, outgoing, response, events, socket,
    reads, request, teardown
<1>D. Parts'
  BY <1>1 DEF Parts, TypeOK, ParseInterim, vars, parser, outgoing, response, events, socket,
    reads, request, teardown
<1>E. Texts'
  BY <1>1 DEF Texts, TypeOK, ParseInterim, vars, parser, outgoing, response, events, socket,
    reads, request, teardown
<1>F. Queues'
  BY <1>1 DEF Queues, TypeOK, JobSet, ParseInterim, vars, parser, outgoing, response, events,
    socket, reads, request, teardown
<1>G. Counts'
  BY <1>1 DEF Counts, TypeOK, ParseInterim, vars, parser, outgoing, response, events, socket,
    reads, request, teardown
<1> QED
  BY <1>A, <1>B, <1>C, <1>D, <1>E, <1>F, <1>G, TypesAre

LEMMA ParseRefusedTypes ==
  ASSUME TypeOK, Control, ParseRefused
  PROVE  TypeOK'
<1>1. Rest \in Seq(JobSet) /\ Now.bytes \in Bytes
  BY NowIn DEF ParseRefused
<1>2. /\ micro' \in Seq(JobSet) /\ sockDestroyed' \in BOOLEAN /\ early' \in BOOLEAN
      /\ native' \in {"none", "open", "closed"} /\ closed' \in BOOLEAN
  BY <1>1, FailTyped DEF ParseRefused
<1>A. SocketFlags'
  BY <1>2 DEF SocketFlags, TypeOK, ParseRefused, ReadOn, vars, parser, outgoing, response,
    events, socket, reads, request, teardown
<1>B. RequestFlags'
  BY <1>2 DEF RequestFlags, TypeOK, ParseRefused, ReadOn, vars, parser, outgoing, response,
    events, socket, reads, request, teardown
<1>C. Place'
  BY <1>2 DEF Place, TypeOK, ParseRefused, ReadOn, vars, parser, outgoing, response, events,
    socket, reads, request, teardown
<1>D. Parts'
  BY <1>2 DEF Parts, TypeOK, ParseRefused, ReadOn, vars, parser, outgoing, response, events,
    socket, reads, request, teardown
<1>E. Texts'
  BY <1>2 DEF Texts, TypeOK, ParseRefused, ReadOn, vars, parser, outgoing, response, events,
    socket, reads, request, teardown
<1>F. Queues'
  BY <1>2 DEF Queues, TypeOK, JobSet, ParseRefused, ReadOn, vars, parser, outgoing, response,
    events, socket, reads, request, teardown
<1>G. Counts'
  BY <1>2 DEF Counts, TypeOK, ParseRefused, ReadOn, vars, parser, outgoing, response, events,
    socket, reads, request, teardown
<1> QED
  BY <1>A, <1>B, <1>C, <1>D, <1>E, <1>F, <1>G, TypesAre

LEMMA UpgradeTypes ==
  ASSUME TypeOK, Control, NEW listened \in BOOLEAN, ParseUpgrade(listened)
  PROVE  TypeOK'
<1>1. Rest \in Seq(JobSet) /\ Now.bytes \in Bytes
  BY NowIn DEF ParseUpgrade
<1>2. /\ micro' \in Seq(JobSet) /\ sockDestroyed' \in BOOLEAN /\ early' \in BOOLEAN
      /\ native' \in {"none", "open", "closed"} /\ closed' \in BOOLEAN
  BY <1>1, CloseTyped, SockDestroyTyped DEF ParseUpgrade, TypeOK
<1>3. owned' \in Bytes
  BY AfterHeadTyped, BytesAre DEF ParseUpgrade
<1>A. SocketFlags'
  BY <1>2, <1>3 DEF SocketFlags, TypeOK, ParseUpgrade, ReadOn, vars, parser, outgoing,
    response, events, socket, reads, request, teardown
<1>B. RequestFlags'
  BY <1>2, <1>3 DEF RequestFlags, TypeOK, ParseUpgrade, ReadOn, vars, parser, outgoing,
    response, events, socket, reads, request, teardown
<1>C. Place'
  BY <1>2, <1>3 DEF Place, TypeOK, ParseUpgrade, ReadOn, vars, parser, outgoing, response,
    events, socket, reads, request, teardown
<1>D. Parts'
  BY <1>2, <1>3 DEF Parts, TypeOK, ParseUpgrade, ReadOn, vars, parser, outgoing, response,
    events, socket, reads, request, teardown
<1>E. Texts'
  BY <1>2, <1>3 DEF Texts, TypeOK, ParseUpgrade, ReadOn, vars, parser, outgoing, response,
    events, socket, reads, request, teardown
<1>F. Queues'
  BY <1>2, <1>3 DEF Queues, TypeOK, JobSet, ParseUpgrade, ReadOn, vars, parser, outgoing,
    response, events, socket, reads, request, teardown
<1>G. Counts'
  BY <1>2, <1>3 DEF Counts, TypeOK, ParseUpgrade, ReadOn, vars, parser, outgoing, response,
    events, socket, reads, request, teardown
<1> QED
  BY <1>A, <1>B, <1>C, <1>D, <1>E, <1>F, <1>G, TypesAre

LEMMA UpgradeFailsTypes ==
  ASSUME TypeOK, Control, ParseUpgradeFails
  PROVE  TypeOK'
<1>1. Rest \in Seq(JobSet) /\ Now.bytes \in Bytes
  BY NowIn DEF ParseUpgradeFails
<1>2. /\ micro' \in Seq(JobSet) /\ sockDestroyed' \in BOOLEAN /\ early' \in BOOLEAN
      /\ native' \in {"none", "open", "closed"} /\ closed' \in BOOLEAN
  BY <1>1, FailTyped DEF ParseUpgradeFails
<1>3. owned' \in Bytes
  BY AfterHeadTyped, BytesAre DEF ParseUpgradeFails
<1>4. calls \in Nat /\ MaxCalls \in Nat /\ asked \in Nat /\ asked <= calls
  BY HttpClientAssumption DEF TypeOK
<1>A. SocketFlags'
  BY <1>2, <1>3 DEF SocketFlags, TypeOK, ParseUpgradeFails, Call, ReadOn, vars, parser, outgoing,
    response, events, socket, reads, request, teardown
<1>B. RequestFlags'
  BY <1>2, <1>3 DEF RequestFlags, TypeOK, ParseUpgradeFails, Call, ReadOn, vars, parser, outgoing,
    response, events, socket, reads, request, teardown
<1>C. Place'
  BY <1>2, <1>3 DEF Place, TypeOK, ParseUpgradeFails, Call, ReadOn, vars, parser, outgoing, response,
    events, socket, reads, request, teardown
<1>D. Parts'
  BY <1>2, <1>3 DEF Parts, TypeOK, ParseUpgradeFails, Call, ReadOn, vars, parser, outgoing, response,
    events, socket, reads, request, teardown
<1>E. Texts'
  BY <1>2, <1>3 DEF Texts, TypeOK, ParseUpgradeFails, Call, ReadOn, vars, parser, outgoing, response,
    events, socket, reads, request, teardown
<1>F. Queues'
  BY <1>2, <1>3 DEF Queues, TypeOK, JobSet, ParseUpgradeFails, Call, ReadOn, vars, parser, outgoing,
    response, events, socket, reads, request, teardown
<1>G. Counts'
  BY <1>2, <1>4 DEF Counts, TypeOK, ParseUpgradeFails, Call, ReadOn, vars, parser, outgoing, response,
    events, socket, reads, request, teardown
<1> QED
  BY <1>A, <1>B, <1>C, <1>D, <1>E, <1>F, <1>G, TypesAre

LEMMA ResponseTypes ==
  ASSUME TypeOK, Control, ParseResponse
  PROVE  TypeOK'
<1>1. Rest \in Seq(JobSet) /\ Now.bytes \in Bytes
  BY NowIn DEF ParseResponse
<1>2. Read(AfterHead) \in JobSet
  BY AfterHeadTyped DEF ParseResponse, Read, JobSet, JobNames
<1>3. micro' \in Seq(JobSet)
  <2>1. <<Read(AfterHead)>> \in Seq(JobSet)
    BY <1>2
  <2> QED
    BY <1>1, <2>1 DEF ParseResponse
<1>4. dec' \in Decoders /\ dec'.pending \in Bytes /\ responses = 0
  <2>1. responses = 0
    BY DEF ParseResponse, Due, Control, Queued, Heard, due, Names, Now, TypeOK
  <2> QED
    BY <2>1, ResponseDecoder, BytesAre DEF ParseResponse
<1>A. SocketFlags'
  BY <1>3, <1>4 DEF SocketFlags, TypeOK, ParseResponse, vars, parser, outgoing, response,
    events, socket, reads, request, teardown
<1>B. RequestFlags'
  BY <1>3, <1>4 DEF RequestFlags, TypeOK, ParseResponse, vars, parser, outgoing, response,
    events, socket, reads, request, teardown
<1>C. Place'
  BY <1>3, <1>4 DEF Place, TypeOK, ParseResponse, vars, parser, outgoing, response, events,
    socket, reads, request, teardown
<1>D. Parts'
  BY <1>3, <1>4 DEF Parts, TypeOK, ParseResponse, vars, parser, outgoing, response, events,
    socket, reads, request, teardown
<1>E. Texts'
  BY <1>3, <1>4 DEF Texts, TypeOK, ParseResponse, vars, parser, outgoing, response, events,
    socket, reads, request, teardown
<1>F. Queues'
  BY <1>3, <1>4 DEF Queues, TypeOK, JobSet, ParseResponse, vars, parser, outgoing, response,
    events, socket, reads, request, teardown
<1>G. Counts'
  BY <1>3, <1>4 DEF Counts, TypeOK, ParseResponse, vars, parser, outgoing, response, events,
    socket, reads, request, teardown
<1> QED
  BY <1>A, <1>B, <1>C, <1>D, <1>E, <1>F, <1>G, TypesAre

LEMMA EofTypes ==
  ASSUME TypeOK, Control, RunEof
  PROVE  TypeOK'
<1>1. Rest \in Seq(JobSet) /\ Now.bytes \in Bytes
  BY NowIn DEF RunEof
<1>2. resErrors = 0
  BY DueRest, TypedIs DEF RunEof, Control, Queued, Reading, Pumping, Handling
<1>3. /\ micro' \in Seq(JobSet) /\ sockDestroyed' \in BOOLEAN /\ early' \in BOOLEAN
      /\ native' \in {"none", "open", "closed"} /\ closed' \in BOOLEAN
      /\ complete' \in BOOLEAN /\ stage' \in {"head", "body", "done"} /\ resErrors' \in 0..1
  <2>1. CASE micro' = Rest /\ UNCHANGED <<teardown, stage, complete, resErrors>>
    BY <1>1, <2>1 DEF teardown, TypeOK
  <2>2. CASE EmitEnd(Rest)
    <3>1. /\ sockDestroyed \in BOOLEAN /\ early \in BOOLEAN /\ closed \in BOOLEAN
          /\ native \in {"none", "open", "closed"} /\ complete \in BOOLEAN
          /\ stage \in {"head", "body", "done"}
      BY DEF TypeOK
    <3>2. CASE SockEnded(Rest) /\ UNCHANGED <<stage, complete>> /\ resErrors' \in 0..1
      BY <1>1, <3>1, <3>2 DEF SockEnded
    <3>3. CASE Fail(Rest) /\ UNCHANGED <<stage, complete, resErrors>>
      BY <1>1, <1>2, <3>1, <3>3, FailTyped
    <3>4. CASE FinishBody(Rest) /\ UNCHANGED resErrors
      BY <1>1, <1>2, <3>1, <3>4, FinishTyped
    <3> QED
      BY <1>2, <2>2, <3>2, <3>3, <3>4 DEF EmitEnd
  <2> QED
    BY <2>1, <2>2 DEF RunEof
<1>A. SocketFlags'
  BY <1>2, <1>3 DEF SocketFlags, TypeOK, RunEof, vars, parser, outgoing, response, events,
    socket, reads, request, teardown
<1>B. RequestFlags'
  BY <1>2, <1>3 DEF RequestFlags, TypeOK, RunEof, vars, parser, outgoing, response, events,
    socket, reads, request, teardown
<1>C. Place'
  BY <1>2, <1>3 DEF Place, TypeOK, RunEof, vars, parser, outgoing, response, events, socket,
    reads, request, teardown
<1>D. Parts'
  BY <1>2, <1>3 DEF Parts, TypeOK, RunEof, vars, parser, outgoing, response, events, socket,
    reads, request, teardown
<1>E. Texts'
  BY <1>2, <1>3 DEF Texts, TypeOK, RunEof, vars, parser, outgoing, response, events, socket,
    reads, request, teardown
<1>F. Queues'
  BY <1>2, <1>3 DEF Queues, TypeOK, JobSet, RunEof, vars, parser, outgoing, response, events,
    socket, reads, request, teardown
<1>G. Counts'
  BY <1>2, <1>3 DEF Counts, TypeOK, RunEof, vars, parser, outgoing, response, events, socket,
    reads, request, teardown
<1> QED
  BY <1>A, <1>B, <1>C, <1>D, <1>E, <1>F, <1>G, TypesAre

LEMMA ReadErrorTypes ==
  ASSUME TypeOK, Control, RunReadError
  PROVE  TypeOK'
<1>1. Rest \in Seq(JobSet) /\ Now.bytes \in Bytes
  BY NowIn DEF RunReadError
<1>2. /\ micro' \in Seq(JobSet) /\ sockDestroyed' \in BOOLEAN /\ early' \in BOOLEAN
      /\ native' \in {"none", "open", "closed"} /\ closed' \in BOOLEAN
  BY <1>1, FailTyped DEF RunReadError, TypeOK, teardown
<1>A. SocketFlags'
  BY <1>2 DEF SocketFlags, TypeOK, RunReadError, vars, parser, outgoing, response, events,
    socket, reads, request, teardown
<1>B. RequestFlags'
  BY <1>2 DEF RequestFlags, TypeOK, RunReadError, vars, parser, outgoing, response, events,
    socket, reads, request, teardown
<1>C. Place'
  BY <1>2 DEF Place, TypeOK, RunReadError, vars, parser, outgoing, response, events, socket,
    reads, request, teardown
<1>D. Parts'
  BY <1>2 DEF Parts, TypeOK, RunReadError, vars, parser, outgoing, response, events, socket,
    reads, request, teardown
<1>E. Texts'
  BY <1>2 DEF Texts, TypeOK, RunReadError, vars, parser, outgoing, response, events, socket,
    reads, request, teardown
<1>F. Queues'
  BY <1>2 DEF Queues, TypeOK, JobSet, RunReadError, vars, parser, outgoing, response, events,
    socket, reads, request, teardown
<1>G. Counts'
  BY <1>2 DEF Counts, TypeOK, RunReadError, vars, parser, outgoing, response, events, socket,
    reads, request, teardown
<1> QED
  BY <1>A, <1>B, <1>C, <1>D, <1>E, <1>F, <1>G, TypesAre

LEMMA OwnerTypes ==
  ASSUME TypeOK, Control, OwnerListens
  PROVE  TypeOK'
<1>1. held' \in Bytes /\ owned' \in Bytes
  BY BytesAre DEF OwnerListens, TypeOK
<1>A. SocketFlags'
  BY <1>1 DEF SocketFlags, TypeOK, OwnerListens, vars, parser, outgoing, response, events,
    socket, reads, request, teardown
<1>B. RequestFlags'
  BY <1>1 DEF RequestFlags, TypeOK, OwnerListens, vars, parser, outgoing, response, events,
    socket, reads, request, teardown
<1>C. Place'
  BY <1>1 DEF Place, TypeOK, OwnerListens, vars, parser, outgoing, response, events, socket,
    reads, request, teardown
<1>D. Parts'
  BY <1>1 DEF Parts, TypeOK, OwnerListens, vars, parser, outgoing, response, events, socket,
    reads, request, teardown
<1>E. Texts'
  BY <1>1 DEF Texts, TypeOK, OwnerListens, vars, parser, outgoing, response, events, socket,
    reads, request, teardown
<1>F. Queues'
  BY <1>1 DEF Queues, TypeOK, JobSet, OwnerListens, vars, parser, outgoing, response, events,
    socket, reads, request, teardown
<1>G. Counts'
  BY <1>1 DEF Counts, TypeOK, OwnerListens, vars, parser, outgoing, response, events, socket,
    reads, request, teardown
<1> QED
  BY <1>A, <1>B, <1>C, <1>D, <1>E, <1>F, <1>G, TypesAre

-----------------------------------------------------------------------------
\* The request's own bytes: a call appends to what the owner wants on the wire
\* exactly what it hands to the socket, which keeps them in order.
Total == (sent \o chain) \o queue
WantedOf(f, n, last) ==
  (<<Part("head", f, IF f = "length" THEN n ELSE -1)>> \o [i \in 1..n |-> Part("body", f, i)])
    \o (IF last THEN LastParts(f) ELSE <<>>)
Known == {"chunked", "length", "none"}

Sending ==
  /\ framed = "unset" => asked = 0 /\ ~finished
  /\ framed = "length" => finished
  /\ ~sockDestroyed /\ ~broken => Unnumbered(Total) = Wanted
  /\ IsPrefix(Unnumbered(sent), Wanted)
  /\ listening /\ ~sockDestroyed => queue = <<>>

LEMMA UnnumberedIs ==
  ASSUME NEW x \in Seq(PartSet)
  PROVE  /\ Unnumbered(x) \in Seq(PartSet) /\ Len(Unnumbered(x)) = Len(x)
         /\ (\A i \in 1..Len(x) : x[i].part # "head") => Unnumbered(x) = x
<1> DEFINE u == Unnumbered(x)
<1>1. DOMAIN x = 1..Len(x) /\ Len(x) \in Nat /\ \A i \in 1..Len(x) : x[i] \in PartSet
  OBVIOUS
<1>2. -1 \in -1..MaxCalls
  BY HttpClientAssumption
<1>3. \A p \in PartSet : [p EXCEPT !.n = -1] \in PartSet
  BY <1>2 DEF PartSet
<1>4. u = [i \in 1..Len(x) |-> IF x[i].framed # "length" /\ x[i].part = "head"
                               THEN [x[i] EXCEPT !.n = -1] ELSE x[i]]
  BY <1>1 DEF Unnumbered
<1>5. \A i \in 1..Len(x) : u[i] \in PartSet
  BY <1>1, <1>3, <1>4
<1>6. u \in Seq(PartSet) /\ Len(u) = Len(x)
  <2>1. u \in [1..Len(x) -> PartSet]
    BY <1>4, <1>5
  <2> HIDE DEF u
  <2> QED
    BY <1>1, <2>1
<1>7. ASSUME \A i \in 1..Len(x) : x[i].part # "head"
      PROVE  u = x
  <2>1. \A i \in 1..Len(x) : u[i] = x[i]
    BY <1>4, <1>7
  <2> HIDE DEF u
  <2> QED
    BY <1>6, <2>1, SeqEqual
<1> QED
  BY <1>6, <1>7

LEMMA UnnumberedConcat ==
  ASSUME NEW x \in Seq(PartSet), NEW y \in Seq(PartSet)
  PROVE  Unnumbered(x \o y) = Unnumbered(x) \o Unnumbered(y)
<1> DEFINE xy == x \o y
           u  == Unnumbered(xy)
           ux == Unnumbered(x)
           uy == Unnumbered(y)
           v  == ux \o uy
           U(p) == IF p.framed # "length" /\ p.part = "head" THEN [p EXCEPT !.n = -1] ELSE p
<1>1. /\ xy \in Seq(PartSet) /\ Len(xy) = Len(x) + Len(y) /\ Len(x) \in Nat /\ Len(y) \in Nat
      /\ \A i \in 1..(Len(x) + Len(y)) : xy[i] = IF i <= Len(x) THEN x[i] ELSE y[i - Len(x)]
      /\ DOMAIN x = 1..Len(x) /\ DOMAIN y = 1..Len(y) /\ DOMAIN xy = 1..Len(xy)
  BY ConcatProperties
<1>2. /\ \A i \in 1..Len(x) : ux[i] = U(x[i])
      /\ \A i \in 1..Len(y) : uy[i] = U(y[i])
      /\ \A i \in 1..Len(xy) : u[i] = U(xy[i])
  <2> HIDE DEF xy
  <2> QED
    BY <1>1 DEF Unnumbered
<1>3. /\ u \in Seq(PartSet) /\ Len(u) = Len(x) + Len(y)
      /\ ux \in Seq(PartSet) /\ Len(ux) = Len(x) /\ uy \in Seq(PartSet) /\ Len(uy) = Len(y)
  <2> HIDE DEF xy
  <2> QED
    BY <1>1, UnnumberedIs
<1>4. /\ v \in Seq(PartSet) /\ Len(v) = Len(x) + Len(y)
      /\ \A i \in 1..(Len(x) + Len(y)) : v[i] = IF i <= Len(x) THEN ux[i] ELSE uy[i - Len(x)]
  <2> HIDE DEF ux, uy
  <2>1. /\ v \in Seq(PartSet) /\ Len(v) = Len(ux) + Len(uy)
        /\ \A i \in 1..(Len(ux) + Len(uy)) : v[i] = IF i <= Len(ux) THEN ux[i] ELSE uy[i - Len(ux)]
    BY <1>3, ConcatProperties
  <2> HIDE DEF v
  <2> QED
    BY <1>3, <2>1
<1>5. ASSUME NEW i \in 1..(Len(x) + Len(y))
      PROVE  u[i] = v[i]
  <2> HIDE DEF u, ux, uy, v, xy, U
  <2>1. CASE i <= Len(x)
    <3>1. i \in 1..Len(x) /\ i \in 1..Len(xy)
      BY <1>1, <2>1
    <3>2. u[i] = U(xy[i]) /\ ux[i] = U(x[i]) /\ v[i] = ux[i] /\ xy[i] = x[i]
      BY <1>1, <1>2, <1>4, <2>1, <3>1
    <3> QED
      BY <3>2
  <2>2. CASE ~(i <= Len(x))
    <3>1. i - Len(x) \in 1..Len(y) /\ i \in 1..Len(xy)
      BY <1>1, <2>2
    <3>2. u[i] = U(xy[i]) /\ uy[i - Len(x)] = U(y[i - Len(x)]) /\ v[i] = uy[i - Len(x)]
          /\ xy[i] = y[i - Len(x)]
      BY <1>1, <1>2, <1>4, <2>2, <3>1
    <3> QED
      BY <3>2
  <2> QED
    BY <2>1, <2>2
<1> HIDE DEF u, v
<1>6. u = v
  BY <1>3, <1>4, <1>5, SeqEqual
<1> QED
  BY <1>6 DEF u, v

\* The body's parts, and k more of them.
LEMMA BodyGrows ==
  ASSUME NEW f, NEW n \in Nat, NEW k \in Nat
  PROVE  LET b == [i \in 1..n |-> Part("body", f, i)]
             c == [i \in 1..k |-> Part("body", f, n + i)]
             d == [i \in 1..(n + k) |-> Part("body", f, i)]
         IN  d = b \o c
<1> DEFINE S == {Part("body", f, i) : i \in Nat}
           b == [i \in 1..n |-> Part("body", f, i)]
           c == [i \in 1..k |-> Part("body", f, n + i)]
           d == [i \in 1..(n + k) |-> Part("body", f, i)]
           bc == b \o c
<1>1. b \in Seq(S) /\ Len(b) = n /\ c \in Seq(S) /\ Len(c) = k
  <2>1. \A i \in 1..n : Part("body", f, i) \in S
    OBVIOUS
  <2>2. \A i \in 1..k : Part("body", f, n + i) \in S
    OBVIOUS
  <2> HIDE DEF S
  <2> QED
    BY <2>1, <2>2
<1>2. d \in Seq(S) /\ Len(d) = n + k
  <2>1. \A i \in 1..(n + k) : Part("body", f, i) \in S
    OBVIOUS
  <2> HIDE DEF S
  <2> QED
    BY <2>1
<1>3. /\ bc \in Seq(S) /\ Len(bc) = n + k
      /\ \A i \in 1..(n + k) : bc[i] = IF i <= n THEN b[i] ELSE c[i - n]
  <2> HIDE DEF b, c, S
  <2> QED
    BY <1>1, ConcatProperties
<1>4. ASSUME NEW i \in 1..(n + k)
      PROVE  d[i] = bc[i]
  <2>1. CASE i <= n
    BY <1>3, <2>1
  <2>2. CASE ~(i <= n)
    <3>1. i - n \in 1..k /\ n + (i - n) = i
      BY <2>2
    <3>2. c[i - n] = Part("body", f, n + (i - n))
      BY <3>1
    <3> QED
      BY <1>3, <2>2, <3>1, <3>2
  <2> QED
    BY <2>1, <2>2
<1> HIDE DEF bc, d, S
<1>5. d = bc
  BY <1>2, <1>3, <1>4, SeqEqual
<1> QED
  BY <1>5 DEF d, bc

\* Three lists of parts joined from the left or from the right are one list.
LEMMA JoinParts ==
  \A x, y, z \in Seq(PartSet) : x \o (y \o z) = (x \o y) \o z
<1> DEFINE P == PartSet
<1> HIDE DEF P
<1>1. ASSUME NEW x \in Seq(P), NEW y \in Seq(P), NEW z \in Seq(P)
      PROVE  x \o (y \o z) = (x \o y) \o z
  <2>1. (x \o y) \o z = x \o (y \o z)
    BY ONLY x \in Seq(P), y \in Seq(P), z \in Seq(P), ConcatAssociative
  <2> QED
    BY ONLY <2>1
<1> QED
  BY <1>1 DEF P

\* What a call hands over is what it adds to what is wanted.
LEMMA CallWants ==
  ASSUME TypeOK, Sending, ~finished, calls < MaxCalls, NEW n \in {-1, 0, 1}, NEW k \in 0..1,
         n >= 0 => n = k, NEW last \in BOOLEAN, last <=> n >= 0
  PROVE  LET f == FramingFor(n)
             b == BodyParts(f, k)
             e == IF last THEN LastParts(f) ELSE <<>>
             x == (HeadParts(n) \o b) \o e
         IN  /\ x \in Seq(PartSet)
             /\ WantedOf(f, asked + k, last) = Wanted \o Unnumbered(x)
             /\ f # "unset" /\ (f = "length" => last)
<1> DEFINE f == FramingFor(n)
           b == BodyParts(f, k)
           e == IF last THEN LastParts(f) ELSE <<>>
           h == HeadParts(n)
           hb == h \o b
           x == hb \o e
<1>1. /\ f \in Known /\ h \in Seq(PartSet) /\ e \in Seq(PartSet) /\ b \in Seq(PartSet)
      /\ asked \in Nat
  <2>1. <<>> \in Seq(PartSet)
    OBVIOUS
  <2>2. /\ f \in {"chunked", "length", "none"} /\ h \in Seq(PartSet)
        /\ LastParts(f) \in Seq(PartSet)
        /\ \A i \in 0..1 : BodyParts(f, i) \in Seq(PartSet)
    BY PartsIn
  <2>3. asked \in Nat
    BY DEF TypeOK
  <2> HIDE DEF f, h
  <2> QED
    BY <2>1, <2>2, <2>3 DEF Known
<1>2. Unnumbered(b) = b /\ Unnumbered(e) = e
  <2>1. \A i \in 1..Len(b) : b[i].part # "head"
    <3>1. DOMAIN b = 1..Len(b) /\ DOMAIN b = 1..k
      BY <1>1 DEF BodyParts
    <3> QED
      BY <3>1 DEF BodyParts, Part
  <2>2. \A i \in 1..Len(e) : e[i].part # "head"
    BY DEF LastParts, Part
  <2> HIDE DEF b, e
  <2> QED
    BY <1>1, <2>1, <2>2, UnnumberedIs
<1>3. hb \in Seq(PartSet) /\ x \in Seq(PartSet)
  <2> HIDE DEF h, b, e
  <2> QED
    BY <1>1
<1>4. Unnumbered(x) = (Unnumbered(h) \o b) \o e
  <2> HIDE DEF h, b, e
  <2>1. Unnumbered(hb) = Unnumbered(h) \o Unnumbered(b)
    BY <1>1, UnnumberedConcat
  <2> HIDE DEF hb
  <2>2. Unnumbered(x) = Unnumbered(hb) \o Unnumbered(e)
    BY <1>1, <1>3, UnnumberedConcat
  <2> QED
    BY <1>2, <2>1, <2>2
<1> DEFINE head == <<Part("head", f, IF f = "length" THEN asked + k ELSE -1)>>
           body == [i \in 1..(asked + k) |-> Part("body", f, i)]
<1>5. WantedOf(f, asked + k, last) = (head \o body) \o e
  BY DEF WantedOf
<1>6. CASE framed = "unset"
  <2>1. asked = 0 /\ Wanted = <<>> /\ f = Announced(n) /\ h = <<Part("head", f, n)>>
    BY <1>6 DEF Sending, Wanted, FramingFor, HeadParts
  <2>2. body = b
    <3>1. b = [i \in 1..k |-> Part("body", f, 0 + i)]
      BY <2>1 DEF BodyParts
    <3>2. \A i \in 1..k : 0 + i = i
      OBVIOUS
    <3>3. b = [i \in 1..k |-> Part("body", f, i)]
      BY <3>1, <3>2
    <3>4. asked + k = k
      BY <2>1
    <3> QED
      BY <3>3, <3>4
  <2>3. Unnumbered(h) = head
    <3>1. f = "length" => asked + k = n
      <4>1. f = "length" => n >= 0
        BY <2>1, AnnouncedIs
      <4> QED
        BY <2>1, <4>1 DEF TypeOK
    <3> DEFINE p == Part("head", f, n)
    <3>2. p.framed = f /\ p.part = "head" /\ [p EXCEPT !.n = -1] = Part("head", f, -1)
      BY DEF Part
    <3>3. (IF f # "length" THEN [p EXCEPT !.n = -1] ELSE p)
             = Part("head", f, IF f = "length" THEN asked + k ELSE -1)
      <4> HIDE DEF f
      <4> QED
        BY <3>1, <3>2
    <3>4. Unnumbered(<<p>>) = <<IF f # "length" THEN [p EXCEPT !.n = -1] ELSE p>>
      <4> HIDE DEF p, f
      <4> QED
        BY <3>2 DEF Unnumbered
    <3> QED
      BY <2>1, <3>3, <3>4
  <2>4. Wanted \o Unnumbered(x) = Unnumbered(x)
    <3>1. Unnumbered(x) \in Seq(PartSet)
      <4> HIDE DEF x
      <4> QED
        BY <1>3, UnnumberedIs
    <3> HIDE DEF x
    <3> QED
      BY <2>1, <3>1
  <2> HIDE DEF b, head, body, e, x, f
  <2>5. WantedOf(f, asked + k, last) = Wanted \o Unnumbered(x)
    BY <1>4, <1>5, <2>2, <2>3, <2>4
  <2>6. f # "unset" /\ (f = "length" => last)
    BY <1>1, <2>1, AnnouncedIs DEF Known
  <2> QED
    BY <1>3, <2>5, <2>6 DEF b, e, x, f
<1>7. CASE framed # "unset"
  <2>1. f = framed /\ h = <<>> /\ f # "length"
    BY <1>7 DEF FramingFor, HeadParts, Sending
  <2>2. Unnumbered(h) = <<>>
    BY <2>1 DEF Unnumbered
  <2> DEFINE old == [i \in 1..asked |-> Part("body", f, i)]
             w   == head \o old
  <2>3. body = old \o b
    BY <1>1, BodyGrows DEF BodyParts
  <2>4. head \in Seq(PartSet) /\ old \in Seq(PartSet) /\ b \in Seq(PartSet) /\ e \in Seq(PartSet)
    <3>1. -1 \in -1..MaxCalls /\ \A i \in 1..asked : i \in -1..MaxCalls
      BY HttpClientAssumption DEF TypeOK
    <3>2. \A i \in 1..asked : Part("body", f, i) \in PartSet
      BY <3>1, <1>1 DEF Part, PartSet, Known
    <3>3. Part("head", f, -1) \in PartSet
      BY <3>1, <1>1 DEF Part, PartSet, Known
    <3>4. old \in Seq(PartSet)
      BY <1>1, <3>2
    <3>5. head = <<Part("head", f, -1)>>
      BY <2>1
    <3> QED
      BY <1>1, <3>3, <3>4, <3>5
  <2>5. Wanted = w \o <<>>
    BY <1>7, <2>1 DEF Wanted
  <2>6. Unnumbered(x) = b \o e
    <3> HIDE DEF b, e, h, x
    <3>1. <<>> \o b = b
      BY <1>1
    <3> QED
      BY <1>4, <2>2, <3>1
  <2> HIDE DEF head, old, b, e, body, x, f, h
  <2>7. Wanted = w /\ w \in Seq(PartSet)
    BY <2>4, <2>5
  <2>8. head \o (old \o b) = w \o b
    BY ONLY <2>4, JoinParts
  <2>9. (w \o b) \o e = w \o (b \o e)
    <3> HIDE DEF w
    <3>1. w \in Seq(PartSet) /\ b \in Seq(PartSet) /\ e \in Seq(PartSet)
      BY <2>4, <2>7
    <3> QED
      BY ONLY <3>1, JoinParts
  <2>10. WantedOf(f, asked + k, last) = Wanted \o Unnumbered(x)
    BY <1>5, <2>3, <2>6, <2>7, <2>8, <2>9
  <2> QED
    BY <1>3, <1>7, <2>1, <2>10 DEF b, e, x, f, h
<1> QED
  BY <1>6, <1>7

LEMMA WantedTyped == TypeOK => Wanted \in Seq(PartSet)
<1> SUFFICES ASSUME TypeOK PROVE Wanted \in Seq(PartSet)
  OBVIOUS
<1>1. CASE framed = "unset"
  BY <1>1 DEF Wanted
<1>2. CASE framed # "unset"
  <2>1. asked \in Nat /\ MaxCalls \in Nat /\ asked <= MaxCalls /\ framed \in Known
    BY <1>2, HttpClientAssumption DEF TypeOK, Known
  <2>2. \A i \in -1..MaxCalls : \A p \in {"head", "body", "last"} : Part(p, framed, i) \in PartSet
    BY <2>1 DEF Part, PartSet, Known
  <2> DEFINE h == <<Part("head", framed, IF framed = "length" THEN asked ELSE -1)>>
             b == [i \in 1..asked |-> Part("body", framed, i)]
             e == IF finished THEN LastParts(framed) ELSE <<>>
  <2>3. h \in Seq(PartSet)
    <3>1. (IF framed = "length" THEN asked ELSE -1) \in -1..MaxCalls
      BY <2>1
    <3> QED
      BY <2>2, <3>1
  <2>4. b \in Seq(PartSet)
    BY <2>1, <2>2
  <2>5. e \in Seq(PartSet)
    <3>1. 0 \in -1..MaxCalls /\ Part("last", framed, 0) \in PartSet
      BY <2>1, <2>2
    <3> QED
      BY <3>1 DEF LastParts
  <2>6. Wanted = (h \o b) \o e
    BY <1>2 DEF Wanted
  <2> HIDE DEF h, b, e
  <2> QED
    BY <2>3, <2>4, <2>5, <2>6
<1> QED
  BY <1>1, <1>2

LEMMA PrefixGrows ==
  ASSUME NEW S, NEW a \in Seq(S), NEW b \in Seq(S), NEW c \in Seq(S), IsPrefix(a, b)
  PROVE  IsPrefix(a, b \o c)
<1>1. Len(a) <= Len(b) /\ \A i \in 1..Len(a) : a[i] = b[i]
  BY DEF IsPrefix
<1>2. /\ Len(b \o c) = Len(b) + Len(c) /\ Len(b) \in Nat /\ Len(c) \in Nat /\ Len(a) \in Nat
      /\ \A i \in 1..Len(a) : (b \o c)[i] = b[i]
  BY <1>1
<1> QED
  BY <1>1, <1>2 DEF IsPrefix

\* A call to a socket appends to the chain or to the queue.
LEMMA TotalGrows ==
  ASSUME TypeOK, NEW parts \in Seq(PartSet), Enqueue(parts), sent' = sent
  PROVE  Total' = Total \o parts
<1>1. sent \in Seq(PartSet) /\ chain \in Seq(PartSet) /\ queue \in Seq(PartSet)
  BY DEF TypeOK
<1>2. CASE chain' = (chain \o queue) \o parts /\ queue' = <<>>
  <2> DEFINE c == (chain \o queue) \o parts
  <2>1. c \in Seq(PartSet) /\ (sent \o c) \o <<>> = sent \o c
    BY <1>1
  <2>2. sent \o ((chain \o queue) \o parts) = ((sent \o chain) \o queue) \o parts
    BY <1>1
  <2>3. Total' = (sent \o c) \o <<>>
    BY <1>2 DEF Total
  <2> QED
    BY <2>1, <2>2, <2>3 DEF Total
<1>3. CASE queue' = queue \o parts /\ chain' = chain
  BY <1>1, <1>3 DEF Total
<1> QED
  BY <1>2, <1>3 DEF Enqueue

LEMMA CallSends ==
  ASSUME TypeOK, Control, Sending, ~finished, calls < MaxCalls, NEW n \in {-1, 0, 1},
         NEW k \in 0..1, n >= 0 => n = k, NEW last \in BOOLEAN, last <=> n >= 0,
         Enqueue((HeadParts(n) \o BodyParts(FramingFor(n), k))
                   \o (IF last THEN LastParts(FramingFor(n)) ELSE <<>>)),
         framed' = FramingFor(n), finished' = last, asked' = asked + k,
         UNCHANGED <<sent, broken, sockDestroyed, listening>>
  PROVE  Sending'
<1> DEFINE x == (HeadParts(n) \o BodyParts(FramingFor(n), k))
                  \o (IF last THEN LastParts(FramingFor(n)) ELSE <<>>)
<1>1. /\ x \in Seq(PartSet)
      /\ WantedOf(FramingFor(n), asked + k, last) = Wanted \o Unnumbered(x)
      /\ FramingFor(n) # "unset" /\ (FramingFor(n) = "length" => last)
  BY CallWants
<1>2. Enqueue(x)
  OBVIOUS
<1> HIDE DEF x
<1>3. Wanted' = Wanted \o Unnumbered(x)
  BY <1>1 DEF Wanted, WantedOf
<1>4. Total' = Total \o x
  BY <1>1, <1>2, TotalGrows
<1>5. /\ sent \in Seq(PartSet) /\ chain \in Seq(PartSet) /\ queue \in Seq(PartSet)
      /\ Total \in Seq(PartSet)
  BY DEF TypeOK, Total
<1>6. ~sockDestroyed' /\ ~broken' => Unnumbered(Total') = Wanted'
  BY <1>1, <1>3, <1>4, <1>5, UnnumberedConcat DEF Sending
<1>7. IsPrefix(Unnumbered(sent'), Wanted')
  <2> DEFINE s == Unnumbered(sent)
             u == Unnumbered(x)
  <2>1. s \in Seq(PartSet) /\ u \in Seq(PartSet) /\ IsPrefix(s, Wanted)
    BY <1>1, <1>5, UnnumberedIs DEF Sending
  <2>2. Wanted \in Seq(PartSet)
    BY WantedTyped
  <2> HIDE DEF s, u
  <2>3. IsPrefix(s, Wanted \o u)
    BY <2>1, <2>2, PrefixGrows
  <2> QED
    BY <1>3, <2>3 DEF s, u
<1>8. listening' /\ ~sockDestroyed' => queue' = <<>>
  <2>1. listening => assigned /\ ~connecting
    BY DEF Control, Connection, TypeOK
  <2> QED
    BY <1>2, <2>1 DEF Enqueue, TypeOK
<1> QED
  BY <1>1, <1>6, <1>7, <1>8 DEF Sending

LEMMA SendingKept ==
  ASSUME Sending, UNCHANGED <<sent, chain, queue, framed, asked, finished>>,
         sockDestroyed => sockDestroyed', broken => broken', listening' = listening
  PROVE  Sending'
<1>1. Total' = Total /\ Wanted' = Wanted /\ Unnumbered(sent') = Unnumbered(sent)
  BY DEF Total, Wanted
<1> QED
  BY <1>1 DEF Sending

LEMMA InitSending == Init => Sending
<1> SUFFICES ASSUME Init PROVE Sending
  OBVIOUS
<1>1. sent = <<>> /\ chain = <<>> /\ queue = <<>> /\ framed = "unset" /\ asked = 0 /\ ~finished
  BY DEF Init
<1>2. Wanted = <<>> /\ Unnumbered(<<>>) = <<>>
  BY <1>1 DEF Wanted, Unnumbered
<1>3. Total = <<>>
  BY <1>1 DEF Total
<1> DEFINE o == <<>>
<1>4. IsPrefix(o, o)
  <2>1. Len(o) = 0
    OBVIOUS
  <2> HIDE DEF o
  <2> QED
    BY <2>1 DEF IsPrefix
<1> QED
  BY <1>1, <1>2, <1>3, <1>4 DEF Sending

LEMMA WriteNextSends ==
  ASSUME TypeOK, Control, Sending, NEW ok \in BOOLEAN, WriteNext(ok)
  PROVE  Sending'
<1>1. CASE ~sockDestroyed /\ ok /\ ~broken /\ sent' = Append(sent, Head(chain))
  <2> DEFINE x == Head(chain)
             t == Tail(chain)
  <2>1. /\ sent \in Seq(PartSet) /\ queue \in Seq(PartSet) /\ x \in PartSet /\ t \in Seq(PartSet)
        /\ chain = <<x>> \o t
    <3>1. chain \in Seq(PartSet) /\ chain # <<>>
      BY DEF WriteNext, TypeOK
    <3> QED
      BY <3>1 DEF TypeOK
  <2> HIDE DEF x, t
  <2>2. Append(sent, x) \in Seq(PartSet) /\ t \o queue \in Seq(PartSet)
    BY <2>1
  <2>3. (sent \o (<<x>> \o t)) \o queue = (Append(sent, x) \o t) \o queue
    BY <2>1
  <2>4. (Append(sent, x) \o t) \o queue = Append(sent, x) \o (t \o queue)
    BY <2>1, <2>2
  <2>5. UNCHANGED <<queue, framed, asked, finished, sockDestroyed, broken, listening>> /\ chain' = t
    BY <1>1 DEF WriteNext, request, teardown, socket, t, TypeOK
  <2>6. Total' = Total /\ Wanted' = Wanted /\ Total = Append(sent, x) \o (t \o queue)
    BY <1>1, <2>1, <2>3, <2>4, <2>5 DEF Total, Wanted, x
  <2>7. IsPrefix(Unnumbered(sent'), Wanted)
    <3> DEFINE s == Append(sent, x)
               r == t \o queue
    <3>1. s \in Seq(PartSet) /\ r \in Seq(PartSet)
      BY <2>2
    <3> HIDE DEF s, r
    <3>2. /\ Unnumbered(s \o r) = Unnumbered(s) \o Unnumbered(r)
          /\ Unnumbered(s) \in Seq(PartSet) /\ Unnumbered(r) \in Seq(PartSet)
      BY <3>1, UnnumberedConcat, UnnumberedIs
    <3>3. IsPrefix(Unnumbered(s), Unnumbered(s))
      BY <3>2 DEF IsPrefix
    <3>4. IsPrefix(Unnumbered(s), Unnumbered(s) \o Unnumbered(r))
      BY <3>2, <3>3, PrefixGrows
    <3>5. Wanted = Unnumbered(s \o r)
      BY <1>1, <2>6 DEF Sending, s, r
    <3> QED
      BY <1>1, <3>2, <3>4, <3>5 DEF s, x
  <2> QED
    BY <2>5, <2>6, <2>7 DEF Sending
<1>2. CASE UNCHANGED sent
  <2>1. sockDestroyed' \/ broken'
    <3>1. CASE sockDestroyed /\ UNCHANGED teardown
      BY <3>1 DEF teardown
    <3>2. CASE broken' = TRUE
      BY <3>2
    <3>3. sent' # Append(sent, Head(chain))
      BY <1>2 DEF TypeOK
    <3> QED
      BY <3>1, <3>2, <3>3 DEF WriteNext
  <2>2. UNCHANGED <<sent, queue, framed, asked, finished, listening>>
    BY <1>2 DEF WriteNext, request, socket
  <2>3. Wanted' = Wanted /\ Unnumbered(sent') = Unnumbered(sent)
    BY <2>2 DEF Wanted
  <2>4. sockDestroyed => sockDestroyed'
    BY DEF WriteNext, teardown, Fail, SockDestroy
  <2> QED
    BY <2>1, <2>2, <2>3, <2>4 DEF Sending
<1> QED
  BY <1>1, <1>2 DEF WriteNext

LEMMA ReadySends ==
  ASSUME TypeOK, Control, Sending, RunReady
  PROVE  Sending'
<1>1. CASE destroyed
  <2>1. sockDestroyed' /\ UNCHANGED <<sent, chain, queue, framed, asked, finished, broken, listening>>
    BY <1>1 DEF RunReady, SockDestroy, TypeOK
  <2> QED
    BY <2>1, SendingKept
<1>2. CASE ~destroyed
  <2>1. Enqueue(<<>>) /\ UNCHANGED <<sent, framed, asked, finished, broken, sockDestroyed>>
    BY <1>2 DEF RunReady
  <2>2. Total \in Seq(PartSet)
    BY DEF TypeOK, Total
  <2>3. Total' = Total /\ Wanted' = Wanted
    <3> DEFINE o == <<>>
    <3>1. o \in Seq(PartSet) /\ Enqueue(o) /\ sent' = sent
      BY <2>1
    <3> HIDE DEF o
    <3>2. Total' = Total \o o
      BY <3>1, TotalGrows
    <3>3. Total \o o = Total
      <4> HIDE DEF Total
      <4> QED
        BY <2>2 DEF o
    <3> QED
      BY <2>1, <3>2, <3>3 DEF Wanted
  <2>4. ~connecting /\ assigned
    <3>1. "ready" \in due
      BY DueRest, TypedIs DEF RunReady, Control, Queued
    <3> QED
      BY <3>1 DEF Control, Queued, Connection, TypeOK
  <2>5. ~sockDestroyed => queue' = <<>>
    BY <2>1, <2>4 DEF Enqueue
  <2> QED
    BY <2>1, <2>3, <2>5 DEF Sending
<1> QED
  BY <1>1, <1>2

LEMMA CallerSends ==
  ASSUME TypeOK, Control, Sending, Write \/ FlushHeaders \/ \E n \in 0..1 : End(n)
  PROVE  Sending'
<1>1. calls < MaxCalls /\ UNCHANGED <<sent, broken, sockDestroyed, listening>>
  BY DEF Write, FlushHeaders, End, Call, teardown, socket
<1>2. CASE Write
  <2>1. ~finished /\ framed' = FramingFor(-1) /\ finished' = FALSE /\ asked' = asked + 1
    BY <1>2 DEF Write, TypeOK
  <2>3. /\ -1 \in {-1, 0, 1} /\ 1 \in 0..1 /\ FALSE \in BOOLEAN /\ (FALSE <=> -1 >= 0)
        /\ (-1 >= 0 => -1 = 1)
    OBVIOUS
  <2>2. Enqueue((HeadParts(-1) \o BodyParts(FramingFor(-1), 1))
                  \o (IF FALSE THEN LastParts(FramingFor(-1)) ELSE <<>>))
    <3>1. HeadParts(-1) \in Seq(PartSet) /\ BodyParts(FramingFor(-1), 1) \in Seq(PartSet)
      BY <1>1, PartsIn
    <3>2. (HeadParts(-1) \o BodyParts(FramingFor(-1), 1)) \o <<>>
            = HeadParts(-1) \o BodyParts(FramingFor(-1), 1)
      BY <3>1
    <3> QED
      BY <1>2, <3>2 DEF Write
  <2> QED
    BY <1>1, <2>3, <2>1, <2>2, CallSends
<1>3. CASE FlushHeaders
  <2>1. /\ ~finished /\ framed' = FramingFor(-1) /\ finished' = FALSE /\ asked' = asked + 0
        /\ asked \in Nat
    BY <1>3 DEF FlushHeaders, TypeOK, Sending
  <2>3. /\ -1 \in {-1, 0, 1} /\ 0 \in 0..1 /\ FALSE \in BOOLEAN /\ (FALSE <=> -1 >= 0)
        /\ (-1 >= 0 => -1 = 0)
    OBVIOUS
  <2>2. Enqueue((HeadParts(-1) \o BodyParts(FramingFor(-1), 0))
                  \o (IF FALSE THEN LastParts(FramingFor(-1)) ELSE <<>>))
    <3>1. HeadParts(-1) \in Seq(PartSet) /\ BodyParts(FramingFor(-1), 0) = <<>>
      BY <1>1, PartsIn DEF BodyParts
    <3>2. (HeadParts(-1) \o <<>>) \o <<>> = HeadParts(-1)
      BY <3>1
    <3> QED
      BY <1>3, <3>1, <3>2 DEF FlushHeaders
  <2> QED
    BY <1>1, <2>3, <2>1, <2>2, CallSends
<1>4. ASSUME NEW n \in 0..1, End(n)
      PROVE  Sending'
  <2>1. /\ ~finished /\ framed' = FramingFor(n) /\ finished' = TRUE /\ asked' = asked + n
        /\ Enqueue((HeadParts(n) \o BodyParts(FramingFor(n), n))
                     \o (IF TRUE THEN LastParts(FramingFor(n)) ELSE <<>>))
    BY <1>4 DEF End, TypeOK
  <2>2. n \in {-1, 0, 1} /\ n \in 0..1 /\ TRUE \in BOOLEAN /\ (TRUE <=> n >= 0)
    OBVIOUS
  <2> QED
    BY <1>1, <2>1, <2>2, CallSends
<1> QED
  BY <1>2, <1>3, <1>4

\* Every other step leaves the request's bytes alone.
LEMMA OthersSend ==
  ASSUME TypeOK, Control, Sending,
         \/ \E withError \in BOOLEAN : Destroy(withError)
         \/ OwnerListens \/ Connect \/ ReadDone
         \/ RunAssign \/ RunOpened \/ RunRefused \/ RunFail \/ RunClose \/ RunReadUnheard
         \/ RunReadHead \/ RunReadBody \/ Parse \/ RunEof \/ RunReadError
  PROVE  Sending'
<1>1. UNCHANGED <<sent, chain, queue, framed, asked, finished, broken, listening>>
  BY DEF Destroy, OwnerListens, Connect, Connected, ReadDone, ReadBytes, ReadEnds, RunAssign,
    RunOpened, RunRefused, RunFail, RunClose, RunReadUnheard, RunReadHead, RunReadBody, Parse,
    ParsePartial, ParseInterim, ParseRefused, ParseResponse, ParseUpgrade, ParseUpgradeFails, RunEof,
    RunReadError, outgoing, request, socket
<1>2. sockDestroyed => sockDestroyed'
  BY DEF Destroy, OwnerListens, Connect, Connected, ReadDone, ReadBytes, ReadEnds, RunAssign,
    RunOpened, RunRefused, RunFail, RunClose, RunReadUnheard, RunReadHead, RunReadBody, Parse,
    ParsePartial, ParseInterim, ParseRefused, ParseResponse, ParseUpgrade, ParseUpgradeFails, RunEof,
    RunReadError, teardown, Fail, FinishBody, EmitEnd, SockEnded, SockDestroy, TypeOK
<1> QED
  BY <1>1, <1>2, SendingKept

-----------------------------------------------------------------------------
LEMMA InitTypes == Init => TypeOK
<1> SUFFICES ASSUME Init PROVE TypeOK
  OBVIOUS
<1> USE DEF Init
<1>1. <<>> \in Bytes /\ <<>> \in Seq(PartSet) /\ <<>> \in Seq(STRING)
  BY BytesAre
<1>2. exchange \in Exchanges /\ pos = 0 /\ Len(exchange.wire) \in Nat
  BY HttpClientAssumption
<1>3. dec \in Decoders /\ dec.pending = <<>>
  BY <1>1 DEF Decoder, Decoders, Framing
<1>4. micro \in Seq([job : JobNames, bytes : Bytes])
  <2>1. "assign" \in JobNames
    BY DEF JobNames
  <2> DEFINE S == [job : JobNames, bytes : Bytes]
             x == Job("assign")
  <2>2. x \in S
    BY <2>1, JobTyped
  <2>3. micro = <<x>>
    OBVIOUS
  <2> HIDE DEF S, x, Init
  <2>4. micro \in Seq(S)
    BY <2>2, <2>3
  <2> QED
    BY <2>4 DEF S
<1>5. 0 \in 0..MaxCalls /\ 0 \in Nat /\ 0 \in 0..0 /\ 0 \in 0..1
  BY HttpClientAssumption
<1>6. pos \in 0..Len(exchange.wire)
  BY <1>2
<1>7. SocketFlags /\ RequestFlags
  BY DEF SocketFlags, RequestFlags
<1>8. Parts /\ Texts
  BY <1>1, <1>3 DEF Parts, Texts
<1>9. Counts
  BY <1>5 DEF Counts
<1> QED
  BY <1>2, <1>4, <1>6, <1>7, <1>8, <1>9
     DEF TypeOK, SocketFlags, RequestFlags, Parts, Texts, Counts

LEMMA StutterTypes ==
  ASSUME TypeOK, UNCHANGED vars
  PROVE  TypeOK'
BY DEF TypeOK, vars, socket, reads, request, parser, teardown, outgoing, response, events,
  PartSet, JobNames, Bytes, Decoders

\* Every step keeps the types, the control and the order of what is sent.
Base == TypeOK /\ Control /\ Sending

LEMMA InitBase == Init => Base
BY InitTypes, InitControl, InitSending DEF Base

LEMMA BaseStep ==
  ASSUME Base, [Next]_vars
  PROVE  Base'
<1> USE DEF Base
<1>1. TypeOK /\ Control /\ Typed
  BY TypedIs
<1>2. CASE UNCHANGED vars
  <2>1. UNCHANGED control /\ UNCHANGED <<sent, chain, queue, framed, asked, finished>>
        /\ sockDestroyed' = sockDestroyed /\ broken' = broken /\ listening' = listening
    BY <1>2 DEF vars, control, socket, reads, request, parser, teardown, outgoing, response, events
  <2> QED
    BY <1>1, <1>2, <2>1, StutterTypes, ControlStutter, SendingKept
<1>3. CASE RunAssign
  BY <1>1, <1>3, AssignTypes, AssignControl, OthersSend
<1>4. CASE RunOpened
  BY <1>1, <1>4, OpenedTypes, OpenedControl, OthersSend
<1>5. CASE RunReady
  BY <1>1, <1>5, ReadyTypes, ReadyControl, ReadySends
<1>6. CASE RunRefused
  BY <1>1, <1>6, RefusedTypes, RefusedControl, OthersSend
<1>7. CASE RunFail
  BY <1>1, <1>7, SettleTypes, FailControl, OthersSend
<1>8. CASE RunClose
  BY <1>1, <1>8, SettleTypes, CloseControl, OthersSend
<1>9. CASE RunReadUnheard
  BY <1>1, <1>9, UnheardTypes, UnheardControl, OthersSend
<1>10. CASE RunReadHead
  BY <1>1, <1>10, ReadHeadTypes, ReadHeadControl, OthersSend
<1>11. CASE RunReadBody
  BY <1>1, <1>11, ReadBodyTypes, ReadBodyControl, OthersSend
<1>12. CASE ParsePartial
  <2>1. Parse
    BY <1>12 DEF Parse
  <2> QED
    BY <1>1, <1>12, <2>1, PartialTypes, PartialControl, OthersSend
<1>13. CASE ParseInterim
  <2>1. Parse
    BY <1>13 DEF Parse
  <2>2. UNCHANGED control
    BY <1>13 DEF ParseInterim, control, socket, reads, request, teardown, outgoing, response, events
  <2> QED
    BY <1>1, <1>13, <2>1, <2>2, InterimTypes, ControlStutter, OthersSend
<1>14. CASE ParseRefused
  <2>1. Parse
    BY <1>14 DEF Parse
  <2> QED
    BY <1>1, <1>14, <2>1, ParseRefusedTypes, ParseRefusedControl, OthersSend
<1>15. CASE ParseResponse
  <2>1. Parse
    BY <1>15 DEF Parse
  <2> QED
    BY <1>1, <1>15, <2>1, ResponseTypes, ResponseControl, OthersSend
<1>16. ASSUME NEW listened \in BOOLEAN, ParseUpgrade(listened)
       PROVE  Base'
  <2>1. Parse
    BY <1>16 DEF Parse
  <2> QED
    BY <1>1, <1>16, <2>1, UpgradeTypes, UpgradeControl, OthersSend
<1>17. CASE RunEof
  BY <1>1, <1>17, EofTypes, EofControl, OthersSend
<1>18. CASE RunReadError
  BY <1>1, <1>18, ReadErrorTypes, ReadErrorControl, OthersSend
<1>19. ASSUME NEW ok \in BOOLEAN, Connected(ok)
       PROVE  Base'
  <2>1. Connect
    BY <1>19 DEF Connect
  <2> QED
    BY <1>1, <1>19, <2>1, ConnectedTypes, ConnectedControl, OthersSend
<1>20. CASE ReadBytes
  <2>1. ReadDone
    BY <1>20 DEF ReadDone
  <2> QED
    BY <1>1, <1>20, <2>1, ReadBytesTypes, ReadBytesControl, OthersSend
<1>21. ASSUME NEW how \in {"eof", "error"}, ReadEnds(how)
       PROVE  Base'
  <2>1. ReadDone
    BY <1>21 DEF ReadDone
  <2> QED
    BY <1>1, <1>21, <2>1, ReadEndsTypes, ReadEndsControl, OthersSend
<1>22. ASSUME NEW ok \in BOOLEAN, WriteNext(ok)
       PROVE  Base'
  BY <1>1, <1>22, WriteNextTypes, WriteNextControl, WriteNextSends
<1>23. CASE OwnerListens
  BY <1>1, <1>23, OwnerTypes, OwnerControl, OthersSend
<1>24. ASSUME NEW withError \in BOOLEAN, Destroy(withError)
       PROVE  Base'
  BY <1>1, <1>24, DestroyTypes, DestroyControl, OthersSend
<1>25. CASE Write \/ FlushHeaders \/ \E n \in 0..1 : End(n)
  <2>1. TypeOK'
    BY <1>1, <1>25, WriteTypes, FlushTypes, EndTypes
  <2>2. Control'
    <3>1. PICK parts : Enqueue(parts)
      BY <1>25 DEF Write, FlushHeaders, End
    <3>2. UNCHANGED <<native, reading, broken, assigned, connecting, sockDestroyed, listening, ended,
                     destroyed, closed, stage, dec, handed, micro, errors, closes, responses,
                     complete, resErrors, early>>
      BY <1>25 DEF Write, FlushHeaders, End, socket, reads, parser, teardown, response, events
    <3> QED
      BY <1>1, <3>1, <3>2, EnqueueControl
  <2> QED
    BY <1>1, <1>25, <2>1, <2>2, CallerSends
<1>26. CASE ParseUpgradeFails
  <2>1. Parse
    BY <1>26 DEF Parse
  <2> QED
    BY <1>1, <1>26, <2>1, UpgradeFailsTypes, UpgradeFailsControl, OthersSend
<1> QED
  BY <1>2, <1>3, <1>4, <1>5, <1>6, <1>7, <1>8, <1>9, <1>10, <1>11, <1>12, <1>13, <1>14, <1>15,
     <1>16, <1>17, <1>18, <1>19, <1>20, <1>21, <1>22, <1>23, <1>24, <1>25, <1>26
     DEF Next, RunJob, Parse, Connect, ReadDone, WriteDone, Caller

-----------------------------------------------------------------------------
LEMMA BaseHolds == Spec => []Base
<1>1. Init => Base
  BY InitBase
<1>2. Base /\ [Next]_vars => Base'
  BY BaseStep
<1> QED
  BY <1>1, <1>2, PTL DEF Spec

\* Whatever peer, cuts and calls, the variables keep their types; the decoder
\* never meets a state that push() of http.cjs does not know.
THEOREM TypeCorrect == Spec => []TypeOK
<1>1. Base => TypeOK
  BY DEF Base
<1> QED
  BY <1>1, BaseHolds, PTL

\* The settling of _fail, _close and finishBody: one 'close', one 'error' at most,
\* and no response completes for a request that failed by itself.
THEOREM SettledOnce == Spec => []SettlesOnce
<1>1. Base => SettlesOnce
  <2> SUFFICES ASSUME Base PROVE SettlesOnce
    OBVIOUS
  <2>1. closes <= 1 /\ errors <= closes
    BY DEF Base, Control, Heard
  <2>2. ASSUME errors = 1, complete, ~destroyed, ~broken
        PROVE  dec.mode = "eof"
    BY <2>2 DEF Base, Control, Failed, Failing
  <2>3. destroyed \in BOOLEAN /\ broken \in BOOLEAN
    BY DEF Base, TypeOK
  <2> QED
    BY <2>1, <2>2, <2>3 DEF SettlesOnce
<1> QED
  BY <1>1, BaseHolds, PTL

\* No settled request keeps its native socket, but the two http.cjs leaves open.
THEOREM SocketReleased == Spec => []NativeReleased
<1>1. Base => NativeReleased
  BY DEF Base, Control, TornDown, NativeReleased
<1> QED
  BY <1>1, BaseHolds, PTL

\* Any number of calls, made before and after the connection is there, put the
\* head, the body and the end mark on the wire in the order they were made.
THEOREM RequestSentInOrder == Spec => []RequestInOrder
<1>1. Base => RequestInOrder
  BY DEF Base, Sending, RequestInOrder, Total
<1> QED
  BY <1>1, BaseHolds, PTL

-----------------------------------------------------------------------------
\* The bytes.  The first t of those read have been handled; the others are with
\* the job that a read left in the queue.  What is handled is behind a head, in
\* the body the decoder was fed, or with the owner of an upgraded socket.
Slice(m, n) == SubSeq(exchange.wire, m + 1, n)
Body        == After(exchange.wire, exchange.start)
Attached    == listening \/ connecting \/ "ready" \in due

Carry(q, b) == \A i \in DOMAIN q : q[i].job = "read" => q[i].bytes = b
Flight(t)   == Carry(micro, Slice(t, pos)) /\ ("read" \notin due => t = pos)

HeadRead(t) ==
  Attached /\ stage = "head" =>
    /\ held = <<>> /\ got = <<>>
    /\ \E h \in exchange.heads : h <= t /\ buf = Slice(h, t)

\* A body with an end of its own, of which the decoder has been fed what is handled;
\* one that ends where the peer closes; or a malformed one.
Counted(d, g, t) ==
  \E F \in Framings :
    /\ exchange.payload = WholeBody(F, Body)
    /\ (d = Decoder(F) /\ g = <<>> /\ t = exchange.start) \/ Fed(F, d, g, Slice(exchange.start, t))
ToEnd(d, g, t) ==
  /\ d.mode = "eof" /\ d.done = FALSE /\ d.bad = FALSE
  /\ exchange.payload = Body /\ g = Slice(exchange.start, t)
BodyRest(d, g, t) == Counted(d, g, t) \/ ToEnd(d, g, t) \/ d.bad
BodyFed(t) == stage = "body" => exchange.start <= t /\ ~handed /\ BodyRest(dec, got, t)

Owns(t) ==
  handed => /\ exchange.start <= t /\ owned \o held = Slice(exchange.start, t)
            /\ owner => held = <<>>

Stream ==
  /\ BodyIsPayload /\ (complete => ~handed)
  /\ \E t \in 0..pos : Flight(t) /\ HeadRead(t) /\ BodyFed(t) /\ Owns(t)

-----------------------------------------------------------------------------
\* Slices of the wire.
LEMMA SliceIn ==
  ASSUME TypeOK, NEW m \in Nat, NEW n \in Nat, m <= n, n <= Len(exchange.wire)
  PROVE  Slice(m, n) \in Bytes /\ Slice(m, n) \in Seq(STRING) /\ Len(Slice(m, n)) = n - m
<1>1. exchange.wire \in Seq(Alphabet) /\ Bytes = Seq(Alphabet) /\ Bytes \subseteq Seq(STRING)
  BY WireIs, AlphabetIsText DEF TypeOK
<1>2. Slice(m, n) \in Seq(Alphabet) /\ Len(Slice(m, n)) = n - m
  BY <1>1, SliceIs DEF Slice
<1> QED
  BY <1>1, <1>2

LEMMA SlicesJoin ==
  ASSUME TypeOK, NEW m \in Nat, NEW k \in Nat, NEW n \in Nat,
         m <= k, k <= n, n <= Len(exchange.wire)
  PROVE  Slice(m, k) \o Slice(k, n) = Slice(m, n)
<1>1. exchange.wire \in Seq(STRING)
  BY WireIs DEF TypeOK
<1> QED
  BY <1>1, SlicesMeet DEF Slice

LEMMA SliceNone ==
  ASSUME TypeOK, NEW n \in Nat, n <= Len(exchange.wire)
  PROVE  Slice(n, n) = <<>>
<1>1. Slice(n, n) \in Seq(STRING) /\ Len(Slice(n, n)) = 0
  BY SliceIn
<1> QED
  BY <1>1, EmptySeq

LEMMA AfterSlice ==
  ASSUME TypeOK, NEW m \in Nat, NEW k \in Nat, NEW n \in Nat,
         m <= k, k <= n, n <= Len(exchange.wire)
  PROVE  After(Slice(m, n), k - m) = Slice(k, n)
<1> DEFINE a == Slice(m, k)
           b == Slice(k, n)
           l == k - m
<1>1. /\ a \in Seq(STRING) /\ Len(a) = l /\ b \in Seq(STRING) /\ a \o b = Slice(m, n)
      /\ l \in Nat
  <2>1. Len(exchange.wire) \in Nat
    BY WireIs DEF TypeOK
  <2>2. k <= Len(exchange.wire) /\ l \in Nat
    BY <2>1
  <2>3. a \in Seq(STRING) /\ Len(a) = l
    BY <2>2, SliceIn
  <2>4. b \in Seq(STRING)
    BY <2>2, SliceIn
  <2> QED
    BY <2>2, <2>3, <2>4, SlicesJoin
<1> HIDE DEF a, b, l
<1>2. After(a \o b, l) = After(a, l) \o b
  <2>1. l <= Len(a)
    BY <1>1
  <2> QED
    BY <1>1, <2>1, AfterConcat
<1>3. After(a, l) \in Seq(STRING) /\ Len(After(a, l)) = 0
  BY <1>1, AfterIs
<1>4. After(a, l) = <<>>
  BY <1>3, EmptySeq
<1>5. <<>> \o b = b
  BY <1>1
<1> QED
  BY <1>1, <1>2, <1>4, <1>5 DEF b, l

LEMMA AllSlice ==
  ASSUME TypeOK, NEW n \in Nat, n <= Len(exchange.wire)
  PROVE  After(exchange.wire, n) = Slice(n, Len(exchange.wire))
BY DEF After, Slice

\* A head in the first bytes behind h is the one the wire has there.
LEMMA HeadOfSlice ==
  ASSUME TypeOK, NEW h \in Nat, NEW t \in Nat, h <= t, t <= Len(exchange.wire),
         headEndIndex(Slice(h, t)) > 0
  PROVE  /\ headEndIndex(After(exchange.wire, h)) = headEndIndex(Slice(h, t))
         /\ splitHead(After(exchange.wire, h)) = splitHead(Slice(h, t))
         /\ headEndIndex(Slice(h, t)) \in Nat /\ h + headEndIndex(Slice(h, t)) + 3 <= t
<1> DEFINE a == Slice(h, t)
           b == Slice(t, Len(exchange.wire))
           he == headEndIndex(a)
<1>1. Len(exchange.wire) \in Nat
  BY WireIs DEF TypeOK
<1>2. /\ a \in Seq(STRING) /\ Len(a) = t - h /\ b \in Seq(STRING)
      /\ a \o b = After(exchange.wire, h)
  <2>1. Len(exchange.wire) <= Len(exchange.wire) /\ h <= Len(exchange.wire)
    BY <1>1
  <2>2. a \in Seq(STRING) /\ Len(a) = t - h
    BY SliceIn
  <2>3. b \in Seq(STRING)
    BY <1>1, <2>1, SliceIn
  <2>4. a \o b = Slice(h, Len(exchange.wire))
    BY <1>1, <2>1, SlicesJoin
  <2> QED
    BY <2>1, <2>2, <2>3, <2>4, AllSlice
<1> HIDE DEF a, b
<1>3. he \in Nat /\ he # 0 /\ he + 3 <= Len(a)
  BY <1>2, HeadEndIs DEF a
<1>4. headEndIndex(a \o b) = he
  BY <1>2, <1>3, HeadEndStays
<1> HIDE DEF he
<1>5. (a \o b)[1] = a[1]
  BY <1>2, <1>3
<1>6. splitHead(a \o b) = splitHead(a)
  BY <1>5 DEF splitHead
<1>7. h + he + 3 <= t
  BY <1>2, <1>3
<1> QED
  BY <1>2, <1>3, <1>4, <1>6, <1>7 DEF a, he

-----------------------------------------------------------------------------
\* The queue, and the bytes that wait in it.
LEMMA CarryAppend ==
  ASSUME NEW S, NEW q \in Seq(S), NEW x \in S, NEW b, Carry(q, b),
         x.job = "read" => x.bytes = b
  PROVE  Carry(Append(q, x), b)
<1> DEFINE p == Append(q, x)
<1>1. /\ Len(p) = Len(q) + 1 /\ Len(q) \in Nat /\ p[Len(q) + 1] = x
      /\ \A i \in 1..Len(q) : p[i] = q[i]
      /\ DOMAIN p = 1..Len(p) /\ DOMAIN q = 1..Len(q)
  OBVIOUS
<1> HIDE DEF p
<1> SUFFICES ASSUME NEW i \in DOMAIN p, p[i].job = "read"
             PROVE  p[i].bytes = b
  BY DEF Carry, p
<1>2. CASE i \in 1..Len(q)
  BY <1>1, <1>2 DEF Carry
<1>3. CASE i = Len(q) + 1
  BY <1>1, <1>3
<1> QED
  BY <1>1, <1>2, <1>3

LEMMA CarryTail ==
  ASSUME NEW S, NEW q \in Seq(S), q # <<>>, NEW b, Carry(q, b)
  PROVE  Carry(Tail(q), b)
<1> DEFINE t == Tail(q)
<1>1. /\ \A i \in DOMAIN t : t[i] = q[i + 1] /\ i + 1 \in DOMAIN q
  OBVIOUS
<1> HIDE DEF t
<1> QED
  BY <1>1 DEF Carry, t

LEMMA CarryNone ==
  ASSUME NEW q, "read" \notin Names(q), NEW b
  PROVE  Carry(q, b)
BY DEF Carry, Names

LEMMA CarryFirst ==
  ASSUME NEW S, NEW q \in Seq(S), NEW x \in S, "read" \notin Names(q), NEW b, x.bytes = b
  PROVE  Carry(<<x>> \o q, b)
<1> DEFINE p == <<x>> \o q
<1>1. /\ p[1] = x /\ \A i \in 1..Len(q) : p[1 + i] = q[i]
      /\ DOMAIN p = 1..(1 + Len(q)) /\ DOMAIN q = 1..Len(q) /\ Len(q) \in Nat
  OBVIOUS
<1> HIDE DEF p
<1> SUFFICES ASSUME NEW i \in DOMAIN p, p[i].job = "read"
             PROVE  p[i].bytes = b
  BY DEF Carry, p
<1>2. CASE i = 1
  BY <1>1, <1>2
<1>3. CASE i # 1
  <2>1. i - 1 \in 1..Len(q) /\ 1 + (i - 1) = i
    BY <1>1, <1>3
  <2>2. p[i] = q[i - 1]
    BY <1>1, <2>1
  <2> QED
    BY <1>1, <2>1, <2>2 DEF Names
<1> QED
  BY <1>2, <1>3

\* A step that neither adds nor takes a read.
Kept ==
  /\ \A b : Carry(micro, b) => Carry(micro', b)
  /\ "read" \in due => "read" \in due'
  /\ "ready" \in due' => "ready" \in due \/ connecting

LEMMA KeptAppend ==
  ASSUME Typed, NEW j \in JobNames \ {"read", "ready"}, micro' = Append(micro, Job(j))
  PROVE  Kept
<1> DEFINE S == [job : JobNames, bytes : Bytes]
           x == Job(j)
<1>1. micro \in Seq(S) /\ x \in S /\ x.job = j
  BY JobTyped DEF Typed
<1>2. due' = due \cup {j}
  BY <1>1, DueAppend
<1>3. micro' = Append(micro, x)
  OBVIOUS
<1> HIDE DEF S, x
<1>4. ASSUME NEW b, Carry(micro, b)
      PROVE  Carry(Append(micro, x), b)
  BY <1>1, <1>4, CarryAppend
<1> QED
  BY <1>2, <1>3, <1>4 DEF Kept

LEMMA KeptRest ==
  ASSUME Typed, InOrder(micro), NEW j, j # "read", Due(j), micro' = Rest
  PROVE  Kept
<1> DEFINE S == [job : JobNames, bytes : Bytes]
<1>1. micro \in Seq(S) /\ micro # <<>> /\ Rest = Tail(micro)
  BY DEF Typed, Due, Rest
<1>2. due = {j} \cup Names(Rest) /\ due' = Names(Rest)
  BY DueRest DEF due
<1> HIDE DEF S
<1>3. ASSUME NEW b, Carry(micro, b)
      PROVE  Carry(micro', b)
  BY <1>1, <1>3, CarryTail
<1> QED
  BY <1>2, <1>3 DEF Kept

LEMMA KeptRestAppend ==
  ASSUME Typed, InOrder(micro), NEW j, j # "read", Due(j), NEW k \in JobNames \ {"read"},
         k = "ready" => connecting, micro' = Append(Rest, Job(k))
  PROVE  Kept
<1> DEFINE S == [job : JobNames, bytes : Bytes]
           x == Job(k)
<1>1. micro \in Seq(S) /\ micro # <<>> /\ Rest = Tail(micro) /\ x \in S /\ x.job = k
  BY JobTyped DEF Typed, Due, Rest
<1>2. due = {j} \cup Names(Rest) /\ due' = Names(Rest) \cup {k} /\ Rest \in Seq(S)
  BY <1>1, DueRest, DueRestAppend
<1>3. micro' = Append(Rest, x)
  OBVIOUS
<1> HIDE DEF S, x
<1>4. ASSUME NEW b, Carry(micro, b)
      PROVE  Carry(micro', b)
  <2>1. Carry(Rest, b)
    BY <1>1, <1>4, CarryTail
  <2> QED
    BY <1>1, <1>2, <1>3, <2>1, CarryAppend
<1> QED
  BY <1>2, <1>3, <1>4 DEF Kept

LEMMA KeptSettles ==
  ASSUME Typed, InOrder(micro), NEW j, j # "read", Due(j), Fail(Rest) \/ Close(Rest)
  PROVE  Kept
<1>1. \/ micro' = Rest
      \/ \E k \in {"fail", "close"} : micro' = Append(Rest, Job(k))
  BY DEF Fail, Close
<1> QED
  BY <1>1, KeptRest, KeptRestAppend DEF JobNames

\* The job that carries the bytes runs: they are the ones not yet handled, and
\* none wait behind it.
LEMMA BytesNow ==
  ASSUME Typed, Due("read"), NEW b, Carry(micro, b)
  PROVE  Now.bytes = b
<1> DEFINE S == [job : JobNames, bytes : Bytes]
<1>1. micro \in Seq(S) /\ micro # <<>> /\ Head(micro).job = "read"
  BY DEF Typed, Due, Now
<1> HIDE DEF S
<1>2. 1 \in DOMAIN micro /\ Head(micro) = micro[1]
  BY <1>1
<1> QED
  BY <1>1, <1>2 DEF Carry, Now

LEMMA LastRead ==
  ASSUME Typed, InOrder(micro), Due("read")
  PROVE  "read" \notin Names(Rest) /\ "ready" \notin Names(Rest)
BY DueRest DEF Pumping, Handling

LEMMA ReadGone ==
  ASSUME Typed, InOrder(micro), Due("read"),
         \/ micro' = Rest
         \/ \E k \in JobNames \ {"read", "ready"} : micro' = Append(Rest, Job(k))
  PROVE  "read" \notin due' /\ "ready" \notin due' /\ \A b : Carry(micro', b)
<1>1. "read" \notin Names(Rest) /\ "ready" \notin Names(Rest)
  BY LastRead
<1>2. CASE micro' = Rest
  BY <1>1, <1>2, CarryNone DEF due
<1>3. CASE \E k \in JobNames \ {"read", "ready"} : micro' = Append(Rest, Job(k))
  <2>1. PICK k \in JobNames \ {"read", "ready"} : micro' = Append(Rest, Job(k))
    BY <1>3
  <2> DEFINE x == Job(k)
  <2>2. x \in [job : JobNames, bytes : Bytes] /\ x.job = k /\ micro' = Append(Rest, x)
    BY <2>1, JobTyped
  <2> HIDE DEF x
  <2>3. due' = Names(Rest) \cup {k}
    BY <2>2, DueRestAppend
  <2>4. "read" \notin due' /\ "ready" \notin due'
    BY <1>1, <2>3
  <2> QED
    BY <2>4, CarryNone DEF due
<1> QED
  BY <1>2, <1>3

-----------------------------------------------------------------------------
\* What every step keeps: the bytes where no read is handled or done.
LEMMA QuietStream ==
  ASSUME Stream, Kept,
         UNCHANGED <<exchange, pos, held, owner, owned, buf, stage, dec, handed, got, complete>>,
         listening' => Attached, connecting' => connecting
  PROVE  Stream'
<1>1. PICK t \in 0..pos : Flight(t) /\ HeadRead(t) /\ BodyFed(t) /\ Owns(t)
  BY DEF Stream
<1>2. Attached' => Attached
  BY DEF Kept, Attached
<1>3. Flight(t)'
  BY <1>1 DEF Flight, Kept, Slice
<1>4. HeadRead(t)'
  BY <1>1, <1>2 DEF HeadRead, Slice
<1>5. BodyFed(t)' /\ Owns(t)'
  BY <1>1 DEF BodyFed, BodyRest, Counted, ToEnd, Body, Owns, Slice
<1>6. BodyIsPayload' /\ (complete' => ~handed')
  BY DEF Stream, BodyIsPayload, BodyRead
<1>7. t \in 0..pos'
  BY <1>1
<1> QED
  BY <1>3, <1>4, <1>5, <1>6, <1>7 DEF Stream

LEMMA InitStream == Init => Stream
<1> SUFFICES ASSUME Init PROVE Stream
  OBVIOUS
<1>1. /\ pos = 0 /\ held = <<>> /\ got = <<>> /\ buf = <<>> /\ stage = "head" /\ handed = FALSE
      /\ complete = FALSE /\ exchange \in Exchanges
  BY DEF Init
<1>2. /\ TypeOK /\ 0 \in exchange.heads
      /\ exchange.payload \in Seq(STRING) /\ Len(exchange.wire) \in Nat
  BY <1>1, InitTypes, HttpClientAssumption, WireIs
<1>3. Slice(0, 0) = <<>>
  BY <1>2, SliceNone
<1>4. "read" \notin due /\ Carry(micro, Slice(0, pos))
  <2>1. micro = <<Job("assign")>>
    BY DEF Init
  <2>2. Names(micro) = {"assign"}
    BY <2>1 DEF Names, Job
  <2>3. "read" \notin Names(micro)
    BY <2>2
  <2> QED
    BY <2>3, CarryNone DEF due
<1>5. Flight(0)
  BY <1>1, <1>4 DEF Flight
<1>6. HeadRead(0)
  BY <1>1, <1>2, <1>3 DEF HeadRead
<1>7. BodyFed(0) /\ Owns(0)
  BY <1>1 DEF BodyFed, Owns
<1>8. BodyIsPayload
  <2> DEFINE o == <<>>
  <2>1. Len(o) = 0 /\ got = o
    BY <1>1
  <2> HIDE DEF o
  <2>2. IsPrefix(o, exchange.payload)
    <3>1. o \in Seq(STRING) /\ exchange.payload \in Seq(STRING)
      BY <1>2 DEF o
    <3>2. o \o exchange.payload = exchange.payload
      BY <3>1 DEF o
    <3>3. IsPrefix(o, o \o exchange.payload)
      BY <3>1, PrefixOfConcat
    <3> QED
      BY <3>2, <3>3
  <2> QED
    BY <1>1, <2>1, <2>2 DEF BodyIsPayload
<1> QED
  BY <1>1, <1>5, <1>6, <1>7, <1>8 DEF Stream

\* The steps that only the control sees.
LEMMA OwnerStepsStream ==
  ASSUME TypeOK, Control, Stream,
         Write \/ FlushHeaders \/ (\E n \in 0..1 : End(n))
           \/ \E withError \in BOOLEAN : Destroy(withError)
  PROVE  Stream'
<1>1. Typed
  BY TypedIs
<1>2. Kept
  <2>1. CASE micro' = micro /\ UNCHANGED due
    BY <2>1 DEF Kept
  <2>2. CASE \E k \in {"fail", "close"} : micro' = Append(micro, Job(k))
    BY <1>1, <2>2, KeptAppend DEF JobNames
  <2>3. \/ micro' = micro
        \/ \E k \in {"fail", "close"} : micro' = Append(micro, Job(k))
    BY DEF Write, FlushHeaders, End, Destroy
  <2> QED
    BY <2>1, <2>2, <2>3 DEF due
<1>3. /\ UNCHANGED <<exchange, pos, held, owner, owned, buf, stage, dec, handed, got, complete>>
      /\ listening' = listening /\ connecting' = connecting
  BY DEF Write, FlushHeaders, End, Destroy, socket, reads, parser, response
<1> QED
  BY <1>2, <1>3, QuietStream DEF Attached

LEMMA NetworkStream ==
  ASSUME TypeOK, Control, Stream,
         Connect \/ WriteDone \/ \E how \in {"eof", "error"} : ReadEnds(how)
  PROVE  Stream'
<1>1. Typed
  BY TypedIs
<1>2. Kept
  <2>1. CASE micro' = micro
    BY <2>1 DEF Kept, due
  <2>2. CASE \E k \in {"fail", "opened", "refused", "eof", "error"} : micro' = Append(micro, Job(k))
    BY <1>1, <2>2, KeptAppend DEF JobNames
  <2>3. \/ micro' = micro
        \/ \E k \in {"fail", "opened", "refused", "eof", "error"} : micro' = Append(micro, Job(k))
    BY DEF Connect, Connected, WriteDone, WriteNext, Fail, ReadEnds
  <2> QED
    BY <2>1, <2>2, <2>3
<1>3. /\ UNCHANGED <<exchange, pos, held, owner, owned, buf, stage, dec, handed, got, complete>>
      /\ listening' = listening /\ connecting' = connecting
  BY DEF Connect, Connected, WriteDone, WriteNext, ReadEnds, socket, reads, parser, response
<1> QED
  BY <1>2, <1>3, QuietStream DEF Attached

LEMMA JobsStream ==
  ASSUME TypeOK, Control, Stream,
         \/ RunAssign \/ RunOpened \/ RunReady \/ RunRefused \/ RunFail \/ RunClose
         \/ ParsePartial \/ ParseRefused \/ RunReadError
  PROVE  Stream'
<1>1. Typed /\ InOrder(micro)
  BY TypedIs DEF Control, Queued
<1>2. PICK j \in {"assign", "opened", "ready", "refused", "fail", "close", "parse", "error"} :
        /\ Due(j)
        /\ \/ micro' = Rest \/ Fail(Rest)
           \/ j = "opened" /\ micro' = Append(Rest, Job("ready"))
  BY DEF RunAssign, RunOpened, RunReady, RunRefused, RunFail, RunClose, ParsePartial,
    ParseRefused, RunReadError
<1>3. Kept
  <2>1. j # "read"
    OBVIOUS
  <2>2. CASE micro' = Rest \/ Fail(Rest)
    BY <1>1, <1>2, <2>1, <2>2, KeptRest, KeptSettles
  <2>3. CASE j = "opened" /\ micro' = Append(Rest, Job("ready"))
    <3>1. connecting /\ Due("opened")
      BY <1>1, <1>2, <2>3, DueRest DEF Control, Queued
    <3> QED
      BY <1>1, <2>3, <3>1, KeptRestAppend DEF JobNames
  <2> QED
    BY <1>2, <2>2, <2>3
<1>4. UNCHANGED <<exchange, pos, held, owner, owned, buf, stage, dec, handed, got, complete>>
  BY DEF RunAssign, RunOpened, RunReady, RunRefused, RunFail, RunClose, ParsePartial,
    ParseRefused, RunReadError, socket, reads, parser, response
<1>5. connecting' => connecting
  BY DEF RunAssign, RunOpened, RunReady, RunRefused, RunFail, RunClose, ParsePartial,
    ParseRefused, RunReadError, socket, reads, parser, response
<1>6. listening' => Attached
  <2>1. CASE RunReady
    <3>1. "ready" \in due
      BY <1>1, <2>1, DueRest DEF RunReady
    <3> QED
      BY <3>1 DEF Attached
  <2>2. CASE ~RunReady
    <3>1. listening' = listening
      BY <2>2 DEF RunAssign, RunOpened, RunRefused, RunFail, RunClose, ParsePartial,
        ParseRefused, RunReadError, socket
    <3> QED
      BY <3>1 DEF Attached
  <2> QED
    BY <2>1, <2>2
<1> QED
  BY <1>3, <1>4, <1>5, <1>6, QuietStream

-----------------------------------------------------------------------------
\* The bytes of a body, before and behind what has been handled.
LEMMA CountedEnds ==
  ASSUME TypeOK, NEW t \in Nat, exchange.start <= t, t <= Len(exchange.wire), Counted(dec, got, t)
  PROVE  dec.mode # "eof" /\ dec.bad = FALSE
<1>1. Slice(exchange.start, t) \in Seq(STRING) /\ dec \in Decoders
  BY SliceIn, WireIs DEF TypeOK
<1>2. PICK F \in Framings : dec = Decoder(F) \/ Fed(F, dec, got, Slice(exchange.start, t))
  BY DEF Counted
<1>3. F.mode # "eof"
  BY FirstDecoder
<1>4. CASE dec = Decoder(F)
  BY <1>3, <1>4, FirstDecoder
<1>5. CASE Fed(F, dec, got, Slice(exchange.start, t))
  <2>1. dec.bad = FALSE /\ dec.mode = F.mode
    BY <1>1, <1>5, FedStill
  <2> QED
    BY <1>3, <2>1
<1> QED
  BY <1>2, <1>4, <1>5

\* No read waits while the pump does something else.
LEMMA NothingWaits ==
  ASSUME Typed, Queued, NEW t, Flight(t),
         (\E j \in Pumping \ {"read"} : Due(j)) \/ reading
  PROVE  t = pos /\ "read" \notin due
<1>1. "read" \notin due
  <2>1. CASE reading
    BY <2>1 DEF Queued, Pumping, Handling
  <2>2. CASE \E j \in Pumping \ {"read"} : Due(j)
    <3>1. PICK j \in Pumping \ {"read"} : Due(j)
      BY <2>2
    <3>2. due = {j} \cup Names(Rest) /\ Names(Rest) \cap Pumping = {}
      BY <3>1, DueRest DEF Queued
    <3> QED
      BY <3>1, <3>2 DEF Pumping, Handling
  <2> QED
    BY <2>1, <2>2
<1> QED
  BY <1>1 DEF Flight

LEMMA EofStream ==
  ASSUME TypeOK, Control, Stream, RunEof
  PROVE  Stream'
<1>1. Typed /\ InOrder(micro) /\ Due("eof") /\ Queued
  BY TypedIs DEF Control, Queued, RunEof
<1>2. PICK t \in 0..pos : Flight(t) /\ HeadRead(t) /\ BodyFed(t) /\ Owns(t)
  BY DEF Stream
<1>3. t = pos /\ "read" \notin due
  BY <1>1, <1>2, NothingWaits DEF Pumping, Handling
<1>4. /\ UNCHANGED <<exchange, pos, held, owner, owned, buf, dec, handed, got>>
      /\ listening' = listening /\ connecting' = connecting
  BY DEF RunEof, socket
<1>5. \/ (micro' = Rest \/ Fail(Rest)) /\ UNCHANGED <<stage, complete>>
      \/ stage = "body" /\ EndsLegally(dec) /\ FinishBody(Rest)
  BY DEF RunEof, EmitEnd, SockEnded
<1>6. CASE (micro' = Rest \/ Fail(Rest)) /\ UNCHANGED <<stage, complete>>
  <2>1. Kept
    BY <1>1, <1>6, KeptRest, KeptSettles
  <2> QED
    BY <1>4, <1>6, <2>1, QuietStream DEF Attached
<1>7. CASE stage = "body" /\ EndsLegally(dec) /\ FinishBody(Rest)
  <2>1. Kept
    BY <1>1, <1>7, KeptSettles DEF FinishBody
  <2>2. complete' = TRUE /\ stage' = "done"
    BY <1>7 DEF FinishBody
  <2>3. dec.mode = "eof"
    BY <1>3, <1>7 DEF EndsLegally, Control, Heard
  <2>4. exchange.start <= t /\ ~handed /\ BodyRest(dec, got, t)
    BY <1>2, <1>7 DEF BodyFed
  <2>5. got = Slice(exchange.start, t)
    <3>1. t \in Nat /\ t <= Len(exchange.wire)
      BY <1>2, WireIs DEF TypeOK
    <3>2. ~Counted(dec, got, t)
      BY <2>3, <2>4, <3>1, CountedEnds
    <3>3. ~dec.bad
      BY <2>3 DEF Control, Heard, OneEnd
    <3> QED
      BY <2>4, <3>2, <3>3 DEF BodyRest, ToEnd
  <2>6. BodyIsPayload'
    BY <1>3, <1>4, <2>3, <2>5 DEF Stream, BodyIsPayload, BodyRead, Slice
  <2>7. Flight(t)'
    BY <1>2, <1>3, <1>4, <2>1 DEF Kept, Flight, Slice
  <2>8. HeadRead(t)' /\ BodyFed(t)' /\ Owns(t)'
    BY <1>4, <2>2, <2>4 DEF HeadRead, BodyFed, Owns
  <2>9. ~handed' /\ t \in 0..pos'
    BY <1>2, <1>4, <2>4
  <2> QED
    BY <2>6, <2>7, <2>8, <2>9 DEF Stream
<1> QED
  BY <1>5, <1>6, <1>7

LEMMA ReadBytesStream ==
  ASSUME TypeOK, Control, Stream, ReadBytes
  PROVE  Stream'
<1>1. Typed /\ InOrder(micro) /\ reading /\ native = "open" /\ Queued
  BY TypedIs DEF Control, Queued, ReadBytes
<1>2. PICK t \in 0..pos : Flight(t) /\ HeadRead(t) /\ BodyFed(t) /\ Owns(t)
  BY DEF Stream
<1>3. t = pos /\ "read" \notin due
  BY <1>1, <1>2, NothingWaits
<1>4. /\ UNCHANGED <<exchange, held, owner, owned, buf, stage, dec, handed, got, complete>>
      /\ listening' = listening /\ connecting' = connecting
  BY DEF ReadBytes, socket, reads, parser, response
<1>5. PICK n \in 1..(Len(exchange.wire) - pos) :
        pos' = pos + n /\ micro' = Append(micro, Read(SubSeq(exchange.wire, pos + 1, pos + n)))
  BY DEF ReadBytes
<1>6. ~complete
  BY <1>1 DEF Control, Heard, Connection, Stream
<1> DEFINE S == [job : JobNames, bytes : Bytes]
           x == Read(SubSeq(exchange.wire, pos + 1, pos + n))
<1>7. micro \in Seq(S) /\ x \in S /\ x.job = "read"
  <2>1. micro \in Seq(S)
    BY <1>1 DEF Typed
  <2>2. x \in S
    BY <1>5, ReadTyped
  <2> QED
    BY <2>1, <2>2 DEF Read
<1>8. x.bytes = SubSeq(exchange.wire, t + 1, pos')
  BY <1>3, <1>5 DEF Read
<1>9. micro' = Append(micro, x)
  BY <1>5
<1> HIDE DEF x
<1>10. due' = due \cup {"read"}
  BY <1>1, <1>7, <1>9, DueAppend
<1> DEFINE b == SubSeq(exchange.wire, t + 1, pos')
<1>11. b = Slice(t, pos)'
  BY <1>4 DEF Slice
<1> HIDE DEF b, S
<1>12. Carry(micro, b)
  BY <1>3, CarryNone DEF due
<1>13. Carry(micro', b)
  <2>1. x.bytes = b
    BY <1>8 DEF b
  <2>2. Carry(Append(micro, x), b)
    BY <1>7, <1>12, <2>1, CarryAppend
  <2> QED
    BY <1>9, <2>2
<1>14. Flight(t)'
  BY <1>10, <1>11, <1>13 DEF Flight
<1>15. HeadRead(t)'
  BY <1>2, <1>4, <1>10 DEF HeadRead, Attached, Slice
<1>16. BodyFed(t)' /\ Owns(t)'
  BY <1>2, <1>4 DEF BodyFed, BodyRest, Counted, ToEnd, Body, Owns, Slice
<1>17. BodyIsPayload' /\ (complete' => ~handed')
  BY <1>4, <1>6 DEF Stream, BodyIsPayload
<1>18. t \in 0..pos'
  BY <1>2, <1>5 DEF TypeOK
<1> QED
  BY <1>14, <1>15, <1>16, <1>17, <1>18 DEF Stream

\* What the four handlers of a read have in common.
LEMMA ReadIs ==
  ASSUME TypeOK, Control, Due("read"), NEW t \in 0..pos, Flight(t)
  PROVE  /\ Now.bytes = Slice(t, pos) /\ Slice(t, pos) \in Seq(STRING)
         /\ t \in Nat /\ pos \in Nat /\ t <= pos /\ pos <= Len(exchange.wire)
         /\ Typed /\ InOrder(micro) /\ ~connecting
<1>1. Typed /\ InOrder(micro)
  BY TypedIs DEF Control, Queued
<1>2. "read" \in due
  BY <1>1, DueRest
<1>3. ~connecting
  BY <1>2 DEF Control, Queued, Handling
<1>4. Now.bytes = Slice(t, pos)
  BY <1>1, BytesNow DEF Flight
<1>5. t \in Nat /\ pos \in Nat /\ t <= pos /\ pos <= Len(exchange.wire)
  BY WireIs DEF TypeOK
<1> QED
  BY <1>1, <1>3, <1>4, <1>5, SliceIn

\* Three texts joined from the left or from the right are one text.
LEMMA Reassociated ==
  \A x, y, z \in Seq(STRING) : x \o (y \o z) = (x \o y) \o z
<1> SUFFICES ASSUME NEW x \in Seq(STRING), NEW y \in Seq(STRING), NEW z \in Seq(STRING)
             PROVE  x \o (y \o z) = (x \o y) \o z
  OBVIOUS
<1>1. (x \o y) \o z = x \o (y \o z)
  BY ONLY x \in Seq(STRING), y \in Seq(STRING), z \in Seq(STRING), ConcatAssociative
<1> QED
  BY ONLY <1>1

LEMMA UnheardStream ==
  ASSUME TypeOK, Control, Stream, RunReadUnheard
  PROVE  Stream'
<1>1. Due("read") /\ (~listening \/ handed) /\ micro' = Rest
  BY DEF RunReadUnheard
<1>2. PICK t \in 0..pos : Flight(t) /\ HeadRead(t) /\ BodyFed(t) /\ Owns(t)
  BY DEF Stream
<1> DEFINE b == Slice(t, pos)
<1>3. /\ Now.bytes = b /\ b \in Seq(STRING)
      /\ t \in Nat /\ pos \in Nat /\ t <= pos /\ pos <= Len(exchange.wire)
      /\ Typed /\ InOrder(micro) /\ ~connecting
  BY <1>1, <1>2, ReadIs
<1>4. "read" \notin due' /\ "ready" \notin due' /\ \A x : Carry(micro', x)
  BY <1>1, <1>3, ReadGone
<1>5. /\ UNCHANGED <<exchange, pos, owner, buf, stage, dec, handed, got, complete>>
      /\ listening' = listening /\ connecting' = connecting
  BY DEF RunReadUnheard, socket, reads, parser, response
<1>6. Flight(pos)'
  BY <1>4 DEF Flight
<1>7. stage # "body" /\ (handed => stage # "head")
  BY <1>1 DEF Control, Connection
<1>8. HeadRead(pos)' /\ BodyFed(pos)'
  BY <1>1, <1>3, <1>4, <1>5, <1>7 DEF HeadRead, Attached, BodyFed
<1>9. Owns(pos)'
  <2> SUFFICES ASSUME handed
               PROVE  /\ exchange.start <= pos /\ owned' \o held' = Slice(exchange.start, pos)
                      /\ owner => held' = <<>>
    BY <1>5 DEF Owns, Slice
  <2>1. /\ exchange.start <= t /\ owned \o held = Slice(exchange.start, t)
        /\ owner => held = <<>>
    BY <1>2 DEF Owns
  <2>2. /\ owned \in Seq(STRING) /\ held \in Seq(STRING) /\ exchange.start \in Nat
    BY AlphabetIsText, WireIs DEF TypeOK
  <2>3. Slice(exchange.start, t) \o b = Slice(exchange.start, pos)
    BY <1>3, <2>1, <2>2, SlicesJoin
  <2>4. (owned \o held) \o b = Slice(exchange.start, pos)
    BY <2>1, <2>3
  <2>5. exchange.start <= pos
    BY <1>3, <2>1, <2>2
  <2> HIDE DEF b
  <2>6. CASE owner
    <3>1. owned' = owned \o b /\ held' = held /\ held = <<>>
      BY <1>3, <2>1, <2>6 DEF RunReadUnheard
    <3>2. (owned \o b) \o <<>> = owned \o b
      <4> DEFINE ob == owned \o b
      <4>1. ob \in Seq(STRING)
        BY <1>3, <2>2
      <4> HIDE DEF ob
      <4>2. ob \o <<>> = ob
        BY <4>1
      <4> QED
        BY <4>2 DEF ob
    <3>4. owned \o <<>> = owned
      BY <2>2
    <3>3. owned' \o held' = (owned \o held) \o b
      BY <3>1, <3>2, <3>4
    <3> QED
      BY <2>4, <2>5, <3>1, <3>3
  <2>7. CASE ~owner
    <3>1. held' = held \o b /\ owned' = owned
      BY <1>3, <2>7 DEF RunReadUnheard
    <3>2. b \in Seq(STRING) /\ owned \in Seq(STRING) /\ held \in Seq(STRING)
      BY <1>3, <2>2
    <3>3. owned \o (held \o b) = (owned \o held) \o b
      BY ONLY <3>2, Reassociated
    <3> QED
      BY <2>4, <2>5, <2>7, <3>1, <3>3
  <2> QED
    BY <2>6, <2>7
<1>10. BodyIsPayload' /\ (complete' => ~handed')
  BY <1>5 DEF Stream, BodyIsPayload, BodyRead
<1>11. pos \in 0..pos'
  BY <1>3, <1>5
<1> QED
  BY <1>5, <1>6, <1>8, <1>9, <1>10, <1>11 DEF Stream

LEMMA ReadHeadStream ==
  ASSUME TypeOK, Control, Stream, RunReadHead
  PROVE  Stream'
<1>1. Due("read") /\ listening /\ stage = "head"
  BY DEF RunReadHead
<1>2. PICK t \in 0..pos : Flight(t) /\ HeadRead(t) /\ BodyFed(t) /\ Owns(t)
  BY DEF Stream
<1> DEFINE b == Slice(t, pos)
<1>3. /\ Now.bytes = b /\ b \in Seq(STRING)
      /\ t \in Nat /\ pos \in Nat /\ t <= pos /\ pos <= Len(exchange.wire)
      /\ Typed /\ InOrder(micro) /\ ~connecting
  BY <1>1, <1>2, ReadIs
<1>4. /\ UNCHANGED <<exchange, pos, held, owner, owned, stage, dec, handed, got, complete>>
      /\ listening' = listening /\ connecting' = connecting
  BY DEF RunReadHead, socket, reads, response
<1>5. "read" \notin due'
  <2> DEFINE x == Job("parse")
  <2>1. x \in [job : JobNames, bytes : Bytes] /\ x.job = "parse" /\ micro' = <<x>> \o Rest
    BY JobTyped DEF RunReadHead, JobNames
  <2> HIDE DEF x
  <2>2. due' = Names(Rest) \cup {"parse"}
    BY <1>1, <1>3, <2>1, DueRestCons DEF Handling
  <2> QED
    BY <1>1, <1>3, <2>2, LastRead
<1>6. Flight(pos)'
  BY <1>5, CarryNone DEF Flight, due
<1>7. /\ held = <<>> /\ got = <<>>
      /\ \E h \in exchange.heads : h <= t /\ buf = Slice(h, t)
  BY <1>1, <1>2 DEF HeadRead, Attached
<1>8. \E h \in exchange.heads : h <= pos /\ buf' = Slice(h, pos)
  <2>1. PICK h \in exchange.heads : h <= t /\ buf = Slice(h, t)
    BY <1>7
  <2>2. h \in Nat
    <3>1. exchange \in Exchanges
      BY DEF TypeOK
    <3>2. exchange.heads \subseteq 0..Len(exchange.wire)
      BY <3>1, HttpClientAssumption
    <3> QED
      BY <2>1, <3>2
  <2>3. Slice(h, t) \o b = Slice(h, pos)
    BY <1>3, <2>1, <2>2, SlicesJoin
  <2>4. buf' = Slice(h, pos)
    BY <1>3, <2>1, <2>3 DEF RunReadHead
  <2>5. h <= pos
    BY <1>3, <2>1, <2>2
  <2> QED
    BY <2>4, <2>5
<1>9. HeadRead(pos)'
  BY <1>4, <1>7, <1>8 DEF HeadRead, Slice
<1>10. BodyFed(pos)' /\ Owns(pos)'
  <2>1. ~handed
    BY <1>1 DEF Control, Connection
  <2> QED
    BY <1>1, <1>4, <2>1 DEF BodyFed, Owns
<1>11. BodyIsPayload' /\ (complete' => ~handed')
  BY <1>4 DEF Stream, BodyIsPayload, BodyRead
<1>12. pos \in 0..pos'
  BY <1>3, <1>4
<1> QED
  BY <1>4, <1>6, <1>9, <1>10, <1>11, <1>12 DEF Stream

\* What the body's decoder makes of the next bytes.
LEMMA BodyPushed ==
  ASSUME TypeOK, Control, BodyIsPayload, Due("read"), stage = "body",
         NEW t \in Nat, t <= pos, pos <= Len(exchange.wire), exchange.start <= t,
         Now.bytes = Slice(t, pos), BodyRest(dec, got, t)
  PROVE  LET p == push(dec, Now.bytes)
             g == got \o p.out
         IN  /\ IsPrefix(g, exchange.payload)
             /\ ~p.dec.bad /\ p.dec.done => g = exchange.payload
             /\ ~p.dec.bad /\ ~p.dec.done => BodyRest(p.dec, g, pos)
<1> DEFINE p == push(dec, Now.bytes)
           g == got \o p.out
           b == Slice(t, pos)
           c == Slice(exchange.start, t)
           cb == Slice(exchange.start, pos)
           r == Slice(pos, Len(exchange.wire))
           Goal == /\ IsPrefix(g, exchange.payload)
                   /\ ~p.dec.bad /\ p.dec.done => g = exchange.payload
                   /\ ~p.dec.bad /\ ~p.dec.done => BodyRest(p.dec, g, pos)
<1>1. /\ exchange.start \in Nat /\ pos \in Nat /\ Len(exchange.wire) \in Nat
      /\ exchange.start <= pos /\ exchange.start <= Len(exchange.wire)
      /\ t <= Len(exchange.wire)
  BY WireIs DEF TypeOK
<1>2. b \in Seq(STRING) /\ c \in Seq(STRING) /\ cb \in Seq(STRING)
  BY <1>1, SliceIn
<1>3. r \in Seq(STRING)
  <2>1. Len(exchange.wire) <= Len(exchange.wire)
    BY <1>1
  <2> QED
    BY <1>1, <2>1, SliceIn
<1>4. c \o b = cb
  BY <1>1, SlicesJoin
<1>5. cb \o r = Body
  <2>1. Len(exchange.wire) <= Len(exchange.wire)
    BY <1>1
  <2>2. cb \o r = Slice(exchange.start, Len(exchange.wire))
    BY <1>1, <2>1, SlicesJoin
  <2> QED
    BY <1>1, <2>2, AllSlice DEF Body
<1>6. dec \in Decoders /\ got \in Seq(STRING)
  BY AlphabetIsText DEF TypeOK
<1>7. /\ p.dec \in Decoders /\ p.out \in Seq(STRING) /\ p.dec.mode = dec.mode
      /\ dec.bad => p.dec.bad /\ p.out = <<>>
  BY PushOfBody, AlphabetIsText DEF Control, Heard
<1>8. p = push(dec, b)
  OBVIOUS
<1> HIDE DEF p, b, c, cb, r
<1>9. ASSUME Counted(dec, got, t)
      PROVE  Goal
  <2>1. PICK F \in Framings :
          /\ exchange.payload = WholeBody(F, Body)
          /\ \/ dec = Decoder(F) /\ got = <<>> /\ t = exchange.start
             \/ Fed(F, dec, got, c)
    BY <1>9 DEF Counted, c
  <2>2. CASE dec = Decoder(F) /\ got = <<>> /\ t = exchange.start
    <3>1. /\ ~p.dec.bad /\ ~p.dec.done => Fed(F, p.dec, p.out, b)
          /\ ~p.dec.bad /\ p.dec.done => p.out = WholeBody(F, b \o r)
          /\ IsPrefix(p.out, WholeBody(F, b \o r))
      BY <1>2, <1>3, <1>8, <2>2, PushFirst
    <3>2. g = p.out
      BY <1>7, <2>2
    <3>3. b = cb
      BY <2>2 DEF b, cb
    <3>4. b \o r = Body
      BY <1>5, <3>3
    <3>5. Fed(F, p.dec, g, cb) => Counted(p.dec, g, pos)
      BY <2>1 DEF Counted, cb
    <3> HIDE DEF g
    <3> QED
      BY <2>1, <3>1, <3>2, <3>3, <3>4, <3>5 DEF BodyRest
  <2>3. CASE Fed(F, dec, got, c)
    <3>1. /\ ~p.dec.bad /\ ~p.dec.done => Fed(F, p.dec, g, c \o b)
          /\ ~p.dec.bad /\ p.dec.done => g = WholeBody(F, (c \o b) \o r)
          /\ IsPrefix(g, WholeBody(F, (c \o b) \o r))
      <4> DEFINE q == push(dec, b)
      <4>1. /\ ~q.dec.bad /\ ~q.dec.done => Fed(F, q.dec, got \o q.out, c \o b)
            /\ ~q.dec.bad /\ q.dec.done => got \o q.out = WholeBody(F, (c \o b) \o r)
            /\ IsPrefix(got \o q.out, WholeBody(F, (c \o b) \o r))
        BY <1>2, <1>3, <1>6, <2>3, PushNext
      <4>2. p = q
        BY <1>8
      <4> HIDE DEF q
      <4> QED
        BY <4>1, <4>2
    <3>2. (c \o b) \o r = Body
      BY <1>4, <1>5
    <3>3. Fed(F, p.dec, g, cb) => Counted(p.dec, g, pos)
      BY <2>1 DEF Counted, cb
    <3> HIDE DEF g
    <3> QED
      BY <1>4, <2>1, <3>1, <3>2, <3>3 DEF BodyRest
  <2> QED
    BY <2>1, <2>2, <2>3
<1>10. ASSUME ToEnd(dec, got, t)
       PROVE  Goal
  <2>1. /\ dec.mode = "eof" /\ dec.done = FALSE /\ dec.bad = FALSE
        /\ exchange.payload = Body /\ got = c
    BY <1>10 DEF ToEnd, c
  <2>2. p.dec = dec /\ p.out = b
    BY <1>8, <2>1 DEF push
  <2>3. g = cb
    BY <1>4, <2>1, <2>2
  <2>4. IsPrefix(cb, cb \o r)
    BY <1>2, <1>3, PrefixOfConcat
  <2>5. ToEnd(p.dec, cb, pos)
    BY <2>1, <2>2 DEF ToEnd, cb
  <2> HIDE DEF g
  <2> QED
    BY <1>5, <2>1, <2>2, <2>3, <2>4, <2>5 DEF BodyRest
<1>11. ASSUME dec.bad
       PROVE  Goal
  <2>1. g = got /\ p.dec.bad
    BY <1>6, <1>7, <1>11
  <2> HIDE DEF g
  <2> QED
    BY <2>1 DEF BodyIsPayload
<1> HIDE DEF Goal
<1>12. Goal
  BY <1>9, <1>10, <1>11 DEF BodyRest
<1> QED
  BY <1>12 DEF Goal, p

LEMMA ReadBodyStream ==
  ASSUME TypeOK, Control, Stream, RunReadBody
  PROVE  Stream'
<1>1. Due("read") /\ listening /\ stage = "body" /\ BodyIsPayload
  BY DEF RunReadBody, Stream
<1>2. PICK t \in 0..pos : Flight(t) /\ HeadRead(t) /\ BodyFed(t) /\ Owns(t)
  BY DEF Stream
<1>3. /\ Now.bytes = Slice(t, pos)
      /\ t \in Nat /\ pos \in Nat /\ t <= pos /\ pos <= Len(exchange.wire)
      /\ Typed /\ InOrder(micro) /\ ~connecting
  BY <1>1, <1>2, ReadIs
<1>4. exchange.start <= t /\ ~handed /\ BodyRest(dec, got, t) /\ exchange.start \in Nat
  BY <1>1, <1>2, WireIs DEF BodyFed, TypeOK
<1> DEFINE p == push(dec, Now.bytes)
           g == got \o p.out
<1>5. /\ IsPrefix(g, exchange.payload)
      /\ ~p.dec.bad /\ p.dec.done => g = exchange.payload
      /\ ~p.dec.bad /\ ~p.dec.done => BodyRest(p.dec, g, pos)
  BY <1>1, <1>3, <1>4, BodyPushed
<1>6. /\ dec' = p.dec /\ got' = g
      /\ UNCHANGED <<exchange, pos, held, owner, owned, buf, handed>>
      /\ listening' = listening /\ connecting' = connecting
  BY DEF RunReadBody, socket, reads
<1>7. \/ p.dec.bad /\ Fail(Rest) /\ UNCHANGED <<stage, complete>>
      \/ ~p.dec.bad /\ p.dec.done /\ FinishBody(Rest)
      \/ ~p.dec.bad /\ ~p.dec.done /\ micro' = Rest /\ UNCHANGED <<stage, complete>>
  BY DEF RunReadBody
<1> HIDE DEF p, g
<1>8. \/ micro' = Rest
      \/ \E k \in JobNames \ {"read", "ready"} : micro' = Append(Rest, Job(k))
  BY <1>7 DEF Fail, FinishBody, Close, JobNames
<1>9. "read" \notin due' /\ \A x : Carry(micro', x)
  BY <1>1, <1>3, <1>8, ReadGone
<1>10. Flight(pos)'
  BY <1>9 DEF Flight
<1>11. stage' # "head" /\ ~handed' /\ (complete' => stage' = "done" /\ p.dec.done /\ ~p.dec.bad)
  <2>1. ~complete
    BY <1>1 DEF Control, Heard
  <2> QED
    BY <1>1, <1>4, <1>6, <1>7, <2>1 DEF FinishBody
<1>12. HeadRead(pos)' /\ Owns(pos)'
  BY <1>11 DEF HeadRead, Owns
<1>13. BodyFed(pos)'
  <2> SUFFICES ASSUME stage' = "body"
               PROVE  exchange.start <= pos /\ BodyRest(p.dec, g, pos)
    BY <1>6, <1>11 DEF BodyFed, BodyRest, Counted, ToEnd, Body, Slice
  <2>1. exchange.start <= pos
    BY <1>3, <1>4
  <2>2. CASE p.dec.bad
    BY <2>1, <2>2 DEF BodyRest
  <2>3. CASE ~p.dec.bad
    <3>1. ~p.dec.done
      BY <1>7, <2>3 DEF FinishBody
    <3> QED
      BY <1>5, <2>1, <2>3, <3>1
  <2> QED
    BY <2>2, <2>3
<1>14. BodyIsPayload'
  BY <1>5, <1>6, <1>11 DEF BodyIsPayload
<1>15. pos \in 0..pos'
  BY <1>3, <1>6
<1> QED
  BY <1>6, <1>10, <1>11, <1>12, <1>13, <1>14, <1>15 DEF Stream

-----------------------------------------------------------------------------
\* The head that is parsed is one of the wire's, with what the exchange says
\* comes behind it.
LEMMA HeadParsed ==
  ASSUME TypeOK, Control, Due("parse"), HeadEnd > 0, Flight(pos), HeadRead(pos)
  PROVE  \E h \in exchange.heads :
           LET end == h + HeadEnd + 3 IN
           /\ end \in Nat /\ end <= pos
           /\ AfterHead = Slice(end, pos) /\ held = <<>> /\ got = <<>>
           /\ Interim => end \in exchange.heads
           /\ ~Interim => exchange.start = end
           /\ ~Interim /\ ~IsUpgrade => exchange.payload = WholeBody(ResponseFraming, Body)
<1>1. "parse" \in due
  BY TypedIs, DueRest DEF Control, Queued
<1>2. stage = "head" /\ Attached
  BY <1>1 DEF Control, Queued, Attached
<1>3. PICK h \in exchange.heads : h <= pos /\ buf = Slice(h, pos)
  BY <1>2 DEF HeadRead
<1>4. held = <<>> /\ got = <<>>
  BY <1>2 DEF HeadRead
<1>5. exchange \in Exchanges /\ pos \in Nat /\ pos <= Len(exchange.wire)
  BY WireIs DEF TypeOK
<1>6. h \in Nat
  <2>1. exchange.heads \subseteq 0..Len(exchange.wire)
    BY <1>5, HttpClientAssumption
  <2> QED
    BY <1>3, <2>1
<1> DEFINE rest == After(exchange.wire, h)
           end  == h + HeadEnd + 3
<1>7. /\ headEndIndex(rest) = HeadEnd /\ splitHead(rest) = ParsedHead
      /\ HeadEnd \in Nat /\ end <= pos
  <2>1. headEndIndex(Slice(h, pos)) > 0
    BY <1>3 DEF HeadEnd
  <2>2. /\ headEndIndex(rest) = headEndIndex(Slice(h, pos))
        /\ splitHead(rest) = splitHead(Slice(h, pos))
        /\ headEndIndex(Slice(h, pos)) \in Nat /\ h + headEndIndex(Slice(h, pos)) + 3 <= pos
    BY <1>3, <1>5, <1>6, <2>1, HeadOfSlice
  <2> QED
    BY <1>3, <2>2 DEF HeadEnd, ParsedHead
<1>8. \/ IsInterim(ParsedHead) /\ end \in exchange.heads
      \/ /\ ~IsInterim(ParsedHead) /\ exchange.start = end
         /\ \/ Upgrades(exchange.method, ParsedHead)
            \/ exchange.payload = WholeBody(bodyFraming(ParsedHead, TRUE, exchange.method),
                                            After(exchange.wire, end))
  <2>1. headEndIndex(rest) > 0 =>
          \/ IsInterim(splitHead(rest)) /\ h + headEndIndex(rest) + 3 \in exchange.heads
          \/ /\ ~IsInterim(splitHead(rest)) /\ exchange.start = h + headEndIndex(rest) + 3
             /\ \/ Upgrades(exchange.method, splitHead(rest))
                \/ exchange.payload = WholeBody(bodyFraming(splitHead(rest), TRUE, exchange.method),
                                          After(exchange.wire, h + headEndIndex(rest) + 3))
    BY <1>3, <1>5, HttpClientAssumption
  <2> QED
    BY <1>7, <2>1
<1> HIDE DEF rest
<1>9. end \in Nat /\ h <= end /\ end - h = HeadEnd + 3
  BY <1>6, <1>7
<1>10. AfterHead = Slice(end, pos)
  <2> HIDE DEF end
  <2>1. After(Slice(h, pos), end - h) = Slice(end, pos)
    BY <1>5, <1>6, <1>7, <1>9, AfterSlice
  <2> QED
    BY <1>3, <1>9, <2>1 DEF AfterHead
<1>11. ~Interim /\ ~IsUpgrade => exchange.payload = WholeBody(ResponseFraming, Body)
  BY <1>8 DEF Interim, IsUpgrade, ResponseFraming, Body
<1>12. (Interim => end \in exchange.heads) /\ (~Interim => exchange.start = end)
  BY <1>8 DEF Interim
<1> QED
  BY <1>3, <1>4, <1>7, <1>9, <1>10, <1>11, <1>12

LEMMA UpgradeIsFinal == IsUpgrade => ~Interim
<1>1. ParsedHead.status \in Nat
  BY HeadIs DEF ParsedHead
<1> QED
  BY <1>1 DEF IsUpgrade, Upgrades, Interim, IsInterim

LEMMA InterimStream ==
  ASSUME TypeOK, Control, Stream, ParseInterim
  PROVE  Stream'
<1>1. Typed /\ Queued /\ Due("parse") /\ HeadEnd > 0 /\ Interim
  BY TypedIs DEF Control, ParseInterim
<1>2. PICK t \in 0..pos : Flight(t) /\ HeadRead(t) /\ BodyFed(t) /\ Owns(t)
  BY DEF Stream
<1>3. t = pos
  BY <1>1, <1>2, NothingWaits DEF Pumping, Handling
<1>4. PICK h \in exchange.heads :
        LET end == h + HeadEnd + 3 IN
        /\ end \in Nat /\ end <= pos
        /\ AfterHead = Slice(end, pos) /\ held = <<>> /\ got = <<>>
        /\ Interim => end \in exchange.heads
  BY <1>1, <1>2, <1>3, HeadParsed
<1>5. /\ UNCHANGED <<exchange, pos, held, owner, owned, stage, dec, handed, got, complete, micro>>
      /\ listening' = listening /\ connecting' = connecting /\ buf' = AfterHead
  BY DEF ParseInterim, socket, reads, response
<1>6. Flight(t)'
  BY <1>2, <1>5 DEF Flight, Slice, due
<1>7. HeadRead(t)'
  BY <1>1, <1>3, <1>4, <1>5 DEF HeadRead, Slice
<1>8. BodyFed(t)' /\ Owns(t)'
  BY <1>2, <1>5 DEF BodyFed, BodyRest, Counted, ToEnd, Body, Owns, Slice
<1>9. BodyIsPayload' /\ (complete' => ~handed')
  BY <1>5 DEF Stream, BodyIsPayload, BodyRead
<1> QED
  BY <1>2, <1>5, <1>6, <1>7, <1>8, <1>9 DEF Stream

LEMMA UpgradeStream ==
  ASSUME TypeOK, Control, Stream, NEW listened \in BOOLEAN, ParseUpgrade(listened)
  PROVE  Stream'
<1>1. Typed /\ InOrder(micro) /\ Queued /\ Due("parse") /\ HeadEnd > 0 /\ ~Interim
  BY TypedIs, UpgradeIsFinal DEF Control, Queued, ParseUpgrade
<1>2. PICK t \in 0..pos : Flight(t) /\ HeadRead(t) /\ BodyFed(t) /\ Owns(t)
  BY DEF Stream
<1>3. t = pos /\ "read" \notin due
  BY <1>1, <1>2, NothingWaits DEF Pumping, Handling
<1>4. PICK h \in exchange.heads :
        LET end == h + HeadEnd + 3 IN
        /\ end \in Nat /\ end <= pos
        /\ AfterHead = Slice(end, pos) /\ held = <<>> /\ got = <<>>
        /\ ~Interim => exchange.start = end
  BY <1>1, <1>2, <1>3, HeadParsed
<1>5. /\ UNCHANGED <<exchange, pos, held, owner, buf, dec, got, complete>>
      /\ owned' = (IF listened THEN AfterHead ELSE <<>>)
      /\ stage' = "done" /\ handed' = listened /\ Close(Rest)
  BY DEF ParseUpgrade, response
<1>6. ~complete /\ Kept
  <2>1. "parse" \in due
    BY <1>1, DueRest
  <2>2. ~complete
    BY <2>1 DEF Control, Queued, Heard
  <2>3. Kept
    BY <1>1, <1>5, KeptSettles
  <2> QED
    BY <2>2, <2>3
<1>7. Flight(t)'
  BY <1>2, <1>3, <1>5, <1>6 DEF Kept, Flight, Slice
<1>8. HeadRead(t)' /\ BodyFed(t)'
  BY <1>5 DEF HeadRead, BodyFed
<1>9. Owns(t)'
  <2> DEFINE a == AfterHead
             end == exchange.start
  <2>1. exchange.start <= pos /\ a = Slice(exchange.start, pos)
    BY <1>1, <1>4
  <2>2. a \in Seq(STRING)
    <3>1. pos <= Len(exchange.wire) /\ pos \in Nat /\ exchange.start \in Nat
      BY WireIs DEF TypeOK
    <3> QED
      BY <2>1, <3>1, SliceIn
  <2> HIDE DEF a
  <2>3. a \o <<>> = a
    BY <2>2
  <2>4. listened => owned' = a /\ held' = <<>>
    BY <1>4, <1>5 DEF a
  <2>5. handed' => owned' \o held' = Slice(exchange.start, pos)
    BY <1>5, <2>1, <2>3, <2>4
  <2>6. held' = <<>>
    BY <1>4, <1>5
  <2> QED
    BY <1>3, <1>5, <2>1, <2>5, <2>6 DEF Owns, Slice
<1>10. BodyIsPayload' /\ (complete' => ~handed')
  BY <1>5, <1>6 DEF Stream, BodyIsPayload
<1> QED
  BY <1>2, <1>5, <1>7, <1>8, <1>9, <1>10 DEF Stream

LEMMA UpgradeFailsStream ==
  ASSUME TypeOK, Control, Stream, ParseUpgradeFails
  PROVE  Stream'
<1>1. Typed /\ InOrder(micro) /\ Queued /\ Due("parse") /\ HeadEnd > 0 /\ ~Interim
  BY TypedIs, UpgradeIsFinal DEF Control, Queued, ParseUpgradeFails
<1>2. PICK t \in 0..pos : Flight(t) /\ HeadRead(t) /\ BodyFed(t) /\ Owns(t)
  BY DEF Stream
<1>3. t = pos /\ "read" \notin due
  BY <1>1, <1>2, NothingWaits DEF Pumping, Handling
<1>4. PICK h \in exchange.heads :
        LET end == h + HeadEnd + 3 IN
        /\ end \in Nat /\ end <= pos
        /\ AfterHead = Slice(end, pos) /\ held = <<>> /\ got = <<>>
        /\ ~Interim => exchange.start = end
  BY <1>1, <1>2, <1>3, HeadParsed
<1>5. /\ UNCHANGED <<exchange, pos, held, owner, buf, dec, got, complete>>
      /\ owned' = AfterHead
      /\ stage' = "done" /\ handed' = TRUE /\ Fail(Rest)
  BY DEF ParseUpgradeFails, response
<1>6. ~complete /\ Kept
  <2>1. "parse" \in due
    BY <1>1, DueRest
  <2>2. ~complete
    BY <2>1 DEF Control, Queued, Heard
  <2>3. Kept
    BY <1>1, <1>5, KeptSettles
  <2> QED
    BY <2>2, <2>3
<1>7. Flight(t)'
  BY <1>2, <1>3, <1>5, <1>6 DEF Kept, Flight, Slice
<1>8. HeadRead(t)' /\ BodyFed(t)'
  BY <1>5 DEF HeadRead, BodyFed
<1>9. Owns(t)'
  <2> DEFINE a == AfterHead
             end == exchange.start
  <2>1. exchange.start <= pos /\ a = Slice(exchange.start, pos)
    BY <1>1, <1>4
  <2>2. a \in Seq(STRING)
    <3>1. pos <= Len(exchange.wire) /\ pos \in Nat /\ exchange.start \in Nat
      BY WireIs DEF TypeOK
    <3> QED
      BY <2>1, <3>1, SliceIn
  <2> HIDE DEF a
  <2>3. a \o <<>> = a
    BY <2>2
  <2>4. owned' = a /\ held' = <<>>
    BY <1>4, <1>5 DEF a
  <2>5. handed' => owned' \o held' = Slice(exchange.start, pos)
    BY <1>5, <2>1, <2>3, <2>4
  <2>6. held' = <<>>
    BY <1>4, <1>5
  <2> QED
    BY <1>3, <1>5, <2>1, <2>5, <2>6 DEF Owns, Slice
<1>10. BodyIsPayload' /\ (complete' => ~handed')
  BY <1>5, <1>6 DEF Stream, BodyIsPayload
<1> QED
  BY <1>2, <1>5, <1>7, <1>8, <1>9, <1>10 DEF Stream

LEMMA ResponseStream ==
  ASSUME TypeOK, Control, Stream, ParseResponse
  PROVE  Stream'
<1>1. Typed /\ InOrder(micro) /\ Queued /\ Due("parse") /\ HeadEnd > 0 /\ ~Interim /\ ~IsUpgrade
  BY TypedIs DEF Control, Queued, ParseResponse
<1>2. PICK t \in 0..pos : Flight(t) /\ HeadRead(t) /\ BodyFed(t) /\ Owns(t)
  BY DEF Stream
<1>3. t = pos /\ "read" \notin due
  BY <1>1, <1>2, NothingWaits DEF Pumping, Handling
<1>4. PICK h \in exchange.heads :
        LET end == h + HeadEnd + 3 IN
        /\ end \in Nat /\ end <= pos
        /\ AfterHead = Slice(end, pos) /\ held = <<>> /\ got = <<>>
        /\ ~Interim => exchange.start = end
        /\ ~Interim /\ ~IsUpgrade => exchange.payload = WholeBody(ResponseFraming, Body)
  BY <1>1, <1>2, <1>3, HeadParsed
<1>5. /\ exchange.start <= pos /\ AfterHead = Slice(exchange.start, pos) /\ got = <<>>
      /\ exchange.payload = WholeBody(ResponseFraming, Body)
  BY <1>1, <1>4
<1>6. exchange.start \in Nat /\ pos \in Nat /\ pos <= Len(exchange.wire)
  BY WireIs DEF TypeOK
<1>7. /\ UNCHANGED <<exchange, pos, held, owner, owned, buf, handed, got, complete>>
      /\ dec' = Decoder(ResponseFraming) /\ stage' = "body"
      /\ micro' = <<Read(AfterHead)>> \o Rest
  BY DEF ParseResponse, reads
<1>8. ~complete /\ ~handed
  <2>1. "parse" \in due
    BY <1>1, DueRest
  <2> QED
    BY <2>1 DEF Control, Queued, Heard, Connection
<1>9. Flight(exchange.start)'
  <2> DEFINE S == [job : JobNames, bytes : Bytes]
             x == Read(AfterHead)
             b == Slice(exchange.start, pos)
  <2>1. x.job = "read" /\ x.bytes = b
    BY <1>5 DEF Read
  <2>2. x \in S
    <3>1. b \in Bytes
      BY <1>5, <1>6, SliceIn
    <3> QED
      BY <1>5, <3>1 DEF Read, JobNames
  <2>3. Rest \in Seq(S) /\ "read" \notin Names(Rest)
    BY <1>1, <1>3, DueRest
  <2>4. b = Slice(exchange.start, pos)'
    BY <1>7 DEF Slice
  <2>5. micro' = <<x>> \o Rest
    BY <1>7
  <2> HIDE DEF x
  <2>6. due' = Names(Rest) \cup {"read"}
    BY <1>1, <2>1, <2>2, <2>5, DueRestCons DEF Handling
  <2> HIDE DEF S, b
  <2>7. Carry(<<x>> \o Rest, b)
    BY <2>1, <2>2, <2>3, CarryFirst
  <2> QED
    BY <1>7, <2>4, <2>5, <2>6, <2>7 DEF Flight
<1>10. HeadRead(exchange.start)' /\ Owns(exchange.start)'
  BY <1>7, <1>8 DEF HeadRead, Owns
<1>11. BodyRest(dec', got, exchange.start)
  <2>1. CASE ResponseFraming \in Framings
    BY <1>5, <1>7, <2>1 DEF BodyRest, Counted
  <2>2. CASE ResponseFraming = Framing("eof", 0)
    <3>1. dec'.mode = "eof" /\ dec'.done = FALSE /\ dec'.bad = FALSE
      BY <1>7, <2>2 DEF Decoder, Framing
    <3>2. exchange.payload = Body
      BY <1>5, <2>2 DEF WholeBody, Framing
    <3>3. exchange.start <= Len(exchange.wire)
      BY <1>5, <1>6, WireIs DEF TypeOK
    <3>4. Slice(exchange.start, exchange.start) = <<>>
      BY <1>6, <3>3, SliceNone
    <3> QED
      BY <1>5, <3>1, <3>2, <3>4 DEF BodyRest, ToEnd
  <2> QED
    BY <2>1, <2>2, ResponseDecoder
<1>12. BodyFed(exchange.start)'
  BY <1>6, <1>7, <1>8, <1>11 DEF BodyFed, BodyRest, Counted, ToEnd, Body, Slice
<1>13. BodyIsPayload' /\ (complete' => ~handed')
  BY <1>7, <1>8 DEF Stream, BodyIsPayload
<1>14. exchange.start \in 0..pos'
  BY <1>5, <1>6, <1>7
<1>15. \E u \in 0..pos' : Flight(u)' /\ HeadRead(u)' /\ BodyFed(u)' /\ Owns(u)'
  <2>1. PICK u \in 0..pos' : u = exchange.start
    BY <1>14
  <2>2. u = exchange'.start
    BY <1>7, <2>1
  <2>3. Flight(u)'
    BY <1>9, <2>2 DEF Flight, Slice
  <2>4. HeadRead(u)' /\ Owns(u)'
    BY <1>10, <2>2 DEF HeadRead, Owns, Slice
  <2>5. BodyFed(u)'
    BY <1>12, <2>2 DEF BodyFed, BodyRest, Counted, ToEnd, Body, Slice
  <2> QED
    BY <2>3, <2>4, <2>5
<1> QED
  BY <1>13, <1>15 DEF Stream

LEMMA OwnerStream ==
  ASSUME TypeOK, Control, Stream, OwnerListens
  PROVE  Stream'
<1>1. handed /\ ~owner /\ stage = "done" /\ ~complete
  BY DEF OwnerListens, Control, Connection, Stream
<1>2. PICK t \in 0..pos : Flight(t) /\ HeadRead(t) /\ BodyFed(t) /\ Owns(t)
  BY DEF Stream
<1>3. /\ UNCHANGED <<exchange, pos, stage, dec, handed, got, complete, micro>>
      /\ owned' = owned \o held /\ held' = <<>>
  BY DEF OwnerListens, parser, response
<1>4. Flight(t)'
  BY <1>2, <1>3 DEF Flight, Slice, due
<1>5. HeadRead(t)' /\ BodyFed(t)'
  BY <1>1, <1>3 DEF HeadRead, BodyFed
<1>6. Owns(t)'
  <2>1. exchange.start <= t /\ owned \o held = Slice(exchange.start, t)
    BY <1>1, <1>2 DEF Owns
  <2>2. owned \in Seq(STRING) /\ held \in Seq(STRING)
    BY AlphabetIsText DEF TypeOK
  <2>3. (owned \o held) \o <<>> = owned \o held
    BY <2>2
  <2> QED
    BY <1>3, <2>1, <2>3 DEF Owns, Slice
<1>7. BodyIsPayload' /\ (complete' => ~handed')
  BY <1>1, <1>3 DEF Stream, BodyIsPayload
<1> QED
  BY <1>2, <1>3, <1>4, <1>5, <1>6, <1>7 DEF Stream

LEMMA StutterStream ==
  ASSUME Stream, UNCHANGED vars
  PROVE  Stream'
<1>1. /\ UNCHANGED <<exchange, pos, held, owner, owned, buf, stage, dec, handed, got, complete,
                     micro>>
      /\ listening' = listening /\ connecting' = connecting
  BY DEF vars, socket, reads, parser, response
<1>2. Kept
  BY <1>1 DEF Kept, due
<1> QED
  BY <1>1, <1>2, QuietStream DEF Attached

LEMMA StreamStep ==
  ASSUME TypeOK, Control, Stream, [Next]_vars
  PROVE  Stream'
<1>1. CASE UNCHANGED vars
  BY <1>1, StutterStream
<1>2. CASE RunJob
  <2>1. CASE Parse
    BY <2>1, JobsStream, InterimStream, ResponseStream, UpgradeStream, UpgradeFailsStream DEF Parse
  <2>2. CASE ~Parse
    BY <1>2, <2>2, JobsStream, UnheardStream, ReadHeadStream, ReadBodyStream, EofStream DEF RunJob
  <2> QED
    BY <2>1, <2>2
<1>3. CASE Connect \/ ReadDone \/ WriteDone
  BY <1>3, NetworkStream, ReadBytesStream DEF ReadDone
<1>4. CASE Caller
  BY <1>4, OwnerStepsStream, OwnerStream DEF Caller
<1> QED
  BY <1>1, <1>2, <1>3, <1>4 DEF Next

LEMMA StreamHolds == Spec => [](Base /\ Stream)
<1>1. Init => Base /\ Stream
  BY InitBase, InitStream
<1>2. Base /\ Stream /\ [Next]_vars => (Base /\ Stream)'
  BY BaseStep, StreamStep DEF Base
<1> QED
  BY <1>1, <1>2, PTL DEF Spec

\* However the reads cut the response, whatever its framing and however many
\* interim heads come before it, the owner gets the body's bytes in order, and a
\* complete response has them all.
THEOREM ResponseIsPayload == Spec => []BodyIsPayload
<1>1. Stream => BodyIsPayload
  BY DEF Stream
<1> QED
  BY <1>1, StreamHolds, PTL

\* The bytes behind an upgrade's head reach the socket's new owner once and in
\* order, those in _buf and those still in the queue included.
THEOREM UpgradeLosesNothing == Spec => []UpgradeKeepsBytes
<1>1. Base /\ Stream => UpgradeKeepsBytes
  <2> SUFFICES ASSUME Base, Stream, handed
               PROVE  owned \o held \o InFlight = BodyRead
    BY DEF UpgradeKeepsBytes
  <2>1. PICK t \in 0..pos : Flight(t) /\ Owns(t)
    BY DEF Stream
  <2> DEFINE waits == {i \in DOMAIN micro : micro[i].job = "read"}
  <2>2. /\ t \in Nat /\ pos \in Nat /\ t <= pos /\ pos <= Len(exchange.wire)
        /\ exchange.start \in Nat /\ exchange.start <= t
        /\ owned \o held = Slice(exchange.start, t)
    BY <2>1, WireIs DEF Owns, Base, TypeOK
  <2>3. InFlight = Slice(t, pos)
    <3>1. CASE waits = {}
      <4>1. "read" \notin due
        BY <3>1 DEF due, Names
      <4>2. t = pos
        BY <2>1, <4>1 DEF Flight
      <4>3. Slice(t, pos) = <<>>
        BY <2>2, <4>2, SliceNone DEF Base
      <4> QED
        BY <3>1, <4>3 DEF InFlight
    <3>2. CASE waits # {}
      <4> DEFINE i == CHOOSE k \in waits : TRUE
      <4>1. i \in waits
        BY <3>2
      <4>2. InFlight = micro[i].bytes
        BY <3>2 DEF InFlight
      <4>3. i \in DOMAIN micro /\ micro[i].job = "read"
        BY <4>1
      <4> HIDE DEF i, waits
      <4> QED
        BY <2>1, <4>2, <4>3 DEF Flight, Carry
    <3> QED
      BY <3>1, <3>2
  <2>4. Slice(exchange.start, t) \o Slice(t, pos) = Slice(exchange.start, pos)
    BY <2>2, SlicesJoin DEF Base
  <2> QED
    BY <2>2, <2>3, <2>4 DEF BodyRead, Slice
<1> QED
  BY <1>1, StreamHolds, PTL

-----------------------------------------------------------------------------
\* What a request owes its owner.  A request that is closed has said so, or has
\* that queued; one that is not goes on reading, or is being connected.
ConnectDue == connecting /\ assigned /\ native = "none"
OwedInv ==
  /\ closed => closes = 1 \/ due \cap Settling # {}
  /\ ~closed => resErrors = 1 \/ Reading \/ "assign" \in due \/ ConnectDue
  /\ ~connecting /\ ~listening /\ "ready" \notin due => closed
  /\ stage = "done" \/ held # <<>> => closed

\* With nothing queued, no read outstanding and no connection on its way, a
\* request has closed, or its response has failed.
AtRest == micro = <<>> /\ ~reading /\ ~ConnectDue => closes = 1 \/ resErrors = 1

\* A step that settles the request.
LEMMA SettlingOwes ==
  ASSUME NEW name \in Settling, closed', ~closed => name \in due',
         closed => closes' = closes /\ due \cap Settling \subseteq due', OwedInv
  PROVE  OwedInv'
BY DEF OwedInv

\* The owner's calls and the network.
LEMMA CallerOwes ==
  ASSUME Control, Typed, OwedInv, Caller
  PROVE  OwedInv'
<1>1. ASSUME UNCHANGED <<micro, reading, native, connecting, assigned, listening, closed, closes,
                         stage, resErrors>>,
             held' = held \/ held' = <<>>
      PROVE  OwedInv'
  <2>1. due' = due
    BY <1>1 DEF due
  <2> QED
    BY <1>1, <2>1 DEF OwedInv, Reading, ConnectDue
<1>2. CASE Write \/ FlushHeaders \/ OwnerListens \/ \E n \in 0..1 : End(n)
  <2>1. UNCHANGED <<micro, reading, native, connecting, assigned, listening, closed, closes, stage,
                    resErrors>>
        /\ (held' = held \/ held' = <<>>)
    BY <1>2 DEF Write, FlushHeaders, OwnerListens, End, socket, reads, parser, teardown, response,
                events
  <2> QED
    BY <1>1, <2>1
<1>3. ASSUME NEW withError \in BOOLEAN, Destroy(withError)
      PROVE  OwedInv'
  <2> DEFINE j == IF withError THEN "fail" ELSE "close"
  <2>1. j \in Settling /\ Job(j) \in [job : JobNames, bytes : Bytes] /\ Job(j).job = j
    BY JobTyped DEF Settling, JobNames
  <2>2. closed' /\ closes' = closes /\ micro' = IF closed THEN micro ELSE Append(micro, Job(j))
    BY <1>3 DEF Destroy, events
  <2> HIDE DEF j
  <2>3. ~closed => j \in due'
    BY <2>1, <2>2, DueAppend
  <2>4. closed => due' = due
    BY <2>2 DEF due
  <2> QED
    BY <2>1, <2>2, <2>3, <2>4, SettlingOwes
<1> QED
  BY <1>2, <1>3 DEF Caller

LEMMA NetworkOwes ==
  ASSUME Control, Typed, OwedInv, Connect \/ ReadDone \/ WriteDone
  PROVE  OwedInv'
<1>1. ASSUME NEW x \in [job : JobNames, bytes : Bytes], x.job \in Pumping,
             micro' = Append(micro, x),
             UNCHANGED <<connecting, assigned, listening, closed, closes, stage, held, resErrors>>
      PROVE  OwedInv'
  <2>1. due' = due \cup {x.job}
    BY <1>1, DueAppend
  <2>2. x.job # "ready"
    BY <1>1 DEF Pumping, Handling
  <2> QED
    BY <1>1, <2>1, <2>2 DEF OwedInv, Reading
<1>2. ASSUME NEW ok \in BOOLEAN, Connected(ok)
      PROVE  OwedInv'
  <2> DEFINE j == IF ok THEN "opened" ELSE "refused"
  <2>1. j \in Pumping /\ Job(j) \in [job : JobNames, bytes : Bytes] /\ Job(j).job = j
    BY JobTyped DEF Pumping, JobNames
  <2>2. micro' = Append(micro, Job(j))
        /\ UNCHANGED <<connecting, assigned, listening, closed, closes, stage, held, resErrors>>
    BY <1>2 DEF Connected, socket, reads, parser, response, events
  <2> HIDE DEF j
  <2> QED
    BY <1>1, <2>1, <2>2
<1>3. CASE ReadBytes
  <2>1. PICK b : micro' = Append(micro, Read(b))
    BY <1>3 DEF ReadBytes
  <2>2. due \subseteq due' /\ "read" \in due' /\ ("ready" \in due' => "ready" \in due)
    <3>1. Len(micro) \in Nat
      BY DEF Typed
    <3>2. /\ DOMAIN micro' = 1..(Len(micro) + 1) /\ micro'[Len(micro) + 1].job = "read"
          /\ \A i \in DOMAIN micro : micro'[i] = micro[i]
      BY <2>1, <3>1 DEF Read, Typed
    <3>3. DOMAIN micro = 1..Len(micro) /\ Len(micro) + 1 \in DOMAIN micro'
      BY <3>1, <3>2 DEF Typed
    <3>4. \A i \in DOMAIN micro' : i \in DOMAIN micro \/ i = Len(micro) + 1
      BY <3>1, <3>2, <3>3
    <3> QED
      BY <3>2, <3>3, <3>4 DEF due, Names
  <2>3. UNCHANGED <<connecting, assigned, listening, closed, closes, stage, held, resErrors>>
    BY <1>3 DEF ReadBytes, socket, reads, parser, teardown, response, events
  <2> QED
    BY <2>2, <2>3 DEF OwedInv, Reading, Pumping, Handling
<1>4. ASSUME NEW how \in {"eof", "error"}, ReadEnds(how)
      PROVE  OwedInv'
  <2>1. how \in Pumping /\ Job(how) \in [job : JobNames, bytes : Bytes] /\ Job(how).job = how
    BY JobTyped DEF Pumping, Handling, JobNames
  <2>2. micro' = Append(micro, Job(how))
        /\ UNCHANGED <<connecting, assigned, listening, closed, closes, stage, held, resErrors>>
    BY <1>4 DEF ReadEnds, socket, reads, parser, teardown, response, events
  <2> QED
    BY <1>1, <2>1, <2>2
<1>5. ASSUME NEW ok \in BOOLEAN, WriteNext(ok)
      PROVE  OwedInv'
  <2>1. UNCHANGED <<reading, connecting, assigned, listening, closes, stage, held, resErrors>>
    BY <1>5 DEF WriteNext, socket, reads, parser, response, events
  <2>2. CASE UNCHANGED teardown /\ micro' = micro
    <3>1. due' = due /\ UNCHANGED <<closed, native>>
      BY <2>2 DEF due, teardown
    <3> QED
      BY <2>1, <3>1 DEF OwedInv, Reading, ConnectDue
  <2>3. CASE Fail(micro) /\ ~closed
    <3>1. /\ "fail" \in Settling /\ Job("fail") \in [job : JobNames, bytes : Bytes]
          /\ Job("fail").job = "fail"
      BY JobTyped DEF Settling, JobNames
    <3>2. closed' /\ micro' = Append(micro, Job("fail"))
      BY <2>3 DEF Fail
    <3>3. "fail" \in due'
      BY <3>1, <3>2, DueAppend
    <3> QED
      BY <2>3, <3>1, <3>2, <3>3, SettlingOwes
  <2> QED
    BY <1>5, <2>2, <2>3 DEF WriteNext, Fail
<1> QED
  BY <1>2, <1>3, <1>4, <1>5 DEF Connect, ReadDone, WriteDone

\* The microtasks that set the request up, and those that tell its owner.
LEMMA SetupOwes ==
  ASSUME Control, Typed, OwedInv, RunAssign \/ RunOpened \/ RunReady \/ RunRefused
  PROVE  OwedInv'
<1>1. CASE RunAssign
  <2>1. due = {"assign"} \cup Names(Rest) /\ due' = Names(Rest)
    BY <1>1, DueRest DEF RunAssign, Control, Queued, due
  <2>2. destroyed => closed
    BY DEF Control, TornDown
  <2>3. UNCHANGED <<reading, connecting, listening, closed, closes, stage, held, resErrors>>
    BY <1>1 DEF RunAssign, reads, parser, response, events
  <2>4. native = "none" /\ connecting
    BY <2>1 DEF Control, Queued, Connection, Typed
  <2>5. ~closed => ConnectDue'
    BY <1>1, <2>2, <2>3, <2>4 DEF RunAssign, ConnectDue, Typed
  <2> QED
    BY <2>1, <2>3, <2>4, <2>5 DEF OwedInv, Settling
<1>2. CASE RunOpened
  <2>1. Job("ready") \in [job : JobNames, bytes : Bytes] /\ Job("ready").job = "ready"
    BY JobTyped DEF JobNames
  <2>2. due = {"opened"} \cup Names(Rest) /\ due' = Names(Rest) \cup {"ready"}
    BY <1>2, <2>1, DueRest, DueRestAppend DEF RunOpened, Control, Queued
  <2>3. UNCHANGED <<listening, closed, closes, stage, held, resErrors>> /\ reading'
    BY <1>2 DEF RunOpened, reads, parser, teardown, response, events
  <2> QED
    BY <2>2, <2>3 DEF OwedInv, Reading, Settling
<1>3. CASE RunReady
  <2>1. due = {"ready"} \cup Names(Rest) /\ due' = Names(Rest)
    BY <1>3, DueRest DEF RunReady, Control, Queued, due
  <2>2. destroyed => closed
    BY DEF Control, TornDown
  <2>3. UNCHANGED <<reading, connecting, closed, closes, stage, held, resErrors>>
        /\ (destroyed \/ listening')
    BY <1>3 DEF RunReady, reads, parser, response, events
  <2>4. ~connecting
    BY <2>1 DEF Control, Queued
  <2>5. ~closed => resErrors = 1 \/ Reading'
    <3>1. "assign" \notin due
      BY <2>4 DEF Control, Queued, Connection, Typed
    <3>2. due \cap Pumping \subseteq due'
      BY <2>1 DEF Pumping, Handling
    <3> QED
      BY <2>3, <2>4, <3>1, <3>2 DEF OwedInv, Reading, ConnectDue
  <2> QED
    BY <2>1, <2>2, <2>3, <2>4, <2>5 DEF OwedInv, Settling
<1>4. CASE RunRefused
  <2>1. FailsWith
    BY <1>4, FailSettles DEF Settling, RunRefused
  <2>2. due = {"refused"} \cup Names(Rest) /\ closes' = closes
    BY <1>4, DueRest DEF RunRefused, Control, Queued, events
  <2> QED
    BY <2>1, <2>2, SettlingOwes DEF FailsWith, SettlesBy, Settling
<1> QED
  BY <1>1, <1>2, <1>3, <1>4

LEMMA ToldOwes ==
  ASSUME Control, Typed, OwedInv, RunFail \/ RunClose
  PROVE  OwedInv'
<1>1. PICK j \in Settling : Due(j)
  BY DEF RunFail, RunClose, Settling
<1>2. due = {j} \cup Names(Rest) /\ due' = Names(Rest)
  BY <1>1, DueRest DEF RunFail, RunClose, Control, Queued, due
<1>3. closed /\ closes = 0
  BY <1>1, <1>2 DEF Control, Heard
<1>4. closes' = closes + 1
      /\ UNCHANGED <<reading, socket, closed, stage, held, resErrors>>
  BY DEF RunFail, RunClose, reads, parser, teardown, response
<1> QED
  BY <1>3, <1>4 DEF OwedInv

\* What was read: the request goes on reading, or it has failed or finished.
LEMMA GoesOnReading ==
  ASSUME OwedInv, reading', due' \cap Settling = due \cap Settling, "ready" \in due' <=> "ready" \in due,
         UNCHANGED <<connecting, listening, closed, closes, stage>>, held' = held \/ closed
  PROVE  OwedInv'
BY DEF OwedInv, Reading

LEMMA ReadOwes ==
  ASSUME Control, Typed, OwedInv, TypeOK, RunReadUnheard \/ RunReadHead \/ RunReadBody
  PROVE  OwedInv'
<1>1. /\ due = {"read"} \cup Names(Rest) /\ "ready" \notin Names(Rest) /\ ~connecting
      /\ micro' = Rest => due' = Names(Rest)
  BY DueRest DEF RunReadUnheard, RunReadHead, RunReadBody, Control, Queued, Handling, due
<1>2. CASE RunReadUnheard
  <2>1. closed
    <3>1. CASE ~listening
      BY <1>1, <3>1 DEF OwedInv
    <3>2. CASE handed
      BY <3>2 DEF OwedInv, Control, Connection
    <3> QED
      BY <1>2, <3>1, <3>2 DEF RunReadUnheard
  <2>2. UNCHANGED <<connecting, listening, closed, closes, stage>> /\ reading' = TRUE
        /\ due' = Names(Rest)
    BY <1>1, <1>2 DEF RunReadUnheard, ReadOn, socket, parser, teardown, events
  <2> QED
    BY <1>1, <2>1, <2>2, GoesOnReading DEF Settling
<1>3. CASE RunReadHead
  <2>1. Job("parse") \in [job : JobNames, bytes : Bytes] /\ Job("parse").job = "parse"
    BY JobTyped DEF JobNames
  <2>2. due' = Names(Rest) \cup {"parse"}
    BY <1>3, <2>1, DueRestCons DEF RunReadHead, Control, Queued, Handling
  <2>3. UNCHANGED <<connecting, listening, closed, closes, stage, held>>
    BY <1>3 DEF RunReadHead, socket, reads, teardown, events
  <2> QED
    BY <1>1, <2>2, <2>3 DEF OwedInv, Reading, Pumping, Handling, Settling
<1>4. CASE RunReadBody
  <2>1. reading' = TRUE /\ UNCHANGED <<connecting, listening, closes, held>>
    BY <1>4 DEF RunReadBody, ReadOn, socket, reads, events
  <2>2. CASE Fail(Rest)
    <3>1. FailsWith
      BY <1>4, <2>2, FailSettles DEF Settling, RunReadBody
    <3> QED
      BY <1>1, <2>1, <3>1, SettlingOwes DEF FailsWith, SettlesBy, Settling
  <2>3. CASE FinishBody(Rest)
    <3>1. FinishesWith
      BY <1>4, <2>3, FinishSettles DEF Settling, RunReadBody
    <3> QED
      BY <1>1, <2>1, <3>1, SettlingOwes DEF FinishesWith, SettlesBy, Settling
  <2>4. CASE micro' = Rest /\ UNCHANGED <<stage, complete, teardown>>
    BY <1>1, <2>1, <2>4, GoesOnReading DEF teardown, Settling
  <2> QED
    BY <1>4, <2>2, <2>3, <2>4 DEF RunReadBody
<1> QED
  BY <1>2, <1>3, <1>4

LEMMA ParseOwes ==
  ASSUME Control, Typed, OwedInv, TypeOK, Parse
  PROVE  OwedInv'
<1>1. Due("parse")
  BY DEF Parse, ParsePartial, ParseInterim, ParseRefused, ParseResponse, ParseUpgrade,
    ParseUpgradeFails
<1>2. /\ due = {"parse"} \cup Names(Rest) /\ "ready" \notin Names(Rest) /\ ~connecting
      /\ micro' = Rest => due' = Names(Rest)
  BY <1>1, DueRest DEF Control, Queued, Handling, due
<1>3. CASE ParsePartial
  <2>1. UNCHANGED <<connecting, listening, closed, closes, stage, held>> /\ reading' = TRUE
        /\ micro' = Rest
    BY <1>3 DEF ParsePartial, ReadOn, socket, reads, parser, teardown, events
  <2> QED
    BY <1>2, <2>1, GoesOnReading DEF Settling
<1>4. CASE ParseInterim
  <2>1. UNCHANGED <<connecting, assigned, native, reading, micro, listening, closed, closes, stage, held,
                    resErrors>>
    BY <1>4 DEF ParseInterim, socket, reads, teardown, response, events
  <2> QED
    BY <2>1 DEF OwedInv, Reading, ConnectDue, due
<1>5. CASE ParseRefused
  <2>1. FailsWith /\ closes' = closes
    BY <1>1, <1>5, FailSettles DEF Settling, ParseRefused, events
  <2> QED
    BY <1>2, <2>1, SettlingOwes DEF FailsWith, SettlesBy, Settling
<1>6. CASE ParseResponse
  <2>1. Read(AfterHead) \in [job : JobNames, bytes : Bytes] /\ Read(AfterHead).job = "read"
    BY <1>6, AfterHeadTyped DEF ParseResponse, Read, JobNames
  <2>2. due' = Names(Rest) \cup {"read"}
    BY <1>1, <1>6, <2>1, DueRestCons DEF ParseResponse, Control, Queued, Handling
  <2>3. UNCHANGED <<connecting, listening, closed, closes, held>> /\ stage' = "body"
    BY <1>6 DEF ParseResponse, socket, reads, teardown, events
  <2> QED
    BY <1>2, <2>2, <2>3 DEF OwedInv, Reading, Pumping, Handling, Settling
<1>7. ASSUME NEW listened \in BOOLEAN, ParseUpgrade(listened)
      PROVE  OwedInv'
  <2>1. ClosesWith /\ closes' = closes
    BY <1>1, <1>7, CloseSettles DEF Settling, ParseUpgrade, events
  <2> QED
    BY <1>2, <2>1, SettlingOwes DEF ClosesWith, SettlesBy, Settling
<1>8. CASE ParseUpgradeFails
  <2>1. FailsWith /\ closes' = closes
    BY <1>1, <1>8, FailSettles DEF Settling, ParseUpgradeFails, events
  <2> QED
    BY <1>2, <2>1, SettlingOwes DEF FailsWith, SettlesBy, Settling
<1> QED
  BY <1>3, <1>4, <1>5, <1>6, <1>7, <1>8 DEF Parse

\* A read that ends leaves nobody waiting: the request was closed before, or it
\* fails or finishes, or its response reports that it was cut.
LEMMA EndOwes ==
  ASSUME Control, Typed, OwedInv, RunEof \/ RunReadError
  PROVE  OwedInv'
<1>1. PICK j \in {"eof", "error"} : Due(j)
  BY DEF RunEof, RunReadError
<1>2. /\ due = {j} \cup Names(Rest) /\ "ready" \notin Names(Rest) /\ ~connecting
      /\ micro' = Rest => due' = Names(Rest)
  BY <1>1, DueRest DEF Control, Queued, Handling, due
<1>3. UNCHANGED <<connecting, listening, closes, held>>
  BY DEF RunEof, RunReadError, socket, reads, events
<1>4. ASSUME Fail(Rest)
      PROVE  OwedInv'
  <2>1. FailsWith
    BY <1>1, <1>4, FailSettles DEF Settling
  <2> QED
    BY <1>2, <1>3, <2>1, SettlingOwes DEF FailsWith, SettlesBy, Settling
<1>5. ASSUME micro' = Rest, closed' = closed, closed \/ resErrors' = 1, stage' = stage
      PROVE  OwedInv'
  BY <1>2, <1>3, <1>5 DEF OwedInv, Settling
<1>6. CASE RunReadError
  <2>1. CASE sockDestroyed
    <3>1. closed
      BY <1>1, <1>2, <2>1 DEF Control, TornDown, Reading, Pumping, Handling
    <3> QED
      BY <1>5, <1>6, <2>1, <3>1 DEF RunReadError, parser, teardown
  <2>2. CASE ~sockDestroyed
    BY <1>4, <1>6, <2>2 DEF RunReadError
  <2> QED
    BY <2>1, <2>2 DEF Typed
<1>7. CASE RunEof
  <2>1. CASE held # <<>>
    BY <1>5, <1>7, <2>1 DEF RunEof, OwedInv, teardown
  <2>2. CASE EmitEnd(Rest)
    <3>1. CASE SockEnded(Rest) /\ stage' = stage /\ (~listening \/ stage = "done" \/ closed)
      <4>1. closed
        BY <1>2, <3>1 DEF OwedInv
      <4> QED
        BY <1>5, <3>1, <4>1 DEF SockEnded
    <3>2. CASE SockEnded(Rest) /\ stage' = stage /\ resErrors' = resErrors + 1
      <4>1. resErrors = 0
        BY <1>1, <1>2 DEF Control, Queued, Reading, Pumping, Handling
      <4> QED
        BY <1>5, <3>2, <4>1 DEF SockEnded
    <3>3. CASE FinishBody(Rest)
      <4>1. FinishesWith
        BY <1>1, <3>3, FinishSettles DEF Settling
      <4> QED
        BY <1>2, <1>3, <4>1, SettlingOwes DEF FinishesWith, SettlesBy, Settling
    <3> QED
      BY <1>4, <2>2, <3>1, <3>2, <3>3 DEF EmitEnd
  <2> QED
    BY <1>7, <2>1, <2>2 DEF RunEof
<1> QED
  BY <1>6, <1>7

\* The part of Settles that is not about time.
THEOREM RestIsSettled == Spec => []AtRest
<1>1. Init => OwedInv
  <2> SUFFICES ASSUME Init PROVE OwedInv
    OBVIOUS
  <2>1. DOMAIN micro = {1} /\ micro[1].job = "assign"
    BY DEF Init, Job
  <2>2. "assign" \in due
    BY <2>1 DEF due, Names
  <2> QED
    BY <2>2 DEF Init, OwedInv
<1>2. Base /\ OwedInv /\ [Next]_vars => OwedInv'
  <2> SUFFICES ASSUME Base, OwedInv, [Next]_vars PROVE OwedInv'
    OBVIOUS
  <2>1. TypeOK /\ Control /\ Typed
    BY TypedIs DEF Base
  <2>2. CASE UNCHANGED vars
    <3>1. UNCHANGED <<micro, reading, native, connecting, assigned, listening, closed, closes, stage,
                      held, resErrors>>
      BY <2>2 DEF vars, socket, reads, parser, teardown, response, events
    <3> QED
      BY <3>1 DEF OwedInv, Reading, ConnectDue, due
  <2> QED
    BY <2>1, <2>2, CallerOwes, NetworkOwes, SetupOwes, ToldOwes, ReadOwes, ParseOwes, EndOwes
       DEF Next, RunJob
<1>3. Base /\ OwedInv => AtRest
  <2> SUFFICES ASSUME Base, OwedInv, micro = <<>>, ~reading, ~ConnectDue
               PROVE  closes = 1 \/ resErrors = 1
    BY DEF AtRest
  <2>1. due = {}
    BY DEF due, Names
  <2>2. ~Reading
    BY <2>1 DEF Reading
  <2> QED
    BY <2>1, <2>2 DEF OwedInv, Base, TypeOK
<1> QED
  BY BaseHolds, <1>1, <1>2, <1>3, PTL DEF Spec
=============================================================================
