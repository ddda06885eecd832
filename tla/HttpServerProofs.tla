-------------------------- MODULE HttpServerProofs --------------------------
(***************************************************************************)
(* Proofs about HttpServer, for any requests cut into reads anywhere.      *)
(* First the decoder of HttpWire: its loop ends, returns what its types    *)
(* say, and ends in the same state however its input was cut (LoopMore,    *)
(* PushFed).  Loop is a recursive function: that it has the value its      *)
(* definition gives it is proved by a witness (LoopIs), and its inductions *)
(* are over sets of states with a measure (LoopInduction).  Then the       *)
(* connection: its invariant says that the decoder has been fed exactly    *)
(* the bytes taken off the wire behind the head.                           *)
(***************************************************************************)
EXTENDS HttpServer, TLAPS, WellFoundedInduction, SequenceTheorems

-----------------------------------------------------------------------------
\* Induction over the naturals, for a set of them.
LEMMA Induction ==
  ASSUME NEW T, 0 \in T, \A n \in Nat : n \in T => n + 1 \in T
  PROVE  Nat \subseteq T
<1> DEFINE R == {ss \in Nat \X Nat : ss[1] < ss[2]}
           U == Nat \ T
<1>1. IsWellFoundedOn(R, Nat)
  BY NatLessThanWellFounded DEF OpToRel
<1>2. SUFFICES ASSUME U # {} PROVE FALSE
  OBVIOUS
<1>3. PICK x \in U : \A y \in U : ~(<<y, x>> \in R)
  <2> HIDE DEF R, U
  <2>1. U \subseteq Nat
    BY DEF U
  <2> QED
    BY <1>1, <1>2, <2>1, WFMin
<1>4. x \in Nat /\ x # 0
  OBVIOUS
<1>5. x - 1 \in Nat /\ (x - 1) + 1 = x
  BY <1>4
<1>6. x - 1 \notin T
  BY <1>5
<1>7. <<x - 1, x>> \in R
  BY <1>5, <1>4
<1> QED
  BY <1>3, <1>5, <1>6, <1>7

LEMMA MinIs ==
  ASSUME NEW S, S \subseteq Nat, S # {}
  PROVE  Min(S) \in S /\ \A y \in S : Min(S) <= y
<1> DEFINE R == {ss \in Nat \X Nat : ss[1] < ss[2]}
<1>1. IsWellFoundedOn(R, Nat)
  BY NatLessThanWellFounded DEF OpToRel
<1>2. PICK x \in S : \A y \in S : ~(<<y, x>> \in R)
  <2> HIDE DEF R
  <2> QED
    BY <1>1, WFMin
<1>3. ASSUME NEW y \in S
      PROVE  x <= y
  <2>1. x \in Nat /\ y \in Nat /\ <<y, x>> \in Nat \X Nat
    BY <1>2
  <2>2. ~(<<y, x>>[1] < <<y, x>>[2])
    BY <1>2, <2>1
  <2> QED
    BY <2>1, <2>2
<1> QED
  BY <1>2, <1>3 DEF Min

\* Three texts joined from the left or from the right are one text.
LEMMA Reassociated ==
  \A x, y, z \in Seq(STRING) : x \o (y \o z) = (x \o y) \o z
<1> SUFFICES ASSUME NEW x \in Seq(STRING), NEW y \in Seq(STRING), NEW z \in Seq(STRING)
             PROVE  x \o (y \o z) = (x \o y) \o z
  OBVIOUS
<1>1. (x \o y) \o z = x \o (y \o z)
  BY ONLY x \in Seq(STRING), y \in Seq(STRING), z \in Seq(STRING), ConcatAssociative
<1> QED
  BY ONLY <1>1

LEMMA MinOfTwo ==
  ASSUME NEW m \in Nat, NEW n \in Nat
  PROVE  Min({m, n}) = IF m <= n THEN m ELSE n
<1>1. Min({m, n}) \in {m, n} /\ \A y \in {m, n} : Min({m, n}) <= y
  BY MinIs
<1> QED
  BY <1>1

-----------------------------------------------------------------------------
\* Sequences: what After and a concatenation leave, and the first mark.
LEMMA AfterIs ==
  ASSUME NEW S, NEW b \in Seq(S), NEW n \in Nat, n <= Len(b)
  PROVE  /\ After(b, n) \in Seq(S) /\ Len(After(b, n)) = Len(b) - n
         /\ \A i \in 1..(Len(b) - n) : After(b, n)[i] = b[n + i]
<1>1. Len(b) \in Nat /\ \A i \in 1..Len(b) : b[i] \in S
  OBVIOUS
<1>2. \A i \in (n + 1)..Len(b) : b[i] \in S
  BY <1>1
<1>3. /\ After(b, n) \in Seq(S)
      /\ Len(After(b, n)) = IF n + 1 <= Len(b) THEN Len(b) - (n + 1) + 1 ELSE 0
      /\ \A i \in 1..(Len(b) - (n + 1) + 1) : After(b, n)[i] = b[n + 1 + i - 1]
  BY <1>1, <1>2, SubSeqProperties DEF After
<1> QED
  BY <1>1, <1>3

LEMMA UpToIs ==
  ASSUME NEW S, NEW b \in Seq(S), NEW n \in Nat, n <= Len(b)
  PROVE  /\ SubSeq(b, 1, n) \in Seq(S) /\ Len(SubSeq(b, 1, n)) = n
         /\ \A i \in 1..n : SubSeq(b, 1, n)[i] = b[i]
<1>1. Len(b) \in Nat /\ \A i \in 1..n : b[i] \in S
  OBVIOUS
<1>2. /\ SubSeq(b, 1, n) \in Seq(S)
      /\ Len(SubSeq(b, 1, n)) = IF 1 <= n THEN n - 1 + 1 ELSE 0
      /\ \A i \in 1..(n - 1 + 1) : SubSeq(b, 1, n)[i] = b[1 + i - 1]
  BY <1>1, SubSeqProperties
<1> QED
  BY <1>1, <1>2

LEMMA AfterConcat ==
  ASSUME NEW S, NEW a \in Seq(S), NEW b \in Seq(S), NEW n \in Nat, n <= Len(a)
  PROVE  After(a \o b, n) = After(a, n) \o b /\ SubSeq(a \o b, 1, n) = SubSeq(a, 1, n)
<1>1. /\ a \o b \in Seq(S) /\ Len(a \o b) = Len(a) + Len(b)
      /\ Len(a) \in Nat /\ Len(b) \in Nat
      /\ \A i \in 1..(Len(a) + Len(b)) :
           (a \o b)[i] = IF i <= Len(a) THEN a[i] ELSE b[i - Len(a)]
  BY ConcatProperties
<1> DEFINE ab == a \o b
           x  == After(a, n)
           xb == x \o b
           y  == After(ab, n)
<1>2. /\ x \in Seq(S) /\ Len(x) = Len(a) - n
      /\ \A i \in 1..(Len(a) - n) : x[i] = a[n + i]
  BY AfterIs
<1>3. /\ xb \in Seq(S) /\ Len(xb) = Len(x) + Len(b)
      /\ \A i \in 1..(Len(x) + Len(b)) : xb[i] = IF i <= Len(x) THEN x[i] ELSE b[i - Len(x)]
  BY <1>2, ConcatProperties
<1>4. /\ y \in Seq(S) /\ Len(y) = Len(ab) - n
      /\ \A i \in 1..(Len(ab) - n) : y[i] = ab[n + i]
  <2> HIDE DEF ab
  <2>1. ab \in Seq(S) /\ n <= Len(ab)
    BY <1>1 DEF ab
  <2> QED
    BY <2>1, AfterIs DEF y
<1>5. Len(y) = Len(xb)
  BY <1>1, <1>2, <1>3, <1>4
<1>6. ASSUME NEW i \in 1..Len(y)
      PROVE  y[i] = xb[i]
  <2>1. i \in Int /\ 1 <= i /\ i <= Len(a) + Len(b) - n
    BY <1>1, <1>4
  <2>2. y[i] = ab[n + i] /\ n + i \in 1..(Len(a) + Len(b))
    BY <2>1, <1>1, <1>4
  <2>3. xb[i] = IF i <= Len(x) THEN x[i] ELSE b[i - Len(x)]
    BY <2>1, <1>1, <1>2, <1>3
  <2>4. y[i] = IF n + i <= Len(a) THEN a[n + i] ELSE b[n + i - Len(a)]
    BY <2>2, <1>1
  <2>5. CASE n + i <= Len(a)
    BY <2>1, <2>3, <2>4, <2>5, <1>2, <1>1
  <2>6. CASE ~(n + i <= Len(a))
    <3>1. ~(i <= Len(x)) /\ i - Len(x) = n + i - Len(a)
      BY <2>1, <2>6, <1>1, <1>2
    <3> QED
      BY <2>3, <2>4, <2>6, <3>1
  <2> QED
    BY <2>5, <2>6
<1>7. y = xb
  <2> HIDE DEF y, xb
  <2> QED
    BY <1>3, <1>4, <1>5, <1>6, SeqEqual
<1> DEFINE u == SubSeq(ab, 1, n)
           v == SubSeq(a, 1, n)
<1>8. /\ u \in Seq(S) /\ Len(u) = n /\ \A i \in 1..n : u[i] = ab[i]
      /\ v \in Seq(S) /\ Len(v) = n /\ \A i \in 1..n : v[i] = a[i]
  <2> HIDE DEF ab
  <2>1. n <= Len(ab) /\ ab \in Seq(S)
    BY <1>1 DEF ab
  <2> QED
    BY <2>1, UpToIs
<1>9. \A i \in 1..n : u[i] = v[i]
  BY <1>1, <1>8
<1>10. u = v
  <2> HIDE DEF u, v
  <2> QED
    BY <1>8, <1>9, SeqEqual
<1> QED
  BY <1>7, <1>10

Marked(b, m, i) == i \in 1..(Len(b) - Len(m) + 1) /\ SubSeq(b, i, i + Len(m) - 1) = m

LEMMA MarkIs ==
  ASSUME NEW S, NEW b \in Seq(S), NEW m, Len(m) \in Nat \ {0}
  PROVE  LET p == IndexOfMark(b, m) IN
         /\ p = 0 \/ Marked(b, m, p)
         /\ \A i : Marked(b, m, i) => p # 0 /\ p <= i
<1> DEFINE at == {i \in 1..(Len(b) - Len(m) + 1) : SubSeq(b, i, i + Len(m) - 1) = m}
           p  == IndexOfMark(b, m)
<1>1. Len(b) \in Nat
  OBVIOUS
<1>2. p = IF at = {} THEN 0 ELSE Min(at)
  BY DEF IndexOfMark
<1>3. \A i : i \in at <=> Marked(b, m, i)
  BY DEF Marked
<1>4. CASE at = {}
  <2> HIDE DEF at
  <2> QED
    BY <1>2, <1>3, <1>4
<1>5. CASE at # {}
  <2>1. at \subseteq Nat \ {0}
    BY <1>1
  <2> HIDE DEF at
  <2>2. Min(at) \in at /\ \A y \in at : Min(at) <= y
    BY <1>5, <2>1, MinIs
  <2>3. p \in at /\ \A y \in at : p <= y
    BY <1>2, <1>5, <2>2
  <2>4. p # 0
    BY <2>1, <2>3
  <2> QED
    BY <1>3, <2>3, <2>4
<1> HIDE DEF at
<1> QED
  BY <1>4, <1>5

LEMMA MarkedInFront ==
  ASSUME NEW S, NEW a \in Seq(S), NEW b \in Seq(S), NEW m, Len(m) \in Nat \ {0},
         NEW i, i \in 1..(Len(a) - Len(m) + 1)
  PROVE  Marked(a \o b, m, i) <=> Marked(a, m, i)
<1>1. a \o b \in Seq(S) /\ Len(a \o b) = Len(a) + Len(b) /\ Len(a) \in Nat /\ Len(b) \in Nat
  BY ConcatProperties
<1>2. i \in 1..Len(a) /\ i + Len(m) - 1 \in 1..Len(a) /\ i \in 1..(Len(a) + Len(b) - Len(m) + 1)
  BY <1>1
<1>3. SubSeq(a \o b, i, i + Len(m) - 1) = SubSeq(a, i, i + Len(m) - 1)
  BY <1>2, SubSeqOfConcat1
<1> QED
  BY <1>1, <1>2, <1>3 DEF Marked

\* More bytes behind it do not move the first mark.
LEMMA MarkStays ==
  ASSUME NEW S, NEW a \in Seq(S), NEW b \in Seq(S), NEW m, Len(m) \in Nat \ {0},
         IndexOfMark(a, m) # 0
  PROVE  IndexOfMark(a \o b, m) = IndexOfMark(a, m)
<1> DEFINE p == IndexOfMark(a, m)
           q == IndexOfMark(a \o b, m)
<1>1. a \o b \in Seq(S) /\ Len(a) \in Nat
  BY ConcatProperties
<1>2. Marked(a, m, p) /\ \A i : Marked(a, m, i) => p <= i
  BY MarkIs
<1>3. (q = 0 \/ Marked(a \o b, m, q)) /\ \A i : Marked(a \o b, m, i) => q # 0 /\ q <= i
  BY <1>1, MarkIs
<1> HIDE DEF p, q
<1>4. p \in 1..(Len(a) - Len(m) + 1)
  BY <1>2 DEF Marked
<1>5. Marked(a \o b, m, p)
  BY <1>2, <1>4, MarkedInFront
<1>6. q # 0 /\ q <= p /\ Marked(a \o b, m, q)
  BY <1>3, <1>5
<1>7. q \in Int /\ 1 <= q
  BY <1>1, <1>6 DEF Marked
<1>8. q \in 1..(Len(a) - Len(m) + 1)
  BY <1>1, <1>4, <1>6, <1>7
<1>9. p <= q
  BY <1>2, <1>6, <1>8, MarkedInFront
<1>10. q = p
  BY <1>4, <1>6, <1>7, <1>9
<1> QED
  BY <1>10 DEF p, q

LEMMA LineEnd ==
  ASSUME NEW S, NEW b \in Seq(S)
  PROVE  LET nl == indexOfCRLF(b) IN nl \in Nat /\ (nl # 0 => nl + 1 <= Len(b))
<1>1. Len(Crlf) = 2 /\ Len(b) \in Nat
  BY DEF Crlf
<1> DEFINE nl == indexOfCRLF(b)
           m  == Crlf
<1>2. nl = 0 \/ Marked(b, m, nl)
  <2>1. Len(m) \in Nat \ {0} /\ nl = IndexOfMark(b, m)
    BY <1>1 DEF indexOfCRLF
  <2> HIDE DEF m, nl
  <2> QED
    BY <2>1, MarkIs
<1>3. CASE Marked(b, m, nl)
  BY <1>1, <1>3 DEF Marked
<1> QED
  BY <1>2, <1>3

LEMMA LineEndStays ==
  ASSUME NEW S, NEW a \in Seq(S), NEW b \in Seq(S), indexOfCRLF(a) # 0
  PROVE  indexOfCRLF(a \o b) = indexOfCRLF(a)
<1>1. Len(Crlf) = 2
  BY DEF Crlf
<1> QED
  BY <1>1, MarkStays DEF indexOfCRLF

LEMMA HeadEnd4 ==
  ASSUME NEW S, NEW b \in Seq(S)
  PROVE  LET he == headEndIndex(b) IN he \in Nat /\ (he # 0 => he + 3 <= Len(b))
<1>1. Len(Crlf \o Crlf) = 4 /\ Len(b) \in Nat
  BY DEF Crlf
<1> DEFINE he == headEndIndex(b)
           m  == Crlf \o Crlf
<1>2. he = 0 \/ Marked(b, m, he)
  <2>1. Len(m) \in Nat \ {0} /\ he = IndexOfMark(b, m)
    BY <1>1 DEF headEndIndex
  <2> HIDE DEF m, he
  <2> QED
    BY <2>1, MarkIs
<1>3. CASE Marked(b, m, he)
  BY <1>1, <1>3 DEF Marked
<1> QED
  BY <1>2, <1>3

LEMMA HeadEndStays ==
  ASSUME NEW S, NEW a \in Seq(S), NEW b \in Seq(S), headEndIndex(a) # 0
  PROVE  headEndIndex(a \o b) = headEndIndex(a)
<1>1. Len(Crlf \o Crlf) = 4
  BY DEF Crlf
<1> DEFINE m == Crlf \o Crlf
<1>2. Len(m) \in Nat \ {0} /\ headEndIndex(a) = IndexOfMark(a, m)
        /\ headEndIndex(a \o b) = IndexOfMark(a \o b, m)
  BY <1>1 DEF headEndIndex
<1> HIDE DEF m
<1> QED
  BY <1>2, MarkStays

-----------------------------------------------------------------------------
\* The chunk loop: every turn keeps its types and comes nearer its end.
Measure(s) ==
  IF s.dec.done \/ s.dec.bad THEN 0
  ELSE 1 + Len(s.buf) + Len(s.buf) + (IF s.dec.state = "data" THEN 1 ELSE 0)

\* A loop over the symbols of S, that leaves the decoder's pending bytes alone.
Over(S, s) == s \in LoopStates /\ s.buf \in Seq(S) /\ s.out \in Seq(S)

LEMMA MeasureIsNat ==
  ASSUME NEW s \in LoopStates
  PROVE  Measure(s) \in Nat
<1> DEFINE n == Len(s.buf)
           k == IF s.dec.state = "data" THEN 1 ELSE 0
<1>1. n \in Nat /\ k \in Nat
  BY DEF LoopStates
<1>2. Measure(s) = IF s.dec.done \/ s.dec.bad THEN 0 ELSE 1 + n + n + k
  BY DEF Measure
<1> HIDE DEF n, k
<1>3. 1 + n + n + k \in Nat
  BY <1>1
<1> QED
  BY <1>2, <1>3

LEMMA TakeSizeTyped ==
  ASSUME NEW S \in SUBSET STRING, NEW s, Over(S, s), ~s.dec.done, ~s.dec.bad, NEW size \in Nat,
         Len(s.buf) >= 3, s.dec.state = "size"
  PROVE  LET t == TakeSize(s, size) IN
         Over(S, t) /\ t.dec.pending = s.dec.pending /\ Measure(t) < Measure(s)
<1> DEFINE t == TakeSize(s, size)
           b == After(s.buf, 3)
<1>1. s.buf \in Seq(STRING) /\ Len(s.buf) \in Nat /\ s.dec \in Decoders /\ s.out \in Seq(STRING)
  BY DEF Over, LoopStates
<1>2. b \in Seq(S) /\ b \in Seq(STRING) /\ Len(b) = Len(s.buf) - 3
  BY <1>1, AfterIs DEF Over
<1> HIDE DEF b
<1>3. t = [s EXCEPT !.dec = [s.dec EXCEPT !.state = IF size = 0 THEN "trailer" ELSE "data",
                                          !.need = size],
                    !.buf = b]
  BY DEF TakeSize, b, Over, LoopStates, Decoders
<1>4. t.dec = [s.dec EXCEPT !.state = IF size = 0 THEN "trailer" ELSE "data", !.need = size]
  BY <1>3 DEF Over, LoopStates
<1>5. t.dec \in Decoders /\ t.dec.pending = s.dec.pending /\ t.dec.done = FALSE /\ t.dec.bad = FALSE
  BY <1>1, <1>4 DEF Decoders
<1>6. t.buf = b /\ t.out = s.out /\ t \in LoopStates
  BY <1>1, <1>2, <1>3, <1>5 DEF Over, LoopStates
<1>7. Measure(t) < Measure(s)
  BY <1>1, <1>2, <1>5, <1>6 DEF Measure
<1> HIDE DEF t
<1> QED
  BY <1>2, <1>5, <1>6, <1>7 DEF Over, t

LEMMA TakeDataTyped ==
  ASSUME NEW S \in SUBSET STRING, NEW s, Over(S, s), ~s.dec.done, ~s.dec.bad,
         s.buf # <<>>, s.dec.state = "data"
  PROVE  LET t    == TakeData(s)
             take == Min({s.dec.need, Len(s.buf)}) IN
         /\ Over(S, t) /\ t.dec.pending = s.dec.pending /\ Measure(t) < Measure(s)
         /\ t.out = s.out \o SubSeq(s.buf, 1, take) /\ take \in 0..Len(s.buf)
<1> DEFINE take == Min({s.dec.need, Len(s.buf)})
           t == TakeData(s)
           b == After(s.buf, take)
           u == SubSeq(s.buf, 1, take)
           o == s.out \o u
<1>1. /\ s.buf \in Seq(STRING) /\ Len(s.buf) \in Nat \ {0} /\ s.dec \in Decoders /\ s.out \in Seq(STRING)
      /\ s.dec.need \in Nat /\ s.buf \in Seq(S) /\ s.out \in Seq(S)
  BY DEF Over, LoopStates, Decoders
<1>2. take = IF s.dec.need <= Len(s.buf) THEN s.dec.need ELSE Len(s.buf)
  BY <1>1, MinOfTwo
<1>3. take \in Nat /\ take <= Len(s.buf) /\ s.dec.need - take \in Nat
  BY <1>1, <1>2
<1> HIDE DEF take
<1>4. b \in Seq(S) /\ b \in Seq(STRING) /\ Len(b) = Len(s.buf) - take
  BY <1>1, <1>3, AfterIs
<1>5. u \in Seq(S) /\ u \in Seq(STRING)
  BY <1>1, <1>3, UpToIs
<1>6. o \in Seq(S) /\ o \in Seq(STRING)
  BY <1>1, <1>5, ConcatProperties
<1> HIDE DEF b, u, o
<1> DEFINE d == [s.dec EXCEPT !.need = s.dec.need - take,
                              !.state = IF s.dec.need = take THEN "crlf" ELSE "data"]
<1>7. t = [s EXCEPT !.dec = d, !.buf = b, !.out = o]
  BY DEF TakeData, b, o, u, take, Over, LoopStates, Decoders
<1>8. /\ d \in Decoders /\ d.pending = s.dec.pending /\ d.done = FALSE /\ d.bad = FALSE
      /\ d.state = IF s.dec.need = take THEN "crlf" ELSE "data"
  BY <1>1, <1>3 DEF Over, LoopStates, Decoders
<1> HIDE DEF d
<1>9. t.dec = d /\ t.buf = b /\ t.out = o /\ t \in LoopStates
  BY <1>1, <1>4, <1>6, <1>7, <1>8 DEF Over, LoopStates
<1>10. Measure(t) < Measure(s)
  <2>1. Measure(t) = 1 + Len(b) + Len(b) + (IF s.dec.need = take THEN 0 ELSE 1)
    BY <1>8, <1>9 DEF Measure
  <2>2. Measure(s) = 2 + Len(s.buf) + Len(s.buf)
    BY <1>1 DEF Measure
  <2>3. s.dec.need # take => take > 0
    BY <1>1, <1>2
  <2> DEFINE n == Len(s.buf)
             k == Len(b)
  <2>4. n \in Nat /\ k \in Nat /\ take \in Nat /\ k = n - take
    BY <1>1, <1>3, <1>4
  <2>5. Measure(t) = 1 + k + k + (IF s.dec.need = take THEN 0 ELSE 1) /\ Measure(s) = 2 + n + n
    BY <2>1, <2>2
  <2> HIDE DEF n, k
  <2>6. CASE s.dec.need = take
    BY <2>4, <2>5, <2>6
  <2>7. CASE s.dec.need # take
    BY <2>3, <2>4, <2>5, <2>7
  <2> QED
    BY <2>6, <2>7
<1>11. t.out = s.out \o SubSeq(s.buf, 1, take)
  BY <1>9 DEF o, u
<1> HIDE DEF t
<1>12. Over(S, t) /\ take \in 0..Len(s.buf) /\ t.dec.pending = s.dec.pending
  BY <1>1, <1>3, <1>4, <1>6, <1>8, <1>9 DEF Over
<1> QED
  BY <1>10, <1>11, <1>12 DEF t, take

LEMMA TurnTyped ==
  ASSUME NEW S \in SUBSET STRING, NEW s, Over(S, s), ~Stops(s)
  PROVE  LET t == Turn(s) IN
         Over(S, t) /\ t.dec.pending = s.dec.pending /\ Measure(t) < Measure(s)
<1> DEFINE t == Turn(s)
           nl == indexOfCRLF(s.buf)
<1>1. /\ s.buf \in Seq(STRING) /\ Len(s.buf) \in Nat /\ s.dec \in Decoders /\ s.out \in Seq(STRING)
      /\ s.buf \in Seq(S) /\ s.out \in Seq(S) /\ ~s.dec.done /\ ~s.dec.bad
      /\ s.dec.state \in {"size", "data", "crlf", "trailer"}
  BY DEF Over, LoopStates, Decoders, Stops
<1>2. nl \in Nat /\ (nl # 0 => nl + 1 <= Len(s.buf))
  BY <1>1, LineEnd
<1>3. CASE s.dec.state = "size"
  <2>1. nl # 0
    BY <1>3 DEF Stops
  <2>2. CASE nl = 2 /\ s.buf[1] \in DOMAIN SizeOf
    <3>1. t = TakeSize(s, SizeOf[s.buf[1]]) /\ SizeOf[s.buf[1]] \in Nat
      BY <1>3, <2>2, HttpWireAssumption DEF Turn
    <3>2. Len(s.buf) >= 3
      BY <1>1, <1>2, <2>2
    <3> DEFINE size == SizeOf[s.buf[1]]
    <3> HIDE DEF size, t
    <3>3. t = TakeSize(s, size) /\ size \in Nat
      BY <3>1 DEF size
    <3>4. Over(S, t) /\ t.dec.pending = s.dec.pending /\ Measure(t) < Measure(s)
      BY <1>1, <1>3, <3>2, <3>3, TakeSizeTyped
    <3> QED
      BY <3>4 DEF t
  <2>3. CASE ~(nl = 2 /\ s.buf[1] \in DOMAIN SizeOf)
    <3>1. t = [s EXCEPT !.dec = [s.dec EXCEPT !.bad = TRUE]]
      BY <1>3, <2>3 DEF Turn, Over, LoopStates, Decoders
    <3>2. t.dec = [s.dec EXCEPT !.bad = TRUE] /\ t.buf = s.buf /\ t.out = s.out /\ t \in LoopStates
      <4> DEFINE d == [s.dec EXCEPT !.bad = TRUE]
      <4>1. s \in LoopStates
        BY <1>1 DEF Over
      <4>2. d \in Decoders
        BY <4>1 DEF LoopStates, Decoders
      <4>3. t = [s EXCEPT !.dec = d]
        BY <3>1
      <4> HIDE DEF d, t
      <4>4. t.dec = d /\ t.buf = s.buf /\ t.out = s.out /\ t \in LoopStates
        BY ONLY <4>1, <4>2, <4>3 DEF LoopStates
      <4> QED
        BY <4>4 DEF d
    <3>3. t.dec.bad = TRUE /\ t.dec.pending = s.dec.pending
      BY <1>1, <3>2 DEF Decoders
    <3> DEFINE n == Len(s.buf)
    <3>4. n \in Nat /\ Measure(t) = 0 /\ Measure(s) = 1 + n + n + 0
      BY <1>1, <1>3, <3>3 DEF Measure
    <3> HIDE DEF n
    <3>5. Measure(t) < Measure(s)
      BY <3>4
    <3> HIDE DEF t
    <3> QED
      BY <1>1, <3>2, <3>3, <3>5 DEF Over, t
  <2> QED
    BY <2>2, <2>3
<1>4. CASE s.dec.state = "data"
  <2>1. t = TakeData(s) /\ s.buf # <<>>
    BY <1>4 DEF Turn, Stops
  <2> QED
    BY <1>1, <1>4, <2>1, TakeDataTyped
<1>5. CASE s.dec.state = "crlf"
  <2> DEFINE b == After(s.buf, 2)
  <2>1. Len(s.buf) >= 2
    BY <1>1, <1>5 DEF Stops
  <2>2. b \in Seq(S) /\ b \in Seq(STRING) /\ Len(b) = Len(s.buf) - 2
    BY <1>1, <2>1, AfterIs
  <2> HIDE DEF b
  <2>3. t = [s EXCEPT !.dec = [s.dec EXCEPT !.state = "size"], !.buf = b]
    BY <1>5 DEF Turn, b, Over, LoopStates, Decoders
  <2>4. t.dec = [s.dec EXCEPT !.state = "size"] /\ t.buf = b /\ t.out = s.out
    BY <1>1, <2>3 DEF Over, LoopStates
  <2>5. t.dec \in Decoders /\ t.dec.pending = s.dec.pending /\ t.dec.state = "size"
    BY <1>1, <2>4 DEF Decoders
  <2>6. t \in LoopStates
    BY <1>1, <2>2, <2>3, <2>4, <2>5 DEF Over, LoopStates
  <2>7. Measure(t) < Measure(s)
    BY <1>1, <1>5, <2>1, <2>2, <2>4, <2>5 DEF Measure
  <2> HIDE DEF t
  <2> QED
    BY <1>1, <2>2, <2>4, <2>5, <2>6, <2>7 DEF Over, t
<1>6. CASE s.dec.state = "trailer"
  <2> DEFINE b == After(s.buf, nl + 1)
  <2>1. nl # 0
    BY <1>6 DEF Stops
  <2>2. b \in Seq(S) /\ b \in Seq(STRING) /\ Len(b) = Len(s.buf) - (nl + 1)
    <3> DEFINE a == s.buf
               k == nl + 1
    <3>1. a \in Seq(S) /\ a \in Seq(STRING) /\ k \in Nat /\ k <= Len(a)
      BY <1>1, <1>2, <2>1 DEF Over, LoopStates
    <3> HIDE DEF a, k
    <3>2. After(a, k) \in Seq(S) /\ After(a, k) \in Seq(STRING) /\ Len(After(a, k)) = Len(a) - k
      BY ONLY <3>1, AfterIs
    <3> QED
      BY <3>2 DEF a, k
  <2> HIDE DEF b
  <2>3. t = [s EXCEPT !.dec = [s.dec EXCEPT !.done = (nl = 1)], !.buf = b]
    BY <1>6 DEF Turn, TakeTrailer, b, Over, LoopStates, Decoders
  <2>4. t.dec = [s.dec EXCEPT !.done = (nl = 1)] /\ t.buf = b /\ t.out = s.out
    BY <1>1, <2>3 DEF Over, LoopStates
  <2>5. /\ t.dec \in Decoders /\ t.dec.pending = s.dec.pending /\ t.dec.state = "trailer"
        /\ t.dec.bad = FALSE
    BY <1>1, <1>6, <2>4 DEF Decoders
  <2>6. t \in LoopStates
    BY <1>1, <2>2, <2>3, <2>4, <2>5 DEF Over, LoopStates
  <2>7. Measure(t) < Measure(s)
    BY <1>1, <1>2, <1>6, <2>1, <2>2, <2>4, <2>5 DEF Measure
  <2> HIDE DEF t
  <2> QED
    BY <1>1, <2>2, <2>4, <2>5, <2>6, <2>7 DEF Over, t
<1> QED
  BY <1>1, <1>3, <1>4, <1>5, <1>6

LEMMA TurnIsState ==
  ASSUME NEW s \in LoopStates, ~Stops(s)
  PROVE  Turn(s) \in LoopStates /\ Measure(Turn(s)) < Measure(s)
<1>1. STRING \in SUBSET STRING /\ Over(STRING, s)
  BY DEF Over, LoopStates
<1> QED
  BY <1>1, TurnTyped DEF Over

\* Loop is what its definition says: a function that satisfies it exists, the
\* one that maps a state to the end that every set closed under Turn has.
Closed(X) == \A t \in X : ~Stops(t) => Turn(t) \in X
Ends(s) == {e \in LoopStates : /\ Stops(e)
                               /\ \A X \in SUBSET LoopStates : s \in X /\ Closed(X) => e \in X}

LEMMA EndsOfStopped ==
  ASSUME NEW s \in LoopStates, Stops(s)
  PROVE  Ends(s) = {s}
<1>1. {s} \in SUBSET LoopStates /\ s \in {s} /\ Closed({s})
  BY DEF Closed
<1>2. s \in Ends(s)
  BY DEF Ends
<1>3. \A e \in Ends(s) : e = s
  BY <1>1 DEF Ends
<1> QED
  BY <1>2, <1>3

LEMMA EndsOfTurn ==
  ASSUME NEW s \in LoopStates, ~Stops(s)
  PROVE  Ends(s) = Ends(Turn(s))
<1>1. Turn(s) \in LoopStates
  BY TurnIsState
<1>2. ASSUME NEW e \in Ends(s)
      PROVE  e \in Ends(Turn(s))
  <2>1. e \in LoopStates /\ Stops(e) /\ e # s
    BY <1>2 DEF Ends
  <2>2. ASSUME NEW X \in SUBSET LoopStates, Turn(s) \in X, Closed(X)
        PROVE  e \in X
    <3>1. X \cup {s} \in SUBSET LoopStates /\ s \in X \cup {s} /\ Closed(X \cup {s})
      BY <2>2 DEF Closed
    <3>2. e \in X \cup {s}
      BY <1>2, <3>1 DEF Ends
    <3> QED
      BY <2>1, <3>2
  <2> QED
    BY <2>1, <2>2 DEF Ends
<1>3. ASSUME NEW e \in Ends(Turn(s))
      PROVE  e \in Ends(s)
  <2>1. e \in LoopStates /\ Stops(e)
    BY <1>3 DEF Ends
  <2>2. ASSUME NEW X \in SUBSET LoopStates, s \in X, Closed(X)
        PROVE  e \in X
    BY <1>3, <2>2 DEF Ends, Closed
  <2> QED
    BY <2>1, <2>2 DEF Ends
<1> QED
  BY <1>2, <1>3

LEMMA LoopIs ==
  Loop = [s \in LoopStates |-> IF Stops(s) THEN s ELSE Loop[Turn(s)]]
<1> DEFINE G == [s \in LoopStates |-> CHOOSE e : e \in Ends(s)]
           H == [s \in LoopStates |-> IF Stops(s) THEN s ELSE G[Turn(s)]]
<1>1. ASSUME NEW s \in LoopStates
      PROVE  G[s] = H[s]
  <2>1. CASE Stops(s)
    <3>1. G[s] = CHOOSE e : e \in {s}
      BY <2>1, EndsOfStopped
    <3> QED
      BY <2>1, <3>1
  <2>2. CASE ~Stops(s)
    <3>1. Turn(s) \in LoopStates /\ Ends(s) = Ends(Turn(s))
      BY <2>2, TurnIsState, EndsOfTurn
    <3>2. G[Turn(s)] = CHOOSE e : e \in Ends(Turn(s))
      BY <3>1
    <3>3. G[s] = CHOOSE e : e \in Ends(Turn(s))
      BY <3>1
    <3> QED
      BY <2>2, <3>2, <3>3
  <2> QED
    BY <2>1, <2>2
<1>2. G = H
  BY <1>1
<1>3. G = [s \in LoopStates |-> IF Stops(s) THEN s ELSE G[Turn(s)]]
  BY <1>2
<1> HIDE DEF G
<1> QED
  BY <1>3, Zenon DEF Loop

LEMMA LoopAt ==
  ASSUME NEW s \in LoopStates
  PROVE  /\ Stops(s) => Loop[s] = s
         /\ ~Stops(s) => Turn(s) \in LoopStates /\ Loop[s] = Loop[Turn(s)]
BY LoopIs, TurnIsState

\* An induction over the states: what passes from a turn to the loop before it.
LEMMA LoopInduction ==
  ASSUME NEW T, T \subseteq LoopStates,
         \A s \in LoopStates : Stops(s) => s \in T,
         \A s \in LoopStates : ~Stops(s) /\ Turn(s) \in T => s \in T
  PROVE  LoopStates \subseteq T
<1> DEFINE N == {n \in Nat : \A s \in LoopStates : Measure(s) <= n => s \in T}
<1>1. \A s \in LoopStates : Measure(s) \in Nat
  BY MeasureIsNat
<1>2. 0 \in N
  <2>1. ASSUME NEW s \in LoopStates, Measure(s) <= 0
        PROVE  s \in T
    <3>1. CASE Stops(s)
      BY <3>1
    <3>2. CASE ~Stops(s)
      BY <1>1, <2>1, <3>2, TurnIsState
    <3> QED
      BY <3>1, <3>2
  <2> QED
    BY <2>1
<1>3. ASSUME NEW n \in Nat, n \in N
      PROVE  n + 1 \in N
  <2>1. ASSUME NEW s \in LoopStates, Measure(s) <= n + 1
        PROVE  s \in T
    <3>1. CASE Stops(s)
      BY <3>1
    <3>2. CASE ~Stops(s)
      <4>1. /\ Turn(s) \in LoopStates /\ Measure(Turn(s)) < Measure(s)
            /\ Measure(s) \in Nat /\ Measure(Turn(s)) \in Nat
        BY <1>1, <3>2, TurnIsState
      <4>2. Measure(Turn(s)) <= n
        BY <2>1, <4>1
      <4> QED
        BY <1>3, <3>2, <4>1, <4>2
    <3> QED
      BY <3>1, <3>2
  <2> QED
    BY <2>1
<1>4. Nat \subseteq N
  <2> HIDE DEF N
  <2> QED
    BY <1>2, <1>3, Induction
<1>5. ASSUME NEW s \in LoopStates
      PROVE  s \in T
  <2>1. Measure(s) \in Nat /\ Measure(s) <= Measure(s)
    BY <1>1
  <2>2. Measure(s) \in N
    BY <1>4, <2>1
  <2> QED
    BY <2>1, <2>2
<1> QED
  BY <1>5

LEMMA LoopTyped ==
  ASSUME NEW S \in SUBSET STRING, NEW s, Over(S, s)
  PROVE  Over(S, Loop[s]) /\ Stops(Loop[s]) /\ Loop[s].dec.pending = s.dec.pending
<1> DEFINE Good(x) == Over(S, Loop[x]) /\ Stops(Loop[x]) /\ Loop[x].dec.pending = x.dec.pending
           T == {x \in LoopStates : Over(S, x) => Good(x)}
<1>1. ASSUME NEW x \in LoopStates, Stops(x)
      PROVE  x \in T
  BY <1>1, LoopAt
<1>2. ASSUME NEW x \in LoopStates, ~Stops(x), Turn(x) \in T
      PROVE  x \in T
  <2>1. Loop[x] = Loop[Turn(x)]
    BY <1>2, LoopAt
  <2>2. ASSUME Over(S, x)
        PROVE  Good(x)
    <3>1. Over(S, Turn(x)) /\ Turn(x).dec.pending = x.dec.pending
      BY <1>2, <2>2, TurnTyped
    <3> QED
      BY <1>2, <2>1, <3>1
  <2> QED
    BY <1>2, <2>2
<1>3. LoopStates \subseteq T
  <2> HIDE DEF T
  <2>1. T \subseteq LoopStates
    BY DEF T
  <2> QED
    BY <1>1, <1>2, <2>1, LoopInduction
<1>4. s \in LoopStates
  BY DEF Over
<1> QED
  BY <1>3, <1>4

\* push() returns a decoder and bytes, all of them of the alphabet it was given.
LEMMA PushTyped ==
  ASSUME NEW S \in SUBSET STRING, NEW d \in Decoders, d.pending \in Seq(S), NEW bytes \in Seq(S)
  PROVE  LET r == push(d, bytes) IN
         r.dec \in Decoders /\ r.dec.pending \in Seq(S) /\ r.out \in Seq(S)
<1> DEFINE r == push(d, bytes)
<1>1. <<>> \in Seq(S) /\ d.remaining \in Nat /\ Len(bytes) \in Nat /\ d.pending \in Seq(STRING)
      /\ d.mode \in {"none", "length", "chunked", "eof", "refused"}
  BY DEF Decoders
<1>2. CASE d.done \/ bytes = <<>> \/ d.mode \in {"none", "refused"}
  <2>1. r = [dec |-> d, out |-> <<>>]
    BY <1>2 DEF push
  <2> QED
    BY <1>1, <2>1
<1>3. CASE ~(d.done \/ bytes = <<>> \/ d.mode \in {"none", "refused"})
  <2>1. CASE d.mode = "eof"
    <3>1. r = [dec |-> d, out |-> bytes]
      BY <1>3, <2>1 DEF push
    <3> QED
      BY <3>1
  <2>2. CASE d.mode = "length"
    <3> DEFINE take == Min({d.remaining, Len(bytes)})
    <3>1. take \in Nat /\ take <= Len(bytes) /\ d.remaining - take \in Nat
      BY <1>1, MinOfTwo
    <3> DEFINE dd == [d EXCEPT !.remaining = d.remaining - take, !.done = (d.remaining = take)]
               u  == SubSeq(bytes, 1, take)
    <3>2. r = [dec |-> dd, out |-> u]
      BY <1>3, <2>2 DEF push
    <3> HIDE DEF take
    <3>3. u \in Seq(S)
      BY <3>1, UpToIs
    <3>4. dd \in Decoders /\ dd.pending = d.pending
      BY <3>1 DEF Decoders
    <3> HIDE DEF dd, u, r
    <3>5. r.dec \in Decoders /\ r.dec.pending \in Seq(S) /\ r.out \in Seq(S)
      BY <3>2, <3>3, <3>4
    <3> QED
      BY <3>5 DEF r
  <2>3. CASE d.mode = "chunked"
    <3> DEFINE b == d.pending \o bytes
               s == [dec |-> d, buf |-> b, out |-> <<>>]
               e == Loop[s]
    <3>1. r = Outcome[e]
      BY <1>3, <2>3 DEF push, Chunks
    <3>2. b \in Seq(S) /\ b \in Seq(STRING) /\ <<>> \in Seq(STRING)
      BY <1>1, ConcatProperties, SeqMonotonic
    <3> HIDE DEF b
    <3>3. Over(S, s) /\ s.dec = d
      BY <1>1, <3>2 DEF Over, LoopStates
    <3> HIDE DEF s
    <3>4. Over(S, e) /\ e.dec.pending = d.pending
      BY <3>3, LoopTyped
    <3> HIDE DEF e, r
    <3>5. e \in LoopStates /\ e.dec \in Decoders /\ e.buf \in Seq(S) /\ e.buf \in Seq(STRING)
          /\ e.out \in Seq(S)
      BY <3>4 DEF Over, LoopStates
    <3>6. r = IF e.dec.bad THEN [dec |-> e.dec, out |-> <<>>]
              ELSE [dec |-> [e.dec EXCEPT !.pending = e.buf], out |-> e.out]
      BY <3>1, <3>5 DEF Outcome
    <3>7. [e.dec EXCEPT !.pending = e.buf] \in Decoders
          /\ [e.dec EXCEPT !.pending = e.buf].pending = e.buf
      BY <3>5 DEF Decoders
    <3>8. r.dec \in Decoders /\ r.dec.pending \in Seq(S) /\ r.out \in Seq(S)
      BY <1>1, <3>4, <3>5, <3>6, <3>7
    <3> QED
      BY <3>8 DEF r
  <2> QED
    BY <1>1, <1>3, <2>1, <2>2, <2>3
<1> QED
  BY <1>2, <1>3

-----------------------------------------------------------------------------
\* What a turn does, field by field.
Sized(s)    == indexOfCRLF(s.buf) = 2 /\ s.buf[1] \in DOMAIN SizeOf
SizedDec(d, size) == [d EXCEPT !.state = IF size = 0 THEN "trailer" ELSE "data", !.need = size]
ShortDec(d, take) == [d EXCEPT !.need = d.need - take,
                               !.state = IF d.need = take THEN "crlf" ELSE "data"]
State(d, b, o) == [dec |-> d, buf |-> b, out |-> o]

LEMMA StateIs ==
  ASSUME NEW s \in LoopStates
  PROVE  /\ s = State(s.dec, s.buf, s.out)
         /\ s.dec \in Decoders /\ s.buf \in Seq(STRING) /\ s.out \in Seq(STRING)
         /\ Len(s.buf) \in Nat /\ s.dec.need \in Nat
         /\ s.dec.state \in {"size", "data", "crlf", "trailer"}
BY DEF LoopStates, State, Decoders

LEMMA StateTyped ==
  ASSUME NEW d \in Decoders, NEW b \in Seq(STRING), NEW o \in Seq(STRING)
  PROVE  /\ State(d, b, o) \in LoopStates
         /\ State(d, b, o).dec = d /\ State(d, b, o).buf = b /\ State(d, b, o).out = o
BY DEF LoopStates, State

LEMMA TurnFields ==
  ASSUME NEW s \in LoopStates, ~Stops(s)
  PROVE  /\ s.dec.state = "size" /\ Sized(s) =>
              Turn(s) = State(SizedDec(s.dec, SizeOf[s.buf[1]]), After(s.buf, 3), s.out)
         /\ s.dec.state = "size" /\ ~Sized(s) =>
              Turn(s) = State([s.dec EXCEPT !.bad = TRUE], s.buf, s.out)
         /\ s.dec.state = "data" =>
              LET take == Min({s.dec.need, Len(s.buf)}) IN
              Turn(s) = State(ShortDec(s.dec, take), After(s.buf, take),
                              s.out \o SubSeq(s.buf, 1, take))
         /\ s.dec.state = "crlf" =>
              Turn(s) = State([s.dec EXCEPT !.state = "size"], After(s.buf, 2), s.out)
         /\ s.dec.state = "trailer" =>
              LET nl == indexOfCRLF(s.buf) IN
              Turn(s) = State([s.dec EXCEPT !.done = (nl = 1)], After(s.buf, nl + 1), s.out)
<1>1. s.dec \in Decoders /\ s = State(s.dec, s.buf, s.out)
  BY StateIs
<1>2. CASE s.dec.state = "size" /\ Sized(s)
  BY <1>1, <1>2 DEF Turn, TakeSize, SizedDec, State, Sized, LoopStates, Decoders
<1>3. CASE s.dec.state = "size" /\ ~Sized(s)
  BY <1>1, <1>3 DEF Turn, State, Sized, LoopStates, Decoders
<1>4. CASE s.dec.state = "data"
  BY <1>1, <1>4 DEF Turn, TakeData, ShortDec, State, LoopStates, Decoders
<1>5. CASE s.dec.state = "crlf"
  BY <1>1, <1>5 DEF Turn, State, LoopStates, Decoders
<1>6. CASE s.dec.state = "trailer"
  BY <1>1, <1>6 DEF Turn, TakeTrailer, State, LoopStates, Decoders
<1>7. s.dec.state \in {"size", "data", "crlf", "trailer"}
  BY StateIs
<1> QED
  BY <1>2, <1>3, <1>4, <1>5, <1>6, <1>7

-----------------------------------------------------------------------------
\* The loop does not look at the pending bytes, nor at the body so far.
Frame(s, p, o) == State([s.dec EXCEPT !.pending = p], s.buf, o \o s.out)

LEMMA FrameIs ==
  ASSUME NEW s \in LoopStates, NEW p \in Seq(STRING), NEW o \in Seq(STRING)
  PROVE  /\ Frame(s, p, o) \in LoopStates
         /\ Frame(s, p, o).dec = [s.dec EXCEPT !.pending = p] /\ Frame(s, p, o).buf = s.buf
         /\ Frame(s, p, o).out = o \o s.out
         /\ Stops(Frame(s, p, o)) <=> Stops(s)
<1>1. s.dec \in Decoders /\ s.buf \in Seq(STRING) /\ s.out \in Seq(STRING)
  BY StateIs
<1> DEFINE d == [s.dec EXCEPT !.pending = p]
           q == o \o s.out
           f == Frame(s, p, o)
<1>2. /\ d \in Decoders /\ d.done = s.dec.done /\ d.bad = s.dec.bad /\ d.state = s.dec.state
  BY <1>1 DEF Decoders
<1>3. q \in Seq(STRING)
  BY <1>1, ConcatProperties
<1>4. f = State(d, s.buf, q)
  BY DEF Frame
<1> HIDE DEF d, q, f
<1>5. f \in LoopStates /\ f.dec = d /\ f.buf = s.buf /\ f.out = q
  BY <1>1, <1>2, <1>3, <1>4, StateTyped
<1>6. Stops(f) <=> Stops(s)
  BY <1>2, <1>5 DEF Stops
<1> QED
  BY <1>5, <1>6 DEF d, q, f

LEMMA TurnFrame ==
  ASSUME NEW s \in LoopStates, ~Stops(s), NEW p \in Seq(STRING), NEW o \in Seq(STRING)
  PROVE  Turn(Frame(s, p, o)) = Frame(Turn(s), p, o)
<1> DEFINE f == Frame(s, p, o)
           t == Turn(s)
<1>1. /\ f \in LoopStates /\ ~Stops(f) /\ f.dec = [s.dec EXCEPT !.pending = p]
      /\ f.buf = s.buf /\ f.out = o \o s.out
  BY FrameIs
<1>2. /\ s.dec \in Decoders /\ s.buf \in Seq(STRING) /\ s.out \in Seq(STRING)
      /\ s.dec.state \in {"size", "data", "crlf", "trailer"}
  BY StateIs
<1>3. f.dec.state = s.dec.state /\ f.dec.need = s.dec.need /\ (Sized(f) <=> Sized(s))
  BY <1>1, <1>2 DEF Decoders, Sized
<1>4. Frame(t, p, o) = State([t.dec EXCEPT !.pending = p], t.buf, o \o t.out)
  BY DEF Frame
<1> HIDE DEF f, t
<1>5. ASSUME s.dec.state = "size" /\ Sized(s)
      PROVE  Turn(f) = Frame(t, p, o)
  <2>1. t = State(SizedDec(s.dec, SizeOf[s.buf[1]]), After(s.buf, 3), s.out)
    BY <1>5, TurnFields DEF t
  <2>2. Turn(f) = State(SizedDec(f.dec, SizeOf[f.buf[1]]), After(f.buf, 3), f.out)
    BY <1>1, <1>3, <1>5, TurnFields
  <2>3. SizedDec(f.dec, SizeOf[s.buf[1]]) = [SizedDec(s.dec, SizeOf[s.buf[1]]) EXCEPT !.pending = p]
    BY <1>1, <1>2 DEF SizedDec, Decoders
  <2>4. t.dec = SizedDec(s.dec, SizeOf[s.buf[1]]) /\ t.buf = After(s.buf, 3) /\ t.out = s.out
    BY <2>1 DEF State
  <2> QED
    BY <1>1, <1>4, <2>2, <2>3, <2>4
<1>6. ASSUME s.dec.state = "size" /\ ~Sized(s)
      PROVE  Turn(f) = Frame(t, p, o)
  <2>1. t = State([s.dec EXCEPT !.bad = TRUE], s.buf, s.out)
    BY <1>6, TurnFields DEF t
  <2>2. Turn(f) = State([f.dec EXCEPT !.bad = TRUE], f.buf, f.out)
    BY <1>1, <1>3, <1>6, TurnFields
  <2>3. [f.dec EXCEPT !.bad = TRUE] = [[s.dec EXCEPT !.bad = TRUE] EXCEPT !.pending = p]
    BY <1>1, <1>2 DEF Decoders
  <2>4. t.dec = [s.dec EXCEPT !.bad = TRUE] /\ t.buf = s.buf /\ t.out = s.out
    BY <2>1 DEF State
  <2> QED
    BY <1>1, <1>4, <2>2, <2>3, <2>4
<1>7. ASSUME s.dec.state = "data"
      PROVE  Turn(f) = Frame(t, p, o)
  <2> DEFINE take == Min({s.dec.need, Len(s.buf)})
             u    == SubSeq(s.buf, 1, take)
  <2>1. t = State(ShortDec(s.dec, take), After(s.buf, take), s.out \o u)
    BY <1>7, TurnFields DEF t
  <2>2. Turn(f) = State(ShortDec(f.dec, take), After(f.buf, take), f.out \o u)
    BY <1>1, <1>3, <1>7, TurnFields
  <2>3. take \in Nat /\ take <= Len(s.buf)
    <3> DEFINE m == s.dec.need
               l == Len(s.buf)
    <3>1. m \in Nat /\ l \in Nat /\ take = Min({m, l})
      BY StateIs
    <3> HIDE DEF m, l, take
    <3>2. take = IF m <= l THEN m ELSE l
      BY ONLY <3>1, MinOfTwo
    <3>3. take \in Nat /\ take <= l
      BY ONLY <3>1, <3>2
    <3> QED
      BY ONLY <3>3 DEF l
  <2>4. u \in Seq(STRING)
    <3> HIDE DEF take
    <3> QED
      BY <1>2, <2>3, UpToIs
  <2> HIDE DEF take, u
  <2>5. ShortDec(f.dec, take) = [ShortDec(s.dec, take) EXCEPT !.pending = p]
    BY <1>1, <1>2 DEF ShortDec, Decoders
  <2>6. t.dec = ShortDec(s.dec, take) /\ t.buf = After(s.buf, take) /\ t.out = s.out \o u
    BY <2>1 DEF State
  <2>7. (o \o s.out) \o u = o \o (s.out \o u)
    <3> DEFINE so == s.out
    <3>1. so \in Seq(STRING)
      BY <1>2
    <3> HIDE DEF so
    <3>2. (o \o so) \o u = o \o (so \o u)
      BY <2>4, <3>1, ConcatAssociative
    <3> QED
      BY <3>2 DEF so
  <2> QED
    BY <1>1, <1>4, <2>2, <2>5, <2>6, <2>7
<1>8. ASSUME s.dec.state = "crlf"
      PROVE  Turn(f) = Frame(t, p, o)
  <2>1. t = State([s.dec EXCEPT !.state = "size"], After(s.buf, 2), s.out)
    BY <1>8, TurnFields DEF t
  <2>2. Turn(f) = State([f.dec EXCEPT !.state = "size"], After(f.buf, 2), f.out)
    BY <1>1, <1>3, <1>8, TurnFields
  <2>3. [f.dec EXCEPT !.state = "size"] = [[s.dec EXCEPT !.state = "size"] EXCEPT !.pending = p]
    BY <1>1, <1>2 DEF Decoders
  <2>4. t.dec = [s.dec EXCEPT !.state = "size"] /\ t.buf = After(s.buf, 2) /\ t.out = s.out
    BY <2>1 DEF State
  <2> QED
    BY <1>1, <1>4, <2>2, <2>3, <2>4
<1>9. ASSUME s.dec.state = "trailer"
      PROVE  Turn(f) = Frame(t, p, o)
  <2> DEFINE nl == indexOfCRLF(s.buf)
  <2>1. t = State([s.dec EXCEPT !.done = (nl = 1)], After(s.buf, nl + 1), s.out)
    BY <1>9, TurnFields DEF t
  <2>2. Turn(f) = State([f.dec EXCEPT !.done = (nl = 1)], After(f.buf, nl + 1), f.out)
    BY <1>1, <1>3, <1>9, TurnFields
  <2> HIDE DEF nl
  <2>3. [f.dec EXCEPT !.done = (nl = 1)] = [[s.dec EXCEPT !.done = (nl = 1)] EXCEPT !.pending = p]
    BY <1>1, <1>2 DEF Decoders
  <2>4. t.dec = [s.dec EXCEPT !.done = (nl = 1)] /\ t.buf = After(s.buf, nl + 1) /\ t.out = s.out
    BY <2>1 DEF State
  <2> QED
    BY <1>1, <1>4, <2>2, <2>3, <2>4
<1> QED
  BY <1>2, <1>5, <1>6, <1>7, <1>8, <1>9 DEF f, t

LEMMA LoopFrame ==
  ASSUME NEW s \in LoopStates, NEW p \in Seq(STRING), NEW o \in Seq(STRING)
  PROVE  Loop[Frame(s, p, o)] = Frame(Loop[s], p, o)
<1> DEFINE T == {x \in LoopStates : Loop[Frame(x, p, o)] = Frame(Loop[x], p, o)}
<1>1. ASSUME NEW x \in LoopStates, Stops(x)
      PROVE  x \in T
  <2>1. Loop[x] = x /\ Frame(x, p, o) \in LoopStates /\ Stops(Frame(x, p, o))
    BY <1>1, LoopAt, FrameIs
  <2> QED
    BY <2>1, LoopAt
<1>2. ASSUME NEW x \in LoopStates, ~Stops(x), Turn(x) \in T
      PROVE  x \in T
  <2>1. /\ Loop[x] = Loop[Turn(x)] /\ Frame(x, p, o) \in LoopStates /\ ~Stops(Frame(x, p, o))
    BY <1>2, LoopAt, FrameIs
  <2>2. Loop[Frame(x, p, o)] = Loop[Frame(Turn(x), p, o)]
    BY <1>2, <2>1, LoopAt, TurnFrame
  <2> QED
    BY <1>2, <2>1, <2>2
<1>3. LoopStates \subseteq T
  <2> HIDE DEF T
  <2>1. T \subseteq LoopStates
    BY DEF T
  <2> QED
    BY <1>1, <1>2, <2>1, LoopInduction
<1> QED
  BY <1>3

-----------------------------------------------------------------------------
\* Wherever the bytes are cut, the loop ends where it ends on all of them.
More(s, b) == State(s.dec, s.buf \o b, s.out)

LEMMA MoreIs ==
  ASSUME NEW s \in LoopStates, NEW b \in Seq(STRING)
  PROVE  /\ More(s, b) \in LoopStates /\ More(s, b).dec = s.dec
         /\ More(s, b).buf = s.buf \o b /\ More(s, b).out = s.out
<1>1. s.dec \in Decoders /\ s.buf \in Seq(STRING) /\ s.out \in Seq(STRING)
  BY StateIs
<1> DEFINE sb == s.buf \o b
<1>2. sb \in Seq(STRING)
  BY <1>1, ConcatProperties
<1>3. More(s, b) = State(s.dec, sb, s.out)
  BY DEF More
<1> HIDE DEF sb
<1>4. More(s, b) \in LoopStates /\ More(s, b).dec = s.dec /\ More(s, b).buf = sb /\ More(s, b).out = s.out
  BY <1>1, <1>2, <1>3, StateTyped
<1> QED
  BY <1>4 DEF sb

LEMMA FirstOfConcat ==
  ASSUME NEW S, NEW a \in Seq(S), NEW b \in Seq(S), a # <<>>
  PROVE  (a \o b)[1] = a[1] /\ a \o b # <<>>
<1>1. Len(a) \in Nat \ {0} /\ Len(b) \in Nat
  BY EmptySeq
<1>2. /\ a \o b \in Seq(S) /\ Len(a \o b) = Len(a) + Len(b)
      /\ \A i \in 1..(Len(a) + Len(b)) : (a \o b)[i] = IF i <= Len(a) THEN a[i] ELSE b[i - Len(a)]
  BY ConcatProperties
<1>3. (a \o b)[1] = a[1] /\ Len(a \o b) # 0
  BY <1>1, <1>2
<1> QED
  BY <1>3

LEMMA MoreGoesOn ==
  ASSUME NEW s \in LoopStates, ~Stops(s), NEW b \in Seq(STRING)
  PROVE  /\ ~Stops(More(s, b))
         /\ s.dec.state \in {"size", "trailer"} =>
              indexOfCRLF(s.buf) # 0 /\ indexOfCRLF(s.buf \o b) = indexOfCRLF(s.buf)
         /\ s.buf # <<>> /\ (s.buf \o b)[1] = s.buf[1]
<1>1. s.buf \in Seq(STRING) /\ Len(s.buf) \in Nat /\ s.dec.state \in {"size", "data", "crlf", "trailer"}
  BY StateIs
<1>2. More(s, b).dec = s.dec /\ More(s, b).buf = s.buf \o b
  BY MoreIs
<1>3. /\ s.buf \o b \in Seq(STRING) /\ Len(s.buf \o b) = Len(s.buf) + Len(b) /\ Len(b) \in Nat
  BY <1>1, ConcatProperties
<1>4. ASSUME s.dec.state \in {"size", "trailer"}
      PROVE  /\ indexOfCRLF(s.buf) # 0 /\ indexOfCRLF(s.buf \o b) = indexOfCRLF(s.buf)
             /\ s.buf # <<>>
  <2>1. indexOfCRLF(s.buf) # 0
    BY <1>4 DEF Stops
  <2>2. indexOfCRLF(s.buf) \in Nat /\ indexOfCRLF(s.buf) + 1 <= Len(s.buf)
    BY <1>1, <2>1, LineEnd
  <2>3. Len(s.buf) # 0
    BY <1>1, <2>1, <2>2
  <2> QED
    BY <1>1, <2>1, <2>3, LineEndStays
<1>5. s.buf # <<>>
  <2>1. CASE s.dec.state = "data"
    BY <2>1 DEF Stops
  <2>2. CASE s.dec.state = "crlf"
    BY <1>1, <2>2 DEF Stops
  <2> QED
    BY <1>1, <1>4, <2>1, <2>2
<1>6. (s.buf \o b)[1] = s.buf[1] /\ s.buf \o b # <<>>
  BY <1>1, <1>5, FirstOfConcat
<1>7. ~Stops(More(s, b))
  BY <1>1, <1>2, <1>3, <1>4, <1>6 DEF Stops
<1> QED
  BY <1>4, <1>5, <1>6, <1>7

LEMMA AfterWhole ==
  ASSUME NEW S, NEW a \in Seq(S), NEW b \in Seq(S), NEW k \in Nat, k <= Len(b)
  PROVE  /\ After(a \o b, Len(a) + k) = After(b, k)
         /\ SubSeq(a \o b, 1, Len(a) + k) = a \o SubSeq(b, 1, k)
<1> DEFINE ab == a \o b
           n  == Len(a) + k
           x  == After(ab, n)
           y  == After(b, k)
           u  == SubSeq(ab, 1, n)
           v  == SubSeq(b, 1, k)
           av == a \o v
<1>1. /\ ab \in Seq(S) /\ Len(ab) = Len(a) + Len(b) /\ Len(a) \in Nat /\ Len(b) \in Nat
      /\ \A i \in 1..(Len(a) + Len(b)) : ab[i] = IF i <= Len(a) THEN a[i] ELSE b[i - Len(a)]
  BY ConcatProperties
<1>2. n \in Nat /\ n <= Len(ab)
  BY <1>1
<1>3. /\ y \in Seq(S) /\ Len(y) = Len(b) - k /\ \A i \in 1..(Len(b) - k) : y[i] = b[k + i]
  BY AfterIs
<1>4. v \in Seq(S) /\ Len(v) = k /\ \A i \in 1..k : v[i] = b[i]
  BY UpToIs
<1> HIDE DEF ab, n, v
<1>5. /\ x \in Seq(S) /\ Len(x) = Len(ab) - n /\ \A i \in 1..(Len(ab) - n) : x[i] = ab[n + i]
  BY <1>1, <1>2, AfterIs
<1>6. u \in Seq(S) /\ Len(u) = n /\ \A i \in 1..n : u[i] = ab[i]
  BY <1>1, <1>2, UpToIs
<1>7. /\ av \in Seq(S) /\ Len(av) = Len(a) + k
      /\ \A i \in 1..(Len(a) + k) : av[i] = IF i <= Len(a) THEN a[i] ELSE v[i - Len(a)]
  BY <1>4, ConcatProperties
<1> HIDE DEF x, y, u, av
<1>8. ASSUME NEW i \in 1..Len(x)
      PROVE  x[i] = y[i]
  <2>1. i \in Int /\ 1 <= i /\ i <= Len(b) - k
    BY <1>1, <1>2, <1>5 DEF n
  <2>2. x[i] = ab[n + i] /\ n + i \in 1..(Len(a) + Len(b)) /\ ~(n + i <= Len(a))
    BY <1>1, <1>2, <1>5, <2>1 DEF n
  <2>3. x[i] = b[n + i - Len(a)] /\ n + i - Len(a) = k + i
    BY <1>1, <2>1, <2>2 DEF n
  <2> QED
    BY <1>1, <1>3, <2>1, <2>3
<1>9. x = y
  <2>1. Len(x) = Len(y)
    BY <1>1, <1>3, <1>5 DEF n
  <2> QED
    BY <1>3, <1>5, <1>8, <2>1, SeqEqual
<1>10. ASSUME NEW i \in 1..Len(u)
       PROVE  u[i] = av[i]
  <2>1. i \in Int /\ 1 <= i /\ i <= Len(a) + k
    BY <1>1, <1>2, <1>6 DEF n
  <2>2. u[i] = ab[i] /\ i \in 1..(Len(a) + Len(b))
    BY <1>1, <1>6, <2>1
  <2>3. CASE i <= Len(a)
    BY <1>7, <2>1, <2>2, <2>3, <1>1
  <2>4. CASE ~(i <= Len(a))
    <3>1. u[i] = b[i - Len(a)] /\ av[i] = v[i - Len(a)] /\ i - Len(a) \in 1..k
      BY <1>1, <1>7, <2>1, <2>2, <2>4
    <3> QED
      BY <1>4, <3>1
  <2> QED
    BY <2>3, <2>4
<1>11. u = av
  <2>1. Len(u) = Len(av)
    BY <1>6, <1>7 DEF n
  <2> QED
    BY <1>6, <1>7, <1>10, <2>1, SeqEqual
<1> QED
  BY <1>9, <1>11 DEF x, y, u, av, ab, n, v

LEMMA MoreNothing ==
  ASSUME NEW s \in LoopStates
  PROVE  More(s, <<>>) = s
<1>1. s = State(s.dec, s.buf, s.out) /\ s.buf \in Seq(STRING)
  BY StateIs
<1>2. s.buf \o <<>> = s.buf
  BY <1>1, ConcatEmptySeq
<1> QED
  BY <1>1, <1>2 DEF More

\* Data that runs over the cut: two turns take what one does.
LEMMA DataOverCut ==
  ASSUME NEW s \in LoopStates, ~Stops(s), NEW b \in Seq(STRING), b # <<>>,
         s.dec.state = "data", s.dec.need > Len(s.buf)
  PROVE  ~Stops(More(Turn(s), b)) /\ Turn(More(s, b)) = Turn(More(Turn(s), b))
<1> DEFINE n == s.dec.need
           l == Len(s.buf)
           a == s.buf
           o == s.out
           d == s.dec
           m == More(s, b)
           t == Turn(s)
           w == More(t, b)
           k == Min({n - l, Len(b)})
<1>1. /\ d \in Decoders /\ a \in Seq(STRING) /\ o \in Seq(STRING) /\ l \in Nat /\ n \in Nat
      /\ n - l \in Nat /\ n # l
  BY StateIs
<1>2. Len(b) \in Nat
  OBVIOUS
<1>3. k \in Nat /\ k <= Len(b) /\ k = IF n - l <= Len(b) THEN n - l ELSE Len(b)
  <2> DEFINE e == n - l
             f == Len(b)
  <2>1. e \in Nat /\ f \in Nat
    BY <1>1, <1>2
  <2>2. k = Min({e, f})
    OBVIOUS
  <2> HIDE DEF e, f, k
  <2>3. Min({e, f}) = IF e <= f THEN e ELSE f
    BY ONLY <2>1, MinOfTwo
  <2>4. k \in Nat /\ k <= f /\ k = IF e <= f THEN e ELSE f
    BY ONLY <2>1, <2>2, <2>3
  <2> QED
    BY ONLY <2>4 DEF e, f
<1>4. Min({n, l}) = l
  <2> HIDE DEF n, l
  <2>1. n \in Nat /\ l \in Nat /\ n - l \in Nat /\ n # l
    BY <1>1
  <2>2. Min({n, l}) = IF n <= l THEN n ELSE l
    BY ONLY <2>1, MinOfTwo
  <2> QED
    BY <2>1, <2>2
<1>5. Min({n, l + Len(b)}) = l + k
  <2> DEFINE q == l + Len(b)
  <2>2. n \in Nat /\ q \in Nat
    BY <1>1, <1>2
  <2> HIDE DEF k, n, l, q
  <2>1. Min({n, q}) = IF n <= q THEN n ELSE q
    BY ONLY <2>2, MinOfTwo
  <2> USE DEF q
  <2> QED
    BY <1>1, <1>2, <1>3, <2>1
<1>6. t = State(ShortDec(d, l), After(a, l), o \o SubSeq(a, 1, l))
  BY <1>4, TurnFields
<1>7. SubSeq(a, 1, l) = a /\ After(a, l) = <<>>
  <2>1. SubSeq(a, 1, l) = a
    BY <1>1, SubSeqFull
  <2>2. l + 1 \in Int /\ l \in Int /\ l < l + 1
    BY <1>1
  <2>3. SubSeq(a, l + 1, l) = <<>>
    BY <2>2, SubSeqEmpty
  <2> QED
    BY <2>1, <2>3 DEF After
<1>8. t.dec = ShortDec(d, l) /\ t.buf = <<>> /\ t.out = o \o a
  <2> HIDE DEF t, a, o, l, d
  <2> QED
    BY <1>6, <1>7 DEF State
<1>9. t \in LoopStates /\ ShortDec(d, l).need = n - l /\ ShortDec(d, l).state = "data"
        /\ ShortDec(d, l).done = FALSE /\ ShortDec(d, l).bad = FALSE
  <2>1. d.done = FALSE /\ d.bad = FALSE
    BY <1>1 DEF Stops, Decoders
  <2> QED
    BY <1>1, <2>1, TurnIsState DEF ShortDec, Decoders
<1>10. /\ m \in LoopStates /\ m.dec = d /\ m.buf = a \o b /\ m.out = o
       /\ w \in LoopStates /\ w.dec = t.dec /\ w.buf = t.buf \o b /\ w.out = t.out
  BY <1>9, MoreIs
<1>11. w.buf = b
  BY <1>8, <1>10, ConcatEmptySeq
<1>12. ~Stops(w)
  BY <1>8, <1>9, <1>10, <1>11 DEF Stops
<1>13. Len(a \o b) = l + Len(b)
  BY <1>1, ConcatProperties
<1>14. Turn(m) = State(ShortDec(d, l + k), After(a \o b, l + k), o \o SubSeq(a \o b, 1, l + k))
  <2>1. ~Stops(m)
    BY MoreGoesOn
  <2>2. m.dec.state = "data" /\ Min({m.dec.need, Len(m.buf)}) = l + k
    BY <1>5, <1>10, <1>13
  <2> HIDE DEF m, k, a, o, d, l
  <2> QED
    BY <1>10, <2>1, <2>2, TurnFields
<1>15. Turn(w) = State(ShortDec(ShortDec(d, l), k), After(b, k), (o \o a) \o SubSeq(b, 1, k))
  <2>1. w.dec.state = "data" /\ Min({w.dec.need, Len(w.buf)}) = k /\ w.dec = ShortDec(d, l) /\ w.out = o \o a
    BY <1>8, <1>9, <1>10, <1>11
  <2> HIDE DEF w, k, a, o, d, l
  <2> QED
    BY <1>10, <1>11, <1>12, <2>1, TurnFields
<1>16. After(a \o b, l + k) = After(b, k) /\ SubSeq(a \o b, 1, l + k) = a \o SubSeq(b, 1, k)
  <2>1. a \in Seq(STRING) /\ l = Len(a)
    BY <1>1
  <2> HIDE DEF k, a, l
  <2>2. k \in Nat /\ k <= Len(b) /\ a \in Seq(STRING) /\ b \in Seq(STRING)
    BY <1>3, <2>1
  <2>3. /\ After(a \o b, Len(a) + k) = After(b, k)
        /\ SubSeq(a \o b, 1, Len(a) + k) = a \o SubSeq(b, 1, k)
    BY ONLY <2>2, AfterWhole
  <2> QED
    BY <2>1, <2>3
<1>17. o \o (a \o SubSeq(b, 1, k)) = (o \o a) \o SubSeq(b, 1, k)
  <2> DEFINE v == SubSeq(b, 1, k)
  <2>1. v \in Seq(STRING)
    <3> HIDE DEF k
    <3> QED
      BY <1>3, UpToIs
  <2> HIDE DEF v, o, a
  <2>2. o \in Seq(STRING) /\ a \in Seq(STRING) /\ v \in Seq(STRING)
    BY <1>1, <2>1
  <2>3. o \o (a \o v) = (o \o a) \o v
    BY ONLY <2>2, Reassociated
  <2> QED
    BY <2>3 DEF v
<1>18. ShortDec(d, l + k) = ShortDec(ShortDec(d, l), k)
  <2>1. d.need - (l + k) = (n - l) - k /\ (d.need = l + k <=> n - l = k)
    <3> HIDE DEF k
    <3> QED
      BY <1>1, <1>3
  <2> HIDE DEF k, l, d
  <2>2. n = d.need
    BY DEF d
  <2> HIDE DEF n
  <2> QED
    BY <1>1, <1>9, <2>1, <2>2 DEF ShortDec, Decoders
<1> QED
  <2> HIDE DEF k, l, a, o, d
  <2>1. Turn(m) = Turn(w)
    BY <1>14, <1>15, <1>16, <1>17, <1>18
  <2> QED
    BY <1>12, <2>1

LEMMA TurnMore ==
  ASSUME NEW s \in LoopStates, ~Stops(s), NEW b \in Seq(STRING)
  PROVE  Loop[More(s, b)] = Loop[More(Turn(s), b)]
<1> DEFINE m == More(s, b)
           t == Turn(s)
           w == More(t, b)
           a == s.buf
<1>1. /\ s.dec \in Decoders /\ a \in Seq(STRING) /\ s.out \in Seq(STRING) /\ Len(a) \in Nat
      /\ s.dec.need \in Nat /\ s.dec.state \in {"size", "data", "crlf", "trailer"}
  BY StateIs
<1>2. /\ m \in LoopStates /\ ~Stops(m) /\ m.dec = s.dec /\ m.buf = a \o b /\ m.out = s.out
      /\ t \in LoopStates /\ w = State(t.dec, t.buf \o b, t.out)
  BY MoreIs, MoreGoesOn, TurnIsState DEF More
<1>3. w \in LoopStates
  BY <1>2, MoreIs
<1>4. a # <<>> /\ (a \o b)[1] = a[1]
  BY MoreGoesOn
<1> HIDE DEF m, t, w
<1>5. ASSUME Turn(m) = w
      PROVE  Loop[m] = Loop[w]
  BY <1>2, <1>5, LoopAt
<1>6. ASSUME s.dec.state = "size"
      PROVE  Turn(m) = w
  <2>1. indexOfCRLF(a) # 0 /\ indexOfCRLF(a \o b) = indexOfCRLF(a)
    BY <1>6, MoreGoesOn
  <2>2. Sized(m) <=> Sized(s)
    BY <1>2, <1>4, <2>1 DEF Sized
  <2>3. CASE Sized(s)
    <3>1. Len(a) >= 3
      BY <1>1, <2>3, LineEnd DEF Sized
    <3>2. After(a \o b, 3) = After(a, 3) \o b
      BY <1>1, <3>1, AfterConcat
    <3>3. t = State(SizedDec(s.dec, SizeOf[a[1]]), After(a, 3), s.out)
      BY <1>6, <2>3, TurnFields DEF t
    <3>4. Turn(m) = State(SizedDec(s.dec, SizeOf[a[1]]), After(a \o b, 3), s.out)
      BY <1>2, <1>4, <1>6, <2>2, <2>3, TurnFields
    <3>5. t.dec = SizedDec(s.dec, SizeOf[a[1]]) /\ t.buf = After(a, 3) /\ t.out = s.out
      BY <3>3 DEF State
    <3> QED
      BY <1>2, <3>2, <3>4, <3>5
  <2>4. CASE ~Sized(s)
    <3>1. t = State([s.dec EXCEPT !.bad = TRUE], a, s.out)
      BY <1>6, <2>4, TurnFields DEF t
    <3>2. Turn(m) = State([s.dec EXCEPT !.bad = TRUE], a \o b, s.out)
      BY <1>2, <1>6, <2>2, <2>4, TurnFields
    <3>3. t.dec = [s.dec EXCEPT !.bad = TRUE] /\ t.buf = a /\ t.out = s.out
      BY <3>1 DEF State
    <3> QED
      BY <1>2, <3>2, <3>3
  <2> QED
    BY <2>3, <2>4
<1>7. ASSUME s.dec.state = "data", s.dec.need <= Len(a)
      PROVE  Turn(m) = w
  <2> DEFINE n == s.dec.need
  <2>1. Len(a \o b) = Len(a) + Len(b) /\ Len(b) \in Nat
    BY <1>1, ConcatProperties
  <2>2. Min({n, Len(a)}) = n /\ Min({n, Len(a \o b)}) = n
    <3> DEFINE l == Len(a)
               q == Len(a \o b)
    <3>1. n \in Nat /\ l \in Nat /\ q \in Nat /\ n <= l /\ l <= q
      BY <1>1, <1>7, <2>1
    <3> HIDE DEF n, l, q
    <3>2. Min({n, l}) = (IF n <= l THEN n ELSE l) /\ Min({n, q}) = (IF n <= q THEN n ELSE q)
      BY ONLY <3>1, MinOfTwo
    <3>3. n <= l /\ n <= q
      BY ONLY <3>1
    <3>4. Min({n, l}) = n /\ Min({n, q}) = n
      BY ONLY <3>2, <3>3
    <3> QED
      BY <3>4 DEF l, q
  <2>3. After(a \o b, n) = After(a, n) \o b /\ SubSeq(a \o b, 1, n) = SubSeq(a, 1, n)
    BY <1>1, <1>7, AfterConcat
  <2>4. t = State(ShortDec(s.dec, n), After(a, n), s.out \o SubSeq(a, 1, n))
    BY <1>7, <2>2, TurnFields DEF t
  <2>5. Turn(m) = State(ShortDec(s.dec, n), After(a \o b, n), s.out \o SubSeq(a \o b, 1, n))
    BY <1>2, <1>7, <2>2, TurnFields
  <2>6. t.dec = ShortDec(s.dec, n) /\ t.buf = After(a, n) /\ t.out = s.out \o SubSeq(a, 1, n)
    <3> HIDE DEF a, n
    <3> QED
      BY <2>4 DEF State
  <2> QED
    BY <1>2, <2>3, <2>5, <2>6
<1>8. ASSUME s.dec.state = "crlf"
      PROVE  Turn(m) = w
  <2>1. Len(a) >= 2
    BY <1>1, <1>8 DEF Stops
  <2>2. After(a \o b, 2) = After(a, 2) \o b
    BY <1>1, <2>1, AfterConcat
  <2>3. t = State([s.dec EXCEPT !.state = "size"], After(a, 2), s.out)
    BY <1>8, TurnFields DEF t
  <2>4. Turn(m) = State([s.dec EXCEPT !.state = "size"], After(a \o b, 2), s.out)
    BY <1>2, <1>8, TurnFields
  <2>5. t.dec = [s.dec EXCEPT !.state = "size"] /\ t.buf = After(a, 2) /\ t.out = s.out
    BY <2>3 DEF State
  <2> QED
    BY <1>2, <2>2, <2>4, <2>5
<1>9. ASSUME s.dec.state = "trailer"
      PROVE  Turn(m) = w
  <2> DEFINE nl == indexOfCRLF(a)
  <2>1. nl # 0 /\ indexOfCRLF(a \o b) = nl
    BY <1>9, MoreGoesOn
  <2>2. nl \in Nat /\ nl + 1 <= Len(a) /\ nl + 1 \in Nat
    BY <1>1, <2>1, LineEnd
  <2>3. t = State([s.dec EXCEPT !.done = (nl = 1)], After(a, nl + 1), s.out)
    BY <1>9, TurnFields DEF t
  <2>4. Turn(m) = State([s.dec EXCEPT !.done = (nl = 1)], After(a \o b, nl + 1), s.out)
    <3>1. m.dec.state = "trailer" /\ indexOfCRLF(m.buf) = nl
      BY <1>2, <1>9, <2>1
    <3>2. Turn(m) = State([m.dec EXCEPT !.done = (indexOfCRLF(m.buf) = 1)],
                          After(m.buf, indexOfCRLF(m.buf) + 1), m.out)
      BY <1>2, <3>1, TurnFields
    <3> HIDE DEF nl, a
    <3> QED
      BY <1>2, <3>1, <3>2
  <2> HIDE DEF nl
  <2>5. After(a \o b, nl + 1) = After(a, nl + 1) \o b
    BY <1>1, <2>2, AfterConcat
  <2>6. t.dec = [s.dec EXCEPT !.done = (nl = 1)] /\ t.buf = After(a, nl + 1) /\ t.out = s.out
    BY <2>3 DEF State
  <2> QED
    BY <1>2, <2>4, <2>5, <2>6
<1>10. ASSUME s.dec.state = "data", s.dec.need > Len(a)
       PROVE  Loop[m] = Loop[w]
  <2>1. CASE b = <<>>
    <3>1. m = s /\ w = t
      BY <1>2, <2>1, MoreNothing DEF m, w
    <3> QED
      BY <3>1, LoopAt DEF t
  <2>2. CASE b # <<>>
    <3>1. ~Stops(w) /\ Turn(m) = Turn(w)
      BY <1>10, <2>2, DataOverCut DEF m, w, t
    <3> QED
      BY <1>2, <1>3, <3>1, LoopAt
  <2> QED
    BY <2>1, <2>2
<1>11. s.dec.need <= Len(a) \/ s.dec.need > Len(a)
  BY <1>1
<1>12. Loop[m] = Loop[w]
  BY <1>1, <1>5, <1>6, <1>7, <1>8, <1>9, <1>10, <1>11
<1> QED
  BY <1>12 DEF m, w, t

LEMMA LoopMore ==
  ASSUME NEW s \in LoopStates, NEW b \in Seq(STRING)
  PROVE  Loop[More(s, b)] = Loop[More(Loop[s], b)]
<1> DEFINE T == {x \in LoopStates : Loop[More(x, b)] = Loop[More(Loop[x], b)]}
<1>1. ASSUME NEW x \in LoopStates, Stops(x)
      PROVE  x \in T
  BY <1>1, LoopAt
<1>2. ASSUME NEW x \in LoopStates, ~Stops(x), Turn(x) \in T
      PROVE  x \in T
  BY <1>2, LoopAt, TurnMore
<1>3. LoopStates \subseteq T
  <2> HIDE DEF T
  <2>1. T \subseteq LoopStates
    BY DEF T
  <2> QED
    BY <1>1, <1>2, <2>1, LoopInduction
<1> QED
  BY <1>3

\* The loop only appends to the body.
LEMMA PrefixTransitive ==
  ASSUME NEW S, NEW a \in Seq(S), NEW b \in Seq(S), NEW c \in Seq(S),
         IsPrefix(a, b), IsPrefix(b, c)
  PROVE  IsPrefix(a, c)
<1>1. Len(a) \in Nat /\ Len(b) \in Nat /\ Len(c) \in Nat /\ Len(a) <= Len(b) /\ Len(b) <= Len(c)
  BY DEF IsPrefix
<1>2. /\ SubSeq(a, 1, Len(a)) = SubSeq(b, 1, Len(a)) /\ SubSeq(b, 1, Len(b)) = SubSeq(c, 1, Len(b))
  BY DEF IsPrefix
<1>3. \A i \in 1..Len(a) : SubSeq(b, 1, Len(a))[i] = b[i] /\ SubSeq(c, 1, Len(a))[i] = c[i]
  BY <1>1, UpToIs
<1>4. \A i \in 1..Len(b) : SubSeq(b, 1, Len(b))[i] = b[i] /\ SubSeq(c, 1, Len(b))[i] = c[i]
  BY <1>1, UpToIs
<1>5. \A i \in 1..Len(a) : SubSeq(b, 1, Len(a))[i] = SubSeq(c, 1, Len(a))[i]
  <2>1. ASSUME NEW i \in 1..Len(a)
        PROVE  SubSeq(b, 1, Len(a))[i] = SubSeq(c, 1, Len(a))[i]
    <3>1. i \in 1..Len(b)
      BY <1>1
    <3> QED
      BY <1>2, <1>3, <1>4, <3>1
  <2> QED
    BY <2>1
<1> DEFINE u == SubSeq(b, 1, Len(a))
           v == SubSeq(c, 1, Len(a))
<1>6. u \in Seq(S) /\ v \in Seq(S) /\ Len(u) = Len(a) /\ Len(v) = Len(a)
  BY <1>1, UpToIs
<1>7. u = v
  <2> HIDE DEF u, v
  <2>1. \A i \in 1..Len(u) : u[i] = v[i]
    BY <1>5, <1>6 DEF u, v
  <2> QED
    BY <1>6, <2>1, SeqEqual
<1> QED
  BY <1>1, <1>2, <1>7 DEF IsPrefix

LEMMA PrefixOfConcat ==
  ASSUME NEW S, NEW a \in Seq(S), NEW b \in Seq(S)
  PROVE  IsPrefix(a, a \o b) /\ IsPrefix(a, a)
<1>1. Len(a \o b) = Len(a) + Len(b) /\ Len(a) \in Nat /\ Len(b) \in Nat
  BY ConcatProperties
<1>2. SubSeq(a \o b, 1, Len(a)) = SubSeq(a, 1, Len(a))
  BY <1>1, AfterConcat
<1> QED
  BY <1>1, <1>2 DEF IsPrefix

\* Only data adds to the body.
LEMMA TurnOut ==
  ASSUME NEW s \in LoopStates, ~Stops(s), s.dec.state # "data"
  PROVE  Turn(s).out = s.out
<1>1. s.dec.state \in {"size", "crlf", "trailer"}
  BY StateIs
<1>2. CASE s.dec.state = "size"
  BY <1>2 DEF Turn, TakeSize, LoopStates
<1>3. CASE s.dec.state = "crlf"
  BY <1>3 DEF Turn, LoopStates
<1>4. CASE s.dec.state = "trailer"
  BY <1>4 DEF Turn, TakeTrailer, LoopStates
<1> QED
  BY <1>1, <1>2, <1>3, <1>4

LEMMA OutGrows ==
  ASSUME NEW s \in LoopStates
  PROVE  IsPrefix(s.out, Loop[s].out) /\ Loop[s] \in LoopStates
<1> DEFINE T == {x \in LoopStates : IsPrefix(x.out, Loop[x].out) /\ Loop[x] \in LoopStates}
<1>1. ASSUME NEW x \in LoopStates, Stops(x)
      PROVE  x \in T
  <2>1. x.out \in Seq(STRING) /\ Loop[x] = x
    BY <1>1, StateIs, LoopAt
  <2>2. <<>> \in Seq(STRING)
    OBVIOUS
  <2>3. IsPrefix(x.out, x.out)
    BY <2>1, <2>2, PrefixOfConcat
  <2> QED
    BY <2>1, <2>3
<1>2. ASSUME NEW x \in LoopStates, ~Stops(x), Turn(x) \in T
      PROVE  x \in T
  <2> DEFINE t == Turn(x)
             e == Loop[x]
  <2>1. t \in LoopStates /\ e = Loop[t] /\ e \in LoopStates /\ IsPrefix(t.out, e.out)
    BY <1>2, LoopAt
  <2> HIDE DEF e
  <2>2. x.out \in Seq(STRING) /\ t.out \in Seq(STRING) /\ e.out \in Seq(STRING) /\ <<>> \in Seq(STRING)
    BY <2>1, StateIs
  <2>3. IsPrefix(x.out, t.out)
    <3>1. CASE x.dec.state = "data"
      <4> DEFINE take == Min({x.dec.need, Len(x.buf)})
                 u    == SubSeq(x.buf, 1, take)
      <4>1. t.out = x.out \o u
        <5>1. t = State(ShortDec(x.dec, take), After(x.buf, take), x.out \o u)
          BY <1>2, <3>1, TurnFields DEF t
        <5> HIDE DEF take, u, t
        <5> QED
          BY <5>1 DEF State
      <4>2. u \in Seq(STRING)
        <5>1. x.buf \in Seq(STRING) /\ Len(x.buf) \in Nat /\ x.dec.need \in Nat
          BY StateIs
        <5>2. take \in Nat /\ take <= Len(x.buf)
          BY <5>1, MinOfTwo
        <5> HIDE DEF take
        <5> QED
          BY <5>1, <5>2, UpToIs
      <4> HIDE DEF u, t
      <4> DEFINE o == x.out
      <4>3. o \in Seq(STRING)
        BY <2>2
      <4> HIDE DEF o
      <4>4. IsPrefix(o, o \o u)
        BY ONLY <4>2, <4>3, PrefixOfConcat
      <4> QED
        BY <4>1, <4>4 DEF o
    <3>2. CASE x.dec.state # "data"
      <4>1. t.out = x.out
        BY <1>2, <3>2, TurnOut
      <4> QED
        BY <2>2, <4>1, PrefixOfConcat
    <3> QED
      BY <3>1, <3>2
  <2>4. IsPrefix(x.out, e.out)
    BY <2>1, <2>2, <2>3, PrefixTransitive
  <2> QED
    BY <2>1, <2>4 DEF e
<1>3. LoopStates \subseteq T
  <2> HIDE DEF T
  <2>1. T \subseteq LoopStates
    BY DEF T
  <2> QED
    BY <1>1, <1>2, <2>1, LoopInduction
<1> QED
  BY <1>3

-----------------------------------------------------------------------------
\* Feeding a body to the decoder piece by piece.
LEMMA LoopMode ==
  ASSUME NEW s \in LoopStates
  PROVE  Loop[s].dec.mode = s.dec.mode
<1> DEFINE T == {x \in LoopStates : Loop[x].dec.mode = x.dec.mode}
<1>1. ASSUME NEW x \in LoopStates, Stops(x)
      PROVE  x \in T
  BY <1>1, LoopAt
<1>2. ASSUME NEW x \in LoopStates, ~Stops(x), Turn(x) \in T
      PROVE  x \in T
  <2>1. /\ x.dec \in Decoders /\ x.dec.state \in {"size", "data", "crlf", "trailer"}
    BY StateIs
  <2>2. \A d, b, o : State(d, b, o).dec = d
    BY DEF State
  <2>3. \A n : SizedDec(x.dec, n).mode = x.dec.mode /\ ShortDec(x.dec, n).mode = x.dec.mode
    BY <2>1 DEF SizedDec, ShortDec, Decoders
  <2>4. \A v : [x.dec EXCEPT !.bad = v].mode = x.dec.mode /\ [x.dec EXCEPT !.done = v].mode = x.dec.mode
                /\ [x.dec EXCEPT !.state = v].mode = x.dec.mode
    BY <2>1 DEF Decoders
  <2>5. Turn(x).dec.mode = x.dec.mode
    <3>1. ASSUME x.dec.state = "size" /\ Sized(x)
          PROVE  Turn(x).dec.mode = x.dec.mode
      <4>1. Turn(x) = State(SizedDec(x.dec, SizeOf[x.buf[1]]),
                            After(x.buf, 3), x.out)
        BY <1>2, <3>1, TurnFields
      <4>2. Turn(x).dec = SizedDec(x.dec, SizeOf[x.buf[1]])
        BY <2>2, <4>1
      <4> QED
        BY <2>3, <4>2
    <3>2. ASSUME x.dec.state = "size" /\ ~Sized(x)
          PROVE  Turn(x).dec.mode = x.dec.mode
      <4>1. Turn(x) = State([x.dec EXCEPT !.bad = TRUE],
                            x.buf, x.out)
        BY <1>2, <3>2, TurnFields
      <4>2. Turn(x).dec = [x.dec EXCEPT !.bad = TRUE]
        BY <2>2, <4>1
      <4> QED
        BY <2>4, <4>2
    <3>3. ASSUME x.dec.state = "data"
          PROVE  Turn(x).dec.mode = x.dec.mode
      <4>1. Turn(x) = State(ShortDec(x.dec, Min({x.dec.need, Len(x.buf)})),
                            After(x.buf, Min({x.dec.need, Len(x.buf)})),
                            x.out \o SubSeq(x.buf, 1, Min({x.dec.need, Len(x.buf)})))
        BY <1>2, <3>3, TurnFields
      <4>2. Turn(x).dec = ShortDec(x.dec, Min({x.dec.need, Len(x.buf)}))
        BY <2>2, <4>1
      <4> QED
        BY <2>3, <4>2
    <3>4. ASSUME x.dec.state = "crlf"
          PROVE  Turn(x).dec.mode = x.dec.mode
      <4>1. Turn(x) = State([x.dec EXCEPT !.state = "size"],
                            After(x.buf, 2), x.out)
        BY <1>2, <3>4, TurnFields
      <4>2. Turn(x).dec = [x.dec EXCEPT !.state = "size"]
        BY <2>2, <4>1
      <4> QED
        BY <2>4, <4>2
    <3>5. ASSUME x.dec.state = "trailer"
          PROVE  Turn(x).dec.mode = x.dec.mode
      <4>1. Turn(x) = State([x.dec EXCEPT !.done = (indexOfCRLF(x.buf) = 1)],
                            After(x.buf, indexOfCRLF(x.buf) + 1), x.out)
        BY <1>2, <3>5, TurnFields
      <4>2. Turn(x).dec = [x.dec EXCEPT !.done = (indexOfCRLF(x.buf) = 1)]
        BY <2>2, <4>1
      <4> QED
        BY <2>4, <4>2
    <3> QED
      BY <2>1, <3>1, <3>2, <3>3, <3>4, <3>5
  <2> QED
    BY <1>2, <2>5, LoopAt
<1>3. LoopStates \subseteq T
  <2> HIDE DEF T
  <2>1. T \subseteq LoopStates
    BY DEF T
  <2> QED
    BY <1>1, <1>2, <2>1, LoopInduction
<1> QED
  BY <1>3

\* The loop never leaves a decoder both malformed and done.
LEMMA LoopOneEnd ==
  ASSUME NEW s \in LoopStates, ~(s.dec.bad /\ s.dec.done)
  PROVE  ~(Loop[s].dec.bad /\ Loop[s].dec.done)
<1> DEFINE Good(d) == ~(d.bad /\ d.done)
           T == {x \in LoopStates : Good(x.dec) => Good(Loop[x].dec)}
<1>1. ASSUME NEW x \in LoopStates, Stops(x)
      PROVE  x \in T
  BY <1>1, LoopAt
<1>2. ASSUME NEW x \in LoopStates, ~Stops(x), Turn(x) \in T
      PROVE  x \in T
  <2>1. /\ x.dec \in Decoders /\ x.dec.state \in {"size", "data", "crlf", "trailer"}
        /\ x.dec.done = FALSE /\ x.dec.bad = FALSE
    BY <1>2, StateIs DEF Stops, Decoders
  <2>2. \A d, b, o : State(d, b, o).dec = d
    BY DEF State
  <2>3. \A n : Good(SizedDec(x.dec, n)) /\ Good(ShortDec(x.dec, n))
    BY <2>1 DEF SizedDec, ShortDec, Decoders
  <2>4. \A v : Good([x.dec EXCEPT !.bad = v]) /\ Good([x.dec EXCEPT !.done = v])
                /\ Good([x.dec EXCEPT !.state = v])
    BY <2>1 DEF Decoders
  <2> HIDE DEF Good
  <2>5. Good(Turn(x).dec)
    <3>1. ASSUME x.dec.state = "size" /\ Sized(x)
          PROVE  Good(Turn(x).dec)
      <4>1. Turn(x) = State(SizedDec(x.dec, SizeOf[x.buf[1]]), After(x.buf, 3), x.out)
        BY <1>2, <3>1, TurnFields
      <4>2. Turn(x).dec = SizedDec(x.dec, SizeOf[x.buf[1]])
        BY <2>2, <4>1
      <4> QED
        BY <2>3, <4>2
    <3>2. ASSUME x.dec.state = "size" /\ ~Sized(x)
          PROVE  Good(Turn(x).dec)
      <4>1. Turn(x) = State([x.dec EXCEPT !.bad = TRUE], x.buf, x.out)
        BY <1>2, <3>2, TurnFields
      <4>2. Turn(x).dec = [x.dec EXCEPT !.bad = TRUE]
        BY <2>2, <4>1
      <4> QED
        BY <2>4, <4>2
    <3>3. ASSUME x.dec.state = "data"
          PROVE  Good(Turn(x).dec)
      <4>1. Turn(x) = State(ShortDec(x.dec, Min({x.dec.need, Len(x.buf)})),
                            After(x.buf, Min({x.dec.need, Len(x.buf)})),
                            x.out \o SubSeq(x.buf, 1, Min({x.dec.need, Len(x.buf)})))
        BY <1>2, <3>3, TurnFields
      <4>2. Turn(x).dec = ShortDec(x.dec, Min({x.dec.need, Len(x.buf)}))
        BY <2>2, <4>1
      <4> QED
        BY <2>3, <4>2
    <3>4. ASSUME x.dec.state = "crlf"
          PROVE  Good(Turn(x).dec)
      <4>1. Turn(x) = State([x.dec EXCEPT !.state = "size"], After(x.buf, 2), x.out)
        BY <1>2, <3>4, TurnFields
      <4>2. Turn(x).dec = [x.dec EXCEPT !.state = "size"]
        BY <2>2, <4>1
      <4> QED
        BY <2>4, <4>2
    <3>5. ASSUME x.dec.state = "trailer"
          PROVE  Good(Turn(x).dec)
      <4>1. Turn(x) = State([x.dec EXCEPT !.done = (indexOfCRLF(x.buf) = 1)],
                            After(x.buf, indexOfCRLF(x.buf) + 1), x.out)
        BY <1>2, <3>5, TurnFields
      <4>2. Turn(x).dec = [x.dec EXCEPT !.done = (indexOfCRLF(x.buf) = 1)]
        BY <2>2, <4>1
      <4> QED
        BY <2>4, <4>2
    <3> QED
      BY <2>1, <3>1, <3>2, <3>3, <3>4, <3>5
  <2> QED
    BY <1>2, <2>5, LoopAt
<1>3. LoopStates \subseteq T
  <2> HIDE DEF T
  <2>1. T \subseteq LoopStates
    BY DEF T
  <2> QED
    BY <1>1, <1>2, <2>1, LoopInduction
<1> QED
  BY <1>3

\* What push() keeps: the mode, one end at most, and a malformed body for ever.
OneEnd(d) == d.bad => d.done = FALSE /\ d.mode = "chunked"

LEMMA PushKeeps ==
  ASSUME NEW d \in Decoders, NEW bytes \in Seq(STRING), OneEnd(d)
  PROVE  LET p == push(d, bytes) IN
         /\ p.dec.mode = d.mode /\ OneEnd(p.dec)
         /\ d.bad => p.dec.bad /\ p.out = <<>>
<1> DEFINE p == push(d, bytes)
<1>1. /\ d.mode \in {"none", "length", "chunked", "eof", "refused"} /\ d.pending \in Seq(STRING)
      /\ d.done \in BOOLEAN /\ d.bad \in BOOLEAN
  BY DEF Decoders
<1>2. CASE d.done \/ bytes = <<>> \/ d.mode \in {"none", "refused"}
  <2>1. p = [dec |-> d, out |-> <<>>]
    BY <1>2 DEF push
  <2> QED
    BY <2>1
<1>3. CASE ~(d.done \/ bytes = <<>> \/ d.mode \in {"none", "refused"})
  <2>1. CASE d.mode = "eof"
    <3>1. p = [dec |-> d, out |-> bytes]
      BY <1>3, <2>1 DEF push
    <3> QED
      BY <2>1, <3>1 DEF OneEnd
  <2>2. CASE d.mode = "length"
    <3> DEFINE take == Min({d.remaining, Len(bytes)})
    <3>1. p = [dec |-> [d EXCEPT !.remaining = d.remaining - take, !.done = (d.remaining = take)],
               out |-> SubSeq(bytes, 1, take)]
      BY <1>3, <2>2 DEF push
    <3> HIDE DEF take, p
    <3>2. p.dec = [d EXCEPT !.remaining = d.remaining - take, !.done = (d.remaining = take)]
      BY <3>1
    <3>3. p.dec.mode = d.mode /\ p.dec.bad = d.bad /\ ~d.bad
      BY <2>2, <3>2 DEF Decoders, OneEnd
    <3> QED
      BY <3>3 DEF p, OneEnd
  <2>3. CASE d.mode = "chunked"
    <3> DEFINE b == d.pending \o bytes
               s == State(d, b, <<>>)
               e == Loop[s]
               pd == [e.dec EXCEPT !.pending = e.buf]
    <3>1. p = Outcome[e]
      BY <1>3, <2>3 DEF push, Chunks, State
    <3>2. b \in Seq(STRING) /\ <<>> \in Seq(STRING)
      BY <1>1, ConcatProperties
    <3> HIDE DEF b
    <3>3. s \in LoopStates /\ s.dec = d /\ s.buf = b /\ s.out = <<>>
      <4> DEFINE o == <<>>
      <4>1. o \in Seq(STRING)
        BY <3>2
      <4> HIDE DEF o
      <4>2. State(d, b, o) \in LoopStates /\ State(d, b, o).dec = d /\ State(d, b, o).buf = b
            /\ State(d, b, o).out = o
        BY <3>2, <4>1, StateTyped
      <4> QED
        BY <4>2 DEF o
    <3> HIDE DEF s
    <3>4. /\ e \in LoopStates /\ e.dec.mode = "chunked" /\ ~(e.dec.bad /\ e.dec.done)
      BY <2>3, <3>3, OutGrows, LoopMode, LoopOneEnd DEF OneEnd
    <3>5. d.bad => e = s
      BY <3>3, LoopAt DEF Stops
    <3> HIDE DEF e, p
    <3>6. p = IF e.dec.bad THEN [dec |-> e.dec, out |-> <<>>] ELSE [dec |-> pd, out |-> e.out]
      BY <3>1, <3>4 DEF Outcome
    <3>7. e.dec \in Decoders /\ e.dec.done \in BOOLEAN
      BY <3>4 DEF LoopStates, Decoders
    <3>8. pd.mode = "chunked" /\ pd.bad = e.dec.bad
      BY <3>4, <3>7 DEF Decoders
    <3> HIDE DEF pd
    <3>9. CASE e.dec.bad
      <4>1. p.dec = e.dec /\ p.out = <<>>
        BY <3>6, <3>9
      <4>2. e.dec.done = FALSE
        BY <3>4, <3>7, <3>9
      <4> QED
        BY <2>3, <3>4, <3>9, <4>1, <4>2 DEF OneEnd, p
    <3>10. CASE ~e.dec.bad
      <4>1. p.dec = pd /\ ~d.bad
        BY <3>3, <3>5, <3>6, <3>10
      <4> QED
        BY <2>3, <3>8, <3>10, <4>1 DEF OneEnd, p
    <3> QED
      BY <3>9, <3>10
  <2> QED
    BY <1>1, <1>3, <2>1, <2>2, <2>3
<1> QED
  BY <1>2, <1>3

\* A prefix of a sequence is one of what the sequence begins with.
LEMMA PrefixOfUpTo ==
  ASSUME NEW S, NEW a \in Seq(S), NEW x \in Seq(S), IsPrefix(a, x),
         NEW n \in Nat, Len(a) <= n, n <= Len(x)
  PROVE  IsPrefix(a, SubSeq(x, 1, n))
<1> DEFINE u == SubSeq(x, 1, n)
           v == SubSeq(u, 1, Len(a))
           w == SubSeq(x, 1, Len(a))
<1>1. Len(a) \in Nat /\ Len(x) \in Nat /\ Len(a) <= Len(x) /\ SubSeq(a, 1, Len(a)) = w
  BY DEF IsPrefix
<1>2. u \in Seq(S) /\ Len(u) = n /\ \A i \in 1..n : u[i] = x[i]
  BY UpToIs
<1>3. w \in Seq(S) /\ Len(w) = Len(a) /\ \A i \in 1..Len(a) : w[i] = x[i]
  BY <1>1, UpToIs
<1> HIDE DEF u, w
<1>4. v \in Seq(S) /\ Len(v) = Len(a) /\ \A i \in 1..Len(a) : v[i] = u[i]
  BY <1>1, <1>2, UpToIs
<1> HIDE DEF v
<1>5. \A i \in 1..Len(v) : v[i] = w[i]
  BY <1>1, <1>2, <1>3, <1>4
<1>6. v = w
  BY <1>3, <1>4, <1>5, SeqEqual
<1> QED
  BY <1>1, <1>2, <1>6 DEF IsPrefix, u, v

LEMMA UpToConcat ==
  ASSUME NEW S, NEW a \in Seq(S), NEW b \in Seq(S), NEW n \in Nat, n <= Len(b)
  PROVE  SubSeq(a \o b, 1, Len(a) + n) = a \o SubSeq(b, 1, n)
<1> DEFINE ab == a \o b
           u  == SubSeq(b, 1, n)
           x  == SubSeq(ab, 1, Len(a) + n)
           y  == a \o u
<1>1. /\ ab \in Seq(S) /\ Len(ab) = Len(a) + Len(b) /\ Len(a) \in Nat /\ Len(b) \in Nat
      /\ \A i \in 1..(Len(a) + Len(b)) : ab[i] = IF i <= Len(a) THEN a[i] ELSE b[i - Len(a)]
  BY ConcatProperties
<1> HIDE DEF ab
<1>2. u \in Seq(S) /\ Len(u) = n /\ \A i \in 1..n : u[i] = b[i]
  BY UpToIs
<1> HIDE DEF u
<1>3. /\ y \in Seq(S) /\ Len(y) = Len(a) + n
      /\ \A i \in 1..(Len(a) + n) : y[i] = IF i <= Len(a) THEN a[i] ELSE u[i - Len(a)]
  BY <1>2, ConcatProperties
<1>4. x \in Seq(S) /\ Len(x) = Len(a) + n /\ \A i \in 1..(Len(a) + n) : x[i] = ab[i]
  BY <1>1, UpToIs
<1> HIDE DEF x, y
<1>5. ASSUME NEW i \in 1..Len(x)
      PROVE  x[i] = y[i]
  <2>1. i \in Int /\ 1 <= i /\ i <= Len(a) + n /\ i \in 1..(Len(a) + Len(b)) /\ i \in 1..(Len(a) + n)
    BY <1>1, <1>4
  <2>2. CASE i <= Len(a)
    BY <1>1, <1>3, <1>4, <2>1, <2>2
  <2>3. CASE ~(i <= Len(a))
    <3>1. i - Len(a) \in 1..n
      BY <1>1, <2>1, <2>3
    <3> QED
      BY <1>1, <1>2, <1>3, <1>4, <2>1, <2>3, <3>1
  <2> QED
    BY <2>2, <2>3
<1>6. x = y
  BY <1>3, <1>4, <1>5, SeqEqual
<1> QED
  BY <1>6 DEF x, y, ab, u

Framings == [mode : {"none", "length", "chunked"}, length : Nat]

LEMMA DecoderTyped ==
  ASSUME NEW F \in Framings
  PROVE  /\ Decoder(F) \in Decoders /\ Decoder(F).mode = F.mode /\ Decoder(F).remaining = F.length
         /\ Decoder(F).bad = FALSE /\ Decoder(F).pending = <<>> /\ Decoder(F).state = "size"
         /\ F.mode = "none" => Decoder(F).done = TRUE
         /\ F.mode = "length" => Decoder(F).done = (F.length = 0)
         /\ F.mode = "chunked" => Decoder(F).done = FALSE
<1>1. F.mode \in {"none", "length", "chunked"} /\ F.length \in Nat
      /\ F = [mode |-> F.mode, length |-> F.length]
  BY DEF Framings
<1>2. <<>> \in Seq(STRING)
  OBVIOUS
<1>3. (F = Framing("length", 0)) <=> (F.mode = "length" /\ F.length = 0)
  BY <1>1 DEF Framing
<1>4. (F.mode = "none" \/ F = Framing("length", 0)) \in BOOLEAN
  OBVIOUS
<1> QED
  BY <1>1, <1>2, <1>3, <1>4 DEF Decoder, Decoders

\* The decoder d has been fed the bytes c, of which g are the body's, and there
\* is more to come: however they were cut, it is where one push would leave it.
Fed(F, d, g, c) ==
  \/ /\ F.mode = "length"
     /\ Len(c) < F.length /\ g = c
     /\ d = [Decoder(F) EXCEPT !.remaining = F.length - Len(c)]
  \/ /\ F.mode = "chunked"
     /\ d.done = FALSE /\ d.bad = FALSE /\ d.mode = "chunked"
     /\ Loop[State(Decoder(F), c, <<>>)] = State([d EXCEPT !.pending = <<>>], d.pending, g)

LEMMA FedGoesOn ==
  ASSUME NEW F \in Framings, NEW d \in Decoders, NEW g, NEW c \in Seq(STRING), Fed(F, d, g, c)
  PROVE  d.done = FALSE /\ d.bad = FALSE /\ d.mode = F.mode
<1>1. CASE F.mode = "length"
  <2>1. /\ Len(c) < F.length /\ Len(c) \in Nat /\ F.length \in Nat
        /\ d = [Decoder(F) EXCEPT !.remaining = F.length - Len(c)]
    BY <1>1 DEF Fed, Framings
  <2>2. Decoder(F) \in Decoders /\ Decoder(F).mode = "length" /\ Decoder(F).bad = FALSE
        /\ Decoder(F).done = (F.length = 0)
    BY <1>1, DecoderTyped
  <2>3. Decoder(F).done = FALSE
    <3>1. F.length # 0
      BY <2>1
    <3>2. (F.length = 0) = FALSE
      BY <3>1
    <3> QED
      BY <2>2, <3>2
  <2> QED
    BY <1>1, <2>1, <2>2, <2>3 DEF Decoders
<1>2. CASE F.mode = "chunked"
  BY <1>2 DEF Fed
<1> QED
  BY <1>1, <1>2 DEF Fed

LEMMA FedFirst ==
  ASSUME NEW F \in Framings, ~Decoder(F).done
  PROVE  Fed(F, Decoder(F), <<>>, <<>>)
<1> DEFINE d == Decoder(F)
           s == State(d, <<>>, <<>>)
<1>1. /\ d \in Decoders /\ d.mode = F.mode /\ d.remaining = F.length /\ d.bad = FALSE
      /\ d.pending = <<>> /\ d.state = "size" /\ F.length \in Nat
      /\ F.mode = "none" => d.done = TRUE
      /\ F.mode = "length" => d.done = (F.length = 0)
      /\ F.mode = "chunked" => d.done = FALSE
  BY DecoderTyped DEF Framings
<1>2. F.mode \in {"none", "length", "chunked"} /\ <<>> \in Seq(STRING) /\ Len(<<>>) = 0
  BY DEF Framings
<1> HIDE DEF d
<1>3. CASE F.mode = "length"
  <2>1. F.length # 0
    BY <1>1, <1>3 DEF d
  <2>2. d = [d EXCEPT !.remaining = F.length - 0]
    BY <1>1 DEF Decoders
  <2> QED
    BY <1>1, <1>2, <1>3, <2>1, <2>2 DEF Fed, d
<1>4. CASE F.mode = "chunked"
  <2>1. s \in LoopStates /\ s.dec = d /\ s.buf = <<>>
    BY <1>1, <1>2, StateTyped
  <2>2. indexOfCRLF(<<>>) = 0
    <3> DEFINE b == <<>>
    <3>1. b \in Seq(STRING) /\ Len(b) = 0
      BY <1>2
    <3> HIDE DEF b
    <3>2. indexOfCRLF(b) \in Nat /\ (indexOfCRLF(b) # 0 => indexOfCRLF(b) + 1 <= Len(b))
      BY <3>1, LineEnd
    <3>3. indexOfCRLF(b) = 0
      BY <3>1, <3>2
    <3> QED
      BY <3>3 DEF b
  <2> HIDE DEF s
  <2>3. Stops(s)
    BY <1>1, <2>1, <2>2 DEF Stops
  <2>4. Loop[s] = s
    BY <2>1, <2>3, LoopAt
  <2>5. d = [d EXCEPT !.pending = <<>>]
    BY <1>1 DEF Decoders
  <2> QED
    BY <1>1, <1>4, <2>4, <2>5 DEF Fed, s, d
<1> QED
  BY <1>1, <1>2, <1>3, <1>4 DEF d

LEMMA WholeIs ==
  ASSUME NEW F \in Framings, NEW w \in Seq(STRING)
  PROVE  /\ F.mode = "none" => WholeBody(F, w) = <<>>
         /\ F.mode = "length" => WholeBody(F, w) = SubSeq(w, 1, Min({F.length, Len(w)}))
         /\ F.mode = "chunked" => WholeBody(F, w) = Loop[State(Decoder(F), w, <<>>)].out
BY DEF WholeBody, State

\* The loop over a body of which it has seen the first bytes.
LEMMA LoopOverRest ==
  ASSUME NEW d \in Decoders, NEW e \in Decoders, NEW c \in Seq(STRING), NEW r \in Seq(STRING),
         NEW p \in Seq(STRING), NEW g \in Seq(STRING),
         Loop[State(d, c, <<>>)] = State(e, p, g)
  PROVE  Loop[State(d, c \o r, <<>>)] = Loop[State(e, p \o r, g)]
<1> DEFINE s == State(d, c, <<>>)
           t == State(e, p, g)
<1>1. s \in LoopStates /\ s.dec = d /\ s.buf = c /\ s.out = <<>>
  <2>1. <<>> \in Seq(STRING)
    OBVIOUS
  <2> DEFINE o == <<>>
  <2>2. o \in Seq(STRING) /\ s = State(d, c, o)
    BY <2>1
  <2> HIDE DEF o, s
  <2>3. s \in LoopStates /\ s.dec = d /\ s.buf = c /\ s.out = o
    BY <2>2, StateTyped
  <2> QED
    BY <2>3 DEF o
<1>2. t \in LoopStates /\ t.dec = e /\ t.buf = p /\ t.out = g
  BY StateTyped
<1>3. Loop[s] = t
  OBVIOUS
<1> HIDE DEF s, t
<1>4. Loop[More(s, r)] = Loop[More(t, r)]
  BY <1>1, <1>3, LoopMore
<1>5. More(s, r) = State(d, c \o r, <<>>) /\ More(t, r) = State(e, p \o r, g)
  BY <1>1, <1>2 DEF More
<1> QED
  BY <1>4, <1>5

LEMMA FedIsPrefix ==
  ASSUME NEW F \in Framings, NEW d \in Decoders, NEW g \in Seq(STRING), NEW c \in Seq(STRING),
         Fed(F, d, g, c), NEW r \in Seq(STRING)
  PROVE  IsPrefix(g, WholeBody(F, c \o r))
<1> DEFINE w == c \o r
<1>1. w \in Seq(STRING) /\ Len(w) = Len(c) + Len(r) /\ Len(c) \in Nat /\ Len(r) \in Nat
  BY ConcatProperties
<1>2. CASE F.mode = "length"
  <2>1. Len(c) < F.length /\ g = c /\ F.length \in Nat
    BY <1>2 DEF Fed, Framings
  <2> DEFINE m == Min({F.length, Len(w)})
  <2>2. m \in Nat /\ m <= Len(w) /\ Len(c) <= m
    BY <1>1, <2>1, MinOfTwo
  <2>3. WholeBody(F, w) = SubSeq(w, 1, m)
    BY <1>1, <1>2, WholeIs
  <2>4. IsPrefix(c, w)
    BY PrefixOfConcat
  <2> HIDE DEF m, w
  <2>5. IsPrefix(c, SubSeq(w, 1, m))
    BY <1>1, <2>2, <2>4, PrefixOfUpTo
  <2> QED
    BY <2>1, <2>3, <2>5 DEF w
<1>3. CASE F.mode = "chunked"
  <2> DEFINE D == Decoder(F)
             e == [d EXCEPT !.pending = <<>>]
             s == State(e, d.pending \o r, g)
  <2>1. D \in Decoders /\ e \in Decoders /\ d.pending \in Seq(STRING)
    BY DecoderTyped DEF Decoders
  <2>2. Loop[State(D, c, <<>>)] = State(e, d.pending, g)
    BY <1>3 DEF Fed
  <2> HIDE DEF D, e
  <2>3. Loop[State(D, w, <<>>)] = Loop[s]
    BY <2>1, <2>2, LoopOverRest
  <2>4. s \in LoopStates /\ s.out = g
    <3> DEFINE b == d.pending \o r
    <3>1. b \in Seq(STRING)
      BY <2>1, ConcatProperties
    <3> HIDE DEF b
    <3>2. State(e, b, g) \in LoopStates /\ State(e, b, g).out = g
      BY <2>1, <3>1, StateTyped
    <3> QED
      BY <3>2 DEF b
  <2>5. IsPrefix(g, Loop[s].out)
    BY <2>4, OutGrows
  <2>6. WholeBody(F, w) = Loop[State(D, w, <<>>)].out
    <3> HIDE DEF w
    <3> QED
      BY <1>1, <1>3, WholeIs DEF D
  <2> QED
    BY <2>3, <2>5, <2>6
<1> QED
  BY <1>2, <1>3 DEF Fed

\* A push of the next bytes goes on from there, and returns the rest of the body
\* when they end it: cutting a body into pushes changes nothing in what they
\* return together, for a Content-Length and for chunks alike.
THEOREM PushFed ==
  ASSUME NEW F \in Framings, NEW d \in Decoders, NEW g \in Seq(STRING), NEW c \in Seq(STRING),
         Fed(F, d, g, c), NEW b \in Seq(STRING), NEW r \in Seq(STRING)
  PROVE  LET p == push(d, b) IN
         /\ ~p.dec.bad /\ ~p.dec.done => Fed(F, p.dec, g \o p.out, c \o b)
         /\ ~p.dec.bad /\ p.dec.done => g \o p.out = WholeBody(F, (c \o b) \o r)
         /\ IsPrefix(g \o p.out, WholeBody(F, (c \o b) \o r))
<1> DEFINE p == push(d, b)
           cb == c \o b
           w == cb \o r
<1>1. /\ cb \in Seq(STRING) /\ w \in Seq(STRING) /\ Len(cb) = Len(c) + Len(b)
      /\ Len(w) = Len(cb) + Len(r) /\ Len(c) \in Nat /\ Len(b) \in Nat /\ Len(r) \in Nat
      /\ g \o <<>> = g /\ c \o <<>> = c
  BY ConcatProperties, ConcatEmptySeq
<1>2. d.done = FALSE /\ d.bad = FALSE /\ d.mode = F.mode /\ F.mode \in {"length", "chunked"}
  BY FedGoesOn DEF Fed
<1>3. CASE b = <<>>
  <2>1. p = [dec |-> d, out |-> <<>>] /\ cb = c
    BY <1>1, <1>3 DEF push
  <2>2. p.dec = d /\ p.out = <<>>
    BY <2>1
  <2> HIDE DEF p
  <2>3. IsPrefix(g, WholeBody(F, c \o r))
    BY FedIsPrefix
  <2> QED
    BY <1>1, <1>2, <2>1, <2>2, <2>3 DEF p
<1>4. CASE b # <<>> /\ F.mode = "length"
  <2> DEFINE L == F.length
             n == L - Len(c)
             take == Min({n, Len(b)})
             D == Decoder(F)
  <2>1. Len(c) < L /\ g = c /\ L \in Nat /\ n \in Nat /\ n > 0 /\ d = [D EXCEPT !.remaining = n]
    BY <1>1, <1>4 DEF Fed, Framings
  <2>14. Len(c) + n = L
    BY <1>1, <2>1
  <2>2. D \in Decoders /\ D.bad = FALSE
    BY DecoderTyped
  <2>3. take = IF n <= Len(b) THEN n ELSE Len(b)
    BY <1>1, <2>1, MinOfTwo
  <2>4. d.remaining = n
    BY <2>1, <2>2 DEF Decoders
  <2>5. p = [dec |-> [d EXCEPT !.remaining = d.remaining - take, !.done = (d.remaining = take)],
             out |-> SubSeq(b, 1, take)]
    BY <1>2, <1>4, <2>4 DEF push
  <2> HIDE DEF D, take, p, n
  <2>6. /\ p.dec = [d EXCEPT !.remaining = n - take, !.done = (n = take)]
        /\ p.out = SubSeq(b, 1, take)
    BY <2>4, <2>5
  <2>7. p.dec.done = (n = take) /\ p.dec.bad = FALSE
    BY <1>2, <2>6 DEF Decoders
  <2>8. CASE n <= Len(b)
    <3>1. take = n /\ p.dec.done = TRUE
      BY <2>3, <2>7, <2>8
    <3>2. SubSeq(cb, 1, Len(c) + n) = c \o SubSeq(b, 1, n)
      BY <2>1, <2>8, UpToConcat
    <3>3. Len(c) + n = L /\ L <= Len(cb) /\ L <= Len(w)
      <4> HIDE DEF cb, w
      <4> QED
        BY <1>1, <2>1, <2>8, <2>14
    <3>4. SubSeq(w, 1, L) = SubSeq(cb, 1, L)
      <4> HIDE DEF cb, n
      <4> QED
        BY <1>1, <2>1, <3>3, AfterConcat
    <3>5. WholeBody(F, w) = SubSeq(w, 1, L)
      <4>1. Min({L, Len(w)}) = L
        <5>1. Len(w) \in Nat
          BY <1>1
        <5> HIDE DEF w
        <5> QED
          BY <2>1, <3>3, <5>1, MinOfTwo
      <4> HIDE DEF w
      <4> QED
        BY <1>1, <1>4, <4>1, WholeIs
    <3>6. g \o p.out = WholeBody(F, w)
      BY <2>1, <2>6, <3>1, <3>2, <3>3, <3>4, <3>5
    <3>7. WholeBody(F, w) \in Seq(STRING)
      <4> HIDE DEF w
      <4> QED
        BY <1>1, <2>1, <3>3, <3>5, UpToIs
    <3>8. IsPrefix(WholeBody(F, w), WholeBody(F, w))
      BY <3>7, PrefixOfConcat
    <3> QED
      BY <2>7, <3>1, <3>6, <3>8 DEF p
  <2>9. CASE ~(n <= Len(b))
    <3>1. take = Len(b) /\ (n = take) = FALSE /\ n - take = L - Len(cb) /\ Len(cb) < L
      <4> HIDE DEF cb, w
      <4> QED
        BY <1>1, <2>1, <2>3, <2>9, <2>14
    <3>2. p.out = b
      <4>1. SubSeq(b, 1, Len(b)) = b
        OBVIOUS
      <4> QED
        BY <2>6, <3>1, <4>1
    <3>3. D.done = FALSE
      <4>1. D.done = (L = 0)
        BY <1>4, DecoderTyped DEF D
      <4>2. (L = 0) = FALSE
        BY <2>1, <1>1
      <4> QED
        BY <4>1, <4>2
    <3>4. p.dec = [D EXCEPT !.remaining = L - Len(cb)]
      <4> DEFINE k == L - Len(cb)
      <4>1. p.dec = [[D EXCEPT !.remaining = n] EXCEPT !.remaining = k, !.done = FALSE]
        BY <2>1, <2>6, <3>1
      <4> HIDE DEF k
      <4> QED
        BY <2>2, <3>3, <4>1 DEF Decoders, k
    <3>5. Fed(F, p.dec, cb, cb)
      BY <1>4, <3>1, <3>4 DEF Fed, D
    <3>6. IsPrefix(cb, WholeBody(F, w))
      <4>1. p.dec \in Decoders
        <5>1. L - Len(cb) \in Nat
          BY <1>1, <2>1, <3>1
        <5> QED
          BY <2>2, <3>4, <5>1 DEF Decoders
      <4> HIDE DEF cb
      <4> QED
        BY <1>1, <3>5, <4>1, FedIsPrefix
    <3> QED
      BY <2>1, <2>7, <3>1, <3>2, <3>5, <3>6 DEF p
  <2> QED
    BY <1>1, <2>1, <2>8, <2>9
<1>5. CASE b # <<>> /\ F.mode = "chunked"
  <2> DEFINE D  == Decoder(F)
             d0 == [d EXCEPT !.pending = <<>>]
             pb == d.pending \o b
             s  == State(d, pb, <<>>)
             e  == Loop[s]
             e0 == [e.dec EXCEPT !.pending = <<>>]
             go == g \o e.out
  <2>1. /\ D \in Decoders /\ d0 \in Decoders /\ d.pending \in Seq(STRING) /\ pb \in Seq(STRING)
        /\ <<>> \in Seq(STRING)
    BY DecoderTyped, ConcatProperties DEF Decoders
  <2>2. Loop[State(D, c, <<>>)] = State(d0, d.pending, g)
    BY <1>5 DEF Fed
  <2>3. p = Outcome[e]
    BY <1>2, <1>5 DEF push, Chunks, State
  <2> HIDE DEF D, d0, p, pb
  <2>4. s \in LoopStates /\ s.dec = d /\ s.buf = pb /\ s.out = <<>>
    <3> DEFINE o == <<>>
    <3>1. o \in Seq(STRING)
      BY <2>1
    <3> HIDE DEF o
    <3>2. State(d, pb, o) \in LoopStates /\ State(d, pb, o).dec = d /\ State(d, pb, o).buf = pb
          /\ State(d, pb, o).out = o
      BY <2>1, <3>1, StateTyped
    <3> QED
      BY <3>2 DEF o
  <2> HIDE DEF s
  <2>5. e \in LoopStates /\ e.dec.mode = "chunked"
    BY <1>2, <1>5, <2>4, OutGrows, LoopMode
  <2> HIDE DEF e
  <2>6. e.dec \in Decoders /\ e.buf \in Seq(STRING) /\ e.out \in Seq(STRING)
    BY <2>5, StateIs
  <2>7. Loop[State(D, cb, <<>>)] = Loop[State(d0, pb, g)]
    BY <2>1, <2>2, LoopOverRest DEF pb
  <2>8. State(d0, pb, g) = Frame(s, <<>>, g)
    BY <1>1, <2>4 DEF Frame, d0
  <2>9. Loop[State(D, cb, <<>>)] = State(e0, e.buf, go)
    <3> DEFINE o == <<>>
    <3>1. o \in Seq(STRING)
      BY <2>1
    <3> HIDE DEF o
    <3>2. Loop[Frame(s, o, g)] = Frame(e, o, g)
      BY <2>4, <3>1, LoopFrame DEF e
    <3>3. Frame(e, <<>>, g) = State(e0, e.buf, go)
      BY DEF Frame
    <3> HIDE DEF e0, go
    <3> QED
      BY <2>7, <2>8, <3>2, <3>3 DEF o
  <2>10. p = IF e.dec.bad THEN [dec |-> e.dec, out |-> <<>>]
             ELSE [dec |-> [e.dec EXCEPT !.pending = e.buf], out |-> e.out]
    BY <2>3, <2>5 DEF Outcome
  <2>11. e0 \in Decoders /\ go \in Seq(STRING) /\ e0.done = e.dec.done
    BY <2>1, <2>6, ConcatProperties DEF Decoders
  <2>12. CASE e.dec.bad
    <3>1. p.dec = e.dec /\ p.out = <<>>
      BY <2>10, <2>12
    <3> DEFINE br == b \o r
    <3>2. br \in Seq(STRING) /\ w = c \o br
      BY ConcatProperties, ConcatAssociative
    <3> HIDE DEF br
    <3>3. IsPrefix(g, WholeBody(F, c \o br))
      BY <3>2, FedIsPrefix
    <3>4. IsPrefix(g, WholeBody(F, w))
      BY <3>2, <3>3
    <3>5. g \o p.out = g
      BY <1>1, <3>1
    <3> HIDE DEF w
    <3> QED
      BY <2>12, <3>1, <3>4, <3>5 DEF p, w, cb
  <2>13. CASE ~e.dec.bad
    <3> DEFINE pd == [e.dec EXCEPT !.pending = e.buf]
    <3>1. p.dec = pd /\ p.out = e.out
      BY <2>10, <2>13
    <3>2. /\ pd \in Decoders /\ pd.pending = e.buf /\ pd.bad = FALSE /\ pd.mode = "chunked"
          /\ pd.done = e.dec.done /\ [pd EXCEPT !.pending = <<>>] = e0
      BY <2>5, <2>6, <2>13 DEF Decoders
    <3> HIDE DEF pd, e0, go
    <3>3. ASSUME ~p.dec.done
          PROVE  Fed(F, p.dec, go, cb)
      <4>1. p.dec.done = FALSE
        BY <3>1, <3>2, <3>3 DEF Decoders
      <4> QED
        BY <1>5, <2>9, <3>1, <3>2, <4>1 DEF Fed, D
    <3>4. ASSUME p.dec.done
          PROVE  go = WholeBody(F, w)
      <4> DEFINE y == State(e0, e.buf \o r, go)
      <4>1. Loop[State(D, w, <<>>)] = Loop[y]
        <5> HIDE DEF cb
        <5> QED
          <6>1. /\ D \in Decoders /\ e0 \in Decoders /\ cb \in Seq(STRING) /\ r \in Seq(STRING)
                /\ e.buf \in Seq(STRING) /\ go \in Seq(STRING)
            BY <1>1, <2>1, <2>6, <2>11
          <6> DEFINE ep == e.buf
          <6> HIDE DEF ep
          <6>2. Loop[State(D, cb, <<>>)] = State(e0, ep, go) /\ ep \in Seq(STRING)
            BY <2>9, <6>1 DEF ep
          <6>3. Loop[State(D, cb \o r, <<>>)] = Loop[State(e0, ep \o r, go)]
            BY ONLY <6>1, <6>2, LoopOverRest
          <6> QED
            BY <6>3 DEF ep
      <4>2. y \in LoopStates /\ y.dec = e0 /\ y.out = go
        <5> DEFINE br == e.buf \o r
        <5>1. br \in Seq(STRING)
          BY <2>6, ConcatProperties
        <5> HIDE DEF br
        <5>2. State(e0, br, go) \in LoopStates /\ State(e0, br, go).dec = e0
              /\ State(e0, br, go).out = go
          BY <2>11, <5>1, StateTyped
        <5> QED
          BY <5>2 DEF br
      <4> HIDE DEF y
      <4>3. Loop[y] = y
        BY <2>11, <3>1, <3>2, <3>4, <4>2, LoopAt DEF Stops
      <4>4. WholeBody(F, w) = Loop[State(D, w, <<>>)].out
        <5> HIDE DEF w
        <5> QED
          BY <1>1, <1>5, WholeIs DEF D
      <4> QED
        BY <4>1, <4>2, <4>3, <4>4
    <3>5. IsPrefix(go, WholeBody(F, w))
      <4>1. CASE p.dec.done
        BY <2>11, <3>4, <4>1, PrefixOfConcat
      <4>2. CASE ~p.dec.done
        <5> HIDE DEF cb
        <5> QED
          BY <1>1, <2>11, <3>1, <3>2, <3>3, <4>2, FedIsPrefix
      <4> QED
        BY <4>1, <4>2
    <3>6. g \o p.out = go
      BY <3>1 DEF go
    <3> HIDE DEF w, cb
    <3> QED
      BY <3>3, <3>4, <3>5, <3>6 DEF p, w, cb
  <2> QED
    BY <2>12, <2>13
<1> QED
  BY <1>2, <1>3, <1>4, <1>5

\* The first push, of the bytes that came with the head.
LEMMA PushFirst ==
  ASSUME NEW F \in Framings, NEW b \in Seq(STRING), NEW r \in Seq(STRING)
  PROVE  LET p == push(Decoder(F), b) IN
         /\ ~p.dec.bad /\ ~p.dec.done => Fed(F, p.dec, p.out, b)
         /\ ~p.dec.bad /\ p.dec.done => p.out = WholeBody(F, b \o r)
         /\ IsPrefix(p.out, WholeBody(F, b \o r))
<1> DEFINE D == Decoder(F)
           p == push(D, b)
           w == b \o r
<1>1. /\ D \in Decoders /\ <<>> \in Seq(STRING) /\ <<>> \o b = b /\ w \in Seq(STRING)
  <2>1. D \in Decoders
    BY DecoderTyped
  <2>2. <<>> \o b = b /\ w \in Seq(STRING)
    BY ConcatProperties, ConcatEmptySeq
  <2> QED
    BY <2>1, <2>2
<1>2. CASE ~D.done
  <2> DEFINE o == <<>>
  <2>1. o \in Seq(STRING) /\ Fed(F, D, o, o) /\ o \o b = b
    BY <1>1, <1>2, FedFirst
  <2> HIDE DEF o, D
  <2>2. /\ ~p.dec.bad /\ ~p.dec.done => Fed(F, p.dec, o \o p.out, o \o b)
        /\ ~p.dec.bad /\ p.dec.done => o \o p.out = WholeBody(F, (o \o b) \o r)
        /\ IsPrefix(o \o p.out, WholeBody(F, (o \o b) \o r))
    BY <1>1, <2>1, PushFed
  <2>3. o \o p.out = p.out
    <3>1. STRING \in SUBSET STRING /\ D.pending \in Seq(STRING)
      BY <1>1 DEF Decoders
    <3>2. p.out \in Seq(STRING)
      BY <1>1, <3>1, PushTyped
    <3> HIDE DEF p
    <3> QED
      BY <3>2, ConcatEmptySeq DEF o
  <2> HIDE DEF p
  <2> QED
    BY <2>1, <2>2, <2>3 DEF p, D
<1>3. CASE D.done
  <2>1. p = [dec |-> D, out |-> <<>>]
    BY <1>3 DEF push
  <2>2. WholeBody(F, w) = <<>>
    <3>1. CASE F.mode = "none"
      <4> HIDE DEF w
      <4> QED
        BY <1>1, <3>1, WholeIs
    <3>2. CASE F.mode = "length"
      <4>1. F.length = 0
        BY <1>3, <3>2, DecoderTyped
      <4>2. Min({0, Len(w)}) = 0
        <5>1. Len(w) \in Nat /\ 0 \in Nat
          BY <1>1
        <5> HIDE DEF w
        <5> QED
          BY <5>1, MinOfTwo
      <4>3. SubSeq(w, 1, 0) = <<>>
        <5> HIDE DEF w
        <5>1. SubSeq(w, 1, 0) \in Seq(STRING) /\ Len(SubSeq(w, 1, 0)) = 0
          BY <1>1, UpToIs
        <5> QED
          BY <5>1, EmptySeq
      <4> HIDE DEF w
      <4> QED
        BY <1>1, <3>2, <4>1, <4>2, <4>3, WholeIs
    <3>3. CASE F.mode = "chunked"
      BY <1>3, <3>3, DecoderTyped
    <3>4. F.mode \in {"none", "length", "chunked"}
      BY DEF Framings
    <3> QED
      BY <3>1, <3>2, <3>3, <3>4
  <2>3. p.dec = D /\ p.out = <<>>
    BY <2>1
  <2>4. IsPrefix(<<>>, <<>>)
    BY DEF IsPrefix
  <2> HIDE DEF p, D, w
  <2>5. p.dec.done
    BY <1>3, <2>3
  <2> QED
    BY <2>2, <2>3, <2>4, <2>5 DEF p, D, w
<1> QED
  BY <1>2, <1>3

-----------------------------------------------------------------------------
\* The connection, its phases, and what has been counted in each.
Phases ==
  /\ phase = "none" <=> native = "none"
  /\ phase \in {"accepting", "head"} => native = "open"
  /\ phase \in {"refused", "left"} => native = "closed"
  /\ phase = "served" => (native = "closed" <=> writing = "done")
  /\ phase = "served" <=> pump # "idle"
  /\ finished => phase \in {"served", "refused"}
  /\ writing = "no" <=> ~finished

Counts ==
  /\ complete \/ reqErrors = 1 => pump = "over"
  /\ clientErrors = 1 => phase \in {"refused", "left"}
  /\ phase = "refused" => clientErrors = 1
  /\ ErrorHasCause

\* What a read has resolved with, and what caused one to end.
Taken == pos - Len(result.bytes)
Results ==
  /\ result.is \in {"eof", "error"} => cut \/ writing = "done"
  /\ result.is # "bytes" => result.bytes = <<>>
  /\ pump = "timer" => result.bytes = <<>>
  /\ Len(result.bytes) <= pos
  /\ result.bytes = SubSeq(request.wire, Taken + 1, pos)

\* The head is what has been taken from the wire, and ends where the wire's does.
Heads ==
  /\ phase \in {"none", "accepting", "head"} \/ pump = "timer" =>
       head = SubSeq(request.wire, 1, Taken)
  /\ phase = "served" => headEndIndex(request.wire) > 0
                           /\ RequestFraming(request.wire).mode # "refused"
  /\ pump = "timer" => /\ headEndIndex(head) = headEndIndex(request.wire)
                       /\ dec = Decoder(RequestFraming(request.wire))

\* The body so far is the taken bytes' body.
Start == headEndIndex(request.wire) + 3
Bodies ==
  /\ pump \in {"idle", "timer"} => got = <<>>
  /\ pump = "await" =>
       /\ Start <= Taken
       /\ Fed(RequestFraming(request.wire), dec, got, SubSeq(request.wire, Start + 1, Taken))
  /\ RequestIsPayload

IInv == TypeOK /\ Phases /\ Counts /\ Results /\ Heads /\ Bodies

-----------------------------------------------------------------------------
\* The symbols of the requests.
Alphabet == UNION {ToSet(r.wire) : r \in Requests}

LEMMA WireTyped ==
  ASSUME NEW r \in Requests
  PROVE  /\ r.wire \in Seq(STRING) /\ r.wire \in Bytes /\ r.payload \in Seq(STRING)
         /\ Len(r.wire) \in Nat
<1>1. r.wire \in Seq(STRING) /\ r.payload \in Seq(STRING)
  BY HttpServerAssumption
<1> DEFINE w == r.wire
<1>2. \A i \in 1..Len(w) : w[i] \in Alphabet
  <2>1. ToSet(w) \subseteq Alphabet
    BY DEF Alphabet
  <2>2. \A i \in 1..Len(w) : w[i] \in ToSet(w)
    BY <1>1 DEF ToSet
  <2> QED
    BY <2>1, <2>2
<1>3. w \in Seq(STRING) /\ Len(w) \in Nat
  BY <1>1
<1> HIDE DEF w
<1>4. w \in Seq(Alphabet)
  BY <1>2, <1>3
<1> QED
  BY <1>1, <1>3, <1>4 DEF Bytes, Alphabet, w

LEMMA AlphabetIsText ==
  Alphabet \in SUBSET STRING /\ Bytes = Seq(Alphabet) /\ Bytes \subseteq Seq(STRING)
<1>1. ASSUME NEW r \in Requests, NEW x \in ToSet(r.wire)
      PROVE  x \in STRING
  <2>1. r.wire \in Seq(STRING)
    BY WireTyped
  <2> QED
    BY <2>1 DEF ToSet
<1>2. Alphabet \subseteq STRING
  BY <1>1 DEF Alphabet
<1>3. Bytes = Seq(Alphabet)
  BY DEF Bytes, Alphabet
<1> HIDE DEF Alphabet
<1>4. Seq(Alphabet) \subseteq Seq(STRING)
  BY <1>2, SeqMonotonic
<1> QED
  BY <1>2, <1>3, <1>4

LEMMA SliceTyped ==
  ASSUME NEW S, NEW w \in Seq(S), NEW m \in Nat, NEW n \in Nat, m <= n, n <= Len(w)
  PROVE  SubSeq(w, m + 1, n) \in Seq(S) /\ Len(SubSeq(w, m + 1, n)) = n - m
<1>1. \A i \in (m + 1)..n : w[i] \in S
  <2>1. Len(w) \in Nat
    OBVIOUS
  <2>2. ASSUME NEW i \in (m + 1)..n
        PROVE  w[i] \in S
    <3>1. i \in 1..Len(w)
      BY <2>1
    <3> QED
      BY <3>1
  <2> QED
    BY <2>2
<1>2. m + 1 \in Int /\ n \in Int
  OBVIOUS
<1>3. /\ SubSeq(w, m + 1, n) \in Seq(S)
      /\ Len(SubSeq(w, m + 1, n)) = IF m + 1 <= n THEN n - (m + 1) + 1 ELSE 0
  BY <1>1, <1>2, SubSeqProperties
<1> QED
  BY <1>3

\* Two slices that meet.
LEMMA SlicesMeet ==
  ASSUME NEW S, NEW w \in Seq(S), NEW m \in Nat, NEW k \in Nat, NEW n \in Nat,
         m <= k, k <= n, n <= Len(w)
  PROVE  SubSeq(w, m + 1, k) \o SubSeq(w, k + 1, n) = SubSeq(w, m + 1, n)
<1>1. Len(w) \in Nat
  OBVIOUS
<1>2. m + 1 \in 1..(Len(w) + 1) /\ k \in ((m + 1) - 1)..Len(w) /\ n \in k..Len(w)
  BY <1>1
<1> QED
  BY <1>2, ConcatAdjacentSubSeq

\* What is left of the first n symbols behind the first m.
LEMMA AfterOfSlice ==
  ASSUME NEW S, NEW w \in Seq(S), NEW m \in Nat, NEW n \in Nat, m <= n, n <= Len(w)
  PROVE  After(SubSeq(w, 1, n), m) = SubSeq(w, m + 1, n)
<1> DEFINE u == SubSeq(w, 1, n)
           x == After(u, m)
           y == SubSeq(w, m + 1, n)
<1>1. u \in Seq(S) /\ Len(u) = n /\ \A i \in 1..n : u[i] = w[i]
  BY UpToIs
<1> HIDE DEF u
<1>2. x \in Seq(S) /\ Len(x) = n - m /\ \A i \in 1..(n - m) : x[i] = u[m + i]
  <2>1. u \in Seq(S) /\ m <= Len(u)
    BY <1>1
  <2>2. /\ x \in Seq(S) /\ Len(x) = Len(u) - m
        /\ \A i \in 1..(Len(u) - m) : x[i] = u[m + i]
    BY <2>1, AfterIs
  <2> QED
    BY <1>1, <2>2
<1>3. y \in Seq(S) /\ Len(y) = n - m
  BY SliceTyped
<1>4. \A i \in 1..(n - m) : y[i] = w[m + i]
  <2>1. \A i \in (m + 1)..n : w[i] \in S
    <3>1. Len(w) \in Nat
      OBVIOUS
    <3>2. ASSUME NEW i \in (m + 1)..n
          PROVE  w[i] \in S
      <4>1. i \in 1..Len(w)
        BY <3>1
      <4> QED
        BY <4>1
    <3> QED
      BY <3>2
  <2>2. m + 1 \in Int /\ n \in Int
    OBVIOUS
  <2>3. \A i \in 1..(n - (m + 1) + 1) : y[i] = w[(m + 1) + i - 1]
    BY <2>1, <2>2, SubSeqProperties
  <2>4. ASSUME NEW i \in 1..(n - m)
        PROVE  y[i] = w[m + i]
    <3>1. i \in 1..(n - (m + 1) + 1) /\ (m + 1) + i - 1 = m + i
      OBVIOUS
    <3> HIDE DEF y
    <3> QED
      BY <2>3, <3>1
  <2> QED
    BY <2>4
<1> HIDE DEF x, y
<1>5. ASSUME NEW i \in 1..(n - m)
      PROVE  x[i] = y[i]
  <2>1. m + i \in 1..n
    OBVIOUS
  <2> QED
    BY <1>1, <1>2, <1>4, <2>1
<1>6. x = y
  BY <1>2, <1>3, <1>5, SeqEqual
<1> QED
  BY <1>6 DEF x, y, u

\* A request's framing, and what of a text it depends on.
LEMMA FramingTyped ==
  ASSUME NEW w, RequestFraming(w).mode # "refused"
  PROVE  RequestFraming(w) \in Framings
<1> DEFINE h == splitHead(w)
<1>1. /\ h.te \in {"absent", "chunked", "other"} /\ h.cl \in Nat \cup {-1, -2}
  BY HttpWireAssumption DEF splitHead
<1>2. RequestFraming(w) = bodyFraming(h, FALSE, "none")
  BY DEF RequestFraming
<1> HIDE DEF h
<1>3. CASE h.te = "chunked"
  <2>1. RequestFraming(w) = Framing("chunked", 0)
    BY <1>2, <1>3 DEF bodyFraming
  <2> QED
    BY <2>1 DEF Framing, Framings
<1>4. CASE h.te = "other"
  <2>1. RequestFraming(w) = Framing("refused", 0)
    BY <1>2, <1>4 DEF bodyFraming
  <2> QED
    BY <2>1 DEF Framing
<1>5. CASE h.te = "absent" /\ h.cl \in Nat
  <2>1. RequestFraming(w) = Framing("length", h.cl)
    BY <1>2, <1>5 DEF bodyFraming
  <2> QED
    BY <1>5, <2>1 DEF Framing, Framings
<1>6. CASE h.te = "absent" /\ h.cl = -2
  <2>1. RequestFraming(w) = Framing("refused", 0)
    BY <1>2, <1>6 DEF bodyFraming
  <2> QED
    BY <2>1 DEF Framing
<1>7. CASE h.te = "absent" /\ h.cl = -1
  <2>1. RequestFraming(w) = Framing("none", 0)
    BY <1>2, <1>7 DEF bodyFraming
  <2> QED
    BY <2>1 DEF Framing, Framings
<1> QED
  BY <1>1, <1>3, <1>4, <1>5, <1>6, <1>7

\* The first symbols of a request with a whole head say what the request says.
LEMMA HeadOfSlice ==
  ASSUME NEW w \in Seq(STRING), NEW n \in Nat, n <= Len(w), headEndIndex(SubSeq(w, 1, n)) > 0
  PROVE  /\ headEndIndex(SubSeq(w, 1, n)) = headEndIndex(w)
         /\ headEndIndex(w) \in Nat /\ headEndIndex(w) + 3 <= n
         /\ RequestFraming(SubSeq(w, 1, n)) = RequestFraming(w)
<1> DEFINE u == SubSeq(w, 1, n)
           v == SubSeq(w, n + 1, Len(w))
<1>1. u \in Seq(STRING) /\ Len(u) = n /\ \A i \in 1..n : u[i] = w[i]
  BY UpToIs
<1>2. v \in Seq(STRING) /\ u \o v = w
  <2>1. Len(w) \in Nat /\ SubSeq(w, 1, Len(w)) = w
    BY SubSeqFull
  <2>2. u \o v = SubSeq(w, 1, Len(w))
    <3>1. 1 \in 1..(Len(w) + 1) /\ n \in (1 - 1)..Len(w) /\ Len(w) \in n..Len(w)
      BY <2>1
    <3> QED
      BY <3>1, ConcatAdjacentSubSeq
  <2>3. v \in Seq(STRING)
    BY <2>1, SliceTyped
  <2> QED
    BY <2>1, <2>2, <2>3
<1> HIDE DEF u, v
<1>3. headEndIndex(u) # 0
  BY <1>1, HeadEnd4 DEF u
<1>4. headEndIndex(u \o v) = headEndIndex(u)
  BY <1>1, <1>2, <1>3, HeadEndStays
<1>5. headEndIndex(u) \in Nat /\ headEndIndex(u) + 3 <= n
  BY <1>1, <1>3, HeadEnd4
<1>6. u[1] = w[1]
  <2>1. 1 \in 1..n
    BY <1>5
  <2> QED
    BY <1>1, <2>1
<1>7. RequestFraming(u) = RequestFraming(w)
  BY <1>6 DEF RequestFraming, splitHead
<1> QED
  BY <1>2, <1>4, <1>5, <1>7 DEF u

-----------------------------------------------------------------------------
\* The types that every step relies on.
LEMMA Typed ==
  ASSUME TypeOK
  PROVE  /\ request.wire \in Seq(STRING) /\ request.wire \in Seq(Alphabet)
         /\ request.payload \in Seq(STRING) /\ Len(request.wire) \in Nat
         /\ pos \in Nat /\ pos <= Len(request.wire)
         /\ result.bytes \in Seq(STRING) /\ Len(result.bytes) \in Nat
         /\ head \in Seq(STRING) /\ got \in Seq(STRING) /\ dec \in Decoders
<1>1. request \in Requests /\ pos \in 0..Len(request.wire) /\ result.bytes \in Bytes
  BY DEF TypeOK
<1>2. head \in Bytes /\ got \in Bytes /\ dec \in Decoders
  BY DEF TypeOK
<1>3. Bytes \subseteq Seq(STRING) /\ Bytes = Seq(Alphabet)
  BY AlphabetIsText
<1>4. /\ request.wire \in Seq(STRING) /\ request.wire \in Bytes /\ request.payload \in Seq(STRING)
      /\ Len(request.wire) \in Nat
  BY <1>1, WireTyped
<1>5. result.bytes \in Seq(STRING) /\ head \in Seq(STRING) /\ got \in Seq(STRING)
  BY <1>1, <1>2, <1>3
<1>6. Len(result.bytes) \in Nat
  BY <1>5
<1> QED
  BY <1>1, <1>2, <1>3, <1>4, <1>5, <1>6

\* A request whose head is whole has the body its framing says.
LEMMA PayloadIs ==
  ASSUME NEW r \in Requests, headEndIndex(r.wire) > 0
  PROVE  r.payload = WholeBody(RequestFraming(r.wire),
                               SubSeq(r.wire, headEndIndex(r.wire) + 4, Len(r.wire)))
<1>1. r.payload = WholeBody(RequestFraming(r.wire), After(r.wire, headEndIndex(r.wire) + 3))
  BY HttpServerAssumption
<1>2. headEndIndex(r.wire) \in Nat
  BY WireTyped, HeadEnd4
<1>3. (headEndIndex(r.wire) + 3) + 1 = headEndIndex(r.wire) + 4
  BY <1>2
<1> QED
  BY <1>1, <1>3 DEF After

\* The initial states satisfy the inductive invariant.
LEMMA InitInvariant == Init => IInv
<1> SUFFICES ASSUME Init PROVE IInv
  OBVIOUS
<1>1. request \in Requests /\ result = NoResult /\ pos = 0
  BY DEF Init
<1>2. request.wire \in Seq(STRING) /\ request.payload \in Seq(STRING) /\ Len(request.wire) \in Nat
  BY <1>1, WireTyped
<1>3. <<>> \in Bytes /\ <<>> \in Seq(STRING)
  BY DEF Bytes
<1>4. result.is = "none" /\ result.bytes = <<>>
      /\ result \in [is : {"none", "bytes", "eof", "error"}, bytes : Bytes]
  BY <1>1, <1>3 DEF NoResult
<1>5. /\ Decoder(Framing("none", 0)) \in Decoders /\ Decoder(Framing("none", 0)).pending = <<>>
      /\ Decoder(Framing("none", 0)).bad = FALSE
  <2>1. Framing("none", 0) \in Framings
    BY DEF Framing, Framings
  <2> QED
    BY <2>1, DecoderTyped
<1>6. TypeOK
  <2>1. MaxWrites \in Nat /\ MaxCloses \in Nat
    BY HttpServerAssumption
  <2>2. wire \in Seq(0..MaxWrites)
    BY DEF Init
  <2> QED
    <3>1. /\ request \in Requests /\ pos \in 0..Len(request.wire) /\ closes \in 0..MaxCloses
          /\ written \in 0..MaxWrites /\ reqErrors \in 0..1 /\ clientErrors \in 0..1
      BY <1>2, <2>1 DEF Init
    <3>2. head \in Bytes /\ got \in Bytes /\ dec \in Decoders /\ dec.pending \in Bytes
      BY <1>3, <1>5 DEF Init
    <3>3. /\ listener = "opening" /\ native = "none" /\ phase = "none" /\ pump = "idle"
          /\ writing = "no" /\ listening = FALSE /\ complete = FALSE /\ finished = FALSE
          /\ cut = FALSE
      BY DEF Init
    <3> QED
      BY <1>4, <2>2, <3>1, <3>2, <3>3 DEF TypeOK
<1>7. Phases
  BY DEF Init, Phases
<1>8. Counts
  BY DEF Init, Counts, ErrorHasCause
<1>9. Taken = 0 /\ Len(result.bytes) = 0
  <2>1. Len(<<>>) = 0
    OBVIOUS
  <2>2. Len(result.bytes) = 0
    BY <1>4, <2>1
  <2> QED
    BY <1>1, <2>2 DEF Taken
<1>10. SubSeq(request.wire, 0 + 1, 0) = <<>> /\ SubSeq(request.wire, 1, 0) = <<>>
  BY SubSeqEmpty
<1>11. Results
  BY <1>1, <1>4, <1>9, <1>10 DEF Init, Results
<1>12. Heads
  BY <1>9, <1>10 DEF Init, Heads
<1>13. IsPrefix(<<>>, request.payload)
  <2> DEFINE y == request.payload
  <2>1. y \in Seq(STRING)
    BY <1>2
  <2> HIDE DEF y
  <2>2. <<>> \o y = y
    BY <2>1, ConcatEmptySeq
  <2>3. IsPrefix(<<>>, <<>> \o y)
    BY <1>3, <2>1, PrefixOfConcat
  <2> QED
    BY <2>2, <2>3 DEF y
<1>14. Bodies
  BY <1>13 DEF Init, Bodies, RequestIsPayload
<1> QED
  BY <1>6, <1>7, <1>8, <1>11, <1>12, <1>14 DEF IInv

-----------------------------------------------------------------------------
\* What of the invariant a step that leaves the reads and the body alone keeps.
LEMMA QuietStep ==
  ASSUME IInv, UNCHANGED <<request, reads, body>>
  PROVE  Bodies' /\ (writing # "done" \/ writing' = "done" => Results')
<1>1. UNCHANGED <<request, pos, result, head, cut, pump, dec, got, complete, reqErrors>>
  BY DEF reads, body
<1>2. Taken' = Taken /\ Start' = Start
  BY <1>1 DEF Taken, Start
<1>3. Bodies'
  BY <1>1, <1>2 DEF IInv, Bodies, RequestIsPayload
<1>4. ASSUME writing # "done" \/ writing' = "done"
      PROVE  Results'
  BY <1>1, <1>2, <1>4 DEF IInv, Results
<1> QED
  BY <1>3, <1>4

LEMMA ListenerSteps ==
  ASSUME IInv, Listening \/ ListenFails \/ CloseServer
  PROVE  IInv'
<1>1. UNCHANGED <<request, native, phase, reads, body, clientErrors, answer>>
  BY DEF Listening, ListenFails, CloseServer
<1>2. UNCHANGED <<pos, result, head, cut, pump, dec, got, complete, reqErrors, written, finished,
                  writing, wire>>
  BY <1>1 DEF reads, body, answer
<1>3. TypeOK'
  <2>1. CASE Listening
    BY <1>1, <1>2, <2>1 DEF Listening, IInv, TypeOK
  <2>3. CASE ListenFails
    BY <1>1, <1>2, <2>3 DEF ListenFails, IInv, TypeOK
  <2>2. CASE CloseServer
    <3>1. closes' \in 0..MaxCloses
      BY <2>2, HttpServerAssumption DEF CloseServer, IInv, TypeOK
    <3> QED
      <4>1. listening' \in BOOLEAN /\ listener' \in {"opening", "open", "shut", "failed"}
        BY <2>2 DEF CloseServer, IInv, TypeOK
      <4> QED
        BY <1>1, <1>2, <3>1, <4>1 DEF IInv, TypeOK
  <2> QED
    BY <2>1, <2>2, <2>3
<1>4. Phases' /\ Counts'
  BY <1>1, <1>2 DEF IInv, Phases, Counts, ErrorHasCause
<1>5. Bodies' /\ Results'
  BY <1>1, <1>2, QuietStep
<1>6. Heads'
  <2>1. Taken' = Taken
    BY <1>2 DEF Taken
  <2> QED
    BY <1>1, <1>2, <2>1 DEF IInv, Heads
<1> QED
  BY <1>3, <1>4, <1>5, <1>6 DEF IInv

LEMMA ConnectionStep ==
  ASSUME IInv, Connection
  PROVE  IInv'
<1>1. UNCHANGED <<request, server, reads, body, clientErrors, answer>>
      /\ phase = "none" /\ phase' = "accepting" /\ native' = "open"
  BY DEF Connection
<1>2. UNCHANGED <<listener, listening, closes, pos, result, head, cut, pump, dec, got,
                  complete, reqErrors, written, finished, writing, wire>>
  BY <1>1 DEF server, reads, body, answer
<1>3. TypeOK'
  BY <1>1, <1>2 DEF IInv, TypeOK
<1>4. Phases' /\ Counts'
  BY <1>1, <1>2 DEF IInv, Phases, Counts, ErrorHasCause
<1>5. Bodies' /\ Results'
  BY <1>1, <1>2, QuietStep
<1>6. Heads'
  <2>1. Taken' = Taken
    BY <1>2 DEF Taken
  <2>2. pump # "timer"
    BY <1>1 DEF IInv, Phases
  <2> QED
    BY <1>1, <1>2, <2>1, <2>2 DEF IInv, Heads
<1> QED
  BY <1>3, <1>4, <1>5, <1>6 DEF IInv

LEMMA AcceptStep ==
  ASSUME IInv, Accept
  PROVE  IInv'
<1>1. /\ UNCHANGED <<request, server, reads, body, clientErrors, answer>>
      /\ phase = "accepting" /\ native = "open"
      /\ \/ phase' = "head" /\ native' = "open"
         \/ phase' = "left" /\ native' = "closed"
  <2>1. listening \in BOOLEAN
    BY DEF IInv, TypeOK
  <2>2. CASE listening
    BY <2>1, <2>2 DEF Accept, IInv, Phases
  <2>3. CASE ~listening
    BY <2>1, <2>3 DEF Accept, IInv, Phases
  <2> QED
    BY <2>2, <2>3
<1>2. UNCHANGED <<listener, listening, closes, pos, result, head, cut, pump, dec, got, complete,
                  reqErrors, written, finished, writing, wire>>
  BY <1>1 DEF server, reads, body, answer
<1>3. TypeOK'
  <2>1. /\ phase' \in {"none", "accepting", "head", "served", "refused", "left"}
        /\ native' \in {"none", "open", "closed"}
    BY <1>1
  <2> QED
    BY <1>1, <1>2, <2>1 DEF IInv, TypeOK
<1>4. Phases' /\ Counts'
  BY <1>1, <1>2 DEF IInv, Phases, Counts, ErrorHasCause
<1>5. Bodies' /\ Results'
  BY <1>1, <1>2, QuietStep
<1>6. Heads'
  <2>1. Taken' = Taken
    BY <1>2 DEF Taken
  <2>2. pump # "timer"
    BY <1>1 DEF IInv, Phases
  <2> QED
    BY <1>1, <1>2, <2>1, <2>2 DEF IInv, Heads
<1> QED
  BY <1>3, <1>4, <1>5, <1>6 DEF IInv

-----------------------------------------------------------------------------
LEMMA ReadBytesStep ==
  ASSUME IInv, ReadBytes
  PROVE  IInv'
<1>1. /\ UNCHANGED <<request, server, native, phase, head, cut, body, clientErrors, answer>>
      /\ result = NoResult /\ native = "open" /\ (phase = "head" \/ pump = "await")
  BY DEF ReadBytes, Awaiting
<1>2. UNCHANGED <<listener, listening, closes, pump, dec, got, complete, reqErrors,
                  written, finished, writing, wire>>
  BY <1>1 DEF server, body, answer
<1>3. /\ request.wire \in Seq(Alphabet) /\ Len(request.wire) \in Nat
      /\ pos \in Nat /\ pos <= Len(request.wire)
  BY Typed DEF IInv
<1>4. PICK n \in 1..(Len(request.wire) - pos) :
        /\ pos' = pos + n
        /\ result' = [is |-> "bytes", bytes |-> SubSeq(request.wire, pos + 1, pos + n)]
  BY DEF ReadBytes
<1>5. result'.is = "bytes" /\ result'.bytes = SubSeq(request.wire, pos + 1, pos')
  BY <1>4
<1>6. result'.bytes \in Seq(Alphabet) /\ Len(result'.bytes) = n /\ n \in Nat /\ pos' \in 0..Len(request.wire)
  BY <1>3, <1>4, <1>5, SliceTyped
<1>7. Taken' = pos /\ Taken = pos
  <2>1. Taken' = pos' - Len(result'.bytes)
    BY DEF Taken
  <2>2. Taken = pos - 0
    BY <1>1 DEF Taken, NoResult
  <2> QED
    BY <1>3, <1>4, <1>6, <2>1, <2>2
<1>8. TypeOK'
  <2>1. result' \in [is : {"none", "bytes", "eof", "error"}, bytes : Bytes]
    BY <1>4, <1>5, <1>6, AlphabetIsText
  <2> QED
    BY <1>1, <1>2, <1>6, <2>1 DEF IInv, TypeOK
<1>9. Phases' /\ Counts'
  BY <1>1, <1>2 DEF IInv, Phases, Counts, ErrorHasCause
<1>10. pump # "timer"
  BY <1>1 DEF IInv, Phases
<1>11. Results'
  <2>1. Len(result'.bytes) <= pos'
    BY <1>3, <1>4, <1>6
  <2> QED
    BY <1>1, <1>2, <1>5, <1>7, <1>10, <2>1 DEF Results
<1>12. Heads'
  BY <1>1, <1>2, <1>7, <1>10 DEF IInv, Heads
<1>13. Bodies'
  <2>1. Start' = Start
    BY <1>1 DEF Start
  <2> QED
    BY <1>1, <1>2, <1>7, <2>1 DEF IInv, Bodies, RequestIsPayload
<1> QED
  BY <1>8, <1>9, <1>11, <1>12, <1>13 DEF IInv

LEMMA ReadEndsStep ==
  ASSUME IInv, NEW is \in {"eof", "error"}, ReadEnds(is)
  PROVE  IInv'
<1>1. /\ UNCHANGED <<request, server, native, phase, pos, head, body, clientErrors, answer>>
      /\ result = NoResult /\ (phase = "head" \/ pump = "await")
      /\ result' = Result(is) /\ cut' = (cut \/ native = "open")
  BY DEF ReadEnds, Awaiting
<1>2. UNCHANGED <<listener, listening, closes, pump, dec, got, complete, reqErrors,
                  written, finished, writing, wire>>
  BY <1>1 DEF server, body, answer
<1>3. result'.is = is /\ result'.bytes = <<>> /\ result.bytes = <<>> /\ <<>> \in Bytes
  BY <1>1 DEF Result, NoResult, Bytes
<1>4. Taken' = Taken /\ Start' = Start
  BY <1>1, <1>3 DEF Taken, Start
<1>5. TypeOK'
  <2>1. result' \in [is : {"none", "bytes", "eof", "error"}, bytes : Bytes]
    BY <1>1, <1>3 DEF Result
  <2>2. cut' \in BOOLEAN
    BY <1>1 DEF IInv, TypeOK
  <2> QED
    BY <1>1, <1>2, <2>1, <2>2 DEF IInv, TypeOK
<1>6. Phases'
  BY <1>1, <1>2 DEF IInv, Phases
<1>7. cut => cut'
  BY <1>1
<1>8. Counts'
  BY <1>1, <1>2, <1>7 DEF IInv, Counts, ErrorHasCause
<1>9. cut' \/ writing' = "done"
  <2>1. native = "open" \/ writing = "done"
    BY <1>1 DEF IInv, Phases, TypeOK
  <2> QED
    BY <1>1, <1>2, <2>1
<1>10. Results'
  BY <1>1, <1>2, <1>3, <1>4, <1>9 DEF IInv, Results
<1>11. Heads'
  BY <1>1, <1>2, <1>4 DEF IInv, Heads
<1>12. Bodies'
  BY <1>1, <1>2, <1>4 DEF IInv, Bodies, RequestIsPayload
<1> QED
  BY <1>5, <1>6, <1>8, <1>10, <1>11, <1>12 DEF IInv

-----------------------------------------------------------------------------
LEMMA HeadGoneStep ==
  ASSUME IInv, HeadGone
  PROVE  IInv'
<1>1. /\ UNCHANGED <<request, server, pos, head, cut, body, answer>>
      /\ phase = "head" /\ phase' = "left" /\ native' = "closed"
      /\ result.is \in {"eof", "error"} /\ result' = NoResult
      /\ clientErrors' \in {clientErrors + 0, clientErrors + 1}
  BY DEF HeadGone, Resolved, Leave
<1>2. UNCHANGED <<listener, listening, closes, pump, dec, got, complete, reqErrors,
                  written, finished, writing, wire>>
  BY <1>1 DEF server, body, answer
<1>3. /\ result.bytes = <<>> /\ result'.bytes = <<>> /\ result'.is = "none" /\ <<>> \in Bytes
      /\ Taken' = Taken /\ Start' = Start
  <2>1. result.bytes = <<>>
    BY <1>1 DEF IInv, Results
  <2> QED
    BY <1>1, <2>1 DEF Taken, Start, NoResult, Bytes
<1>4. clientErrors = 0 /\ pump # "timer"
  BY <1>1 DEF IInv, Counts, Phases, TypeOK
<1>5. TypeOK'
  <2>1. result' \in [is : {"none", "bytes", "eof", "error"}, bytes : Bytes]
    BY <1>1, <1>3 DEF NoResult
  <2>2. clientErrors' \in 0..1
    BY <1>1, <1>4
  <2> QED
    BY <1>1, <1>2, <2>1, <2>2 DEF IInv, TypeOK
<1>6. Phases' /\ Counts'
  BY <1>1, <1>2 DEF IInv, Phases, Counts, ErrorHasCause
<1>7. Results'
  BY <1>1, <1>2, <1>3 DEF IInv, Results
<1>8. Heads'
  BY <1>1, <1>2, <1>4 DEF IInv, Heads
<1>9. Bodies'
  BY <1>1, <1>2, <1>3 DEF IInv, Bodies, RequestIsPayload
<1> QED
  BY <1>5, <1>6, <1>7, <1>8, <1>9 DEF IInv

\* The head so far, after a read of more of it.
LEMMA HeadGrown ==
  ASSUME IInv, HeadGrows, pos' = pos, request' = request
  PROVE  /\ head' = SubSeq(request.wire, 1, pos) /\ head' \in Bytes
         /\ result' = NoResult /\ result'.bytes = <<>> /\ result'.is = "none" /\ Taken' = pos
         /\ result' \in [is : {"none", "bytes", "eof", "error"}, bytes : Bytes]
         /\ pos \in 0..Len(request.wire) /\ SubSeq(request.wire, pos + 1, pos) = <<>>
         /\ pump = "idle" /\ got = <<>> /\ clientErrors = 0 /\ native = "open" /\ writing = "no"
         /\ ~finished /\ reqErrors = 0 /\ ~complete
<1>1. /\ phase = "head" /\ result' = NoResult /\ head' = head \o result.bytes
  BY DEF HeadGrows, Resolved
<1>2. /\ request.wire \in Seq(Alphabet) /\ Len(request.wire) \in Nat
      /\ pos \in Nat /\ pos <= Len(request.wire) /\ Len(result.bytes) \in Nat
  BY Typed DEF IInv
<1>3. /\ head = SubSeq(request.wire, 1, Taken) /\ Len(result.bytes) <= pos
      /\ result.bytes = SubSeq(request.wire, Taken + 1, pos)
  BY <1>1 DEF IInv, Heads, Results
<1>4. Taken \in Nat /\ Taken <= pos
  BY <1>2, <1>3 DEF Taken
<1>5. SubSeq(request.wire, 1, Taken) \o SubSeq(request.wire, Taken + 1, pos) = SubSeq(request.wire, 1, pos)
  <2>1. 1 \in 1..(Len(request.wire) + 1) /\ Taken \in (1 - 1)..Len(request.wire)
        /\ pos \in Taken..Len(request.wire)
    BY <1>2, <1>4
  <2> HIDE DEF Taken
  <2> QED
    BY <1>2, <2>1, ConcatAdjacentSubSeq
<1>6. SubSeq(request.wire, 1, pos) \in Seq(Alphabet)
  BY <1>2, UpToIs
<1>7. result'.bytes = <<>> /\ result'.is = "none" /\ <<>> \in Bytes
      /\ result' \in [is : {"none", "bytes", "eof", "error"}, bytes : Bytes]
  BY <1>1 DEF NoResult, Bytes
<1>8. Taken' = pos
  <2>1. Taken' = pos' - Len(result'.bytes)
    BY DEF Taken
  <2>2. Len(<<>>) = 0
    OBVIOUS
  <2> QED
    BY <1>2, <1>7, <2>1, <2>2
<1>9. SubSeq(request.wire, pos + 1, pos) = <<>>
  <2>1. pos + 1 \in Int /\ pos \in Int /\ pos < pos + 1
    BY <1>2
  <2> QED
    BY <2>1, SubSeqEmpty
<1>10. /\ pump = "idle" /\ clientErrors = 0 /\ native = "open" /\ writing = "no" /\ ~finished
       /\ reqErrors = 0 /\ ~complete
  BY <1>1 DEF IInv, Phases, Counts, TypeOK
<1>11. got = <<>>
  BY <1>10 DEF IInv, Bodies
<1>12. head' = SubSeq(request.wire, 1, pos)
  BY <1>1, <1>3, <1>5
<1>13. head' \in Bytes
  BY <1>6, <1>12, AlphabetIsText
<1> QED
  BY <1>1, <1>2, <1>7, <1>8, <1>9, <1>10, <1>11, <1>12, <1>13

LEMMA HeadPartialStep ==
  ASSUME IInv, HeadPartial
  PROVE  IInv'
<1>1. /\ UNCHANGED <<request, server, native, phase, pos, cut, body, clientErrors, answer>>
      /\ HeadGrows /\ phase = "head"
  BY DEF HeadPartial, HeadGrows
<1>2. UNCHANGED <<listener, listening, closes, pump, dec, got, complete, reqErrors,
                  written, finished, writing, wire>>
  BY <1>1 DEF server, body, answer
<1>3. /\ head' = SubSeq(request.wire, 1, pos) /\ head' \in Bytes
      /\ result'.bytes = <<>> /\ result'.is = "none" /\ Taken' = pos
      /\ result' \in [is : {"none", "bytes", "eof", "error"}, bytes : Bytes]
      /\ pos \in 0..Len(request.wire) /\ SubSeq(request.wire, pos + 1, pos) = <<>> /\ pump = "idle"
  BY <1>1, HeadGrown
<1>4. TypeOK'
  BY <1>1, <1>2, <1>3 DEF IInv, TypeOK
<1>5. Phases' /\ Counts'
  BY <1>1, <1>2 DEF IInv, Phases, Counts, ErrorHasCause
<1>6. Len(<<>>) = 0
  OBVIOUS
<1>7. Results'
  BY <1>1, <1>2, <1>3, <1>6 DEF Results
<1>8. Heads'
  BY <1>1, <1>2, <1>3 DEF Heads
<1>9. Bodies'
  BY <1>1, <1>2, <1>3 DEF IInv, Bodies, RequestIsPayload
<1> QED
  BY <1>4, <1>5, <1>7, <1>8, <1>9 DEF IInv

\* What res.end() leaves behind.
LEMMA EndIs ==
  ASSUME IInv, NEW n \in Nat, End(n)
  PROVE  /\ written' \in 0..MaxWrites /\ finished' = TRUE /\ UNCHANGED wire
         /\ native = "open" => writing' = "busy"
         /\ native # "open" => writing' = "failed"
<1>1. MaxWrites \in Nat /\ written \in 0..MaxWrites
  BY HttpServerAssumption DEF IInv, TypeOK
<1>2. written' = written + n /\ written + n <= MaxWrites
  BY DEF End
<1>3. written' \in 0..MaxWrites
  BY <1>1, <1>2
<1> QED
  BY <1>3 DEF End

LEMMA HeadRefusedStep ==
  ASSUME IInv, HeadRefused
  PROVE  IInv'
<1>1. /\ UNCHANGED <<request, server, pos, cut, body>>
      /\ HeadGrows /\ phase = "head" /\ phase' = "refused" /\ native' = "closed"
      /\ clientErrors' = clientErrors + 1
      /\ UNCHANGED answer \/ \E n \in 0..MaxWrites : End(n)
  BY DEF HeadRefused, HeadGrows, Leave
<1>2. UNCHANGED <<listener, listening, closes, pump, dec, got, complete, reqErrors>>
  BY <1>1 DEF server, body
<1>3. /\ head' \in Bytes
      /\ result'.bytes = <<>> /\ result'.is = "none" /\ Taken' = pos
      /\ result' \in [is : {"none", "bytes", "eof", "error"}, bytes : Bytes]
      /\ pos \in 0..Len(request.wire) /\ SubSeq(request.wire, pos + 1, pos) = <<>> /\ pump = "idle"
      /\ clientErrors = 0 /\ native = "open" /\ writing = "no" /\ ~finished /\ reqErrors = 0
  BY <1>1, HeadGrown
<1>4. clientErrors' = 1
  BY <1>1, <1>3
<1>5. /\ written' \in 0..MaxWrites /\ finished' \in BOOLEAN /\ UNCHANGED wire
      /\ writing' \in {"no", "busy"} /\ (writing' = "no" <=> ~finished')
  <2>1. CASE UNCHANGED answer
    BY <1>3, <2>1 DEF answer, IInv, TypeOK
  <2>2. ASSUME NEW n \in 0..MaxWrites, End(n)
        PROVE  /\ written' \in 0..MaxWrites /\ finished' = TRUE /\ UNCHANGED wire
               /\ writing' = "busy"
    <3>1. n \in Nat
      BY HttpServerAssumption
    <3> QED
      BY <1>3, <2>2, <3>1, EndIs
  <2>3. CASE \E n \in 0..MaxWrites : End(n)
    <3>1. /\ written' \in 0..MaxWrites /\ finished' = TRUE /\ UNCHANGED wire
          /\ writing' = "busy"
      BY <2>2, <2>3
    <3> QED
      BY <3>1
  <2> QED
    BY <1>1, <2>1, <2>3
<1>6. TypeOK'
  BY <1>1, <1>2, <1>3, <1>4, <1>5 DEF IInv, TypeOK
<1>7. Phases'
  BY <1>1, <1>2, <1>3, <1>5 DEF Phases
<1>8. Counts'
  BY <1>1, <1>2, <1>3, <1>4 DEF IInv, Counts, ErrorHasCause
<1>9. Len(<<>>) = 0
  OBVIOUS
<1>10. Results'
  BY <1>1, <1>2, <1>3, <1>9 DEF Results
<1>11. Heads'
  BY <1>1, <1>2, <1>3 DEF Heads
<1>12. Bodies'
  BY <1>1, <1>2, <1>3 DEF IInv, Bodies, RequestIsPayload
<1> QED
  BY <1>6, <1>7, <1>8, <1>10, <1>11, <1>12 DEF IInv

LEMMA AnnounceStep ==
  ASSUME IInv, Announce
  PROVE  IInv'
<1>1. /\ UNCHANGED <<request, server, native, pos, cut, got, complete, reqErrors, clientErrors, answer>>
      /\ HeadGrows /\ headEndIndex(head') > 0 /\ phase' = "served" /\ pump' = "timer"
      /\ RequestFraming(head').mode # "refused"
      /\ dec' = Decoder(RequestFraming(head'))
  BY DEF Announce, HeadEnd
<1>2. UNCHANGED <<listener, listening, closes, written, finished, writing, wire>>
  BY <1>1 DEF server, answer
<1>3. /\ head' = SubSeq(request.wire, 1, pos) /\ head' \in Bytes
      /\ result'.bytes = <<>> /\ result'.is = "none" /\ Taken' = pos
      /\ result' \in [is : {"none", "bytes", "eof", "error"}, bytes : Bytes]
      /\ pos \in 0..Len(request.wire) /\ SubSeq(request.wire, pos + 1, pos) = <<>>
      /\ got = <<>> /\ clientErrors = 0 /\ native = "open" /\ writing = "no"
      /\ ~finished /\ reqErrors = 0 /\ ~complete
  BY <1>1, HeadGrown
<1>4. /\ headEndIndex(head') = headEndIndex(request.wire)
      /\ RequestFraming(head') = RequestFraming(request.wire)
      /\ headEndIndex(request.wire) > 0
  <2>1. request.wire \in Seq(STRING) /\ pos \in Nat /\ pos <= Len(request.wire)
    BY Typed DEF IInv
  <2> QED
    BY <1>1, <1>3, <2>1, HeadOfSlice
<1>5. dec' \in Decoders /\ dec'.pending \in Bytes
  <2>1. RequestFraming(head') \in Framings
    BY <1>1, FramingTyped
  <2>2. <<>> \in Bytes
    BY DEF Bytes
  <2> QED
    BY <1>1, <2>1, <2>2, DecoderTyped
<1>6. TypeOK'
  BY <1>1, <1>2, <1>3, <1>5 DEF IInv, TypeOK
<1>7. Phases' /\ Counts'
  BY <1>1, <1>2, <1>3 DEF IInv, Phases, Counts, ErrorHasCause
<1>8. Len(<<>>) = 0
  OBVIOUS
<1>9. Results'
  BY <1>1, <1>2, <1>3, <1>8 DEF Results
<1>10. Heads'
  BY <1>1, <1>3, <1>4 DEF Heads
<1>11. Bodies'
  BY <1>1, <1>3 DEF IInv, Bodies, RequestIsPayload
<1> QED
  BY <1>6, <1>7, <1>9, <1>10, <1>11 DEF IInv

-----------------------------------------------------------------------------
\* A step of the pump that feeds it `bytes`, once it is known what they bring.
LEMMA PumpFeeds ==
  ASSUME IInv, NEW bytes \in Bytes, PumpBytes(bytes), pump \in {"timer", "await"},
         UNCHANGED <<request, listener, listening, closes, native, phase, pos, head, cut,
                     clientErrors, written, finished, writing, wire>>,
         (result' = result /\ result.bytes = <<>>) \/ result' = NoResult,
         Start <= pos,
         LET p == push(dec, bytes)
             F == RequestFraming(request.wire)
         IN  /\ ~p.dec.bad /\ ~p.dec.done =>
                  Fed(F, p.dec, got \o p.out, SubSeq(request.wire, Start + 1, pos))
             /\ ~p.dec.bad /\ p.dec.done => got \o p.out = request.payload
             /\ IsPrefix(got \o p.out, request.payload)
  PROVE  IInv'
<1> DEFINE p == push(dec, bytes)
<1>1. p.dec \in Decoders /\ p.dec.pending \in Bytes /\ p.out \in Bytes
  <2>1. /\ Alphabet \in SUBSET STRING /\ dec \in Decoders /\ dec.pending \in Seq(Alphabet)
        /\ bytes \in Seq(Alphabet)
    BY AlphabetIsText DEF IInv, TypeOK
  <2>2. p.dec \in Decoders /\ p.dec.pending \in Seq(Alphabet) /\ p.out \in Seq(Alphabet)
    <3> HIDE DEF Alphabet
    <3> QED
      BY <2>1, PushTyped
  <2> QED
    BY <2>2, AlphabetIsText
<1>2. p.dec.bad \in BOOLEAN /\ p.dec.done \in BOOLEAN
  <2> HIDE DEF p
  <2> QED
    BY <1>1 DEF Decoders
<1>3. /\ dec' = p.dec /\ got' = got \o p.out /\ complete' = (~p.dec.bad /\ p.dec.done)
      /\ reqErrors' = reqErrors + (IF p.dec.bad THEN 1 ELSE 0)
      /\ pump' = IF p.dec.bad \/ p.dec.done THEN "over" ELSE "await"
  BY DEF PumpBytes
<1>4. /\ ~p.dec.bad /\ ~p.dec.done =>
           Fed(RequestFraming(request.wire), p.dec, got \o p.out, SubSeq(request.wire, Start + 1, pos))
      /\ ~p.dec.bad /\ p.dec.done => got \o p.out = request.payload
      /\ IsPrefix(got \o p.out, request.payload)
  OBVIOUS
<1> HIDE DEF p
<1>5. /\ result'.bytes = <<>> /\ result' \in [is : {"none", "bytes", "eof", "error"}, bytes : Bytes]
      /\ result'.is = result.is \/ result'.is = "none"
  <2>1. <<>> \in Bytes
    BY DEF Bytes
  <2>2. CASE result' = NoResult
    BY <2>1, <2>2 DEF NoResult
  <2>3. CASE result' = result /\ result.bytes = <<>>
    BY <2>3 DEF IInv, TypeOK
  <2> QED
    BY <2>2, <2>3
<1>6. Taken' = pos /\ Start' = Start /\ Len(<<>>) = 0 /\ pos \in Nat
  <2>1. pos \in Nat /\ Taken' = pos' - Len(result'.bytes) /\ Len(<<>>) = 0
    BY Typed DEF IInv, Taken
  <2>2. Taken' = pos
    BY <1>5, <2>1
  <2>3. Start' = Start
    BY DEF Start
  <2> QED
    BY <2>1, <2>2, <2>3
<1>7. reqErrors = 0 /\ ~complete /\ phase = "served"
  BY DEF IInv, Phases, Counts, TypeOK
<1>8. got' \in Bytes
  <2> DEFINE o == p.out
  <2>1. got \in Seq(Alphabet) /\ o \in Seq(Alphabet)
    BY <1>1, AlphabetIsText DEF IInv, TypeOK
  <2> HIDE DEF o
  <2>2. got \o o \in Seq(Alphabet)
    BY <2>1, ConcatProperties
  <2> QED
    BY <1>3, <2>2, AlphabetIsText DEF o
<1>9. TypeOK'
  <2>1. complete' \in BOOLEAN /\ reqErrors' \in 0..1 /\ pump' \in {"idle", "timer", "await", "over"}
    BY <1>2, <1>3, <1>7
  <2> QED
    BY <1>1, <1>3, <1>5, <1>8, <2>1 DEF IInv, TypeOK
<1>10. Phases'
  BY <1>3, <1>7 DEF IInv, Phases
<1>11. Counts'
  BY <1>2, <1>3, <1>7 DEF IInv, Counts, ErrorHasCause
<1>12. Results'
  <2>1. SubSeq(request.wire, pos + 1, pos) = <<>>
    <3>1. pos + 1 \in Int /\ pos \in Int /\ pos < pos + 1
      BY <1>6
    <3> QED
      BY <3>1, SubSeqEmpty
  <2>2. pump' # "timer"
    BY <1>3
  <2>3. result'.is \in {"eof", "error"} => cut' \/ writing' = "done"
    BY <1>5 DEF IInv, Results
  <2> QED
    BY <1>5, <1>6, <2>1, <2>2, <2>3 DEF Results
<1>13. Heads'
  BY <1>3, <1>7 DEF IInv, Heads
<1>14. Bodies'
  BY <1>2, <1>3, <1>4, <1>6 DEF Bodies, RequestIsPayload
<1> QED
  BY <1>9, <1>10, <1>11, <1>12, <1>13, <1>14 DEF IInv

LEMMA PumpStartStep ==
  ASSUME IInv, PumpStart
  PROVE  IInv'
<1> DEFINE bytes == After(head, headEndIndex(head) + 3)
           W == request.wire
           F == RequestFraming(W)
           c == SubSeq(W, Start + 1, pos)
           r == SubSeq(W, pos + 1, Len(W))
           p == push(dec, bytes)
<1>1. /\ UNCHANGED <<request, listener, listening, closes, native, phase, pos, result,
                     head, cut, clientErrors, written, finished, writing, wire>>
      /\ pump = "timer" /\ PumpBytes(bytes)
  BY DEF PumpStart, server, reads, answer
<1>2. /\ W \in Seq(STRING) /\ W \in Seq(Alphabet) /\ Len(W) \in Nat /\ pos \in Nat /\ pos <= Len(W)
      /\ request \in Requests
  BY Typed DEF IInv, TypeOK
<1>3. /\ result.bytes = <<>> /\ head = SubSeq(W, 1, Taken) /\ headEndIndex(head) = headEndIndex(W)
      /\ headEndIndex(W) > 0 /\ dec = Decoder(F) /\ F.mode # "refused" /\ phase = "served"
      /\ got = <<>>
  BY <1>1 DEF IInv, Phases, Results, Heads, Bodies
<1>4. Taken = pos
  <2>1. Len(<<>>) = 0
    OBVIOUS
  <2> QED
    BY <1>2, <1>3, <2>1 DEF Taken
<1>5. Start \in Nat /\ Start <= pos
  BY <1>2, <1>3, <1>4, HeadOfSlice DEF Start
<1>6. bytes = c
  <2> HIDE DEF W
  <2>1. headEndIndex(head) + 3 = Start
    BY <1>3 DEF Start, W
  <2>2. After(SubSeq(W, 1, pos), Start) = SubSeq(W, Start + 1, pos)
    BY <1>2, <1>5, AfterOfSlice
  <2> QED
    BY <1>3, <1>4, <2>1, <2>2
<1>7. F \in Framings
  BY <1>3, FramingTyped
<1>8. /\ c \in Seq(Alphabet) /\ c \in Seq(STRING) /\ r \in Seq(STRING)
      /\ c \o r = SubSeq(W, Start + 1, Len(W))
  <2> HIDE DEF W, Start
  <2>1. Start \in Nat /\ Start <= pos /\ pos <= Len(W) /\ Len(W) <= Len(W) /\ Len(W) \in Nat
    BY <1>2, <1>5
  <2>2. c \in Seq(Alphabet) /\ c \in Seq(STRING) /\ r \in Seq(STRING)
    BY <1>2, <2>1, SliceTyped
  <2>3. c \o r = SubSeq(W, Start + 1, Len(W))
    BY <1>2, <2>1, SlicesMeet
  <2> QED
    BY <2>2, <2>3
<1>9. request.payload = WholeBody(F, c \o r)
  <2>1. Start + 1 = headEndIndex(W) + 4
    BY <1>2, HeadEnd4 DEF Start
  <2> QED
    BY <1>2, <1>3, <1>8, <2>1, PayloadIs
<1>10. STRING \in SUBSET STRING /\ dec \in Decoders /\ dec.pending \in Seq(STRING)
  BY Typed DEF IInv, Decoders
<1>11. p.out \in Seq(STRING)
  <2> HIDE DEF W
  <2> QED
    BY <1>6, <1>8, <1>10, PushTyped
<1> HIDE DEF W, F, c, r, bytes
<1>12. /\ ~p.dec.bad /\ ~p.dec.done => Fed(F, p.dec, p.out, c)
       /\ ~p.dec.bad /\ p.dec.done => p.out = WholeBody(F, c \o r)
       /\ IsPrefix(p.out, WholeBody(F, c \o r))
  BY <1>3, <1>6, <1>7, <1>8, PushFirst
<1> HIDE DEF p
<1>13. got \o p.out = p.out
  BY <1>3, <1>11, ConcatEmptySeq
<1>14. /\ ~p.dec.bad /\ ~p.dec.done => Fed(F, p.dec, got \o p.out, c)
       /\ ~p.dec.bad /\ p.dec.done => got \o p.out = request.payload
       /\ IsPrefix(got \o p.out, request.payload)
  BY <1>9, <1>12, <1>13
<1>15. bytes \in Bytes
  BY <1>6, <1>8, AlphabetIsText
<1> QED
  BY <1>1, <1>3, <1>5, <1>14, <1>15, PumpFeeds DEF p, F, c, W

LEMMA PumpMoreStep ==
  ASSUME IInv, PumpMore
  PROVE  IInv'
<1> DEFINE b == result.bytes
           W == request.wire
           F == RequestFraming(W)
           c == SubSeq(W, Start + 1, Taken)
           r == SubSeq(W, pos + 1, Len(W))
           p == push(dec, b)
<1>1. /\ UNCHANGED <<request, listener, listening, closes, native, phase, pos,
                     head, cut, clientErrors, written, finished, writing, wire>>
      /\ pump = "await" /\ PumpBytes(b) /\ result' = NoResult
  BY DEF PumpMore, Resolved, server, answer
<1>2. /\ W \in Seq(STRING) /\ W \in Seq(Alphabet) /\ Len(W) \in Nat /\ pos \in Nat /\ pos <= Len(W)
      /\ request \in Requests /\ b \in Seq(STRING) /\ b \in Bytes /\ Len(b) \in Nat
      /\ got \in Seq(STRING) /\ dec \in Decoders
  BY Typed DEF IInv, TypeOK
<1>3. /\ Len(b) <= pos /\ b = SubSeq(W, Taken + 1, pos) /\ Start <= Taken /\ Fed(F, dec, got, c)
      /\ phase = "served"
  BY <1>1 DEF IInv, Phases, Results, Bodies
<1>4. F.mode # "refused" /\ headEndIndex(W) > 0
  BY <1>3 DEF IInv, Heads
<1>5. Taken \in Nat /\ Taken <= pos
  BY <1>2, <1>3 DEF Taken
<1>6. Start \in Nat /\ Start + 1 = headEndIndex(W) + 4
  BY <1>2, HeadEnd4 DEF Start
<1>7. F \in Framings
  BY <1>4, FramingTyped
<1>8. /\ c \in Seq(STRING) /\ r \in Seq(STRING) /\ c \o b = SubSeq(W, Start + 1, pos)
      /\ (c \o b) \o r = SubSeq(W, Start + 1, Len(W))
  <2> HIDE DEF W
  <2>1. c \in Seq(STRING) /\ r \in Seq(STRING)
    <3>1. Taken <= Len(W) /\ Len(W) <= Len(W)
      BY <1>2, <1>5
    <3> HIDE DEF Taken, Start
    <3> QED
      BY <1>2, <1>3, <1>5, <1>6, <3>1, SliceTyped
  <2>2. c \o SubSeq(W, Taken + 1, pos) = SubSeq(W, Start + 1, pos)
    <3> HIDE DEF Taken, Start
    <3> QED
      BY <1>2, <1>3, <1>5, <1>6, SlicesMeet
  <2>3. SubSeq(W, Start + 1, pos) \o r = SubSeq(W, Start + 1, Len(W))
    <3>1. Start <= pos /\ Len(W) <= Len(W)
      BY <1>2, <1>3, <1>5, <1>6
    <3> HIDE DEF Taken, Start
    <3> QED
      BY <1>2, <1>6, <3>1, SlicesMeet
  <2> QED
    BY <1>3, <2>1, <2>2, <2>3
<1>9. request.payload = WholeBody(F, (c \o b) \o r)
  BY <1>2, <1>4, <1>6, <1>8, PayloadIs
<1> HIDE DEF W, F, c, r, b
<1>10. /\ ~p.dec.bad /\ ~p.dec.done => Fed(F, p.dec, got \o p.out, c \o b)
       /\ ~p.dec.bad /\ p.dec.done => got \o p.out = WholeBody(F, (c \o b) \o r)
       /\ IsPrefix(got \o p.out, WholeBody(F, (c \o b) \o r))
  <2>1. b \in Seq(STRING) /\ got \in Seq(STRING) /\ dec \in Decoders /\ c \in Seq(STRING)
        /\ r \in Seq(STRING) /\ F \in Framings /\ Fed(F, dec, got, c)
    BY <1>2, <1>3, <1>7, <1>8 DEF b, F, c
  <2> QED
    BY <2>1, PushFed
<1> HIDE DEF p
<1>11. /\ ~p.dec.bad /\ ~p.dec.done => Fed(F, p.dec, got \o p.out, SubSeq(W, Start + 1, pos))
       /\ ~p.dec.bad /\ p.dec.done => got \o p.out = request.payload
       /\ IsPrefix(got \o p.out, request.payload)
  BY <1>8, <1>9, <1>10
<1>12. Start <= pos
  BY <1>2, <1>3, <1>5, <1>6
<1> QED
  BY <1>1, <1>2, <1>11, <1>12, PumpFeeds DEF p, F, W, b

LEMMA PumpCutStep ==
  ASSUME IInv, PumpCut
  PROVE  IInv'
<1>1. /\ UNCHANGED <<request, server, native, phase, pos, head, cut, dec, got, complete, clientErrors,
                     answer>>
      /\ pump = "await" /\ pump' = "over" /\ reqErrors' = reqErrors + 1
      /\ result.is \in {"eof", "error"} /\ result' = NoResult
  BY DEF PumpCut, Resolved
<1>2. UNCHANGED <<listener, listening, closes, written, finished, writing, wire>>
  BY <1>1 DEF server, answer
<1>3. /\ result.bytes = <<>> /\ (cut \/ writing = "done") /\ reqErrors = 0 /\ ~complete
      /\ phase = "served"
  BY <1>1 DEF IInv, Results, Counts, Phases, TypeOK
<1>4. /\ result'.bytes = <<>> /\ result'.is = "none" /\ Taken' = Taken /\ Start' = Start
      /\ result' \in [is : {"none", "bytes", "eof", "error"}, bytes : Bytes]
  <2>1. <<>> \in Bytes
    BY DEF Bytes
  <2> QED
    BY <1>1, <1>3, <2>1 DEF Taken, Start, NoResult
<1>5. TypeOK'
  <2>1. reqErrors' \in 0..1
    BY <1>1, <1>3
  <2> QED
    BY <1>1, <1>2, <1>4, <2>1 DEF IInv, TypeOK
<1>6. Phases' /\ Counts'
  BY <1>1, <1>2, <1>3 DEF IInv, Phases, Counts, ErrorHasCause
<1>7. Results'
  BY <1>1, <1>2, <1>3, <1>4 DEF IInv, Results
<1>8. Heads'
  BY <1>1, <1>3 DEF IInv, Heads
<1>9. Bodies'
  BY <1>1, <1>4 DEF IInv, Bodies, RequestIsPayload
<1> QED
  BY <1>5, <1>6, <1>7, <1>8, <1>9 DEF IInv

-----------------------------------------------------------------------------
\* The handler's calls, and what becomes of its answer.
LEMMA AnswerSteps ==
  ASSUME IInv, Handler \/ Reply
  PROVE  IInv'
<1>1. UNCHANGED <<request, server, phase, reads, body, clientErrors>>
  BY DEF Handler, ResWrite, ResEnd, Reply, Finish, FinishFails
<1>2. UNCHANGED <<listener, listening, closes, pos, result, head, cut, pump, dec, got,
                  complete, reqErrors>>
  BY <1>1 DEF server, reads, body
<1>3. /\ native' \in {"none", "open", "closed"} /\ written' \in 0..MaxWrites /\ finished' \in BOOLEAN
      /\ writing' \in {"no", "busy", "done", "failed"} /\ wire' \in Seq(0..MaxWrites)
      /\ writing # "done" \/ writing' = "done"
      /\ phase = "served" => (native' = "closed" <=> writing' = "done")
      /\ phase = "refused" => native' = "closed"
      /\ phase \in {"served", "refused"} /\ native' # "none"
      /\ writing' = "no" <=> ~finished'
  <2>1. /\ native \in {"none", "open", "closed"} /\ written \in 0..MaxWrites /\ finished \in BOOLEAN
        /\ writing \in {"no", "busy", "done", "failed"} /\ wire \in Seq(0..MaxWrites) /\ MaxWrites \in Nat
        /\ phase = "none" <=> native = "none"
        /\ phase = "served" => (native = "closed" <=> writing = "done")
        /\ phase = "refused" => native = "closed"
        /\ finished => phase \in {"served", "refused"}
        /\ writing = "no" <=> ~finished
    BY HttpServerAssumption DEF IInv, TypeOK, Phases
  <2>2. CASE ResWrite
    <3>1. /\ written' \in 0..MaxWrites /\ UNCHANGED <<native, finished, writing, wire>>
          /\ phase \in {"served", "refused"}
      BY <2>1, <2>2 DEF ResWrite, Handling
    <3> QED
      BY <2>1, <3>1
  <2>3. ASSUME NEW n \in 0..1, ResEnd(n)
        PROVE  /\ written' \in 0..MaxWrites /\ UNCHANGED <<native, wire>>
               /\ phase \in {"served", "refused"} /\ ~finished /\ finished' = TRUE
               /\ native = "open" => writing' = "busy"
               /\ native # "open" => writing' = "failed"
    <3>1. UNCHANGED native /\ End(n) /\ n \in Nat /\ phase \in {"served", "refused"} /\ ~finished
      BY <2>3 DEF ResEnd, Handling
    <3> QED
      BY <3>1, EndIs
  <2>4. CASE \E n \in 0..1 : ResEnd(n)
    <3>1. /\ written' \in 0..MaxWrites /\ UNCHANGED <<native, wire>>
          /\ phase \in {"served", "refused"} /\ ~finished /\ finished' = TRUE
          /\ native = "open" => writing' = "busy"
          /\ native # "open" => writing' = "failed"
      BY <2>3, <2>4
    <3>2. phase = "served" => native = "open"
      BY <2>1, <3>1
    <3>3. writing' \in {"busy", "failed"}
      BY <3>1
    <3> QED
      BY <2>1, <3>1, <3>2, <3>3
  <2>5. CASE Finish
    <3>1. /\ writing = "busy" /\ writing' = "done" /\ native' = "closed" /\ UNCHANGED <<written, finished>>
          /\ wire' = Append(wire, written)
      BY <2>5 DEF Finish
    <3>2. wire' \in Seq(0..MaxWrites)
      BY <2>1, <3>1, AppendProperties
    <3> QED
      BY <2>1, <3>1, <3>2
  <2>6. CASE FinishFails
    <3>1. writing = "busy" /\ writing' = "failed" /\ UNCHANGED <<native, written, finished, wire>>
      BY <2>6 DEF FinishFails
    <3> QED
      BY <2>1, <3>1
  <2> QED
    BY <2>2, <2>4, <2>5, <2>6 DEF Handler, Reply
<1>4. TypeOK'
  BY <1>1, <1>2, <1>3 DEF IInv, TypeOK
<1>5. Phases'
  BY <1>1, <1>2, <1>3 DEF IInv, Phases
<1>6. Counts'
  BY <1>1, <1>2, <1>3 DEF IInv, Counts, ErrorHasCause
<1>7. Results' /\ Bodies'
  BY <1>1, <1>3, QuietStep
<1>8. Heads'
  <2>1. Taken' = Taken
    BY <1>2 DEF Taken
  <2> QED
    BY <1>1, <1>2, <2>1 DEF IInv, Heads
<1> QED
  BY <1>4, <1>5, <1>6, <1>7, <1>8 DEF IInv

LEMMA Stutter ==
  ASSUME IInv, UNCHANGED vars
  PROVE  IInv'
<1>1. UNCHANGED <<request, listener, listening, closes, native, phase, pos, result, head,
                  cut, pump, dec, got, complete, reqErrors, clientErrors, written, finished,
                  writing, wire>>
  BY DEF vars, server, reads, body, answer
<1>2. Taken' = Taken /\ Start' = Start
  BY <1>1 DEF Taken, Start
<1>3. TypeOK'
  BY <1>1 DEF IInv, TypeOK
<1>4. Phases' /\ Counts' /\ Results' /\ Heads' /\ Bodies'
  BY <1>1, <1>2 DEF IInv, Phases, Counts, Results, Heads, Bodies, RequestIsPayload, ErrorHasCause
<1> QED
  BY <1>3, <1>4 DEF IInv

LEMMA NextInvariant == IInv /\ [Next]_vars => IInv'
<1> SUFFICES ASSUME IInv, [Next]_vars
             PROVE  IInv'
  OBVIOUS
<1>1. CASE Listening \/ ListenFails \/ CloseServer
  BY <1>1, ListenerSteps
<1>2. CASE Connection
  BY <1>2, ConnectionStep
<1>3. CASE Serve
  BY <1>3, AcceptStep, HeadGoneStep, HeadPartialStep, HeadRefusedStep, AnnounceStep DEF Serve
<1>4. CASE Pump
  BY <1>4, PumpStartStep, PumpMoreStep, PumpCutStep DEF Pump
<1>5. CASE Handler \/ Reply
  BY <1>5, AnswerSteps
<1>6. CASE Reads
  BY <1>6, ReadBytesStep, ReadEndsStep DEF Reads
<1>7. CASE UNCHANGED vars
  BY <1>7, Stutter
<1> QED
  BY <1>1, <1>2, <1>3, <1>4, <1>5, <1>6, <1>7 DEF Next

LEMMA Invariance == Spec => []IInv
<1>1. Init => IInv
  BY InitInvariant
<1>2. IInv /\ [Next]_vars => IInv'
  BY NextInvariant
<1> QED
  BY <1>1, <1>2, PTL DEF Spec

\* Every reachable state of the connection is well typed, its decoder among
\* them: whatever the reads were, push() has returned a decoder and bytes.
THEOREM TypeCorrect == Spec => []TypeOK
<1>1. IInv => TypeOK
  BY DEF IInv
<1> QED
  BY <1>1, Invariance, PTL

\* For any requests, however their bytes are cut into reads: the handler sees
\* the body the head announces, from its first byte on, and a request that is
\* complete has all of it.
THEOREM HandlerGetsBody == Spec => []RequestIsPayload
<1>1. IInv => RequestIsPayload
  BY DEF IInv, Bodies
<1> QED
  BY <1>1, Invariance, PTL

\* A request reports an error only if the connection broke, its framing is
\* malformed, or the response has closed the connection.
THEOREM ErrorsAreCaused == Spec => []ErrorHasCause
<1>1. IInv => ErrorHasCause
  BY DEF IInv, Counts
<1> QED
  BY <1>1, Invariance, PTL

-----------------------------------------------------------------------------
\* A pump that is over has settled its request, one way or the other.
Settled == pump = "over" => (complete <=> reqErrors = 0)

\* What a server that is done with a connection has done: the request, once its pump
\* is over, ended or failed, not both; one that is never pumped was reported; and
\* a connection that nobody is served on, or whose answer is written, is closed.
AtRest ==
  /\ Settled
  /\ phase = "served" /\ pump \notin {"timer", "await"} => complete \/ reqErrors = 1
  /\ finished /\ writing # "busy" => native = "closed" \/ writing = "failed"
  /\ phase \in {"refused", "left"} => native = "closed"
  /\ phase = "refused" => clientErrors = 1

\* The pump's own steps settle the request as they end it.
LEMMA PumpSettles ==
  ASSUME IInv, Pump
  PROVE  Settled'
<1>1. pump \in {"timer", "await"} /\ reqErrors = 0 /\ ~complete
  <2>1. reqErrors \in 0..1
    BY DEF IInv, TypeOK
  <2> QED
    BY <2>1 DEF Pump, PumpStart, PumpMore, PumpCut, IInv, Counts
<1>2. ASSUME NEW bytes, PumpBytes(bytes)
      PROVE  Settled'
  <2> DEFINE p == push(dec, bytes)
  <2>1. /\ complete' = (~p.dec.bad /\ p.dec.done)
        /\ reqErrors' = reqErrors + (IF p.dec.bad THEN 1 ELSE 0)
        /\ pump' = IF p.dec.bad \/ p.dec.done THEN "over" ELSE "await"
    BY <1>2 DEF PumpBytes
  <2> HIDE DEF p
  <2>2. CASE p.dec.bad
    <3>1. ~complete'
      BY <2>1, <2>2, Zenon
    <3>2. reqErrors' = reqErrors + 1
      BY <2>1, <2>2, Zenon
    <3> QED
      BY <1>1, <3>1, <3>2 DEF Settled
  <2>3. CASE ~p.dec.bad
    <3>1. (complete' <=> p.dec.done) /\ reqErrors' = reqErrors + 0
      BY <2>1, <2>3, Zenon
    <3>2. pump' = "over" => p.dec.done
      <4>1. ~p.dec.done => pump' = "await"
        BY <2>1, <2>3, Zenon
      <4> QED
        BY <4>1
    <3> QED
      BY <1>1, <3>1, <3>2 DEF Settled
  <2> QED
    BY <2>2, <2>3
<1>3. ASSUME PumpCut
      PROVE  Settled'
  BY <1>1, <1>3 DEF PumpCut, Settled
<1> QED
  BY <1>2, <1>3 DEF Pump, PumpStart, PumpMore

\* The part of RequestSettles, AnsweredCloses and NoneHeldUnserved that is not
\* about time.
THEOREM RestIsSettled == Spec => []AtRest
<1>1. Init => Settled
  BY DEF Init, Settled
<1>2. IInv /\ Settled /\ [Next]_vars => Settled'
  <2> SUFFICES ASSUME IInv, Settled, [Next]_vars PROVE Settled'
    OBVIOUS
  <2>1. CASE Pump
    BY <2>1, PumpSettles
  <2>2. CASE Announce
    BY <2>2 DEF Announce, Settled
  <2>3. ASSUME UNCHANGED <<pump, complete, reqErrors>>
        PROVE  Settled'
    BY <2>3 DEF Settled
  <2>4. UNCHANGED body => UNCHANGED <<pump, complete, reqErrors>>
    BY DEF body
  <2>5. CASE Listening \/ ListenFails \/ CloseServer \/ Connection \/ Handler \/ Reply \/ Reads
    BY <2>3, <2>4, <2>5 DEF Listening, ListenFails, CloseServer, Connection, Handler, ResWrite, ResEnd, Reply,
                            Finish, FinishFails, Reads, ReadBytes, ReadEnds
  <2>6. CASE Accept \/ HeadGone \/ HeadPartial \/ HeadRefused
    BY <2>3, <2>4, <2>6 DEF Accept, HeadGone, HeadPartial, HeadRefused
  <2>7. CASE UNCHANGED vars
    BY <2>3, <2>4, <2>7 DEF vars
  <2> QED
    BY <2>1, <2>2, <2>5, <2>6, <2>7 DEF Next, Serve
<1>3. IInv /\ Settled => AtRest
  <2> SUFFICES ASSUME IInv, Settled PROVE AtRest
    OBVIOUS
  <2>1. phase = "served" /\ pump \notin {"timer", "await"} => complete \/ reqErrors = 1
    BY DEF IInv, TypeOK, Phases, Settled
  <2>2. finished /\ writing # "busy" => native = "closed" \/ writing = "failed"
    BY DEF IInv, TypeOK, Phases
  <2> QED
    BY <2>1, <2>2 DEF AtRest, IInv, Phases, Counts
<1> QED
  BY Invariance, <1>1, <1>2, <1>3, PTL DEF Spec
=============================================================================
