------------------------------ MODULE HttpWire ------------------------------
(***************************************************************************)
(* The parser the node:http shim's client and server share: where a head   *)
(* ends, what body a head announces, and the incremental body decoder.     *)
(* A wire is a sequence of symbols: "CR" and "LF"; one symbol for the text *)
(* of a start line with its headers, one for the text of a chunk-size      *)
(* line, one per body byte.                                                *)
(***************************************************************************)
EXTENDS Integers, Sequences, SequencesExt, FiniteSetsExt

CONSTANTS HeadOf,   \* head symbol -> [status, te, cl]; 0 is no status line, and
                    \* cl is -1 without a Content-Length, -2 with a bad one
          SizeOf    \* size symbol -> chunk size; other symbols are no size

ASSUME HttpWireAssumption ==
  /\ \A h \in DOMAIN HeadOf :
       /\ HeadOf[h].status \in Nat
       /\ HeadOf[h].te \in {"absent", "chunked", "other"}
       /\ HeadOf[h].cl \in Nat \cup {-1, -2}
  /\ \A s \in DOMAIN SizeOf : SizeOf[s] \in Nat

Crlf == <<"CR", "LF">>

\* The first place `mark` stands at in buf, or 0.
IndexOfMark(buf, mark) ==
  LET at == {i \in 1..(Len(buf) - Len(mark) + 1) :
               SubSeq(buf, i, i + Len(mark) - 1) = mark}
  IN IF at = {} THEN 0 ELSE Min(at)

headEndIndex(buf) == IndexOfMark(buf, Crlf \o Crlf)
indexOfCRLF(buf)  == IndexOfMark(buf, Crlf)
After(buf, n)     == SubSeq(buf, n + 1, Len(buf))

\* A complete head: text that is no head has no status line and no headers.
splitHead(buf) ==
  IF buf[1] \in DOMAIN HeadOf THEN HeadOf[buf[1]]
  ELSE [status |-> 0, te |-> "absent", cl |-> -1]

-----------------------------------------------------------------------------
Framing(mode, length) == [mode |-> mode, length |-> length]

\* "refused" stands for the error thrown.
bodyFraming(head, isResponse, method) ==
  CASE isResponse /\ (method = "HEAD" \/ head.status \in {204, 304} \cup 100..199)
                               -> Framing("none", 0)
    [] OTHER ->
       CASE head.te = "chunked" -> Framing("chunked", 0)
         [] head.te = "other"   -> Framing("refused", 0)
         [] head.te = "absent" /\ head.cl >= 0  -> Framing("length", head.cl)
         [] head.te = "absent" /\ head.cl = -2  -> Framing("refused", 0)
         [] head.te = "absent" /\ head.cl = -1  ->
              Framing(IF isResponse THEN "eof" ELSE "none", 0)

-----------------------------------------------------------------------------
Decoder(framing) ==
  [mode      |-> framing.mode,
   remaining |-> framing.length,
   done      |-> framing.mode = "none" \/ framing = Framing("length", 0),
   pending   |-> <<>>, state |-> "size", need |-> 0, bad |-> FALSE]

Decoders == [mode : {"none", "length", "chunked", "eof", "refused"}, remaining : Nat,
             done : BOOLEAN, pending : Seq(STRING),
             state : {"size", "data", "crlf", "trailer"}, need : Nat, bad : BOOLEAN]

-----------------------------------------------------------------------------
\* _pushChunked's loop: the decoder, the bytes to parse, the body bytes so far.
LoopStates == [dec : Decoders, buf : Seq(STRING), out : Seq(STRING)]

\* The loop is over: the message is, or a size was malformed, or bytes are missing.
Stops(s) ==
  \/ s.dec.done \/ s.dec.bad
  \/ s.dec.state \in {"size", "trailer"} /\ indexOfCRLF(s.buf) = 0
  \/ s.dec.state = "data" /\ s.buf = <<>>
  \/ s.dec.state = "crlf" /\ Len(s.buf) < 2

TakeSize(s, size) ==
  [s EXCEPT !.dec.state = IF size = 0 THEN "trailer" ELSE "data",
            !.dec.need = size, !.buf = After(s.buf, 3)]

TakeData(s) ==
  LET take == Min({s.dec.need, Len(s.buf)}) IN
  [s EXCEPT !.dec.need = s.dec.need - take,
            !.dec.state = IF s.dec.need = take THEN "crlf" ELSE "data",
            !.buf = After(s.buf, take), !.out = s.out \o SubSeq(s.buf, 1, take)]

TakeTrailer(s, nl) == [s EXCEPT !.dec.done = (nl = 1), !.buf = After(s.buf, nl + 1)]

Turn(s) ==
  CASE s.dec.state = "size" ->
         IF indexOfCRLF(s.buf) = 2 /\ s.buf[1] \in DOMAIN SizeOf
         THEN TakeSize(s, SizeOf[s.buf[1]])
         ELSE [s EXCEPT !.dec.bad = TRUE]
    [] s.dec.state = "data"    -> TakeData(s)
    [] s.dec.state = "crlf"    -> [s EXCEPT !.dec.state = "size", !.buf = After(s.buf, 2)]
    [] s.dec.state = "trailer" -> TakeTrailer(s, indexOfCRLF(s.buf))

Loop[s \in LoopStates] == IF Stops(s) THEN s ELSE Loop[Turn(s)]

\* What a push had decoded is lost when it meets a malformed size, and the
\* bytes it held before are left as they were.
Outcome[end \in LoopStates] ==
  IF end.dec.bad THEN [dec |-> end.dec, out |-> <<>>]
  ELSE [dec |-> [end.dec EXCEPT !.pending = end.buf], out |-> end.out]

Chunks(d, bytes) == Outcome[Loop[[dec |-> d, buf |-> bytes, out |-> <<>>]]]

\* Mutant: a chunked push forgets the bytes it could not parse the last time.
PushForgets(d, bytes) ==
  CASE d.done \/ bytes = <<>> \/ d.mode \in {"none", "refused"} -> [dec |-> d, out |-> <<>>]
    [] OTHER ->
       CASE d.mode = "eof" -> [dec |-> d, out |-> bytes]
         [] d.mode = "length" -> [dec |-> [d EXCEPT !.done = TRUE], out |-> bytes]
         [] d.mode = "chunked" -> Chunks(d, bytes)

\* push(bytes): the decoder after it, and the body bytes it returns.
push(d, bytes) ==
  CASE d.done \/ bytes = <<>> \/ d.mode \in {"none", "refused"} -> [dec |-> d, out |-> <<>>]
    [] OTHER ->
       CASE d.mode = "eof" -> [dec |-> d, out |-> bytes]
         [] d.mode = "length" ->
              LET take == Min({d.remaining, Len(bytes)}) IN
              [dec |-> [d EXCEPT !.remaining = @ - take, !.done = d.remaining = take],
               out |-> SubSeq(bytes, 1, take)]
         [] d.mode = "chunked" -> Chunks(d, d.pending \o bytes)

\* The body that `bytes` carry, read in one piece.
WholeBody(framing, bytes) ==
  CASE framing.mode \in {"none", "refused"} -> <<>>
    [] framing.mode = "eof"     -> bytes
    [] framing.mode = "length"  -> SubSeq(bytes, 1, Min({framing.length, Len(bytes)}))
    [] framing.mode = "chunked" ->
         Loop[[dec |-> Decoder(framing), buf |-> bytes, out |-> <<>>]].out

\* eof(): the peer may close where the message has no other end, or after it.
EndsLegally(d) == d.done \/ d.mode = "eof"
=============================================================================
