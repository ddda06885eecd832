---------------------------- MODULE MCHttpClient ----------------------------
(* Eleven peers, whose messages of at most 15 symbols are cut at every       *)
(* place; bodies of up to three bytes, one pair of them CR LF; two calls of  *)
(* the owner, so that a destroy can meet a write or an end; two owners who   *)
(* declare a framing of their own.                                           *)
EXTENDS HttpClient

MCHeadOf ==
  [H100   |-> [status |-> 100, te |-> "absent", cl |-> -1],
   H101   |-> [status |-> 101, te |-> "absent", cl |-> -1],
   H200   |-> [status |-> 200, te |-> "absent", cl |-> -1],
   H200L  |-> [status |-> 200, te |-> "absent", cl |-> 2],
   H200C  |-> [status |-> 200, te |-> "chunked", cl |-> 2],
   H200TE |-> [status |-> 200, te |-> "other", cl |-> -1],
   H204   |-> [status |-> 204, te |-> "absent", cl |-> -1],
   HX     |-> [status |-> 0, te |-> "absent", cl |-> -1]]

MCSizeOf == [s0 |-> 0, s1 |-> 1, s2 |-> 2]

Whole(h)           == <<h>> \o Crlf \o Crlf
Chunk(size, data)  == <<size>> \o Crlf \o data \o Crlf
Message(m, before, h, payload, body) ==
  [method |-> m, declared |-> "no", wire |-> before \o Whole(h) \o body,
   heads |-> {0, Len(before)}, start |-> Len(before) + 5, payload |-> payload]

Declaring(framing, x) == [x EXCEPT !.declared = framing]

MCExchanges ==
  {Message("POST", <<>>, "H200L", <<"a", "b">>, <<"a", "b", "x">>),
   Message("GET",  <<>>, "H200", Crlf, Crlf),
   Message("HEAD", <<>>, "H200L", <<>>, <<>>),
   Message("GET",  <<>>, "H101", <<"a", "b">>, <<"a", "b">>),
   Declaring("chunked", Message("GET", <<>>, "H200TE", <<>>, <<>>)),
   Message("GET",  <<>>, "HX", <<>>, <<>>),
   Declaring("length", Message("POST", Whole("H100"), "H204", <<>>, <<>>)),
   Message("GET",  <<>>, "H200C", Crlf, Chunk("s2", Crlf) \o Chunk("s0", <<>>)),
   Message("POST", <<>>, "H200C", <<>>, <<"s0">> \o Crlf \o <<"t">> \o Crlf \o Crlf),
   Message("GET",  <<>>, "H200C", <<"a">>, Chunk("s1", <<"a">>) \o Chunk("bad", <<>>)),
   Message("CONNECT", <<>>, "H200", <<>>, <<>>)}
=============================================================================
