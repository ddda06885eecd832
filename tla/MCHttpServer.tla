---------------------------- MODULE MCHttpServer ----------------------------
(* Eight requests framed as the shim's client and others frame them, cut at  *)
(* every place; a response of up to two writes.                              *)
EXTENDS HttpServer

MCHeadOf ==
  [POST2  |-> [status |-> 0, te |-> "absent", cl |-> 2],
   POST0  |-> [status |-> 0, te |-> "absent", cl |-> 0],
   POSTC  |-> [status |-> 0, te |-> "chunked", cl |-> 1],
   POSTTE |-> [status |-> 0, te |-> "other", cl |-> 2],
   POSTCL |-> [status |-> 0, te |-> "absent", cl |-> -2],
   GET    |-> [status |-> 0, te |-> "absent", cl |-> -1]]

MCSizeOf == [s0 |-> 0, s1 |-> 1, s2 |-> 2]

Chunk(size, data) == <<size>> \o Crlf \o data \o Crlf
Message(h, payload, framed) ==
  [wire |-> <<h>> \o Crlf \o Crlf \o framed, payload |-> payload]

MCRequests ==
  {Message("POST2", <<"a", "b">>, <<"a", "b", "x">>),
   Message("POST0", <<>>, <<>>),
   Message("GET", <<>>, <<"x">>),
   Message("POSTTE", <<>>, <<>>),
   Message("POSTCL", <<>>, <<>>),
   Message("POSTC", <<"CR", "LF", "a">>,
           Chunk("s2", Crlf) \o Chunk("s1", <<"a">>) \o Chunk("s0", <<>>)),
   Message("POSTC", <<>>, <<"s0">> \o Crlf \o <<"t">> \o Crlf \o Crlf),
   Message("POSTC", <<"a">>, Chunk("s1", <<"a">>) \o Chunk("bad", <<"b">>))}
=============================================================================
