--------------------------- MODULE MCWsTransport ----------------------------
(***************************************************************************)
(* Servers that fragment and ping, send text, exceed the limits, break the *)
(* protocol, or refuse the handshake.                                      *)
(***************************************************************************)
EXTENDS WsTransport

F(op, msg, fin, len) == [op |-> op, msg |-> msg, fin |-> fin, len |-> len, ok |-> TRUE]
Bad(f) == [f EXCEPT !.ok = FALSE]
Http == F("http", 0, TRUE, 1)
Ping == F("ping", 0, TRUE, 0)
Binary(m) == F("binary", m, TRUE, 0)

MCScripts == {
    <<Http, F("binary", 1, FALSE, 1), Ping, F("cont", 1, TRUE, 0), Binary(2)>>,
    <<Http, F("text", 0, FALSE, 0), F("cont", 0, TRUE, 0), F("pong", 0, TRUE, 0), Binary(1),
      F("close", 0, TRUE, 0)>>,
    \* exactly the limit; above it in pieces; above it at once
    <<Http, F("binary", 1, TRUE, 3), Binary(2)>>,
    <<Http, F("binary", 1, FALSE, 2), F("cont", 1, FALSE, 2), F("cont", 1, TRUE, 0), Binary(2)>>,
    <<Http, F("binary", 1, TRUE, 4)>>,
    <<Http, Binary(1), Bad(Binary(2)), Binary(3)>>,
    \* a message that is begun and abandoned, and its late rest
    <<Http, F("binary", 0, FALSE, 0), Binary(1), F("cont", 0, TRUE, 0), F("odd", 0, TRUE, 0),
      Binary(2)>>,
    <<Bad(Http), Binary(1)>>,
    <<F("http", 0, FALSE, 3)>> }
=============================================================================
