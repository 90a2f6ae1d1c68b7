---------------------------- MODULE WsTransport -----------------------------
(***************************************************************************)
(* The WebSocket transport (src/src/ws.cpp): the opening handshake, the    *)
(* buffered reader under it, and receive_binary_deadline, which assembles  *)
(* messages from frames.                                                   *)
(*                                                                         *)
(* What the server sends is a script: the answer to the handshake, then    *)
(* frames.  It arrives a few cells at a time, possibly in TLS records.  A  *)
(* frame has one or two cells of header and one for each unit of payload.  *)
(* A message is a number, which its frames carry; frames that are no part  *)
(* of a complete binary message carry 0.                                   *)
(***************************************************************************)
EXTENDS Naturals, Sequences, FiniteSets

CONSTANTS
    Scripts,     \* what the server may send
    Addresses,   \* how many addresses the host resolves to
    ShortLen,    \* payloads from this size on have a two-cell header (126)
    MaxMessage,  \* WS_MAX_MESSAGE_SIZE
    MaxHead,     \* kMaxHead
    Chunk,       \* cells one fill takes at most (4096 bytes)
    MaxSends     \* bound: messages sent

Ops == {"http", "binary", "cont", "text", "ping", "pong", "close", "odd"}

Items == [op : Ops, msg : Nat, fin : BOOLEAN, len : Nat, ok : BOOLEAN]

\* A binary message from frame i to frame j: a binary frame and its continuations, up to
\* the final one, with any text and control frames in between.
Data(s) == {i \in 1..Len(s) : s[i].op \in {"binary", "cont"}}
Complete(s, i, j) ==
    /\ i \in Data(s) /\ j \in Data(s) /\ i <= j /\ s[i].op = "binary" /\ s[j].fin
    /\ \A k \in Data(s) : /\ i < k /\ k <= j => s[k].op = "cont"
                          /\ i <= k /\ k < j => ~s[k].fin

\* The frames of the binary messages carry their numbers, which are 1, 2, ... in order.
Numbered(s) ==
    /\ \A i, j \in 1..Len(s) : Complete(s, i, j) =>
         /\ s[i].msg # 0
         /\ {k \in 1..Len(s) : s[k].msg = s[i].msg} = {k \in Data(s) : i <= k /\ k <= j}
    /\ \A k \in 1..Len(s) : s[k].msg # 0 =>
         /\ \E i, j \in 1..Len(s) : Complete(s, i, j) /\ i <= k /\ k <= j /\ k \in Data(s)
         /\ \A j \in k..Len(s) : s[j].msg # 0 => s[k].msg <= s[j].msg
         /\ \A n \in 1..s[k].msg - 1 : \E i \in 1..Len(s) : s[i].msg = n

ASSUME ScriptAssumption ==
    \A s \in Scripts : s \in Seq(Items) /\ s # <<>> /\ s[1].op = "http" /\ Numbered(s)
ASSUME WsAssumption ==
    /\ Addresses \in Nat /\ ShortLen \in Nat /\ MaxMessage \in Nat /\ MaxHead \in Nat
    /\ Chunk \in Nat \ {0} /\ MaxSends \in Nat

VARIABLES
    tls,       \* a wss:// url
    script,    \* what this server sends
    written,   \* cells of it that can be read
    part,      \* an incomplete TLS record is in the socket
    closed,    \* the server closed the connection
    stalled,   \* this end is blocked in a write: the server does not read
    conn,      \* where connect() is, or how the connection ended
    addr,      \* the address connect() tries next
    fds,       \* the sockets that are open
    taken,     \* cells moved to read_buf so far
    pending,   \* SSL_pending: the rest of a record is decrypted
    pos,       \* the item at the front of read_buf
    rx,        \* the read in progress and the message it assembles
    sends,     \* messages sent
    out,       \* how the last receive ended
    lost,      \* the messages whose start a receive consumed that did not return them
    last,      \* the last message returned
    warned     \* a receive has thrown, other than VynkorTimeout, since then

server == <<tls, script, written, part, closed, stalled>>
outcome == <<out, lost, last, warned>>
vars == <<server, conn, addr, fds, taken, pending, pos, rx, sends, outcome>>

HeadCells(len) == IF len < ShortLen THEN 1 ELSE 2
Cells(f) == IF f.op = "http" THEN f.len ELSE HeadCells(f.len) + f.len
EndOf == LET e[i \in 0..Len(script)] == IF i = 0 THEN 0 ELSE e[i - 1] + Cells(script[i]) IN e

NotReading == [pc |-> "idle", timed |-> FALSE, late |-> FALSE, acc |-> <<>>, size |-> 0]
Reading(timed) == [NotReading EXCEPT !.pc = "decode", !.timed = timed]

Init ==
    /\ tls \in BOOLEAN /\ script \in Scripts /\ written = 0 /\ part = FALSE /\ closed = FALSE
    /\ stalled = FALSE
    /\ conn = "tcp" /\ addr = 1 /\ fds = {} /\ taken = 0 /\ pending = FALSE /\ pos = 1
    /\ rx = NotReading /\ sends = 0
    /\ out = [what |-> "none", acc |-> <<>>, at |-> 0] /\ lost = {} /\ last = 0 /\ warned = FALSE

-----------------------------------------------------------------------------
(***************************************************************************)
(* The server.                                                             *)
(***************************************************************************)
\* More of the script arrives, up to the end of an item; under TLS, as a whole record.
Arrive ==
    /\ conn \in {"head", "open"} /\ ~closed
    /\ \E i \in 1..Len(script) :
         /\ EndOf[i - 1] <= written /\ written < EndOf[i]
         /\ written' \in written + 1 .. EndOf[i]
    /\ part' = FALSE
    /\ UNCHANGED <<tls, script, closed, stalled, conn, addr, fds, taken, pending, pos, rx,
                   sends, outcome>>

PartArrives ==
    /\ conn \in {"head", "open"} /\ ~closed /\ tls /\ ~part /\ written < EndOf[Len(script)]
    /\ part' = TRUE
    /\ UNCHANGED <<tls, script, written, closed, stalled, conn, addr, fds, taken, pending, pos, rx,
                   sends, outcome>>

ServerCloses ==
    /\ conn \in {"head", "open"} /\ ~closed /\ closed' = TRUE /\ stalled' = FALSE
    /\ UNCHANGED <<tls, script, written, part, conn, addr, fds, taken, pending, pos, rx,
                   sends, outcome>>

\* How a write may end: it fails only when the server is gone, and does not end, with a
\* deadline or without, while the server does not read.
stream_write_all ==
    IF stalled THEN {} ELSE {TRUE} \cup (IF closed THEN {FALSE} ELSE {})

-----------------------------------------------------------------------------
(***************************************************************************)
(* connect().  An exception destroys the connection object: teardown.      *)
(***************************************************************************)
teardown(how) == conn' = how /\ fds' = {} /\ rx' = NotReading

ConnectFails(at) ==
    /\ conn = at /\ ~stalled /\ teardown("failed")
    /\ UNCHANGED <<server, addr, taken, pending, pos, sends, outcome>>

\* Mutant: the socket of an address that does not answer stays open.
TryAddressLeaking ==
    /\ conn = "tcp" /\ addr <= Addresses /\ addr' = addr + 1
    /\ fds' = fds \cup {addr}
    /\ conn' \in {"tcp", IF tls THEN "tls" ELSE "request"}
    /\ UNCHANGED <<server, taken, pending, pos, rx, sends, outcome>>
\* socket() fails, or connect() fails and the socket is closed, or the loop ends.
TryAddress ==
    /\ conn = "tcp" /\ addr <= Addresses /\ addr' = addr + 1
    /\ \/ UNCHANGED <<conn, fds>>
       \/ conn' = (IF tls THEN "tls" ELSE "request") /\ fds' = {addr}
    /\ UNCHANGED <<server, taken, pending, pos, rx, sends, outcome>>

\* getaddrinfo() fails, or no address answered.
NoAddress == addr \in {1, Addresses + 1} /\ ConnectFails("tcp")

TlsHandshake ==
    /\ conn = "tls" /\ conn' = "request"
    /\ UNCHANGED <<server, addr, fds, taken, pending, pos, rx, sends, outcome>>

SendHandshake ==
    /\ conn = "request" /\ stream_write_all # {} /\ conn' = "head" /\ rx' = Reading(TRUE)
    /\ UNCHANGED <<server, addr, fds, taken, pending, pos, sends, outcome>>

Buffered == taken - EndOf[pos - 1]

\* The head of the answer ends in read_buf, or it is too long, or another fill begins
\* with 30 s of its own.  What follows the head stays in the buffer.
ReadHead ==
    /\ conn = "head" /\ rx.pc = "decode"
    /\ \/ /\ script[1].fin /\ Buffered >= Cells(script[1])
          /\ pos' = 2
          /\ \/ ~script[1].ok /\ teardown("failed")
             \/ script[1].ok /\ conn' = "open" /\ rx' = NotReading /\ UNCHANGED fds
       \/ /\ ~(script[1].fin /\ Buffered >= Cells(script[1])) /\ UNCHANGED pos
          /\ \/ Buffered > MaxHead /\ teardown("failed")
             \/ /\ Buffered <= MaxHead /\ rx' = [rx EXCEPT !.pc = "fill", !.late = FALSE]
                /\ UNCHANGED <<conn, fds>>
    /\ UNCHANGED <<server, addr, taken, pending, sends, outcome>>

-----------------------------------------------------------------------------
(***************************************************************************)
(* receive_binary_deadline: returns, or throws.                            *)
(***************************************************************************)
Message(acc) == script[acc[1]].msg

\* The messages a call that ends without returning them has started on.
Dropped(acc) == {script[acc[i]].msg : i \in 1..Len(acc)}

Return(acc) ==
    /\ rx' = NotReading /\ out' = [what |-> "message", acc |-> acc, at |-> pos]
    /\ last' = Message(acc) /\ warned' = FALSE /\ UNCHANGED lost

Throw(what, acc) ==
    /\ rx' = NotReading /\ out' = [what |-> what, acc |-> acc, at |-> pos]
    /\ lost' = lost \cup Dropped(acc)
    /\ warned' = (warned \/ what # "timeout") /\ UNCHANGED last

\* A read that fails in connect() destroys the connection; in a receive it only throws.
ReadFails(what) ==
    IF conn = "head" THEN teardown("failed") /\ UNCHANGED outcome
                     ELSE Throw(what, rx.acc) /\ UNCHANGED <<conn, fds>>

\* steady_clock reaches the deadline of the read.
DeadlinePasses ==
    /\ rx.pc # "idle" /\ rx.timed /\ ~rx.late /\ rx' = [rx EXCEPT !.late = TRUE]
    /\ UNCHANGED <<server, conn, addr, fds, taken, pending, pos, sends, outcome>>

Available == written - taken
Past == rx.timed /\ rx.late
Least(a, b) == IF a < b THEN a ELSE b

\* stream_fill.  poll_readable looks at the deadline first, unless OpenSSL has bytes left.
Fill ==
    /\ rx.pc = "ssl" \/ (rx.pc = "fill" /\ (pending \/ ~Past))
    /\ Available > 0
    /\ taken' = taken + Least(Chunk, Available)
    /\ pending' \in {FALSE, tls /\ taken' < written}
    /\ rx' = [rx EXCEPT !.pc = "decode"]
    /\ UNCHANGED <<server, conn, addr, fds, pos, sends, outcome>>

\* poll() sees the start of a record; SSL_read on the blocking socket waits for its end.
SslBlocks ==
    /\ rx.pc = "fill" /\ ~Past /\ part /\ Available = 0
    /\ rx' = [rx EXCEPT !.pc = "ssl"]
    /\ UNCHANGED <<server, conn, addr, fds, taken, pending, pos, sends, outcome>>

\* Mutant: a plain read is not preceded by a poll with the deadline.
FillTimesOutTlsOnly ==
    /\ tls /\ rx.pc = "fill" /\ Past /\ ~pending /\ ReadFails("timeout")
    /\ UNCHANGED <<server, addr, taken, pending, pos, sends>>
FillTimesOut ==
    /\ rx.pc = "fill" /\ Past /\ ~pending /\ ReadFails("timeout")
    /\ UNCHANGED <<server, addr, taken, pending, pos, sends>>

FillFails ==
    /\ rx.pc = "ssl" \/ (rx.pc = "fill" /\ ~Past)
    /\ closed /\ Available = 0 /\ ReadFails("io")
    /\ UNCHANGED <<server, addr, taken, pending, pos, sends>>

Receive(timed) ==
    /\ conn = "open" /\ rx.pc = "idle" /\ ~stalled /\ rx' = Reading(timed)
    /\ UNCHANGED <<server, conn, addr, fds, taken, pending, pos, sends, outcome>>

Front == script[pos]
HeaderSeen == pos <= Len(script) /\ Buffered >= HeadCells(Front.len)
\* The item at the front is all there and decodes.
Whole == HeaderSeen /\ Front.ok /\ Front.len <= MaxMessage /\ Buffered >= Cells(Front)
\* It cannot be decoded: masked, or too long.  It stays at the front of read_buf.
Undecodable ==
    /\ pos <= Len(script) /\ Buffered > 0
    /\ ~Front.ok \/ (HeaderSeen /\ Front.len > MaxMessage)

DecodeThrows ==
    /\ conn = "open" /\ rx.pc = "decode" /\ Undecodable
    /\ Throw("undecodable", rx.acc)
    /\ UNCHANGED <<server, conn, addr, fds, taken, pending, pos, sends>>

NeedsMore ==
    /\ conn = "open" /\ rx.pc = "decode" /\ ~Undecodable /\ ~Whole
    /\ \/ Buffered > MaxMessage /\ Throw("large", rx.acc)
       \/ Buffered <= MaxMessage /\ rx' = [rx EXCEPT !.pc = "fill"] /\ UNCHANGED outcome
    /\ UNCHANGED <<server, conn, addr, fds, taken, pending, pos, sends>>

Continue(acc, size) ==
    rx' = [rx EXCEPT !.pc = "decode", !.acc = acc, !.size = size] /\ UNCHANGED outcome

\* Mutant: the first fragment is returned as if it were the message.
OnBinaryEarly ==
    \/ rx.acc # <<>> /\ Throw("unexpected", Append(rx.acc, pos))
    \/ rx.acc = <<>> /\ Return(<<pos>>)
\* The start of a message inside another one: both are dropped.
OnBinary ==
    \/ rx.acc # <<>> /\ Throw("unexpected", Append(rx.acc, pos))
    \/ rx.acc = <<>> /\ ~Front.fin /\ Continue(<<pos>>, Front.len)
    \/ rx.acc = <<>> /\ Front.fin /\ Return(<<pos>>)

\* Mutant: a continuation is taken for the rest of whatever there is.
OnContAlways ==
    LET acc == Append(rx.acc, pos)
    IN  \/ ~Front.fin /\ Continue(acc, rx.size + Front.len)
        \/ Front.fin /\ Return(acc)
\* Mutant: a continuation that follows nothing is skipped.
OnContSkipping ==
    LET acc == Append(rx.acc, pos)
    IN  \/ rx.acc = <<>> /\ Continue(<<>>, 0)
        \/ rx.acc # <<>> /\ ~Front.fin /\ Continue(acc, rx.size + Front.len)
        \/ rx.acc # <<>> /\ Front.fin /\ Return(acc)
OnCont ==
    LET acc  == Append(rx.acc, pos)
        size == rx.size + Front.len
    IN  \/ rx.acc = <<>> /\ Throw("orphan", <<>>)
        \/ rx.acc # <<>> /\ size > MaxMessage /\ Throw("large", acc)
        \/ rx.acc # <<>> /\ size <= MaxMessage /\ ~Front.fin /\ Continue(acc, size)
        \/ rx.acc # <<>> /\ size <= MaxMessage /\ Front.fin /\ Return(acc)

\* The pong is written before the next frame is looked at; a failed write throws.
OnPing ==
    \E written_out \in stream_write_all :
        IF written_out THEN Continue(rx.acc, rx.size) ELSE Throw("io", rx.acc)

Dispatch ==
    /\ conn = "open" /\ rx.pc = "decode" /\ Whole /\ pos' = pos + 1
    /\ \/ Front.op = "binary" /\ OnBinary
       \/ Front.op = "cont" /\ OnCont
       \/ Front.op = "ping" /\ OnPing
       \/ Front.op \in {"text", "pong"} /\ Continue(rx.acc, rx.size)
       \/ Front.op = "close" /\ stream_write_all # {} /\ Throw("io", rx.acc)
       \/ Front.op = "odd" /\ Throw("odd", rx.acc)
    /\ UNCHANGED <<server, conn, addr, fds, taken, pending, sends>>

\* send_binary: one masked frame, or an exception; nothing of the receiving side changes.
SendBinary ==
    /\ conn = "open" /\ rx.pc = "idle" /\ sends < MaxSends
    /\ \E written_out \in stream_write_all : sends' = sends + (IF written_out THEN 1 ELSE 0)
    /\ UNCHANGED <<server, conn, addr, fds, taken, pending, pos, rx, outcome>>

\* close(): a close frame, whether or not its write fails, and teardown.
Close ==
    /\ conn = "open" /\ rx.pc = "idle" /\ stream_write_all # {} /\ teardown("closed")
    /\ UNCHANGED <<server, addr, taken, pending, pos, sends, outcome>>

\* The server has read so little that the socket buffer is full when this end comes to
\* write: the request, a pong or close frame in answer, or in a call of its own; or it
\* reads again.
Writing ==
    \/ conn = "request" \/ (conn = "open" /\ rx.pc = "idle")
    \/ conn = "open" /\ rx.pc = "decode" /\ Whole /\ Front.op \in {"ping", "close"}
ServerStalls ==
    /\ Writing /\ ~closed /\ stalled' = ~stalled
    /\ UNCHANGED <<tls, script, written, part, closed, conn, addr, fds, taken, pending, pos,
                   rx, sends, outcome>>

Reader ==
    \/ ReadHead \/ Fill \/ SslBlocks \/ FillTimesOut \/ FillFails
    \/ DecodeThrows \/ NeedsMore \/ Dispatch

Next ==
    \/ Arrive \/ PartArrives \/ ServerCloses \/ ServerStalls \/ DeadlinePasses
    \/ TryAddress \/ NoAddress \/ TlsHandshake \/ SendHandshake
    \/ ConnectFails("tls") \/ ConnectFails("request")
    \/ \E timed \in BOOLEAN : Receive(timed)
    \/ SendBinary \/ Close \/ Reader

\* The clock goes on and a thread that is not blocked takes its next step; the server owes
\* nothing: it may send nothing more, read nothing more, and never close.
Spec == Init /\ [][Next]_vars /\ WF_vars(DeadlinePasses) /\ WF_vars(Reader)

-----------------------------------------------------------------------------
(***************************************************************************)
(* Properties.                                                             *)
(***************************************************************************)
\* Every variable keeps its type.  At most one socket is open, none once connect() threw
\* or close() returned, whichever address, handshake step or read failed.
TypeOK ==
    /\ written \in 0..EndOf[Len(script)] /\ taken \in 0..written /\ EndOf[pos - 1] <= taken
    /\ pos \in 1..Len(script) + 1 /\ addr \in 1..Addresses + 1
    /\ conn \in {"tcp", "tls", "request", "head", "open", "failed", "closed"}
    /\ fds \subseteq 1..Addresses /\ part \in BOOLEAN /\ stalled \in BOOLEAN
    /\ pending \in BOOLEAN
    /\ Cardinality(fds) = IF conn \in {"tcp", "failed", "closed"} THEN 0 ELSE 1
    /\ rx.pc \in {"idle", "decode", "fill", "ssl"}
    /\ rx.pc # "idle" => conn \in {"head", "open"}

\* A message that is returned is made of all its frames, in order, and of nothing else,
\* whatever was lost before it and whatever control or text frames came between
\* (ws.cpp:482-543).
FramesOf(m) == {i \in 1..Len(script) : script[i].msg = m}
MessageWhole ==
    out.what = "message" =>
        /\ {out.acc[i] : i \in 1..Len(out.acc)} = FramesOf(Message(out.acc))
        /\ \A i, j \in 1..Len(out.acc) : i < j => out.acc[i] < out.acc[j]

\* "continuation without a started message" is thrown for a frame of a binary message only
\* when an earlier call consumed the start of that message and dropped it when it threw,
\* VynkorTimeout included (ws.cpp:509, 519).
OrphanExplained ==
    out.what = "orphan" /\ script[out.at].msg # 0 => script[out.at].msg \in lost

\* Messages are delivered in order, none twice, and none is lost without an exception
\* other than VynkorTimeout: the part of a message that a timed-out call had assembled is
\* gone, but the next call throws when it meets the rest of it.
Begun == {script[i].msg : i \in {j \in 1..Len(script) : EndOf[j - 1] < written}} \ {0}
Channel == INSTANCE FrameChannel WITH sent <- Cardinality(Begun)
ImplementsChannel == Channel!Spec

\* Over a plain connection a receive with a deadline ends, and so does the wait for the
\* handshake's answer, however the frames are cut and whatever control frames come, unless
\* the server does not read the pong or close frame that answers it: no deadline bounds
\* stream_write_all (ws.cpp:221-246, 282-310).
WaitsEnd == (rx.pc # "idle" /\ rx.timed /\ ~tls) ~> (rx.pc = "idle" \/ stalled)
=============================================================================
