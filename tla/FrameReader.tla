---------------------------- MODULE FrameReader -----------------------------
(***************************************************************************)
(* Frames over a transport: send_raw_with_flags and write_all on one end,  *)
(* read_transport_frame with the timed readers of src/src/framing.cpp on   *)
(* the other.                                                              *)
(*                                                                         *)
(* A UNIX socket is a stream of cells: HeadCells for a frame's header, one *)
(* for each unit of its payload, one for its tag.  The writer's cells      *)
(* become readable a few at a time; the reader takes what is there, up to  *)
(* what it needs.  A read that gives up in the middle of a frame leaves    *)
(* the stream there, and the next one takes whatever follows for a header. *)
(* Such a header has any length and any flags; that the cells under it     *)
(* never pass for a frame (magic, CRC) is an assumption of the model.      *)
(*                                                                         *)
(* Over a WebSocket each frame is one message, which parse_frame_from_     *)
(* buffer gets whole; the cells are its fragments.  A wait that ends       *)
(* between two of them drops the first ones, and what is left is refused   *)
(* (module WsTransport has the details).                                   *)
(***************************************************************************)
EXTENDS Framing

CONSTANTS
    Requests,   \* what may be sent: a packer, bytes and flags
    Target,     \* of every frame
    SenderKeys, \* session keys the sending end may hold,
    ReaderKeys, \* and the reading end
    HeadCells,  \* cells of a frame header
    MaxFrames   \* bound: frames sent

ASSUME ReaderAssumption ==
    /\ \A r \in Requests : r.by \in {"client", "crc", "mac", "corrupt"}
                           /\ r.bytes \in Bytes /\ r.flags \subseteq Flags
    /\ SenderKeys \cup ReaderKeys \subseteq Keys \cup {NoKey}
    /\ Target \in Seq(STRING)
    /\ HeadCells \in Nat /\ HeadCells > 1 /\ MaxFrames \in Nat

VARIABLES
    ws,        \* the transport is a WebSocket
    skey,      \* the sender's session key
    rkey,      \* the reader's
    frames,    \* the frames sent: the request, the wire frame, where it starts
    written,   \* cells the reader can get
    closed,    \* the sender is gone
    consumed,  \* cells read
    rd,        \* the read: where it is, where it began, where it ends, is its deadline
               \* past, is its timeout above INT_MAX milliseconds
    out,       \* the last call's outcome
    last,      \* the last frame returned
    warned     \* a call has thrown, other than VynkorTimeout, since then

sender == <<ws, skey, rkey, frames, written, closed>>
vars == <<sender, consumed, rd, out, last, warned>>

CellsOf(w) == HeadCells + w.header.length + (IF w.tag = NoTag THEN 0 ELSE 1)
EndOf(i) == IF i = 0 THEN 0 ELSE frames[i].at + CellsOf(frames[i].wire)
Total == EndOf(Len(frames))

Idle == [pc |-> "idle", from |-> 0, upto |-> 0, late |-> FALSE, wide |-> FALSE]
Outcome(what, i, result) == [what |-> what, frame |-> i, result |-> result]

Init ==
    /\ ws \in BOOLEAN /\ skey \in SenderKeys /\ rkey \in ReaderKeys
    /\ frames = <<>> /\ written = 0 /\ closed = FALSE
    /\ consumed = 0 /\ rd = Idle /\ out = Outcome("none", 0, Refused)
    /\ last = 0 /\ warned = FALSE

-----------------------------------------------------------------------------
(***************************************************************************)
(* The sending end: a client, or a peer that uses the other pack functions.*)
(***************************************************************************)
send_raw_with_flags(bytes, extra) ==
    LET flags == extra \cup (IF skey = NoKey THEN {} ELSE {"MAC"})
    IN  IF ws THEN pack_frame_ws(Target, flags, bytes, skey)
              ELSE pack_frame_raw(Target, flags, bytes, skey)

\* A frame whose payload was damaged: its checksum is that of other bytes.
Corrupt(w) ==
    [w EXCEPT !.header.crc = vynkor_crc32([w.body EXCEPT !.zipped = ~w.body.zipped])]

Packed(r) ==
    CASE r.by = "client"  -> send_raw_with_flags(r.bytes, r.flags)
      [] r.by = "crc"     -> pack_frame(Target, r.bytes, r.flags)
      [] r.by = "mac"     -> pack_frame_mac(Target, r.bytes, skey, r.flags)
      [] r.by = "corrupt" -> Corrupt(send_raw_with_flags(r.bytes, r.flags))

Send(r) ==
    /\ Len(frames) < MaxFrames /\ ~closed /\ written = Total
    /\ Packable(r.bytes) /\ (r.by = "mac" => skey # NoKey)
    /\ frames' = Append(frames, [asked |-> r, wire |-> Packed(r), at |-> Total])
    /\ UNCHANGED <<ws, skey, rkey, written, closed, consumed, rd, out, last, warned>>

\* write(2) takes some of the frame; write_all goes on with the rest.
Write ==
    /\ written < Total /\ ~closed
    /\ written' \in written + 1 .. Total
    /\ UNCHANGED <<ws, skey, rkey, frames, closed, consumed, rd, out, last, warned>>

\* The sender ends, perhaps in the middle of a frame.
PeerCloses ==
    /\ ~closed /\ closed' = TRUE
    /\ UNCHANGED <<ws, skey, rkey, frames, written, consumed, rd, out, last, warned>>

-----------------------------------------------------------------------------
(***************************************************************************)
(* The reading end.                                                        *)
(***************************************************************************)
Available == written - consumed
\* Mutant: read() is given the whole buffer.
ReachedAll == written
\* read() returns what is there, at most what the read still needs.
Reached == IF rd.upto < written THEN rd.upto ELSE written

\* The call ends: with a frame, with VynkorTimeout, or with another exception.
Return(what, i, result) ==
    /\ rd' = Idle /\ out' = Outcome(what, i, result)
    /\ last' = IF what = "frame" THEN i ELSE last
    /\ warned' = CASE what = "frame" -> FALSE [] what = "timeout" -> warned [] OTHER -> TRUE

\* read_transport_frame without a deadline, with one, or with one so far away that the
\* milliseconds left do not fit the int that poll() and the frame reader are given; over a
\* WebSocket they are cut down to INT_MAX.
Timeouts == {"none", "int", "wide"}
CallRead(timeout) ==
    /\ rd.pc = "idle" /\ (ws => timeout # "wide")
    /\ rd' = [pc |-> IF timeout = "none" THEN "first" ELSE "poll", from |-> consumed,
              upto |-> consumed + HeadCells, late |-> FALSE, wide |-> timeout = "wide"]
    /\ UNCHANGED <<sender, consumed, out, last, warned>>

\* The time the step in progress may take is over.
Expires(wide) ==
    /\ rd.pc \in {"poll", "head", "body"} /\ ~rd.late
    /\ wide <=> rd.wide /\ rd.pc = "poll"
    /\ rd' = [rd EXCEPT !.late = TRUE]
    /\ UNCHANGED <<sender, consumed, out, last, warned>>
DeadlinePasses == Expires(FALSE)
\* The low 32 bits of a wide timeout decide how long poll() waits: when they are negative
\* for ever, and otherwise not as long as the caller asked.
WideExpires == Expires(TRUE)

\* poll() finds the stream readable, or closed; the rest of the budget, at least 1 ms,
\* bounds the frame from its first byte on.
PollReady ==
    /\ rd.pc = "poll" /\ ~ws /\ ~rd.late /\ (Available > 0 \/ closed)
    /\ rd' = [rd EXCEPT !.pc = "first"]
    /\ UNCHANGED <<sender, consumed, out, last, warned>>

PollTimesOut ==
    /\ rd.pc = "poll" /\ rd.late
    /\ Return("timeout", 0, Refused)
    /\ UNCHANGED <<sender, consumed>>

\* recv_exact of one byte: blocks until it is there.  What is left of a wide timeout
\* may be negative as an int, and then the frame is late from its first byte on.
FirstByte ==
    /\ rd.pc = "first" /\ ~ws /\ Available > 0
    /\ consumed' = consumed + 1
    /\ \E late \in (IF rd.wide THEN BOOLEAN ELSE {FALSE}) :
         rd' = [rd EXCEPT !.pc = "head", !.late = late]
    /\ UNCHANGED <<sender, out, last, warned>>

FrameAt(pos) == {i \in 1..Len(frames) : frames[i].at = pos}

\* parse_frame_bytes on the cells of this read.  A tag the header promises but the writer
\* did not append is made of the cells that follow.
Parse ==
    \/ /\ FrameAt(rd.from) = {}
       /\ Return("error", 0, Refused)
    \/ \E i \in FrameAt(rd.from) :
         LET w == frames[i].wire
             result == parse_frame_bytes(w.header, w.body,
                           IF w.tag = NoTag THEN Garbage ELSE w.tag, rkey)
         IN  Return(IF result.ok THEN "frame" ELSE "error", i, result)

\* The length and the MAC bit the header just read shows: the frame's own, or anything.
Announced ==
    IF FrameAt(rd.from) = {}
    THEN [length : 0 .. MaxPayload + 1, mac : BOOLEAN]
    ELSE {[length |-> frames[i].wire.header.length, mac |-> "MAC" \in frames[i].wire.header.flags] :
             i \in FrameAt(rd.from)}

\* Header complete: refuse the length, parse a frame of no more bytes, or read on.
HeaderRead ==
    \E h \in Announced :
        LET upto == rd.upto + h.length + (IF h.mac THEN 1 ELSE 0)
        IN  \/ h.length > MaxPayload /\ Return("error", 0, Refused)
            \/ h.length <= MaxPayload /\ upto = rd.upto /\ Parse
            \/ /\ h.length <= MaxPayload /\ upto > rd.upto
               /\ rd' = [rd EXCEPT !.pc = "body", !.upto = upto]
               /\ UNCHANGED <<out, last, warned>>

\* One turn of recv_exact_deadline: the deadline is looked at before poll() and read().
RecvExact ==
    /\ rd.pc \in {"head", "body"} /\ ~rd.late /\ Available > 0
    /\ consumed' = Reached
    /\ \/ /\ consumed' < rd.upto /\ UNCHANGED <<rd, out, last, warned>>
       \/ /\ consumed' >= rd.upto
          /\ IF rd.pc = "head" THEN HeaderRead ELSE Parse
    /\ UNCHANGED <<sender>>

\* Mutant: running out of time in a frame is reported like running out of time before it.
FrameTimesOutAsIdle ==
    /\ rd.pc \in {"head", "body"} /\ rd.late
    /\ Return("timeout", 0, Refused)
    /\ UNCHANGED <<sender, consumed>>
\* Mutant: only the header is read under the deadline.
FrameTimesOutInHead ==
    /\ rd.pc = "head" /\ rd.late
    /\ Return("error", 0, Refused)
    /\ UNCHANGED <<sender, consumed>>
\* VynkorFrameReadTimeout: the cells read so far are dropped.
FrameTimesOut ==
    /\ rd.pc \in {"head", "body"} /\ rd.late
    /\ Return("error", 0, Refused)
    /\ UNCHANGED <<sender, consumed>>

\* read() returns 0.
Hangup ==
    /\ ~ws /\ closed /\ Available = 0 /\ rd.pc \in {"first", "head", "body"}
    /\ Return("error", 0, Refused)
    /\ UNCHANGED <<sender, consumed>>

\* The WebSocket branch of read_transport_frame: receive_binary_deadline is waiting.
Receiving == ws /\ rd.pc \in {"poll", "first"}

\* Mutant: a refused message is skipped and the call goes on to the next one.
RecvMessageSkipping ==
    /\ Receiving
    /\ \E i \in FrameAt(consumed) :
         LET w == frames[i].wire
             result == parse_frame_bytes(w.header, w.body, w.tag, rkey)
         IN  /\ EndOf(i) <= written /\ consumed' = EndOf(i)
             /\ IF result.ok THEN Return("frame", i, result)
                             ELSE UNCHANGED <<rd, out, last, warned>>
    /\ UNCHANGED <<sender>>
\* The next message has arrived and is parsed from a buffer of its own.  A promised tag
\* that is not in it makes the frame too short.
RecvMessage ==
    /\ Receiving
    /\ \E i \in FrameAt(consumed) :
         LET w == frames[i].wire
             short == "MAC" \in w.header.flags /\ w.tag = NoTag
             result == IF short THEN Refused
                       ELSE parse_frame_bytes(w.header, w.body, w.tag, rkey)
         IN  /\ EndOf(i) <= written /\ consumed' = EndOf(i)
             /\ Return(IF result.ok THEN "frame" ELSE "error", i, result)
    /\ UNCHANGED <<sender>>

\* The first fragments of a message that is not complete: how far they may go.
Torn == {n \in consumed + 1 .. written : \E i \in FrameAt(consumed) : n < EndOf(i)}

\* VynkorTimeout between two fragments: the ones already taken are gone.
TearMessage ==
    /\ Receiving /\ rd.pc = "poll" /\ rd.late
    /\ consumed' \in Torn
    /\ Return("timeout", 0, Refused)
    /\ UNCHANGED <<sender>>

\* A fragment of a torn message: a continuation without a started message.
RefuseRest ==
    /\ Receiving
    /\ \E i \in 1..Len(frames) :
         /\ frames[i].at < consumed /\ consumed < EndOf(i)
         /\ consumed' \in {n \in consumed + 1 .. written : n <= EndOf(i)}
    /\ Return("error", 0, Refused)
    /\ UNCHANGED <<sender>>

\* The server is gone and the message it was sending is not complete.
HangupWs ==
    /\ Receiving /\ closed
    /\ \A i \in FrameAt(consumed) : EndOf(i) > written
    /\ consumed' \in {consumed} \cup Torn
    /\ Return("error", 0, Refused)
    /\ UNCHANGED <<sender>>

\* A wait on a stream that is still open may end in VynkorTimeout or go on: SSL_read and
\* the write of a pong obey no deadline.
FdReader ==
    ~ws /\ (PollReady \/ PollTimesOut \/ FirstByte \/ RecvExact \/ FrameTimesOut \/ Hangup)
WsReader ==
    ws /\ (PollTimesOut \/ RecvMessage \/ TearMessage \/ RefuseRest \/ HangupWs)

Next ==
    \/ \E r \in Requests : Send(r)
    \/ Write \/ PeerCloses \/ DeadlinePasses \/ WideExpires
    \/ \E timeout \in Timeouts : CallRead(timeout)
    \/ FdReader \/ WsReader

\* The clock goes on, and a thread reading a UNIX socket takes a step when it can.
\* Nothing is assumed of the sender, nor of a wait on a WebSocket.
Spec == Init /\ [][Next]_vars /\ WF_vars(DeadlinePasses) /\ WF_vars(FdReader)

-----------------------------------------------------------------------------
(***************************************************************************)
(* Properties.                                                             *)
(***************************************************************************)
\* Every variable keeps its type; the reader never takes cells that are not there, nor
\* more than its read is for.
TypeOK ==
    /\ written \in 0..Total /\ consumed \in 0..written /\ last \in 0..Len(frames)
    /\ rd.pc \in {"idle", "poll", "first", "head", "body"}
    /\ rd.pc # "idle" => rd.from <= consumed /\ consumed < rd.upto
    /\ rd.pc \in {"poll", "first"} => consumed = rd.from
    /\ out.frame \in 0..Len(frames) /\ warned \in BOOLEAN

\* What a request means to its receiver: its own flags, plus MAC when it was signed, and
\* its plaintext.
SignedBy(r) == IF r.by = "crc" THEN NoKey ELSE skey
MeantFlags(r) == (r.flags \cup (IF SignedBy(r) = NoKey THEN {} ELSE {"MAC"})) \ {"COMPRESSED"}
MeantBytes(r) == IF "COMPRESSED" \in r.flags THEN Plain(r.bytes.of) ELSE r.bytes

\* Why a frame has to be refused: damage; bytes that do not decompress within the limit; a
\* tag that is missing or of another key when the reader has one.  And, as the code is, a
\* frame its sender compressed itself and then signed, whose tag is over the compressed
\* bytes and whose reader checks it against the plaintext; and over a WebSocket a MAC flag
\* that no tag backs.
Cause(r) ==
    \/ r.by = "corrupt"
    \/ "COMPRESSED" \in r.flags /\ ~Decompressible(r.bytes)
    \/ rkey # NoKey /\ (SignedBy(r) # rkey \/ "COMPRESSED" \in r.flags)
    \/ ws /\ "MAC" \in r.flags /\ SignedBy(r) = NoKey

\* A frame read whole is returned exactly when there is no cause to refuse it, and then
\* with the plaintext, flags and target its sender gave, whether or not it was compressed
\* on the way; under a session key only frames signed with that key are returned
\* (framing.cpp:272-317 against 326-397).
RoundTrip ==
    out.frame # 0 =>
        LET r == frames[out.frame].asked
        IN  /\ out.what = "frame" <=> ~Cause(r)
            /\ out.what = "frame" =>
                 /\ out.result.payload = MeantBytes(r) /\ out.result.flags = MeantFlags(r)
                 /\ out.result.header = build_header(MeantFlags(r), Target, MeantBytes(r))

\* A read of a UNIX socket that throws VynkorTimeout has consumed nothing: the stream is
\* where it was, and the call can be repeated (framing.hpp:142).  It is also never thrown
\* in the middle of a frame.  (Over a WebSocket it may be: TearMessage.)
CleanStep ==
    ~ws /\ rd.pc # "idle" /\ rd'.pc = "idle" /\ out'.what = "timeout" => consumed' = rd.from
TimeoutIsClean == [][CleanStep]_vars

\* Frames are delivered in order, none twice, and none is lost without an exception other
\* than VynkorTimeout, whatever was refused, torn, timed out in the middle of, or misread
\* afterwards (client.cpp:323-333).
Channel == INSTANCE FrameChannel WITH sent <- Len(frames)
ImplementsChannel == Channel!Spec

\* On a UNIX socket a read with a deadline ends, whatever the sender does, if the timeout
\* fits an int; and so does any read once a frame has begun (framing.hpp:130-142): a peer
\* that stalls cannot park the caller.
Waiting(pcs) == ~ws /\ rd.pc \in pcs
EveryReadEnds ==
    /\ Waiting({"poll"}) /\ ~rd.wide ~> Waiting({"idle"})
    /\ Waiting({"head", "body"}) ~> Waiting({"idle"})
=============================================================================
