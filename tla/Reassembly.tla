----------------------------- MODULE Reassembly -----------------------------
(***************************************************************************)
(* Fragmented payloads: VynkorClient::send_fragmented on one end of a UNIX *)
(* socket, absorb_fragment and recv_frame on the other (src/src/client.cpp,*)
(* src/include/vynkor/client.hpp).                                         *)
(*                                                                         *)
(* The socket delivers frames in order.  The sending client sends one      *)
(* payload after the other; the kernel may interleave fragments of other   *)
(* senders ("stray" ones), well-formed or not.  Every client numbers its   *)
(* streams on its own, from 1, so their ids may be the same.  A payload is *)
(* the tuple of its chunks; of a chunk only its size and where, with which *)
(* header and when it came are kept.                                       *)
(***************************************************************************)
EXTENDS Naturals, Sequences, FiniteSets

CONSTANTS
    Messages,     \* calls of send_fragmented, one each
    IdSpace,      \* stream ids are taken modulo this (2^32), skipping 0
    StrayIds,     \* stream ids that stray fragments carry
    StrayHeaders, \* and their sequence, total and length
    MaxStreams,   \* MAX_REASSEMBLY_STREAMS
    MaxPayload,   \* MAX_PAYLOAD_SIZE
    HeaderSize,   \* FRAG_HEADER_SIZE
    MaxTotal,     \* fragments per message (65535)
    Timeout,      \* REASSEMBLY_TIMEOUT
    LinkCap,      \* bound: frames in the socket
    MaxTime,      \* bound: ticks of the clock
    MaxStrays,    \* bound: stray fragments
    MaxConnects   \* bound: reconnections

ASSUME IdAssumption == IdSpace \in Nat /\ IdSpace > 1 /\ StrayIds \subseteq Nat
\* A fragment header's fields have 16 bits.
ASSUME StrayAssumption ==
    /\ StrayHeaders \subseteq [seq : 0..MaxTotal, total : 0..MaxTotal, len : Nat]
    /\ "stray" \notin Messages
ASSUME BoundAssumption ==
    /\ MaxStreams \in Nat \ {0} /\ MaxPayload \in Nat /\ HeaderSize \in Nat
    /\ MaxTotal \in Nat \ {0} /\ Timeout \in Nat \ {0} /\ LinkCap \in Nat \ {0}
    /\ MaxTime \in Nat /\ MaxStrays \in Nat /\ MaxConnects \in Nat

VARIABLES
    now,        \* steady_clock
    epoch,      \* how often connect() was called again
    nextId,     \* next_stream_id_ of the sending end
    sending,    \* the calls of send_fragmented: what is left to send
    strays,     \* stray fragments sent,
    alien,      \* and the stream ids they carried
    link,       \* frames in the socket
    reassembly, \* reassembly_: from stream ids to buffers
    delivered,  \* payloads recv_frame returned
    refused     \* the senders of the fragments absorb_fragment threw on

vars == <<now, epoch, nextId, sending, strays, alien, link, reassembly, delivered, refused>>

StreamIds == 1 .. IdSpace - 1
Stray == "stray"

CeilDiv(n, d) == (n + d - 1) \div d
MinOf(a, b) == IF a < b THEN a ELSE b

Init ==
    /\ now = 0 /\ epoch = 0 /\ nextId \in StreamIds
    /\ sending = [m \in Messages |-> [st |-> "idle", id |-> 0, next |-> 0, total |-> 0,
                                      size |-> 0, chunk |-> 0]]
    /\ strays = 0 /\ alien = {} /\ link = <<>> /\ reassembly = <<>> /\ delivered = {} /\ refused = {}

Tick ==
    /\ now < MaxTime /\ now' = now + 1
    /\ UNCHANGED <<epoch, nextId, sending, strays, alien, link, reassembly, delivered, refused>>

-----------------------------------------------------------------------------
(***************************************************************************)
(* The sending end.                                                        *)
(***************************************************************************)
\* The payload and chunk sizes send_fragmented accepts.
Acceptable(size, chunk) ==
    /\ size <= MaxPayload /\ chunk > 0 /\ chunk + HeaderSize <= MaxPayload
    /\ CeilDiv(size, chunk) <= MaxTotal

\* Mutant: the wrapped id is 0.
NextStreamIdZero(id) == (id + 1) % IdSpace
NextStreamId(id) == IF (id + 1) % IdSpace = 0 THEN 1 ELSE id + 1

StartSending(m) ==
    /\ sending[m].st = "idle" /\ \A n \in Messages : sending[n].st # "sending"
    /\ \E size \in 0..MaxPayload, chunk \in 1..MaxPayload :
         /\ Acceptable(size, chunk)
         /\ sending' = [sending EXCEPT ![m] =
              [st |-> "sending", id |-> nextId, next |-> 0,
               total |-> IF size = 0 THEN 1 ELSE CeilDiv(size, chunk),
               size |-> size, chunk |-> chunk]]
    /\ nextId' = NextStreamId(nextId)
    /\ UNCHANGED <<now, epoch, strays, alien, link, reassembly, delivered, refused>>

\* pack_frag_header, whose fields have 16 bits (32 for the stream id), and the chunk.
Fragment(m) ==
    LET s == sending[m]
    IN  [stream |-> s.id % IdSpace,
         seq |-> s.next % (MaxTotal + 1), total |-> s.total % (MaxTotal + 1),
         len |-> MinOf(s.chunk, s.size - s.next * s.chunk), from |-> m]

\* One turn of the loop: a frame with the header and at most chunk_size bytes.
SendFragment(m) ==
    /\ sending[m].st = "sending" /\ Len(link) < LinkCap
    /\ link' = Append(link, Fragment(m))
    /\ sending' = [sending EXCEPT ![m].next = @ + 1,
                      ![m].st = IF sending[m].next + 1 = sending[m].total THEN "sent" ELSE @]
    /\ UNCHANGED <<now, epoch, nextId, strays, alien, reassembly, delivered, refused>>

\* A write fails in the middle of a set: the rest of it is never sent.
SendFails(m) ==
    /\ sending[m].st = "sending"
    /\ sending' = [sending EXCEPT ![m].st = "failed"]
    /\ UNCHANGED <<now, epoch, nextId, strays, alien, link, reassembly, delivered, refused>>

\* A fragment of another sender, with any header.
SendStray ==
    /\ strays < MaxStrays /\ strays' = strays + 1
    /\ Len(link) < LinkCap
    /\ \E id \in StrayIds, h \in StrayHeaders :
         /\ alien' = alien \cup {id}
         /\ link' = Append(link, [stream |-> id, seq |-> h.seq, total |-> h.total, len |-> h.len,
                                  from |-> Stray])
    /\ UNCHANGED <<now, epoch, nextId, sending, reassembly, delivered, refused>>

\* connect() on the receiving client: a new socket, the frames in the old one are gone
\* and so is the set being sent on it.  reassembly_ is not cleared.  The stream ids of a
\* peer that was restarted meanwhile start from 1 again (client.hpp:231).
Reconnect ==
    /\ epoch < MaxConnects /\ epoch' = epoch + 1
    /\ link' = <<>>
    /\ nextId' \in {nextId, 1}
    /\ sending' = [m \in Messages |->
                     IF sending[m].st = "sending" THEN [sending[m] EXCEPT !.st = "failed"]
                                                  ELSE sending[m]]
    /\ UNCHANGED <<now, strays, alien, reassembly, delivered, refused>>

-----------------------------------------------------------------------------
(***************************************************************************)
(* absorb_fragment.  Stale sets are pruned first, whatever happens next.   *)
(***************************************************************************)
Kept == {id \in DOMAIN reassembly : now < reassembly[id].first_seen + Timeout}

\* The buffers, pruned, without one stream, and with one stream replaced.
Without(id) == [i \in Kept \ {id} |-> reassembly[i]]
With(id, buf) == [i \in Kept \cup {id} |-> IF i = id THEN buf ELSE reassembly[i]]

Throws(f, rest) ==
    /\ reassembly' = rest /\ refused' = refused \cup {f.from}
    /\ UNCHANGED delivered

\* A payload shorter than a fragment header is refused at the same point.
BadHeader(f) == f.total = 0 \/ f.seq >= f.total

\* try_emplace: the stream's buffer, or a new one that dates from now.
BufferOf(f) ==
    IF f.stream \in Kept
    THEN reassembly[f.stream]
    ELSE [total |-> f.total, first_seen |-> now, buffered |-> 0, fragments |-> <<>>]

\* Mutant: the total of a later fragment is not looked at.
MismatchNever(f) == FALSE
Mismatch(f) == f.stream \in Kept /\ reassembly[f.stream].total # f.total
TooMany(f)  == f.stream \notin Kept /\ Cardinality(Kept) >= MaxStreams

\* The chunk, with its header and the time it was stored.
ChunkOf(f) == [from |-> f.from, stream |-> f.stream, total |-> f.total, seq |-> f.seq,
               len |-> f.len, at |-> now]

\* Mutant: the length of a replaced chunk is not taken off.
NewTotalKeeping(f) == BufferOf(f).buffered + f.len
\* The bytes buffered once the chunk is stored; a re-sent sequence replaces its chunk.
NewTotal(f) ==
    LET old == BufferOf(f)
    IN  old.buffered + f.len
          - (IF f.seq \in DOMAIN old.fragments THEN old.fragments[f.seq].len ELSE 0)

Stored(f) ==
    LET old == BufferOf(f)
    IN  [old EXCEPT !.buffered = NewTotal(f),
                    !.fragments = [q \in DOMAIN old.fragments \cup {f.seq} |->
                                     IF q = f.seq THEN ChunkOf(f) ELSE old.fragments[q]]]

\* Mutant: a set of one fragment never counts as complete.
IsCompleteLate(buf) == Cardinality(DOMAIN buf.fragments) = buf.total /\ buf.total > 1
\* is_complete and reassemble.
IsComplete(buf) == Cardinality(DOMAIN buf.fragments) = buf.total
Reassemble(buf) == [i \in 1..buf.total |-> buf.fragments[i - 1]]

Absorb(f) ==
    \/ BadHeader(f) /\ Throws(f, [i \in Kept |-> reassembly[i]])
    \/ ~BadHeader(f) /\ Mismatch(f) /\ Throws(f, Without(f.stream))
    \/ ~BadHeader(f) /\ TooMany(f) /\ Throws(f, [i \in Kept |-> reassembly[i]])
    \/ /\ ~BadHeader(f) /\ ~Mismatch(f) /\ ~TooMany(f)
       /\ \/ NewTotal(f) > MaxPayload /\ Throws(f, Without(f.stream))
          \/ /\ NewTotal(f) <= MaxPayload /\ IsComplete(Stored(f))
             /\ reassembly' = Without(f.stream)
             /\ delivered' = delivered \cup {Reassemble(Stored(f))}
             /\ UNCHANGED refused
          \/ /\ NewTotal(f) <= MaxPayload /\ ~IsComplete(Stored(f))
             /\ reassembly' = With(f.stream, Stored(f))
             /\ UNCHANGED <<delivered, refused>>

\* One turn of recv_frame on a fragmented frame.
RecvFragment ==
    /\ link # <<>> /\ link' = Tail(link)
    /\ Absorb(Head(link))
    /\ UNCHANGED <<now, epoch, nextId, sending, strays, alien>>

Next ==
    \/ \E m \in Messages : StartSending(m) \/ SendFragment(m) \/ SendFails(m)
    \/ SendStray \/ Reconnect \/ RecvFragment \/ Tick

Spec == Init /\ [][Next]_vars

-----------------------------------------------------------------------------
(***************************************************************************)
(* Properties.                                                             *)
(***************************************************************************)
Buffer(b) ==
    /\ b.total \in 1..MaxTotal /\ b.first_seen \in 0..now /\ b.buffered \in 0..MaxPayload
    /\ DOMAIN b.fragments \subseteq 0..b.total - 1
    /\ Cardinality(DOMAIN b.fragments) \in 1..b.total - 1

\* Every variable keeps its type; a buffer that is held has at least one of its
\* fragments, lacks at least one, and holds none beyond its total.
TypeOK ==
    /\ now \in 0..MaxTime /\ epoch \in 0..MaxConnects /\ nextId \in StreamIds
    /\ DOMAIN reassembly \subseteq StreamIds \cup StrayIds
    /\ \A id \in DOMAIN reassembly : Buffer(reassembly[id])
    /\ \A i \in 1..Len(link) : link[i].stream \in StreamIds \cup StrayIds
    /\ refused \subseteq Messages \cup {Stray}

\* The bytes of the chunks a buffer holds, added up in their order.
SizeAt(b, q) == IF q \in DOMAIN b.fragments THEN b.fragments[q].len ELSE 0
Accounted(b) ==
    \E sums \in [0..b.total -> 0..MaxPayload] :
        /\ sums[0] = 0 /\ sums[b.total] = b.buffered
        /\ \A q \in 0..b.total - 1 : sums[q + 1] = sums[q] + SizeAt(b, q)

\* The reassembly memory is bounded: at most MAX_REASSEMBLY_STREAMS sets are held
\* (client.cpp:289), none of them with more than MAX_PAYLOAD_SIZE bytes (306), and
\* buffered_bytes is exactly the size of the chunks held, however often a sequence was
\* sent again (299-311).
Bounded ==
    /\ Cardinality(DOMAIN reassembly) <= MaxStreams
    /\ \A id \in DOMAIN reassembly :
         reassembly[id].buffered <= MaxPayload /\ Accounted(reassembly[id])

\* No other fragment carried the stream id of this message.
Alone(m) ==
    /\ sending[m].id \notin alien
    /\ \A n \in Messages \ {m} : sending[n].st # "idle" => sending[n].id # sending[m].id

\* Whatever ids collide, a reassembled payload is a complete set: every position once and
\* in order, all its chunks from frames with one stream id and one total, and none of them
\* REASSEMBLY_TIMEOUT older than another, also when half a set was left behind by a failed
\* send or a reconnection (client.cpp:270-316, client.hpp:209-229).  So it is one message,
\* whole, when the stream id of any of its chunks is that message's alone.
Integrity ==
    \A d \in delivered : \A i, j \in 1..Len(d) :
        /\ d[i].seq = i - 1 /\ d[i].total = Len(d) /\ d[i].stream = d[j].stream
        /\ d[i].at < d[j].at + Timeout
        /\ d[i].from # Stray /\ Alone(d[i].from) =>
             d[j].from = d[i].from /\ Len(d) = sending[d[i].from].total

\* A message whose fragments all arrived was delivered, unless absorb_fragment threw on
\* one of them: other streams, well-formed or stray, do not disturb it while its id is its
\* own.  It holds while no set can have timed out and none is left over from before a
\* reconnection, the two cases in which absorb_fragment gives up a set without an error.
ArrivedIsDelivered ==
    \A m \in Messages :
        (/\ sending[m].st = "sent" /\ m \notin refused /\ Alone(m)
         /\ now < Timeout /\ epoch = 0
         /\ \A i \in 1..Len(link) : link[i].from # m)
            => \E d \in delivered : d[1].from = m
=============================================================================
