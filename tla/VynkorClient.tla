---------------------------- MODULE VynkorClient ----------------------------
(***************************************************************************)
(* The session and the requests of VynkorClient over a UNIX socket         *)
(* (src/src/client.cpp): connect, close, register_full, the calls that     *)
(* wait for an answer and the sends that do not.                           *)
(*                                                                         *)
(* One thread uses the client, so one call is in progress at a time; the   *)
(* kernel (external) answers requests in any order, late or not at all,    *)
(* and sends frames of its own in between.  The MAC key derived for a      *)
(* connection is the number of that connection, "no key" is 0; a frame     *)
(* carries the key it is MACed with.  Frames are read whole here.          *)
(***************************************************************************)
EXTENDS Naturals, Sequences, FiniteSets

CONSTANTS
    HasSecret,   \* secret_ is not empty
    Timeout,     \* ticks a call with a deadline may wait
    LinkCap,     \* bound: frames in the socket
    MaxConns,    \* bound: connections
    MaxRequests  \* bound: requests

ASSUME SecretAssumption == HasSecret \in BOOLEAN
ASSUME BoundAssumption ==
    /\ Timeout \in Nat \ {0} /\ LinkCap \in Nat \ {0}
    /\ MaxConns \in Nat \ {0} /\ MaxRequests \in Nat

VARIABLES
    conns,    \* connections made so far; the last one is the current one
    open,     \* fd_ is an open socket
    key,      \* session_key_
    fresh,    \* the connection was made with no key left from an earlier one
    call,     \* the call in progress
    reqs,     \* requests sent so far: their numbers are the action and command ids
    down,     \* frames from the kernel on the current connection
    peer,     \* the kernel: is its end open, is it secured, its key, what it has yet to answer
    returned, \* each answer send_action returned: the call's request and the one it answers
    regMacs   \* the registration frames sent: their connection and MAC key

vars == <<conns, open, key, fresh, call, reqs, down, peer, returned, regMacs>>

NoKey == 0
NoCall == [kind |-> "none", req |-> 0, left |-> 0]

Requests == {"publish", "action", "command", "ping"}
Deadlined == {"publish", "action", "recv_timeout"}
Kinds == Requests \cup {"register", "recv", "recv_timeout"}

NoPeer == [up |-> FALSE, secured |-> FALSE, key |-> NoKey, todo |-> {}]

Init ==
    /\ conns = 0 /\ open = FALSE /\ key = NoKey /\ fresh = TRUE /\ call = NoCall
    /\ reqs = 0 /\ down = <<>> /\ peer = NoPeer
    /\ returned = {} /\ regMacs = {}

-----------------------------------------------------------------------------
(***************************************************************************)
(* Connecting.  The kernel sees a new connection, without a key.           *)
(***************************************************************************)
NewConnection ==
    /\ call = NoCall /\ conns < MaxConns /\ conns' = conns + 1
    /\ open' = TRUE /\ down' = <<>>
    /\ \E secured \in BOOLEAN : peer' = [NoPeer EXCEPT !.up = TRUE, !.secured = secured]
    /\ UNCHANGED <<call, reqs, returned, regMacs>>

\* connect(const std::string&), connect_with_secret: another client object.
ConnectNewClient ==
    /\ NewConnection
    /\ key' = NoKey /\ fresh' = TRUE

\* The member connect(): close(), then a new socket.  session_key_ stays.
Connect ==
    /\ NewConnection
    /\ fresh' = (key = NoKey)
    /\ UNCHANGED key

\* socket() or connect() fails after close(): fd_ is -1.
ConnectFails ==
    /\ call = NoCall
    /\ open' = FALSE /\ down' = <<>> /\ peer' = NoPeer
    /\ UNCHANGED <<conns, key, fresh, call, reqs, returned, regMacs>>

\* Mutant: the socket is closed under a call that waits on it.
CloseAnyTime ==
    /\ open
    /\ open' = FALSE /\ down' = <<>> /\ peer' = NoPeer
    /\ UNCHANGED <<conns, key, fresh, call, reqs, returned, regMacs>>
Close ==
    /\ call = NoCall /\ open
    /\ open' = FALSE /\ down' = <<>> /\ peer' = NoPeer
    /\ UNCHANGED <<conns, key, fresh, call, reqs, returned, regMacs>>

-----------------------------------------------------------------------------
(***************************************************************************)
(* The kernel.  A registration is acked without a MAC, with a nonce when   *)
(* the kernel is secured; from then on every frame of that connection      *)
(* carries a MAC under the derived key, and frames without it are dropped; *)
(* a further registration is refused.                                      *)
(***************************************************************************)
KernelSends(f) ==
    /\ peer.up /\ Len(down) < LinkCap
    /\ down' = Append(down, f)
    /\ UNCHANGED <<conns, open, key, fresh, call, reqs, returned, regMacs>>

Frame(type, req, nonce) == [type |-> type, req |-> req, nonce |-> nonce, mac |-> peer.key]

KernelRegisters ==
    \E t \in peer.todo :
        /\ t.kind = "register" /\ peer.key = NoKey
        /\ KernelSends(Frame("register_ack", t.req, peer.secured))
        /\ peer' = [peer EXCEPT !.todo = @ \ {t}, !.key = IF peer.secured THEN conns ELSE NoKey]

AnswerTypes(kind) ==
    CASE kind = "register" -> {"error"}
      [] kind = "publish"  -> {"publish_ack", "error"}
      [] kind = "action"   -> {"action_response", "action_stream_abort", "error"}
      [] kind = "command"  -> {"command_ack"}
      [] kind = "ping"     -> {"pong"}
      [] kind = "notify"   -> {"error"}

KernelAnswers ==
    \E t \in peer.todo : \E type \in AnswerTypes(t.kind) :
        /\ KernelSends(Frame(type, t.req, FALSE))
        /\ peer' = [peer EXCEPT !.todo = @ \ {t}]

\* Traffic nobody asked for: an event, a ping, a shutdown; or raw audio.
KernelVolunteers ==
    \E type \in {"event", "raw"} : KernelSends(Frame(type, 0, FALSE)) /\ UNCHANGED peer

KernelCloses ==
    /\ peer.up /\ peer' = [peer EXCEPT !.up = FALSE, !.todo = {}]
    /\ UNCHANGED <<conns, open, key, fresh, call, reqs, down, returned, regMacs>>

-----------------------------------------------------------------------------
(***************************************************************************)
(* Sending: send, send_raw_with_flags, write_all.  The MAC is under the    *)
(* session key, whichever connection it was derived for.                   *)
(***************************************************************************)
Sent(kind, req) ==
    peer' = IF peer.key \in {NoKey, key}
            THEN [peer EXCEPT !.todo = @ \cup {[kind |-> kind, req |-> req]}]
            ELSE peer

Begin(kind, req) ==
    /\ call = NoCall /\ open
    /\ call' = [kind |-> kind, req |-> req, left |-> IF kind \in Deadlined THEN Timeout ELSE 0]
    /\ UNCHANGED <<conns, open, key, fresh, down, returned>>

\* publish_event, send_action, send_command and ping, up to their wait.  The write blocks
\* while the kernel does not read: a call that is stuck there has not begun to wait.
SendRequest(kind) ==
    /\ peer.up /\ reqs < MaxRequests /\ reqs' = reqs + 1
    /\ Begin(kind, reqs + 1) /\ Sent(kind, reqs + 1)
    /\ UNCHANGED regMacs

\* register_full up to its wait.
Register ==
    /\ peer.up /\ reqs < MaxRequests /\ reqs' = reqs + 1
    /\ Begin("register", reqs + 1) /\ Sent("register", reqs + 1)
    /\ regMacs' = regMacs \cup {[conn |-> conns, mac |-> key]}

\* recv and recv_timeout.
StartRecv(kind) == Begin(kind, reqs) /\ UNCHANGED <<reqs, peer, regMacs>>

\* The sends that await nothing: subscribe, unsubscribe, ack_event, send_action_streaming,
\* the chunks, close_session, the audio sends.  The kernel may object to them, later.
Notify ==
    /\ call = NoCall /\ open /\ peer.up /\ reqs < MaxRequests /\ reqs' = reqs + 1
    /\ Sent("notify", reqs + 1)
    /\ UNCHANGED <<conns, open, key, fresh, call, down, returned, regMacs>>

\* A call that cannot write or read, after the kernel has closed or without a socket,
\* throws before it waits and leaves every variable as it was.

-----------------------------------------------------------------------------
(***************************************************************************)
(* Waiting: read_transport_frame, and what each call makes of the frame.   *)
(***************************************************************************)
\* Mutant: a deadline only bounds the wait for a frame that is not there yet.
MayReadLate == call.kind # "none"
\* A deadline is looked at before every read.
MayRead == call.kind # "none" /\ (call.kind \in Deadlined => call.left > 0)

Throw == call' = NoCall /\ UNCHANGED <<key, returned>>

Return(answers, newKey) ==
    /\ call' = NoCall /\ key' = newKey
    /\ returned' = IF call.kind = "action"
                   THEN returned \cup {[req |-> call.req, answers |-> answers]}
                   ELSE returned

\* parse_frame_bytes under session_key_.
Verifies(f) == key = NoKey \/ f.mac = key

\* Mutant: any action's response ends the wait.
IsTerminalAny(f) ==
    CASE call.kind = "publish" -> f.type \in {"publish_ack", "error"}
      [] call.kind = "action"  -> f.type \in {"action_response", "action_stream_abort", "error"}
      [] OTHER -> TRUE
\* The predicates passed to wait_for_response; the other calls take what recv() gives.
IsTerminal(f) ==
    CASE call.kind = "publish" -> f.type \in {"publish_ack", "error"}
      [] call.kind = "action"  ->
           \/ f.type \in {"action_response", "action_stream_abort"} /\ f.req = call.req
           \/ f.type = "error"
      [] OTHER -> TRUE

Expected ==
    CASE call.kind = "register" -> {"register_ack"}
      [] call.kind = "publish"  -> {"publish_ack"}
      [] call.kind = "action"   -> {"action_response"}
      [] call.kind = "command"  -> {"command_ack"}
      [] call.kind = "ping"     -> {"pong"}
      [] OTHER -> {"register_ack", "publish_ack", "action_response", "action_stream_abort",
                   "command_ack", "pong", "error", "event"}

\* Mutant: an ack without a nonce gives a key too.
KeyAfterAnyAck(f) == IF call.kind = "register" /\ HasSecret THEN conns ELSE key
\* The key is derived from the nonce of an ack, when there is a secret.
KeyAfter(f) ==
    IF call.kind = "register" /\ HasSecret /\ f.nonce THEN conns ELSE key

Receive ==
    /\ MayRead /\ down # <<>> /\ down' = Tail(down)
    /\ LET f == Head(down)
       IN  \/ ~Verifies(f) /\ Throw
           \/ /\ Verifies(f) /\ f.type # "raw" /\ IsTerminal(f)
              /\ IF f.type \in Expected THEN Return(f.req, KeyAfter(f)) ELSE Throw
           \* unrelated traffic: discarded.
           \/ /\ Verifies(f) /\ f.type # "raw" /\ ~IsTerminal(f)
              /\ UNCHANGED <<key, call, returned>>
           \* recv refuses raw binary; wait_for_response parses it, which throws or gives
           \* an envelope that is none of those it waits for.
           \/ Verifies(f) /\ f.type = "raw" /\ Throw
           \/ /\ Verifies(f) /\ f.type = "raw" /\ call.kind \in {"publish", "action"}
              /\ UNCHANGED <<key, call, returned>>
    /\ UNCHANGED <<conns, open, fresh, reqs, peer, regMacs>>

\* End of file.
ReceiveFails ==
    /\ MayRead /\ down = <<>> /\ ~peer.up
    /\ Throw
    /\ UNCHANGED <<conns, open, fresh, reqs, down, peer, regMacs>>

TimesOut ==
    /\ call.kind \in Deadlined /\ call.left = 0
    /\ Throw
    /\ UNCHANGED <<conns, open, fresh, reqs, down, peer, regMacs>>

Tick ==
    /\ call.left > 0 /\ call' = [call EXCEPT !.left = @ - 1]
    /\ UNCHANGED <<conns, open, key, fresh, reqs, down, peer, returned, regMacs>>

-----------------------------------------------------------------------------
Kernel == KernelRegisters \/ KernelAnswers \/ KernelVolunteers \/ KernelCloses
Waiting == Receive \/ ReceiveFails \/ TimesOut

Next ==
    \/ ConnectNewClient \/ Connect \/ ConnectFails \/ Close
    \/ Register \/ (\E kind \in Requests : SendRequest(kind))
    \/ (\E kind \in {"recv", "recv_timeout"} : StartRecv(kind))
    \/ Notify \/ Waiting \/ Kernel \/ Tick

Spec == Init /\ [][Next]_vars

\* The calling thread is scheduled and time passes; nothing is assumed of the kernel.
FairSpec == Spec /\ WF_vars(Waiting) /\ WF_vars(Tick)

-----------------------------------------------------------------------------
(***************************************************************************)
(* Properties.                                                             *)
(***************************************************************************)
Keys == 0..MaxConns

\* Every variable keeps its type; a call in progress has a socket, and one without a
\* deadline never counts down.
TypeOK ==
    /\ conns \in 0..MaxConns /\ open \in BOOLEAN /\ key \in Keys /\ fresh \in BOOLEAN
    /\ call \in [kind : Kinds \cup {"none"}, req : 0..MaxRequests, left : 0..Timeout]
    /\ call # NoCall => open
    /\ call.kind \notin Deadlined => call.left = 0
    /\ reqs \in 0..MaxRequests /\ Len(down) <= LinkCap
    /\ peer.key \in Keys /\ (peer.up => open)
    /\ regMacs \subseteq [conn : Keys, mac : Keys]

\* An ActionResponse that send_action returns answers this very request, also when the
\* answer to an earlier one, whose wait had timed out, arrives in between
\* (client.cpp:456-460).  Nothing is said of send_command, which compares no id (520-523).
OwnAnswer == \A r \in returned : r.answers = r.req

\* On a connection made without a left-over key, a client that has derived a key agrees
\* with the kernel on it, and every frame still on its way to the client is MACed with
\* it: no frame is refused for its MAC (client.cpp:181-187, framing.cpp:380-393).
SessionAgrees ==
    (open /\ fresh /\ key # NoKey) =>
        /\ peer.up => peer.key = key
        /\ \A i \in 1..Len(down) : down[i].mac = key

\* A call with a deadline, its request written, ends however much unrelated traffic the
\* kernel sends: the deadline bounds the whole wait, not the silence between frames
\* (client.cpp:406-417, framing.cpp:404-425).  (The write itself has no deadline.)
DeadlineHonoured == (call.kind \in Deadlined) ~> (call = NoCall)

\* "Registration frame is always CRC-only; session_key not yet derived."
\* (client.cpp:177): the first registration on a connection carries no MAC.  (A frame
\* MACed with the key of its own connection is a later registration on it.)
RegistrationCrcOnly == \A r \in regMacs : r.mac \in {NoKey, r.conn}
=============================================================================
