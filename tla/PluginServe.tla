---------------------------- MODULE PluginServe -----------------------------
(***************************************************************************)
(* Plugin::serve (src/include/vynkor/plugin.hpp): the single-threaded      *)
(* receive loop, with the plugin's handlers run inline.                    *)
(*                                                                         *)
(* A handler may use client_ to make a request of its own (send_action):   *)
(* it then waits in wait_for_response, which discards every frame that is  *)
(* not its answer (src/src/client.cpp:406-417).  The kernel (external)     *)
(* delivers an event again until it is acked.  A write blocks while the    *)
(* kernel does not read, and throws once it has closed the connection (the *)
(* host ignores SIGPIPE: ConcurrentLoop models the one that does not).     *)
(***************************************************************************)
EXTENDS Naturals, Sequences, FiniteSets

CONSTANTS
    Events,    \* events the kernel delivers
    InboxCap,  \* bound: frames in the socket
    MaxPings,  \* bound: pings
    MaxActions \* bound: envelopes for on_message

ASSUME BoundAssumption ==
    InboxCap \in Nat \ {0} /\ MaxPings \in Nat /\ MaxActions \in Nat
\* An event is none of the other frames, and not the absence of one.
ASSUME EventAssumption ==
    Events \cap {"none", "ping", "action", "bad", "answer", "shutdown"} = {}

VARIABLES
    pc,        \* where serve is
    ev,        \* the event on_event was called with
    waiting,   \* what the handler waits for: nothing, or its own request's write or answer
    owed,      \* the kernel has a request of a handler to answer
    client,    \* client_ is set
    err,       \* handler_err is set
    outcome,   \* how serve ended: it returned, or whose exception left it
    calls,     \* how often on_init and on_shutdown were called, and on_message threw
    handled,   \* events on_event returned from normally
    acked,     \* events acked
    inbox,     \* frames from the kernel
    up,        \* the kernel's end of the connection is open
    stalled,   \* the thread is blocked in a write: the kernel does not read
    asked,     \* the kernel has sent PluginShutdown
    discarded, \* wait_for_response has discarded it
    budget     \* pings and actions left to send

serveVars == <<ev, client, err, outcome, calls, handled, acked>>
kernelVars == <<up, stalled, asked, budget>>
vars == <<pc, waiting, owed, inbox, discarded, serveVars, kernelVars>>

NoEvent == "none"
Handlers == {"init", "event", "message"}
Writes == {"pong", "ack", "event_reply", "message_reply"}
PCs == Handlers \cup Writes \cup {"start", "register", "loop", "shutdown", "ended"}
Thrown == {"register", "rejected", "on_init", "pong", "on_message", "on_shutdown"}

Init ==
    /\ pc = "start" /\ ev = NoEvent /\ waiting = "no" /\ owed = FALSE
    /\ client = FALSE /\ err = FALSE /\ outcome = "none"
    /\ calls = [init |-> 0, shutdown |-> 0, threw |-> 0]
    /\ handled = {} /\ acked = {}
    /\ inbox = <<>> /\ up = TRUE /\ stalled = FALSE /\ asked = FALSE /\ discarded = FALSE
    /\ budget = [pings |-> MaxPings, actions |-> MaxActions]

-----------------------------------------------------------------------------
(***************************************************************************)
(* The kernel.                                                             *)
(***************************************************************************)
KernelPuts(f) ==
    /\ pc \notin {"start", "register"} /\ up /\ Len(inbox) < InboxCap
    /\ inbox' = Append(inbox, f)
    /\ UNCHANGED <<pc, waiting, discarded, serveVars, up, stalled>>

KernelPings ==
    /\ budget.pings > 0 /\ budget' = [budget EXCEPT !.pings = @ - 1]
    /\ KernelPuts("ping") /\ UNCHANGED <<owed, asked>>

\* An envelope for on_message, or a frame that recv() refuses (raw binary, malformed).
KernelAsks ==
    /\ budget.actions > 0 /\ budget' = [budget EXCEPT !.actions = @ - 1]
    /\ \E f \in {"action", "bad"} : KernelPuts(f)
    /\ UNCHANGED <<owed, asked>>

\* An event that is not acked is delivered, and delivered again.
KernelDelivers ==
    \E e \in Events \ acked : KernelPuts(e) /\ UNCHANGED <<owed, asked, budget>>

KernelAnswers == owed /\ owed' = FALSE /\ KernelPuts("answer") /\ UNCHANGED <<asked, budget>>

KernelShutsDown ==
    /\ ~asked /\ asked' = TRUE
    /\ KernelPuts("shutdown") /\ UNCHANGED <<owed, budget>>

KernelCloses ==
    /\ up /\ up' = FALSE /\ stalled' = FALSE
    /\ UNCHANGED <<pc, waiting, owed, inbox, discarded, serveVars, asked, budget>>

\* The kernel has read so little that the socket buffer is full when the thread comes to
\* write to it; or it reads again.
Writing == pc \in Writes \/ waiting = "write"
Writable == up /\ ~stalled
KernelStalls ==
    /\ up /\ Writing /\ stalled' = ~stalled
    /\ UNCHANGED <<pc, waiting, owed, inbox, discarded, serveVars, up, asked, budget>>

-----------------------------------------------------------------------------
(***************************************************************************)
(* Registration and on_init.                                               *)
(***************************************************************************)
Ends(how) == pc' = "ended" /\ outcome' = how

StartServe ==
    /\ pc = "start" /\ pc' = "register" /\ client' = TRUE
    /\ UNCHANGED <<waiting, owed, inbox, discarded, ev, err, outcome, calls, handled, acked,
                   kernelVars>>

\* register_full throws: nothing catches it, client_ stays set.
RegisterThrows ==
    /\ pc = "register" /\ Ends("register")
    /\ UNCHANGED <<waiting, owed, inbox, discarded, ev, client, err, calls, handled, acked,
                   kernelVars>>

Rejected ==
    /\ pc = "register" /\ Ends("rejected") /\ client' = FALSE
    /\ UNCHANGED <<waiting, owed, inbox, discarded, ev, err, calls, handled, acked, kernelVars>>

Accepted ==
    /\ pc = "register" /\ pc' = "init" /\ calls' = [calls EXCEPT !.init = @ + 1]
    /\ UNCHANGED <<waiting, owed, inbox, discarded, ev, client, err, outcome, handled, acked,
                   kernelVars>>

OnInitReturns ==
    /\ pc = "init" /\ waiting = "no" /\ pc' = "loop"
    /\ UNCHANGED <<waiting, owed, inbox, discarded, serveVars, kernelVars>>

\* Mutant: the error of on_init is caught and the loop entered, to be shut down again.
OnInitFallsThrough ==
    /\ pc = "init" /\ waiting = "no" /\ pc' = "loop"
    /\ calls' = [calls EXCEPT !.shutdown = @ + 1]
    /\ UNCHANGED <<waiting, owed, inbox, discarded, ev, client, err, outcome, handled, acked,
                   kernelVars>>
OnInitThrows ==
    /\ pc = "init" /\ waiting = "no"
    /\ calls' = [calls EXCEPT !.shutdown = @ + 1]
    /\ \/ Ends("on_init") /\ client' = FALSE
       \/ Ends("on_shutdown") /\ UNCHANGED client     \* it throws in its turn
    /\ UNCHANGED <<waiting, owed, inbox, discarded, ev, err, handled, acked, kernelVars>>

-----------------------------------------------------------------------------
(***************************************************************************)
(* A request made by a handler: send_action through client_.               *)
(***************************************************************************)
HandlerRequests ==
    /\ pc \in Handlers /\ waiting = "no" /\ waiting' = "write"
    /\ UNCHANGED <<pc, owed, inbox, discarded, serveVars, kernelVars>>

\* The request is written, or the handler gets the exception.
SendRequest ==
    /\ waiting = "write"
    /\ \/ Writable /\ waiting' = "answer" /\ owed' = TRUE
       \/ ~up /\ waiting' = "no" /\ UNCHANGED owed
    /\ UNCHANGED <<pc, inbox, discarded, serveVars, kernelVars>>

\* The answer ends the wait; every other frame is discarded (one that cannot be parsed
\* also ends the wait, with an exception).
HandlerReceives ==
    /\ waiting = "answer" /\ inbox # <<>> /\ inbox' = Tail(inbox)
    /\ waiting' = IF Head(inbox) = "answer" THEN "no" ELSE "answer"
    /\ discarded' = (discarded \/ Head(inbox) = "shutdown")
    /\ UNCHANGED <<pc, owed, serveVars, kernelVars>>

\* The deadline passes, or the connection is closed: the handler gets an exception.
HandlerGivesUp ==
    /\ waiting = "answer" /\ waiting' = "no"
    /\ UNCHANGED <<pc, owed, inbox, discarded, serveVars, kernelVars>>

-----------------------------------------------------------------------------
(***************************************************************************)
(* The receive loop.                                                       *)
(***************************************************************************)
Recv(f) == pc = "loop" /\ inbox # <<>> /\ Head(inbox) = f /\ inbox' = Tail(inbox)

\* Any exception of recv() ends the loop, not only the end of the connection.
RecvThrows ==
    /\ \/ pc = "loop" /\ inbox = <<>> /\ ~up /\ UNCHANGED inbox
       \/ Recv("bad")
    /\ pc' = "shutdown"
    /\ UNCHANGED <<waiting, owed, discarded, serveVars, kernelVars>>

\* Mutant: the request goes to on_message, which ignores it.
OnPluginShutdownIgnored ==
    /\ Recv("shutdown") /\ pc' = "loop"
    /\ UNCHANGED <<waiting, owed, discarded, serveVars, kernelVars>>
OnPluginShutdown ==
    /\ Recv("shutdown") /\ pc' = "shutdown"
    /\ UNCHANGED <<waiting, owed, discarded, serveVars, kernelVars>>

OnPing ==
    /\ Recv("ping") /\ pc' = "pong"
    /\ UNCHANGED <<waiting, owed, discarded, serveVars, kernelVars>>

SendPong ==
    /\ pc = "pong" /\ Writable /\ pc' = "loop"
    /\ UNCHANGED <<waiting, owed, inbox, discarded, serveVars, kernelVars>>

\* The pong cannot be written: nothing catches the exception, which leaves serve at once.
PongThrows ==
    /\ pc = "pong" /\ ~up /\ Ends("pong")
    /\ UNCHANGED <<waiting, owed, inbox, discarded, ev, client, err, calls, handled, acked,
                   kernelVars>>

StartEvent ==
    /\ \E e \in Events : Recv(e) /\ ev' = e
    /\ pc' = "event"
    /\ UNCHANGED <<waiting, owed, discarded, client, err, outcome, calls, handled, acked,
                   kernelVars>>

\* on_event returns, and the event is to be acked.
OnEventReturns ==
    /\ pc = "event" /\ waiting = "no" /\ pc' = "ack" /\ handled' = handled \cup {ev}
    /\ UNCHANGED <<waiting, owed, inbox, discarded, ev, client, err, outcome, calls, acked,
                   kernelVars>>

\* Mutant: the ack is sent whether or not on_event threw.
OnEventThrowsAcked ==
    /\ pc = "event" /\ waiting = "no" /\ pc' = "ack"
    /\ UNCHANGED <<waiting, owed, inbox, discarded, serveVars, kernelVars>>
OnEventThrows ==
    /\ pc = "event" /\ waiting = "no" /\ pc' = "loop" /\ ev' = NoEvent
    /\ UNCHANGED <<waiting, owed, inbox, discarded, client, err, outcome, calls, handled, acked,
                   kernelVars>>

\* The ack is written, and the reply of on_event is next if there is one; a failed ack
\* skips that reply and is swallowed.
SendAck ==
    /\ pc = "ack" /\ ev' = NoEvent
    /\ \/ Writable /\ acked' = acked \cup {ev} /\ pc' \in {"loop", "event_reply"}
       \/ ~up /\ pc' = "loop" /\ UNCHANGED acked
    /\ UNCHANGED <<waiting, owed, inbox, discarded, client, err, outcome, calls, handled,
                   kernelVars>>

\* The reply is written; a failure is swallowed.
SendEventReply ==
    /\ pc = "event_reply" /\ (Writable \/ ~up) /\ pc' = "loop"
    /\ UNCHANGED <<waiting, owed, inbox, discarded, serveVars, kernelVars>>

\* A late answer to a request that was given up is an envelope like any other.
StartMessage ==
    /\ Recv("action") \/ Recv("answer")
    /\ pc' = "message"
    /\ UNCHANGED <<waiting, owed, discarded, serveVars, kernelVars>>

\* on_message returns, with a reply to write or without one.
OnMessageReturns ==
    /\ pc = "message" /\ waiting = "no" /\ pc' \in {"loop", "message_reply"}
    /\ UNCHANGED <<waiting, owed, inbox, discarded, serveVars, kernelVars>>

OnMessageFails ==
    \/ pc = "message" /\ waiting = "no"
    \/ pc = "message_reply" /\ ~up
\* Mutant: the error leaves serve at once.
OnMessageThrowsOut ==
    /\ OnMessageFails /\ Ends("on_message")
    /\ err' = TRUE /\ calls' = [calls EXCEPT !.threw = @ + 1]
    /\ UNCHANGED <<waiting, owed, inbox, discarded, ev, client, handled, acked, kernelVars>>
\* on_message throws, or its reply cannot be written.
OnMessageThrows ==
    /\ OnMessageFails /\ pc' = "shutdown"
    /\ err' = TRUE /\ calls' = [calls EXCEPT !.threw = @ + 1]
    /\ UNCHANGED <<waiting, owed, inbox, discarded, ev, client, outcome, handled, acked,
                   kernelVars>>

SendMessageReply ==
    /\ pc = "message_reply" /\ Writable /\ pc' = "loop"
    /\ UNCHANGED <<waiting, owed, inbox, discarded, serveVars, kernelVars>>

\* Mutant: the error of a handler ends with the loop.
OnShutdownSwallows ==
    /\ pc = "shutdown" /\ Ends("returned")
    /\ calls' = [calls EXCEPT !.shutdown = @ + 1] /\ client' = FALSE
    /\ UNCHANGED <<waiting, owed, inbox, discarded, ev, err, handled, acked, kernelVars>>
\* on_shutdown returns, client_ is cleared and the handler's error rethrown; or it throws,
\* and its exception replaces that error.
OnShutdown ==
    /\ pc = "shutdown" /\ calls' = [calls EXCEPT !.shutdown = @ + 1]
    /\ \/ Ends(IF err THEN "on_message" ELSE "returned") /\ client' = FALSE
       \/ Ends("on_shutdown") /\ UNCHANGED client
    /\ UNCHANGED <<waiting, owed, inbox, discarded, ev, err, handled, acked, kernelVars>>

-----------------------------------------------------------------------------
Kernel ==
    \/ KernelPings \/ KernelAsks \/ KernelDelivers \/ KernelAnswers
    \/ KernelShutsDown \/ KernelCloses \/ KernelStalls

Registering == StartServe \/ RegisterThrows \/ Rejected \/ Accepted
HandlerEnds ==
    \/ OnInitReturns \/ OnInitThrows \/ OnEventReturns \/ OnEventThrows
    \/ OnMessageReturns \/ OnMessageThrows
Sends == SendPong \/ PongThrows \/ SendAck \/ SendEventReply \/ SendMessageReply
Loop ==
    \/ RecvThrows \/ OnPluginShutdown \/ OnPing \/ StartEvent \/ StartMessage \/ Sends
    \/ OnShutdown

Done == pc = "ended" /\ UNCHANGED vars

Next ==
    \/ Kernel \/ Registering \/ HandlerRequests \/ SendRequest \/ HandlerReceives
    \/ HandlerGivesUp \/ HandlerEnds \/ Loop \/ Done

Spec == Init /\ [][Next]_vars

\* The thread is scheduled while it is not blocked in a write, deadlines pass, and handlers
\* return or throw after finitely many requests.  Nothing is assumed of the kernel: it may
\* send nothing more, read nothing more, and never close.
FairSpec ==
    /\ Spec /\ WF_vars(Loop) /\ WF_vars(SendRequest)
    /\ WF_vars(HandlerGivesUp) /\ SF_vars(HandlerEnds)

-----------------------------------------------------------------------------
(***************************************************************************)
(* Properties.                                                             *)
(***************************************************************************)
\* Every variable keeps its type; serve has an event while it handles and acks it, only a
\* handler waits, and on_init, on_shutdown and the error of on_message happen at most once.
TypeOK ==
    /\ pc \in PCs /\ ev \in Events \cup {NoEvent} /\ (ev # NoEvent <=> pc \in {"event", "ack"})
    /\ waiting \in {"no", "write", "answer"} /\ (waiting # "no" => pc \in Handlers)
    /\ outcome \in {"none", "returned"} \cup Thrown /\ (outcome = "none" <=> pc # "ended")
    /\ calls \in [init : 0..1, shutdown : 0..1, threw : 0..1]
    /\ Len(inbox) <= InboxCap /\ handled \subseteq Events /\ acked \subseteq Events

\* An error of on_message, or of sending its reply, is what leaves serve, and only after
\* on_shutdown ran (plugin.hpp:49-50, 117-119), unless on_shutdown throws: its exception
\* then leaves instead (166-169).  Nothing else passes for the error of on_message.
HandlerErrorPropagates ==
    pc = "ended" =>
        /\ calls.threw = 1 => calls.shutdown = 1 /\ outcome \in {"on_message", "on_shutdown"}
        /\ outcome = "on_message" => calls.threw = 1

\* An acked event was handled: on_event returned from it normally, so the kernel stops
\* delivering no event that the plugin failed on (plugin.hpp:53-55).
AckedWasHandled == acked \subseteq handled

\* Once on_init was called, on_shutdown is called on every way out of serve but the throw
\* of the loop's own pong (139).  And client_ outlives serve, dangling as soon as run_with
\* returns, exactly when register_full, that pong or on_shutdown threw (100-115, 166-169).
OnShutdownRuns ==
    pc = "ended" => /\ calls.init = 1 /\ calls.shutdown = 0 <=> outcome = "pong"
                    /\ client <=> outcome \in {"register", "pong", "on_shutdown"}

\* A PluginShutdown ends serve, unless the wait of a handler's own request discards it
\* (client.cpp:406-417), or the kernel that sent it does not read what serve, or the
\* handler, has to write first (client.cpp:548-560).
ShutdownEndsServe == asked ~> (pc = "ended" \/ discarded \/ stalled)

\* "PluginShutdown exits the loop" (plugin.hpp:20-21): serve ends once the kernel asked,
\* and reads what it is written.
ShutdownHonoured == asked ~> (pc = "ended" \/ stalled)

\* on_shutdown is "called once when the receive loop ends (kernel shutdown request,
\* disconnect, or handler error)" (plugin.hpp:61-62).
OnShutdownCalled == pc = "ended" /\ calls.init = 1 => calls.shutdown = 1
=============================================================================
