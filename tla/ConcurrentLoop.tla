--------------------------- MODULE ConcurrentLoop ---------------------------
(***************************************************************************)
(* serve_concurrent and run_concurrent_loop (src/src/concurrent.cpp).      *)
(*                                                                         *)
(* One loop thread owns the client: it polls the socket and the wake pipe, *)
(* receives envelopes and sends every reply.  Each accepted ActionRequest  *)
(* runs on a worker thread of its own, which hands its reply envelopes to  *)
(* the loop through ResponseChannel: a mutex-protected queue and, outside  *)
(* the mutex, one byte written to a non-blocking pipe.                     *)
(*                                                                         *)
(* A reply envelope is the pair of its request and its position among the  *)
(* envelopes that request's handler returned: payloads do not matter here. *)
(***************************************************************************)
EXTENDS Naturals, Sequences, FiniteSets

CONSTANTS
    Actions,        \* action_ids of the requests the kernel may send, once each
    BigReplies,     \* those whose replies exceed MAX_PAYLOAD_SIZE
    Events,         \* event_ids the kernel may deliver (and redeliver)
    PipeCap,        \* bytes the wake pipe holds before write() says EAGAIN
    MaxOut,         \* bound: envelopes one on_action call returns
    MaxSends        \* bound: envelopes the kernel sends

ASSUME BigAssumption    == BigReplies \subseteq Actions
ASSUME PipeAssumption   == PipeCap \in Nat \ {0}
ASSUME OutAssumption    == MaxOut \in Nat \ {0}
ASSUME SendsAssumption  == MaxSends \in Nat

VARIABLES
    pc,          \* where the loop thread is
    running,     \* false once PluginShutdown was received
    clientReady, \* fds[0].revents of the last poll
    ws,          \* whether the client speaks WebSocket (ws_ != nullptr)
    sigpipeIgnored, \* whether the host program ignores SIGPIPE
    answer,      \* what the loop has yet to write for the frame it received
    inbox,       \* frames the kernel sent and the loop has not read
    up,          \* the kernel's end of the connection is open
    stalled,     \* the loop thread is blocked in a write: the kernel does not read
    sends,       \* envelopes the kernel has sent
    asked,       \* requests the kernel has sent
    queue,       \* ResponseChannel::queue_
    pipe,        \* bytes in the wake pipe
    wk,          \* where each request's worker thread is
    produced,    \* how many envelopes a request's handler returned
    pushed,      \* how many of them are in, or went through, the queue
    wire,        \* envelopes written to the kernel, in order
    lost,        \* reply envelopes whose send failed, in order
    shutdowns    \* calls of handler.on_shutdown

serveVars  == <<running, clientReady, ws, sigpipeIgnored, answer>>
kernelVars == <<inbox, up, stalled, sends, asked>>
workerVars == <<wk, produced, pushed>>
outVars    == <<wire, lost>>
vars == <<pc, serveVars, kernelVars, queue, pipe, workerVars, outVars, shutdowns>>

Reply(a, i) == [kind |-> "reply", act |-> a, n |-> i]
Ack(e)      == [kind |-> "ack", ev |-> e]
Pong        == [kind |-> "pong"]
Extra       == [kind |-> "extra"]

Replies == [kind : {"reply"}, act : Actions, n : 1..MaxOut]
Answers == [kind : {"ack"}, ev : Events] \cup [kind : {"pong", "extra"}]
Outbound == Replies \cup Answers

\* "part" is a fragment that leaves its set incomplete; "bad" is any frame recv()
\* throws on while the connection stays up (raw binary, CRC or MAC mismatch,
\* a frame cut short for longer than the read timeout, an unparsable envelope).
Inbound ==
    [kind : {"ping", "shutdown", "other", "part", "bad"}]
        \cup [kind : {"action"}, act : Actions] \cup [kind : {"event"}, ev : Events]

LoopStates ==
    {"register", "init", "poll", "drain", "pop", "recv", "answer", "reject_signal",
     "join", "close", "on_shutdown", "done", "thrown", "sigpipe", "terminate"}

\* The process is gone: killed by SIGPIPE, or by std::terminate.
Dead == {"sigpipe", "terminate"}
Ended == Dead \cup {"done", "thrown"}
LoopOver == pc \in {"join", "close", "on_shutdown"} \cup Ended

WorkerStates == {"none", "rejected", "running", "push", "signal", "exited"}

\* The threads in the workers vector.
Spawned == {a \in Actions : wk[a] \in {"running", "push", "signal", "exited"}}

-----------------------------------------------------------------------------
Init ==
    /\ pc = "register" /\ running = TRUE /\ clientReady = FALSE /\ ws \in BOOLEAN
    /\ sigpipeIgnored \in BOOLEAN /\ answer = <<>>
    /\ inbox = <<>> /\ up = TRUE /\ stalled = FALSE /\ sends = 0 /\ asked = {}
    /\ queue = <<>> /\ pipe = 0
    /\ wk = [a \in Actions |-> "none"]
    /\ produced = [a \in Actions |-> 0] /\ pushed = [a \in Actions |-> 0]
    /\ wire = <<>> /\ lost = <<>> /\ shutdowns = 0

-----------------------------------------------------------------------------
(***************************************************************************)
(* The kernel's end of the socket.                                         *)
(***************************************************************************)
\* What it sends after the loop is never read.
KernelMay == up /\ sends < MaxSends /\ pc # "register" /\ ~LoopOver

Deliver(m) ==
    /\ KernelMay
    /\ inbox' = Append(inbox, m) /\ sends' = sends + 1
    /\ UNCHANGED <<pc, serveVars, up, stalled, queue, pipe, workerVars, outVars, shutdowns>>

KernelSend ==
    /\ \E k \in {"ping", "shutdown", "other", "part", "bad"} : Deliver([kind |-> k])
    /\ UNCHANGED asked

KernelRequest(a) ==
    /\ a \notin asked /\ asked' = asked \cup {a}
    /\ Deliver([kind |-> "action", act |-> a])

KernelEvent(e) == Deliver([kind |-> "event", ev |-> e]) /\ UNCHANGED asked

KernelClose ==
    /\ up /\ up' = FALSE /\ stalled' = FALSE
    /\ UNCHANGED <<pc, serveVars, inbox, sends, asked, queue, pipe, workerVars,
                   outVars, shutdowns>>

-----------------------------------------------------------------------------
(***************************************************************************)
(* ResponseChannel.  write() on a full pipe fails with EAGAIN, which push  *)
(* ignores: the bytes already there wake the loop.                         *)
(***************************************************************************)
\* Mutant: push_front instead of push_back.
EnqueueFront(env) == queue' = <<env>> \o queue
Enqueue(env) == queue' = Append(queue, env)
\* Mutant: a byte written only for the first reply in the queue, whose length is read
\* after the mutex was released.
SignalFirstOnly == pipe' = IF Len(queue) = 1 /\ pipe < PipeCap THEN pipe + 1 ELSE pipe
Signal == pipe' = IF pipe < PipeCap THEN pipe + 1 ELSE pipe

(***************************************************************************)
(* client.send on the loop thread.  An oversized payload throws before any *)
(* byte is written; write_all blocks while the kernel does not read; a     *)
(* write to a closed socket raises SIGPIPE, and fails with EPIPE only if   *)
(* the host ignores that signal.  send_best_effort swallows the exception. *)
(***************************************************************************)
TooBig(env) == env.kind = "reply" /\ env.act \in BigReplies
Writable == up /\ ~stalled

\* The kernel has read so little that the socket buffer is full when the loop thread comes
\* to write to it; or it reads again.
Writing == pc = "answer" \/ (pc = "pop" /\ queue # <<>> /\ ~TooBig(Head(queue)))
KernelStalls ==
    /\ up /\ Writing /\ stalled' = ~stalled
    /\ UNCHANGED <<pc, serveVars, inbox, up, sends, asked, queue, pipe, workerVars,
                   outVars, shutdowns>>

SendBestEffort(env, next) ==
    \/ ~TooBig(env) /\ Writable /\ wire' = Append(wire, env) /\ pc' = next /\ UNCHANGED lost
    \/ /\ TooBig(env) \/ (~up /\ sigpipeIgnored)
       /\ lost' = Append(lost, env) /\ pc' = next /\ UNCHANGED wire
    \/ /\ ~TooBig(env) /\ ~up /\ ~sigpipeIgnored
       /\ lost' = Append(lost, env) /\ pc' = "sigpipe" /\ UNCHANGED wire

-----------------------------------------------------------------------------
(***************************************************************************)
(* serve_concurrent up to the loop.  register_full throws when the socket  *)
(* fails or the answer is no PluginRegisterAck; a rejection throws too.    *)
(***************************************************************************)
Register ==
    /\ pc = "register"
    /\ \/ up /\ pc' = "init"
       \/ pc' = "thrown"
    /\ UNCHANGED <<serveVars, kernelVars, queue, pipe, workerVars, outVars, shutdowns>>

OnInit ==
    /\ pc = "init"
    /\ \/ pc' = "poll" /\ UNCHANGED shutdowns
       \/ pc' = "thrown" /\ shutdowns' = shutdowns + 1
       \/ pc' = "thrown" /\ UNCHANGED shutdowns         \* pipe2 fails
    /\ UNCHANGED <<serveVars, kernelVars, queue, pipe, workerVars, outVars>>

(***************************************************************************)
(* One turn of the loop: poll, drain, pop and send, receive and dispatch.  *)
(***************************************************************************)
\* native_handle() throws on a WebSocket client, out of serve_concurrent.
NativeHandleThrows ==
    /\ pc = "poll" /\ ws /\ pc' = "thrown"
    /\ UNCHANGED <<serveVars, kernelVars, queue, pipe, workerVars, outVars, shutdowns>>

\* poll() returns when either descriptor is ready; EINTR is a stuttering step.
Poll ==
    /\ pc = "poll" /\ ~ws
    /\ pipe > 0 \/ inbox # <<>> \/ ~up
    /\ clientReady' = (inbox # <<>> \/ ~up)
    /\ pc' = IF pipe > 0 THEN "drain" ELSE "recv"
    /\ UNCHANGED <<running, ws, sigpipeIgnored, answer, kernelVars, queue, pipe, workerVars,
                   outVars, shutdowns>>

PollFails ==
    /\ pc = "poll" /\ ~ws /\ pc' = "join"
    /\ UNCHANGED <<serveVars, kernelVars, queue, pipe, workerVars, outVars, shutdowns>>

DrainWakePipe ==
    /\ pc = "drain" /\ pipe' = 0 /\ pc' = "pop"
    /\ UNCHANGED <<serveVars, kernelVars, queue, workerVars, outVars, shutdowns>>

\* Mutants: the head of the queue is sent and not removed; one reply per wakeup ("if"
\* for "while").
PeekAndSend ==
    /\ pc = "pop" /\ queue # <<>> /\ UNCHANGED queue
    /\ SendBestEffort(Head(queue), "poll")
    /\ UNCHANGED <<serveVars, kernelVars, pipe, workerVars, shutdowns>>
PopOneAndSend ==
    /\ pc = "pop" /\ queue # <<>>
    /\ queue' = Tail(queue)
    /\ SendBestEffort(Head(queue), IF clientReady THEN "recv" ELSE "poll")
    /\ UNCHANGED <<serveVars, kernelVars, pipe, workerVars, shutdowns>>

PopAndSend ==
    /\ pc = "pop" /\ queue # <<>>
    /\ queue' = Tail(queue)
    /\ SendBestEffort(Head(queue), "pop")
    /\ UNCHANGED <<serveVars, kernelVars, pipe, workerVars, shutdowns>>

QueueEmpty ==
    /\ pc = "pop" /\ queue = <<>>
    /\ pc' = IF clientReady THEN "recv" ELSE "poll"
    /\ UNCHANGED <<serveVars, kernelVars, queue, pipe, workerVars, outVars, shutdowns>>

\* The envelope client.recv() returns next, taken off the socket, and the envelopes the
\* loop thread is going to write because of it.
Receive(kind, answers) ==
    /\ pc = "recv" /\ inbox # <<>> /\ Head(inbox).kind = kind
    /\ inbox' = Tail(inbox) /\ answer' = answers
    /\ running' = (kind # "shutdown")
    /\ UNCHANGED <<clientReady, ws, sigpipeIgnored, up, stalled, sends, asked>>

\* recv_frame goes back to a blocking read when a fragment completes no set.
RecvPart ==
    /\ Receive("part", <<>>)
    /\ UNCHANGED <<pc, queue, pipe, workerVars, outVars, shutdowns>>

RecvThrows ==
    /\ pc = "recv"
    /\ \/ inbox = <<>> /\ ~up /\ UNCHANGED <<serveVars, kernelVars>>
       \/ Receive("bad", <<>>)
    /\ pc' = "join"
    /\ UNCHANGED <<queue, pipe, workerVars, outVars, shutdowns>>

OnPing ==
    /\ Receive("ping", <<Pong>>) /\ pc' = "answer"
    /\ UNCHANGED <<queue, pipe, workerVars, outVars, shutdowns>>

\* Mutant: running is not cleared.
OnPluginShutdownIgnored ==
    /\ Receive("shutdown", <<>>) /\ pc' = "poll"
    /\ UNCHANGED <<queue, pipe, workerVars, outVars, shutdowns>>

OnPluginShutdown ==
    /\ Receive("shutdown", <<>>) /\ pc' = "join"
    /\ UNCHANGED <<queue, pipe, workerVars, outVars, shutdowns>>

\* handler.accept throws: the loop itself pushes the ACTION_ERROR reply.
\* Mutant: no return after the rejection, so the handler is spawned as well.
RejectAndSpawn ==
    /\ Receive("action", <<>>)
    /\ LET a == Head(inbox).act IN
         /\ wk' = [wk EXCEPT ![a] = "running"]
         /\ produced' = [produced EXCEPT ![a] = 1]
         /\ pushed' = [pushed EXCEPT ![a] = 1]
         /\ Enqueue(Reply(a, 1))
    /\ pc' = "reject_signal"
    /\ UNCHANGED <<pipe, outVars, shutdowns>>

RejectAction ==
    /\ Receive("action", <<>>)
    /\ LET a == Head(inbox).act IN
         /\ wk' = [wk EXCEPT ![a] = "rejected"]
         /\ produced' = [produced EXCEPT ![a] = 1]
         /\ pushed' = [pushed EXCEPT ![a] = 1]
         /\ Enqueue(Reply(a, 1))
    /\ pc' = "reject_signal"
    /\ UNCHANGED <<pipe, outVars, shutdowns>>

RejectSignal ==
    /\ pc = "reject_signal" /\ Signal /\ pc' = "poll"
    /\ UNCHANGED <<serveVars, kernelVars, queue, workerVars, outVars, shutdowns>>

SpawnHandler ==
    /\ Receive("action", <<>>)
    /\ wk' = [wk EXCEPT ![Head(inbox).act] = "running"]
    /\ pc' = "poll"
    /\ UNCHANGED <<queue, pipe, produced, pushed, outVars, shutdowns>>

\* std::thread throws for want of resources, which it may at any time.  The exception
\* leaves the loop past a vector of joinable threads (std::terminate), or past none.
SpawnFails ==
    /\ Receive("action", <<>>)
    /\ pc' = IF Spawned = {} THEN "thrown" ELSE "terminate"
    /\ UNCHANGED <<queue, pipe, workerVars, outVars, shutdowns>>

\* on_event throws: no ack, the kernel will deliver the event again.
OnEventThrows ==
    /\ Receive("event", <<>>) /\ pc' = "poll"
    /\ UNCHANGED <<queue, pipe, workerVars, outVars, shutdowns>>

\* on_event returns: ack_event, then the returned envelope if there is one.
OnEvent ==
    /\ \E more \in {<<>>, <<Extra>>} : Receive("event", <<Ack(Head(inbox).ev)>> \o more)
    /\ pc' = "answer"
    /\ UNCHANGED <<queue, pipe, workerVars, outVars, shutdowns>>

\* on_message returns an envelope; or nothing, or throws, which is swallowed.
OnMessage ==
    /\ \/ Receive("other", <<Extra>>) /\ pc' = "answer"
       \/ Receive("other", <<>>) /\ pc' = "poll"
    /\ UNCHANGED <<queue, pipe, workerVars, outVars, shutdowns>>

\* The pong, the ack or the returned envelope is written.  The throw of a failed ack skips
\* the envelope and is swallowed, like that of a failed pong or envelope.
SendAnswer ==
    /\ pc = "answer"
    /\ \/ /\ Writable /\ wire' = Append(wire, Head(answer)) /\ answer' = Tail(answer)
          /\ pc' = IF Len(answer) = 1 THEN "poll" ELSE "answer"
       \/ /\ ~up /\ answer' = <<>> /\ UNCHANGED wire
          /\ pc' = IF sigpipeIgnored THEN "poll" ELSE "sigpipe"
    /\ UNCHANGED <<running, clientReady, ws, sigpipeIgnored, kernelVars, lost, queue, pipe,
                   workerVars, shutdowns>>

(***************************************************************************)
(* After the loop: join every worker, close the pipe, call on_shutdown.    *)
(***************************************************************************)
\* Mutant: the workers are not joined.
CloseWithoutJoin ==
    /\ pc = "join" /\ pc' = "close"
    /\ UNCHANGED <<serveVars, kernelVars, queue, pipe, workerVars, outVars, shutdowns>>

JoinWorkers ==
    /\ pc = "join" /\ \A a \in Spawned : wk[a] = "exited"
    /\ pc' = "close"
    /\ UNCHANGED <<serveVars, kernelVars, queue, pipe, workerVars, outVars, shutdowns>>

ClosePipe ==
    /\ pc = "close" /\ pipe' = 0 /\ pc' = "on_shutdown"
    /\ UNCHANGED <<serveVars, kernelVars, queue, workerVars, outVars, shutdowns>>

\* on_shutdown returns, or throws out of serve_concurrent.
OnShutdown ==
    /\ pc = "on_shutdown" /\ shutdowns' = shutdowns + 1 /\ pc' \in {"done", "thrown"}
    /\ UNCHANGED <<serveVars, kernelVars, queue, pipe, workerVars, outVars>>

LoopThread ==
    \/ Register \/ OnInit \/ NativeHandleThrows \/ Poll \/ DrainWakePipe \/ PopAndSend
    \/ QueueEmpty \/ RecvPart \/ RecvThrows \/ OnPing \/ OnPluginShutdown
    \/ RejectAction \/ RejectSignal \/ SpawnHandler \/ SpawnFails \/ OnEventThrows
    \/ OnEvent \/ OnMessage \/ SendAnswer \/ JoinWorkers \/ ClosePipe \/ OnShutdown

-----------------------------------------------------------------------------
(***************************************************************************)
(* A worker thread.                                                        *)
(***************************************************************************)
HandlerReturns(a) ==
    /\ wk[a] = "running" /\ pc \notin Dead
    /\ \E n \in 0..MaxOut :
         /\ produced' = [produced EXCEPT ![a] = n]
         /\ wk' = [wk EXCEPT ![a] = IF n = 0 THEN "exited" ELSE "push"]
    /\ UNCHANGED <<pc, serveVars, kernelVars, queue, pipe, pushed, outVars, shutdowns>>

HandlerThrows(a) ==
    /\ wk[a] = "running" /\ pc \notin Dead
    /\ produced' = [produced EXCEPT ![a] = 1]
    /\ wk' = [wk EXCEPT ![a] = "push"]
    /\ UNCHANGED <<pc, serveVars, kernelVars, queue, pipe, pushed, outVars, shutdowns>>

WorkerPush(a) ==
    /\ wk[a] = "push" /\ pc \notin Dead
    /\ pushed' = [pushed EXCEPT ![a] = pushed[a] + 1]
    /\ Enqueue(Reply(a, pushed[a] + 1))
    /\ wk' = [wk EXCEPT ![a] = "signal"]
    /\ UNCHANGED <<pc, serveVars, kernelVars, pipe, produced, outVars, shutdowns>>

WorkerSignal(a) ==
    /\ wk[a] = "signal" /\ pc \notin Dead
    /\ Signal
    /\ wk' = [wk EXCEPT ![a] = IF pushed[a] < produced[a] THEN "push" ELSE "exited"]
    /\ UNCHANGED <<pc, serveVars, kernelVars, queue, produced, pushed, outVars, shutdowns>>

Worker(a) == HandlerReturns(a) \/ HandlerThrows(a) \/ WorkerPush(a) \/ WorkerSignal(a)

Stopped == pc \in Ended /\ UNCHANGED vars

Next ==
    \/ LoopThread \/ PollFails
    \/ \E a \in Actions : Worker(a) \/ KernelRequest(a)
    \/ \E e \in Events : KernelEvent(e)
    \/ KernelSend \/ KernelClose \/ KernelStalls \/ Stopped

Spec == Init /\ [][Next]_vars

\* The operating system schedules every runnable thread; handlers return.  Nothing is
\* assumed of the kernel: it may send nothing more, read nothing more, and never close.  A
\* loop thread that is blocked in a write is not runnable.
FairSpec == Spec /\ WF_vars(LoopThread) /\ \A a \in Actions : WF_vars(Worker(a))
-----------------------------------------------------------------------------
(***************************************************************************)
(* Properties.                                                             *)
(***************************************************************************)
\* Every variable keeps its type; in particular the wake pipe never holds more
\* than its capacity and no handler pushes more envelopes than it returned.
TypeOK ==
    /\ pc \in LoopStates /\ running \in BOOLEAN /\ clientReady \in BOOLEAN /\ ws \in BOOLEAN
    /\ sigpipeIgnored \in BOOLEAN
    /\ answer \in Seq(Answers) /\ (pc = "answer" => answer # <<>>)
    /\ inbox \in Seq(Inbound) /\ up \in BOOLEAN /\ stalled \in BOOLEAN /\ sends \in 0..MaxSends
    /\ asked \in SUBSET Actions
    /\ queue \in Seq(Replies) /\ pipe \in 0..PipeCap
    /\ wk \in [Actions -> WorkerStates]
    /\ produced \in [Actions -> 0..MaxOut] /\ pushed \in [Actions -> 0..MaxOut]
    /\ \A a \in Actions : pushed[a] <= produced[a]
    /\ wire \in Seq(Outbound) /\ lost \in Seq(Replies) /\ shutdowns \in Nat

\* No lost wakeup: the loop never waits (in poll, or parked in recv) on a queue that
\* holds a reply unless a byte in the pipe, or a worker about to write one, will wake
\* it.  push (concurrent.cpp:38-46) enqueues and signals in two steps, the loop
\* drains the pipe and empties the queue in two steps (149-152).
Signalling == pc = "reject_signal" \/ \E a \in Actions : wk[a] = "signal"
NoLostWakeup ==
    queue # <<>> /\ pc \in {"poll", "drain", "recv"} => pipe > 0 \/ Signalling

\* Every envelope a handler pushed is, exactly once and in the order the handler
\* returned them, on the wire, or lost by a failed send, or still queued: the loop
\* neither duplicates, skips nor reorders the replies of one request (48-55, 150-152).
RepliesIn(a, s) == {i \in 1..Len(s) : s[i].kind = "reply" /\ s[i].act = a}
Numbers(a, s)   == {s[i].n : i \in RepliesIn(a, s)}
Ascending(a, s) == \A i, j \in RepliesIn(a, s) : i < j => s[i].n < s[j].n
Passed(a) == Cardinality(RepliesIn(a, wire)) + Cardinality(RepliesIn(a, lost))
InOrderOnce ==
    \A a \in Actions :
        /\ Ascending(a, wire) /\ Ascending(a, lost) /\ Ascending(a, queue)
        /\ Numbers(a, wire) \cup Numbers(a, lost) = 1..Passed(a)
        /\ Numbers(a, wire) \cap Numbers(a, lost) = {}
        /\ Passed(a) <= pushed[a] /\ Numbers(a, queue) = Passed(a) + 1..pushed[a]

\* The loop, its queue and its threads implement ReplyService: at every step of any
\* thread, the replies of each request reach the kernel in the order its handler
\* returned them, none twice and none after a later one (38-55, 132-133, 150-152).
\* The r-th element of a set of positions is the one with r of them up to it.
Ranked(P, r) == {p \in P : Cardinality({q \in P : q <= p}) = r}
Pick(S) == CHOOSE p \in S : TRUE
Got(a) ==
    LET P == RepliesIn(a, wire)
    IN  [r \in 1..Cardinality(P) |-> wire[Pick(Ranked(P, r))].n]
Abstract == INSTANCE ReplyService WITH
    owed <- produced,
    passed <- [a \in Actions |-> Passed(a)],
    got <- [a \in Actions |-> Got(a)]
ImplementsReplies == Abstract!Spec

\* The response channel and the pipe outlive every thread that uses them: from the
\* moment the loop closes the pipe, and on every throw out of serve_concurrent, no
\* worker is left that could still push (200-203).
ChannelOutlivesWorkers ==
    pc \in {"close", "on_shutdown", "done", "thrown"}
        => \A a \in Actions : wk[a] \notin {"running", "push", "signal"}

\* A queued reply does not wait for the next inbound frame: it leaves the queue, or the
\* loop ends, or the loop thread is stuck in one of the two places where finished replies
\* wait for the kernel: inside recv() on an incomplete fragment set (client.cpp:335-346),
\* or inside the blocking write of something else (client.cpp:548-560).  When the kernel
\* goes on, the same holds again.
ParkedInRecv == pc = "recv" /\ inbox = <<>> /\ up
QueueServed == (queue # <<>>) ~> (queue = <<>> \/ ParkedInRecv \/ stalled \/ LoopOver)

\* Once the kernel has closed the connection, or its PluginShutdown is in the socket,
\* serve_concurrent comes to an end, joining the handler threads on its way
\* (157-172, 200-222), unless a kernel that asked for the shutdown does not read what the
\* loop has to write first.
ShutdownEndsLoop ==
    (~up \/ \E i \in 1..Len(inbox) : inbox[i].kind = "shutdown")
        ~> (pc \in Ended \/ stalled)

\* concurrent.hpp:71-72 says of on_action: "so no reply is ever dropped".  A loop that
\* ended on PluginShutdown, over a connection that is still up, has sent every envelope
\* its handlers returned.
NoReplyDropped ==
    pc = "done" /\ ~running /\ up => \A a \in Actions : \A i \in 1..produced[a] :
        \E j \in 1..Len(wire) : wire[j] = Reply(a, i)
=============================================================================
