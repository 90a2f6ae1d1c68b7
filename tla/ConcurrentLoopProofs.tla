------------------------ MODULE ConcurrentLoopProofs ------------------------
(***************************************************************************)
(* Proofs about ConcurrentLoop, for every set of requests, every pipe      *)
(* capacity and every number of envelopes.                                 *)
(***************************************************************************)
EXTENDS ConcurrentLoop, FiniteSetTheorems, TLAPS

\* A request is in the socket at most once, and not yet handled while it is there.
Fresh ==
    /\ \A i \in 1..Len(inbox) : inbox[i].kind = "action" =>
          inbox[i].act \in asked /\ wk[inbox[i].act] = "none"
    /\ \A i, j \in 1..Len(inbox) :
          i # j /\ inbox[i].kind = "action" /\ inbox[j].kind = "action"
              => inbox[i].act # inbox[j].act
    /\ \A a \in Actions \ asked : wk[a] = "none"

\* A worker about to push has an envelope left to push.
Counts ==
    \A a \in Actions :
        /\ wk[a] \in {"none", "running"} => pushed[a] = 0
        /\ wk[a] = "push" => pushed[a] < produced[a]

\* NoLostWakeup holds while the loop itself is between enqueue and signal, or has an
\* answer to write, too, and nothing is queued before the loop starts.
Wakeup ==
    /\ queue # <<>> /\ pc \in {"poll", "drain", "recv", "answer", "reject_signal"}
          => pipe > 0 \/ Signalling
    /\ pc \in {"register", "init"} => queue = <<>>

\* A WebSocket client never gets past the first poll, so no worker exists when
\* native_handle() throws.
NoWorkers == \A a \in Actions : wk[a] = "none"
Quiet ==
    /\ ws => pc \in {"register", "init", "poll", "thrown"} /\ NoWorkers
    /\ pc \in {"register", "init"} => NoWorkers
    /\ ChannelOutlivesWorkers

IndInv == TypeOK /\ Fresh /\ Counts /\ Wakeup /\ Quiet

-----------------------------------------------------------------------------
(***************************************************************************)
(* Facts about envelopes and the operators the actions are built from.     *)
(***************************************************************************)
\* A reply envelope of a request is a reply, and may be sent.
LEMMA ReplyType ==
    ASSUME NEW a \in Actions, NEW i \in 1..MaxOut
    PROVE  Reply(a, i) \in Replies
BY DEF Reply, Replies

\* The envelope received next has the type its kind says.
LEMMA InboundType ==
    ASSUME NEW m \in Inbound
    PROVE  /\ m.kind = "action" => m.act \in Actions
           /\ m.kind = "event" => m.ev \in Events
BY DEF Inbound

\* What send_best_effort (concurrent.cpp:63-71) leaves of the types: it appends to the
\* wire or to the lost replies, and goes on or is killed.
LEMMA SendType ==
    ASSUME NEW env \in Replies, NEW next, SendBestEffort(env, next),
           wire \in Seq(Outbound), lost \in Seq(Replies)
    PROVE  wire' \in Seq(Outbound) /\ lost' \in Seq(Replies) /\ pc' \in {next, "sigpipe"}
<1>1. env \in Outbound
  BY DEF Outbound
<1>2. Append(wire, env) \in Seq(Outbound) /\ Append(lost, env) \in Seq(Replies)
  BY <1>1
<1>3. wire' \in {wire, Append(wire, env)} /\ pc' \in {next, "sigpipe"}
  BY DEF SendBestEffort
<1>4. lost' \in {lost, Append(lost, env)}
  BY DEF SendBestEffort
<1> QED
  BY <1>2, <1>3, <1>4

\* Receiving takes one envelope off the socket: those left stay fresh, and the
\* request taken, if it is one, is not among them any more.
LEMMA ReceiveFresh ==
    ASSUME TypeOK, Fresh,
           NEW k \in {"ping", "shutdown", "other", "part", "bad", "action", "event"},
           NEW answers, Receive(k, answers)
    PROVE  /\ pc = "recv" /\ Head(inbox) \in Inbound /\ Head(inbox).kind = k
           /\ inbox' \in Seq(Inbound) /\ running' \in BOOLEAN
           /\ \A i \in 1..Len(inbox') : inbox'[i].kind = "action" =>
                  inbox'[i].act \in asked /\ wk[inbox'[i].act] = "none"
           /\ \A i, j \in 1..Len(inbox') :
                  i # j /\ inbox'[i].kind = "action" /\ inbox'[j].kind = "action"
                      => inbox'[i].act # inbox'[j].act
           /\ k = "action" => /\ Head(inbox).act \in asked /\ wk[Head(inbox).act] = "none"
                              /\ \A i \in 1..Len(inbox') : inbox'[i].kind = "action" =>
                                    inbox'[i].act # Head(inbox).act
<1>1. inbox \in Seq(Inbound) /\ inbox # <<>> /\ inbox' = Tail(inbox)
  BY DEF Receive, TypeOK
<1>2. /\ Head(inbox) = inbox[1] /\ Len(inbox) \in Nat \ {0}
      /\ Len(inbox') = Len(inbox) - 1
      /\ \A i \in 1..Len(inbox') : inbox'[i] = inbox[i + 1]
      /\ inbox' \in Seq(Inbound) /\ inbox[1] \in Inbound
  BY <1>1
<1>3. \A i \in 1..Len(inbox') : i + 1 \in 1..Len(inbox) /\ i + 1 # 1
  BY <1>2
<1>4. 1 \in 1..Len(inbox)
  BY <1>2
<1> QED
  BY <1>2, <1>3, <1>4 DEF Receive, Fresh

-----------------------------------------------------------------------------
(***************************************************************************)
(* The inductive step, one lemma per group of actions.                     *)
(***************************************************************************)
\* The kernel's steps (a frame arrives, the peer closes, reads or does not) keep the invariant.
LEMMA KernelStep ==
    ASSUME IndInv,
           \/ KernelSend
           \/ \E a \in Actions : KernelRequest(a)
           \/ \E e \in Events : KernelEvent(e)
           \/ KernelClose \/ KernelStalls
    PROVE  IndInv'
<1> USE DEF IndInv
<1>1. ASSUME NEW m \in Inbound, Deliver(m),
             asked' \in SUBSET Actions, asked \subseteq asked',
             m.kind = "action" => m.act \in asked' \ asked
      PROVE  IndInv'
  <2>1. /\ inbox \in Seq(Inbound) /\ inbox' = Append(inbox, m) /\ inbox' \in Seq(Inbound)
        /\ Len(inbox') = Len(inbox) + 1 /\ Len(inbox) \in Nat
        /\ \A i \in 1..Len(inbox) : inbox'[i] = inbox[i]
        /\ inbox'[Len(inbox) + 1] = m
    BY <1>1 DEF Deliver, TypeOK
  <2>2. sends' \in 0..MaxSends
    BY <1>1, SendsAssumption DEF Deliver, KernelMay, TypeOK
  <2>3. UNCHANGED <<pc, running, clientReady, ws, sigpipeIgnored, answer, up, stalled, queue,
                    pipe, wk, produced, pushed, wire, lost, shutdowns>>
    BY <1>1 DEF Deliver, serveVars, workerVars, outVars
  <2>4. TypeOK'
    BY <1>1, <2>1, <2>2, <2>3 DEF TypeOK
  <2>5. Fresh'
    <3>1. \A i \in 1..Len(inbox') : i \in 1..Len(inbox) \/ i = Len(inbox) + 1
      BY <2>1
    <3>2. m.kind = "action" => m.act \in Actions
      BY <1>1, InboundType
    <3>3. \A i \in 1..Len(inbox') : inbox'[i].kind = "action" =>
              inbox'[i].act \in asked' /\ wk'[inbox'[i].act] = "none"
      BY <1>1, <2>1, <2>3, <3>1, <3>2 DEF Fresh
    <3>4. \A i, j \in 1..Len(inbox') :
              i # j /\ inbox'[i].kind = "action" /\ inbox'[j].kind = "action"
                  => inbox'[i].act # inbox'[j].act
      BY <1>1, <2>1, <3>1 DEF Fresh
    <3> QED
      BY <1>1, <2>3, <3>3, <3>4 DEF Fresh
  <2>6. Counts' /\ Wakeup' /\ Quiet'
    BY <2>3 DEF Counts, Wakeup, Signalling, Quiet, NoWorkers, ChannelOutlivesWorkers
  <2> QED
    BY <2>4, <2>5, <2>6
<1>2. CASE KernelSend
  <2>1. PICK k \in {"ping", "shutdown", "other", "part", "bad"} : Deliver([kind |-> k])
    BY <1>2 DEF KernelSend
  <2>2. [kind |-> k] \in Inbound /\ asked' = asked
    BY <1>2 DEF KernelSend, Inbound
  <2>3. [kind |-> k].kind # "action"
    OBVIOUS
  <2> QED
    BY <1>1, <2>1, <2>2, <2>3 DEF TypeOK
<1>3. ASSUME NEW a \in Actions, KernelRequest(a) PROVE IndInv'
  <2>1. [kind |-> "action", act |-> a] \in Inbound
    BY DEF Inbound
  <2>2. Deliver([kind |-> "action", act |-> a]) /\ asked' = asked \cup {a} /\ a \notin asked
    BY <1>3 DEF KernelRequest
  <2> QED
    BY <1>1, <2>1, <2>2 DEF TypeOK
<1>4. ASSUME NEW e \in Events, KernelEvent(e) PROVE IndInv'
  <2>1. [kind |-> "event", ev |-> e] \in Inbound
    BY DEF Inbound
  <2>2. Deliver([kind |-> "event", ev |-> e]) /\ asked' = asked
    BY <1>4 DEF KernelEvent
  <2> QED
    BY <1>1, <2>1, <2>2 DEF TypeOK
<1>5. CASE KernelClose \/ KernelStalls
  <2>1. UNCHANGED <<pc, running, clientReady, ws, sigpipeIgnored, answer, inbox, sends, asked,
                    queue, pipe, wk, produced, pushed, wire, lost, shutdowns>>
    BY <1>5 DEF KernelClose, KernelStalls, serveVars, workerVars, outVars
  <2>2. up' \in BOOLEAN /\ stalled' \in BOOLEAN
    BY <1>5 DEF KernelClose, KernelStalls, TypeOK
  <2>3. TypeOK'
    BY <2>1, <2>2 DEF TypeOK
  <2>4. Fresh' /\ Counts'
    BY <2>1 DEF Fresh, Counts
  <2>5. Wakeup' /\ Quiet'
    BY <2>1 DEF Wakeup, Signalling, Quiet, NoWorkers, ChannelOutlivesWorkers
  <2> QED
    BY <2>3, <2>4, <2>5
<1> QED
  BY <1>2, <1>3, <1>4, <1>5

\* A worker's steps keep the invariant: it pushes what it has left to push, and the
\* byte it writes wakes the loop even when the pipe was full.
LEMMA WorkerStep ==
    ASSUME IndInv, NEW a \in Actions, Worker(a)
    PROVE  IndInv'
<1> USE DEF IndInv
<1>1. wk[a] \in {"running", "push", "signal"} /\ pc \notin Dead
  BY DEF Worker, HandlerReturns, HandlerThrows, WorkerPush, WorkerSignal
<1>2. UNCHANGED <<pc, running, clientReady, ws, sigpipeIgnored, answer, inbox, up, stalled,
                  sends, asked, wire, lost, shutdowns>>
  BY DEF Worker, HandlerReturns, HandlerThrows, WorkerPush, WorkerSignal, serveVars,
     kernelVars, outVars
<1>3. \A b \in Actions : b # a => /\ wk'[b] = wk[b] /\ produced'[b] = produced[b]
                                 /\ pushed'[b] = pushed[b]
  BY DEF Worker, HandlerReturns, HandlerThrows, WorkerPush, WorkerSignal, TypeOK
<1>4. wk' \in [Actions -> WorkerStates] /\ wk'[a] \in {"push", "signal", "exited"}
  BY DEF Worker, HandlerReturns, HandlerThrows, WorkerPush, WorkerSignal, TypeOK, WorkerStates
<1>5. produced' \in [Actions -> 0..MaxOut]
  <2>1. produced \in [Actions -> 0..MaxOut] /\ 1 \in 0..MaxOut
    BY OutAssumption DEF TypeOK
  <2>2. \/ \E n \in 0..MaxOut : produced' = [produced EXCEPT ![a] = n]
        \/ produced' = produced
    BY <2>1 DEF Worker, HandlerReturns, HandlerThrows, WorkerPush, WorkerSignal
  <2> QED
    BY <2>1, <2>2
<1>6. pushed' \in [Actions -> 0..MaxOut] /\ queue' \in Seq(Replies)
  <2>1. CASE WorkerPush(a)
    <3>1. pushed[a] + 1 \in 1..MaxOut
      BY <2>1, OutAssumption DEF WorkerPush, Counts, TypeOK
    <3> QED
      BY <2>1, <3>1, ReplyType DEF WorkerPush, Enqueue, TypeOK
  <2>2. CASE ~WorkerPush(a)
    BY <2>2 DEF Worker, HandlerReturns, HandlerThrows, WorkerSignal, TypeOK
  <2> QED
    BY <2>1, <2>2
<1>7. pipe' \in 0..PipeCap /\ pipe' >= pipe /\ (WorkerSignal(a) => pipe' > 0)
  BY PipeAssumption DEF Worker, HandlerReturns, HandlerThrows, WorkerPush, WorkerSignal,
     Signal, TypeOK
<1>8. TypeOK'
  <2>1. pushed'[a] <= produced'[a]
    BY OutAssumption DEF Worker, HandlerReturns, HandlerThrows, WorkerPush, WorkerSignal, Counts,
       TypeOK
  <2>2. \A b \in Actions : pushed'[b] <= produced'[b]
    BY <1>3, <2>1 DEF TypeOK
  <2> QED
    BY <1>2, <1>4, <1>5, <1>6, <1>7, <2>2 DEF TypeOK
<1>9. Fresh'
  <2>1. a \in asked /\ \A i \in 1..Len(inbox) : inbox[i].kind = "action" => inbox[i].act # a
    BY <1>1 DEF Fresh
  <2>2. \A i \in 1..Len(inbox) : inbox[i].kind = "action" => inbox[i].act \in Actions
    BY InboundType DEF TypeOK
  <2> QED
    BY <1>2, <1>3, <2>1, <2>2 DEF Fresh
<1>10. Counts'
  <2>1. wk'[a] = "push" => pushed'[a] < produced'[a]
    BY <1>1 DEF Worker, HandlerReturns, HandlerThrows, WorkerPush, WorkerSignal, Counts, TypeOK
  <2> QED
    BY <1>3, <1>4, <2>1 DEF Counts
<1>11. Wakeup'
  <2>1. CASE WorkerSignal(a)
    BY <2>1, <1>2, <1>7 DEF Wakeup, WorkerSignal
  <2>2. CASE WorkerPush(a)
    <3>1. wk'[a] = "signal"
      BY <2>2 DEF WorkerPush, TypeOK
    <3>2. pc \notin {"register", "init"}
      BY <1>1 DEF Quiet, NoWorkers
    <3> QED
      BY <1>2, <3>1, <3>2 DEF Wakeup, Signalling
  <2>3. CASE ~WorkerSignal(a) /\ ~WorkerPush(a)
    <3>1. queue' = queue /\ pipe' = pipe /\ wk[a] = "running"
      BY <2>3 DEF Worker, HandlerReturns, HandlerThrows
    <3> QED
      BY <1>2, <1>3, <3>1 DEF Wakeup, Signalling
  <2> QED
    BY <2>1, <2>2, <2>3
<1>12. Quiet'
  BY <1>1, <1>2, <1>3 DEF Quiet, NoWorkers, ChannelOutlivesWorkers
<1> QED
  BY <1>8, <1>9, <1>10, <1>11, <1>12

\* The loop thread's steps that neither receive nor pop keep the invariant: the pipe is
\* drained only on the way to emptying the queue, and closed only after the join.
LEMMA LoopLocalStep ==
    ASSUME IndInv,
           \/ Register \/ OnInit \/ NativeHandleThrows \/ Poll \/ PollFails
           \/ DrainWakePipe \/ QueueEmpty \/ RejectSignal
           \/ JoinWorkers \/ ClosePipe \/ OnShutdown
    PROVE  IndInv'
<1> USE DEF IndInv
<1>1. UNCHANGED <<running, ws, sigpipeIgnored, answer, inbox, up, stalled, sends, asked, queue,
                  wk, produced, pushed, wire, lost>>
  BY DEF Register, OnInit, NativeHandleThrows, Poll, PollFails, DrainWakePipe, QueueEmpty,
     RejectSignal, JoinWorkers, ClosePipe, OnShutdown, serveVars, kernelVars, workerVars, outVars
<1>2. pc' \in LoopStates \ {"answer"} /\ shutdowns' \in Nat
  BY DEF Register, OnInit, NativeHandleThrows, Poll, PollFails, DrainWakePipe, QueueEmpty,
     RejectSignal, JoinWorkers, ClosePipe, OnShutdown, LoopStates, TypeOK
<1>3. clientReady' \in BOOLEAN
  BY DEF Register, OnInit, NativeHandleThrows, Poll, PollFails, DrainWakePipe, QueueEmpty,
     RejectSignal, JoinWorkers, ClosePipe, OnShutdown, serveVars, TypeOK
<1>4. pipe' \in 0..PipeCap
  BY PipeAssumption DEF Register, OnInit, NativeHandleThrows, Poll, PollFails, DrainWakePipe,
     QueueEmpty, RejectSignal, JoinWorkers, ClosePipe, OnShutdown, Signal, TypeOK
<1>5. TypeOK'
  BY <1>1, <1>2, <1>3, <1>4 DEF TypeOK
<1>6. Fresh' /\ Counts'
  BY <1>1 DEF Fresh, Counts
<1>7. Wakeup'
  <2>1. CASE Register \/ OnInit
    BY <2>1, <1>1 DEF Register, OnInit, Wakeup
  <2>2. CASE Poll
    BY <2>2, <1>1 DEF Poll, Wakeup, Signalling
  <2>3. CASE QueueEmpty
    BY <2>3, <1>1 DEF QueueEmpty, Wakeup
  <2>4. CASE RejectSignal
    BY <2>4, PipeAssumption DEF RejectSignal, Signal, Wakeup, TypeOK
  <2>5. CASE \/ NativeHandleThrows \/ PollFails \/ DrainWakePipe \/ JoinWorkers
             \/ ClosePipe \/ OnShutdown
    BY <2>5 DEF NativeHandleThrows, PollFails, DrainWakePipe, JoinWorkers, ClosePipe,
       OnShutdown, Wakeup
  <2> QED
    BY <2>1, <2>2, <2>3, <2>4, <2>5
<1>8. Quiet'
  <2>1. CASE Register \/ OnInit \/ NativeHandleThrows
    BY <2>1, <1>1 DEF Register, OnInit, NativeHandleThrows, Quiet, NoWorkers,
       ChannelOutlivesWorkers
  <2>2. CASE Poll \/ PollFails \/ DrainWakePipe \/ QueueEmpty \/ RejectSignal
    BY <2>2, <1>1 DEF Poll, PollFails, DrainWakePipe, QueueEmpty, RejectSignal, Quiet,
       NoWorkers, ChannelOutlivesWorkers
  <2>3. CASE JoinWorkers
    BY <2>3, <1>1 DEF JoinWorkers, Spawned, Quiet, NoWorkers, ChannelOutlivesWorkers
  <2>4. CASE ClosePipe \/ OnShutdown
    BY <2>4, <1>1 DEF ClosePipe, OnShutdown, Quiet, NoWorkers, ChannelOutlivesWorkers
  <2> QED
    BY <2>1, <2>2, <2>3, <2>4
<1> QED
  BY <1>5, <1>6, <1>7, <1>8

\* Popping a reply and sending it keeps the invariant.
LEMMA PopStep ==
    ASSUME IndInv, PopAndSend
    PROVE  IndInv'
<1> USE DEF IndInv
<1>1. UNCHANGED <<running, clientReady, ws, sigpipeIgnored, answer, inbox, up, stalled, sends,
                  asked, pipe, wk, produced, pushed, shutdowns>>
  BY DEF PopAndSend, serveVars, kernelVars, workerVars
<1>2. queue' \in Seq(Replies) /\ Head(queue) \in Replies /\ pc = "pop"
  BY DEF PopAndSend, TypeOK
<1>3. wire' \in Seq(Outbound) /\ lost' \in Seq(Replies) /\ pc' \in {"pop", "sigpipe"}
  BY <1>2, SendType DEF PopAndSend, TypeOK
<1>4. TypeOK'
  BY <1>1, <1>2, <1>3 DEF TypeOK, LoopStates
<1>5. Fresh' /\ Counts'
  BY <1>1 DEF Fresh, Counts
<1>6. Wakeup'
  BY <1>3 DEF Wakeup
<1>7. Quiet'
  BY <1>1, <1>2, <1>3 DEF Quiet, NoWorkers, ChannelOutlivesWorkers
<1> QED
  BY <1>4, <1>5, <1>6, <1>7

\* Receiving anything but a request to be rejected or spawned keeps the invariant.
LEMMA ReceiveStep ==
    ASSUME IndInv,
           \/ RecvPart \/ RecvThrows \/ OnPing \/ OnPluginShutdown \/ SpawnFails
           \/ OnEventThrows \/ OnEvent \/ OnMessage
    PROVE  IndInv'
<1> USE DEF IndInv
<1>1. UNCHANGED <<clientReady, ws, sigpipeIgnored, up, stalled, sends, asked, queue, pipe, wk,
                  produced, pushed, wire, lost, shutdowns>>
  BY DEF RecvPart, RecvThrows, OnPing, OnPluginShutdown, SpawnFails, OnEventThrows, OnEvent,
     OnMessage, Receive, serveVars, kernelVars, workerVars, outVars
<1>2. pc = "recv"
  BY DEF RecvPart, RecvThrows, OnPing, OnPluginShutdown, SpawnFails, OnEventThrows, OnEvent,
     OnMessage, Receive
<1>3. \/ \E k \in {"ping", "shutdown", "other", "part", "bad", "action", "event"} :
            \E answers : Receive(k, answers)
      \/ UNCHANGED <<inbox, running>>
  BY DEF RecvPart, RecvThrows, OnPing, OnPluginShutdown, SpawnFails, OnEventThrows, OnEvent,
     OnMessage, serveVars, kernelVars
<1>4. Fresh' /\ inbox' \in Seq(Inbound) /\ running' \in BOOLEAN
  <2>1. CASE UNCHANGED <<inbox, running>>
    BY <1>1, <2>1 DEF Fresh, TypeOK
  <2>2. ASSUME NEW k \in {"ping", "shutdown", "other", "part", "bad", "action", "event"},
               NEW answers, Receive(k, answers)
        PROVE  Fresh' /\ inbox' \in Seq(Inbound) /\ running' \in BOOLEAN
    BY <1>1, <2>2, ReceiveFresh DEF Fresh
  <2> QED
    BY <1>3, <2>1, <2>2
<1>5. pc' \in LoopStates /\ answer' \in Seq(Answers) /\ (pc' = "answer" => answer' # <<>>)
  <2>1. Pong \in Answers /\ Extra \in Answers
    BY DEF Pong, Extra, Answers
  <2>2. <<Pong>> \in Seq(Answers) /\ <<Extra>> \in Seq(Answers) /\ <<>> \in Seq(Answers)
    BY <2>1
  <2>3. CASE OnPing
    BY <2>2, <2>3 DEF OnPing, Receive, LoopStates
  <2>4. CASE OnMessage
    <3>1. (answer' = <<Extra>> /\ pc' = "answer") \/ (answer' = <<>> /\ pc' = "poll")
      BY <2>4 DEF OnMessage, Receive
    <3>2. <<Extra>> # <<>>
      OBVIOUS
    <3>3. CASE answer' = <<Extra>> /\ pc' = "answer"
      <4>1. answer' \in Seq(Answers) /\ answer' # <<>>
        BY <2>2, <3>2, <3>3, Zenon
      <4> QED
        BY <3>3, <4>1 DEF LoopStates
    <3>4. CASE answer' = <<>> /\ pc' = "poll"
      BY <2>2, <3>4 DEF LoopStates
    <3> QED
      BY <3>1, <3>3, <3>4
  <2>5. CASE OnEvent
    <3>1. PICK more \in {<<>>, <<Extra>>} : Receive("event", <<Ack(Head(inbox).ev)>> \o more)
      BY <2>5 DEF OnEvent
    <3>2. Head(inbox).ev \in Events
      BY <3>1, ReceiveFresh, InboundType
    <3>3. Ack(Head(inbox).ev) \in Answers
      BY <3>2 DEF Ack, Answers
    <3>4. more \in Seq(Answers)
      BY <2>2, <3>1
    <3>5. /\ <<Ack(Head(inbox).ev)>> \o more \in Seq(Answers)
          /\ <<Ack(Head(inbox).ev)>> \o more # <<>>
      BY <3>3, <3>4
    <3>6. answer' = <<Ack(Head(inbox).ev)>> \o more /\ pc' = "answer"
      BY <2>5, <3>1 DEF OnEvent, Receive
    <3> QED
      BY <3>5, <3>6 DEF LoopStates
  <2>6. CASE RecvThrows
    BY <2>2, <2>6 DEF RecvThrows, Receive, serveVars, LoopStates, TypeOK
  <2>7. CASE RecvPart \/ OnPluginShutdown \/ SpawnFails \/ OnEventThrows
    BY <1>2, <2>2, <2>7 DEF RecvPart, OnPluginShutdown, SpawnFails, OnEventThrows, Receive,
       LoopStates, TypeOK
  <2> QED
    BY <2>3, <2>4, <2>5, <2>6, <2>7
<1>6. pc' \in {"recv", "poll", "answer", "join", "thrown", "terminate"}
  BY <1>2 DEF RecvPart, RecvThrows, OnPing, OnPluginShutdown, SpawnFails, OnEventThrows, OnEvent,
     OnMessage
<1>7. pc' = "thrown" => Spawned = {}
  BY <1>2 DEF RecvPart, RecvThrows, OnPing, OnPluginShutdown, SpawnFails, OnEventThrows, OnEvent,
     OnMessage
<1>8. TypeOK'
  BY <1>1, <1>4, <1>5 DEF TypeOK
<1>9. Counts'
  BY <1>1 DEF Counts
<1>10. Wakeup'
  BY <1>1, <1>2, <1>6 DEF Wakeup, Signalling
<1>11. Quiet'
  BY <1>1, <1>2, <1>6, <1>7 DEF Quiet, NoWorkers, ChannelOutlivesWorkers, Spawned
<1> QED
  BY <1>4, <1>8, <1>9, <1>10, <1>11

\* What the loop writes for a frame it received is no reply, and there is one more to write
\* only while it stays at it.
LEMMA AnswerShape ==
    ASSUME TypeOK, SendAnswer
    PROVE  /\ pc = "answer" /\ pc' \in {"answer", "poll", "sigpipe"}
           /\ Head(answer) \in Answers /\ Head(answer) \in Outbound
           /\ answer' \in Seq(Answers) /\ (pc' = "answer" => answer' # <<>>)
           /\ wire' = wire \/ wire' = Append(wire, Head(answer))
<1>1. answer \in Seq(Answers) /\ answer # <<>>
  BY DEF SendAnswer, TypeOK
<1>2. Head(answer) \in Answers /\ Tail(answer) \in Seq(Answers) /\ <<>> \in Seq(Answers)
  BY <1>1
<1>3. Len(answer) # 1 => Tail(answer) # <<>>
  <2>1. Len(answer) \in Nat /\ Len(answer) # 0 /\ Len(Tail(answer)) = Len(answer) - 1
    BY <1>1
  <2> QED
    BY <2>1
<1> QED
  BY <1>2, <1>3 DEF SendAnswer, Outbound

\* Writing an answer keeps the invariant.
LEMMA AnswerStep ==
    ASSUME IndInv, SendAnswer
    PROVE  IndInv'
<1> USE DEF IndInv
<1>1. UNCHANGED <<running, clientReady, ws, sigpipeIgnored, inbox, up, stalled, sends, asked,
                  queue, pipe, wk, produced, pushed, lost, shutdowns>>
  BY DEF SendAnswer, kernelVars, workerVars
<1>2. wire' \in Seq(Outbound)
  <2>1. wire \in Seq(Outbound) /\ Head(answer) \in Outbound
    BY AnswerShape DEF TypeOK
  <2>2. Append(wire, Head(answer)) \in Seq(Outbound)
    BY <2>1
  <2> QED
    BY <2>1, <2>2, AnswerShape
<1>3. TypeOK'
  BY <1>1, <1>2, AnswerShape DEF TypeOK, LoopStates
<1>4. Fresh' /\ Counts'
  BY <1>1 DEF Fresh, Counts
<1>5. Wakeup'
  BY <1>1, AnswerShape DEF Wakeup, Signalling
<1>6. Quiet'
  BY <1>1, AnswerShape DEF Quiet, NoWorkers, ChannelOutlivesWorkers
<1> QED
  BY <1>3, <1>4, <1>5, <1>6

\* Rejecting a request, or spawning its worker, keeps the invariant: the request was
\* received for the first time.
LEMMA DispatchStep ==
    ASSUME IndInv, RejectAction \/ SpawnHandler
    PROVE  IndInv'
<1> USE DEF IndInv
<1> DEFINE a == Head(inbox).act
<1>1. Receive("action", <<>>)
  BY DEF RejectAction, SpawnHandler
<1>2. /\ pc = "recv" /\ inbox' \in Seq(Inbound) /\ running' \in BOOLEAN
      /\ a \in asked /\ wk[a] = "none" /\ a \in Actions
      /\ \A i \in 1..Len(inbox') : inbox'[i].kind = "action" =>
            inbox'[i].act \in asked /\ wk[inbox'[i].act] = "none" /\ inbox'[i].act # a
      /\ \A i, j \in 1..Len(inbox') :
            i # j /\ inbox'[i].kind = "action" /\ inbox'[j].kind = "action"
                => inbox'[i].act # inbox'[j].act
  BY <1>1, ReceiveFresh, InboundType
<1>3. /\ UNCHANGED <<clientReady, ws, sigpipeIgnored, up, stalled, sends, asked, pipe, wire, lost,
                     shutdowns>>
      /\ answer' = <<>>
  BY DEF RejectAction, SpawnHandler, Receive, outVars
<1>4. /\ wk' \in [Actions -> WorkerStates] /\ wk'[a] \in {"rejected", "running"}
      /\ \A b \in Actions : b # a => wk'[b] = wk[b]
  BY <1>2 DEF RejectAction, SpawnHandler, TypeOK, WorkerStates
<1>5. /\ produced' \in [Actions -> 0..MaxOut] /\ pushed' \in [Actions -> 0..MaxOut]
      /\ \A b \in Actions : b # a => pushed'[b] = pushed[b] /\ produced'[b] = produced[b]
      /\ wk'[a] = "running" => pushed'[a] = 0
      /\ pushed'[a] <= produced'[a]
      /\ queue' \in Seq(Replies)
  <2>1. CASE RejectAction
    <3>1. 1 \in 0..MaxOut /\ Reply(a, 1) \in Replies
      BY <1>2, OutAssumption, ReplyType
    <3>2. /\ wk' = [wk EXCEPT ![a] = "rejected"] /\ produced' = [produced EXCEPT ![a] = 1]
          /\ pushed' = [pushed EXCEPT ![a] = 1] /\ queue' = Append(queue, Reply(a, 1))
      BY <2>1 DEF RejectAction, Enqueue
    <3> HIDE DEF a
    <3> QED
      BY <1>2, <3>1, <3>2 DEF TypeOK
  <2>2. CASE SpawnHandler
    BY <2>2, <1>2 DEF SpawnHandler, Counts, TypeOK
  <2> QED
    BY <2>1, <2>2
<1>6. pc' \in {"reject_signal", "poll"} /\ (pc' = "poll" => queue' = queue)
  BY DEF RejectAction, SpawnHandler
<1> HIDE DEF a
<1>7. TypeOK'
  <2>1. \A b \in Actions : pushed'[b] <= produced'[b]
    BY <1>5 DEF TypeOK
  <2>2. answer' \in Seq(Answers)
    BY <1>3
  <2> QED
    BY <1>2, <1>3, <1>4, <1>5, <1>6, <2>1, <2>2 DEF TypeOK, LoopStates
<1>8. Fresh'
  <2>1. \A i \in 1..Len(inbox') : inbox'[i].kind = "action" => inbox'[i].act \in Actions
    BY <1>2, InboundType DEF TypeOK
  <2> QED
    BY <1>2, <1>3, <1>4, <2>1 DEF Fresh
<1>9. Counts'
  BY <1>4, <1>5 DEF Counts
<1>10. Wakeup'
  BY <1>2, <1>3, <1>4, <1>6 DEF Wakeup, Signalling
<1>11. Quiet'
  BY <1>2, <1>3, <1>6 DEF Quiet, ChannelOutlivesWorkers
<1> QED
  BY <1>7, <1>8, <1>9, <1>10, <1>11

-----------------------------------------------------------------------------
(***************************************************************************)
(* The theorems.                                                           *)
(***************************************************************************)
\* The invariant holds initially and every step keeps it.
THEOREM Invariance == Spec => []IndInv
<1>1. Init => IndInv
  <2> SUFFICES ASSUME Init PROVE IndInv
    OBVIOUS
  <2>1. 0 \in 0..MaxOut /\ 0 \in 0..MaxSends /\ 0 \in 0..PipeCap
    BY OutAssumption, SendsAssumption, PipeAssumption
  <2>2. /\ running \in BOOLEAN /\ clientReady \in BOOLEAN /\ ws \in BOOLEAN /\ up \in BOOLEAN
        /\ sigpipeIgnored \in BOOLEAN /\ stalled \in BOOLEAN
    BY DEF Init
  <2>3. inbox \in Seq(Inbound) /\ wire \in Seq(Outbound) /\ lost \in Seq(Replies)
           /\ queue \in Seq(Replies) /\ answer \in Seq(Answers)
    BY DEF Init
  <2>4. TypeOK
    BY <2>1, <2>2, <2>3 DEF Init, TypeOK, LoopStates, WorkerStates
  <2>5. Fresh /\ Counts
    BY DEF Init, Fresh, Counts
  <2>6. Wakeup /\ Quiet
    BY DEF Init, Wakeup, Quiet, NoWorkers, ChannelOutlivesWorkers
  <2> QED
    BY <2>4, <2>5, <2>6 DEF IndInv
<1>2. IndInv /\ [Next]_vars => IndInv'
  <2> SUFFICES ASSUME IndInv, [Next]_vars PROVE IndInv'
    OBVIOUS
  <2>1. CASE LoopThread \/ PollFails
    BY <2>1, LoopLocalStep, PopStep, ReceiveStep, DispatchStep, AnswerStep DEF LoopThread
  <2>2. ASSUME NEW a \in Actions, Worker(a) PROVE IndInv'
    BY <2>2, WorkerStep
  <2>3. CASE \/ KernelSend \/ KernelClose \/ KernelStalls
             \/ \E a \in Actions : KernelRequest(a)
             \/ \E e \in Events : KernelEvent(e)
    BY <2>3, KernelStep
  <2>4. CASE Stopped \/ UNCHANGED vars
    <3>1. UNCHANGED <<pc, running, clientReady, ws, sigpipeIgnored, answer, inbox, up, stalled,
                      sends, asked, queue, pipe, wk, produced, pushed, wire, lost, shutdowns>>
      BY <2>4 DEF Stopped, vars, serveVars, kernelVars, workerVars, outVars
    <3>2. TypeOK' /\ Fresh' /\ Counts'
      BY <3>1 DEF IndInv, TypeOK, Fresh, Counts
    <3>3. Wakeup' /\ Quiet'
      BY <3>1 DEF IndInv, Wakeup, Signalling, Quiet, NoWorkers, ChannelOutlivesWorkers
    <3> QED
      BY <3>2, <3>3 DEF IndInv
  <2> QED
    BY <2>1, <2>2, <2>3, <2>4 DEF Next
<1> QED
  BY <1>1, <1>2, PTL DEF Spec

\* Type correctness, for every value of the constants.
THEOREM TypeCorrect == Spec => []TypeOK
BY Invariance, PTL DEF IndInv

\* The wakeup protocol of ResponseChannel and the loop (concurrent.cpp:38-46, 149-152)
\* loses no wakeup, whatever the pipe's capacity and the number of handler threads.
THEOREM WakeupNeverLost == Spec => []NoLostWakeup
<1>1. IndInv => NoLostWakeup
  BY DEF IndInv, Wakeup, NoLostWakeup
<1> QED
  BY <1>1, Invariance, PTL

\* No handler thread can touch the channel or the pipe after the loop closed them or an
\* exception left serve_concurrent (concurrent.cpp:200-203).
THEOREM ChannelSafe == Spec => []ChannelOutlivesWorkers
<1>1. IndInv => ChannelOutlivesWorkers
  BY DEF IndInv, Quiet
<1> QED
  BY <1>1, Invariance, PTL

-----------------------------------------------------------------------------
(***************************************************************************)
(* The replies of one request in a sequence of envelopes.                  *)
(***************************************************************************)
IsReplyOf(a, e) == e.kind = "reply" /\ e.act = a

\* Their positions are finitely many.
LEMMA RepliesFinite ==
    ASSUME NEW T, NEW s \in Seq(T), NEW a
    PROVE  /\ RepliesIn(a, s) \subseteq 1..Len(s) /\ IsFiniteSet(RepliesIn(a, s))
           /\ Cardinality(RepliesIn(a, s)) \in Nat
<1>1. RepliesIn(a, s) \subseteq 1..Len(s)
  BY DEF RepliesIn
<1>2. Len(s) \in Nat
  OBVIOUS
<1>3. IsFiniteSet(1..Len(s))
  BY <1>2, FS_Interval
<1> QED
  BY <1>1, <1>3, FS_Subset, FS_CardinalityType

\* An envelope that is no reply of the request changes nothing for it.
LEMMA AppendOther ==
    ASSUME NEW T, NEW s \in Seq(T), NEW e \in T, NEW a, ~IsReplyOf(a, e)
    PROVE  LET t == Append(s, e)
           IN  /\ RepliesIn(a, t) = RepliesIn(a, s)
               /\ \A i \in RepliesIn(a, s) : t[i] = s[i]
               /\ Numbers(a, t) = Numbers(a, s)
               /\ Ascending(a, s) => Ascending(a, t)
<1> DEFINE t == Append(s, e)
<1>1. RepliesIn(a, t) = RepliesIn(a, s)
  BY DEF RepliesIn, IsReplyOf
<1>2. \A i \in RepliesIn(a, s) : t[i] = s[i]
  BY DEF RepliesIn
<1> HIDE DEF t
<1>3. Numbers(a, t) = Numbers(a, s)
  BY <1>1, <1>2 DEF Numbers
<1>4. Ascending(a, s) => Ascending(a, t)
  BY <1>1, <1>2 DEF Ascending
<1> QED
  BY <1>1, <1>2, <1>3, <1>4 DEF t

\* A reply of the request is added after the others.
LEMMA AppendOwn ==
    ASSUME NEW T, NEW s \in Seq(T), NEW e \in T, NEW a, IsReplyOf(a, e)
    PROVE  LET t == Append(s, e)
           IN  /\ RepliesIn(a, t) = RepliesIn(a, s) \cup {Len(s) + 1}
               /\ Len(s) + 1 \notin RepliesIn(a, s)
               /\ \A i \in RepliesIn(a, s) : t[i] = s[i]
               /\ t[Len(s) + 1] = e
               /\ Cardinality(RepliesIn(a, t)) = Cardinality(RepliesIn(a, s)) + 1
               /\ Numbers(a, t) = Numbers(a, s) \cup {e.n}
               /\ (Ascending(a, s) /\ \A n \in Numbers(a, s) : n < e.n) => Ascending(a, t)
<1> DEFINE t == Append(s, e)
<1>1. RepliesIn(a, t) = RepliesIn(a, s) \cup {Len(s) + 1}
  BY DEF RepliesIn, IsReplyOf
<1>2. \A i \in RepliesIn(a, s) : t[i] = s[i] /\ i \in Nat /\ i < Len(s) + 1
  BY DEF RepliesIn
<1>3. t[Len(s) + 1] = e /\ Len(s) + 1 \notin RepliesIn(a, s) /\ Len(s) + 1 \in Nat
  BY DEF RepliesIn
<1>4. Cardinality(RepliesIn(a, t)) = Cardinality(RepliesIn(a, s)) + 1
  BY <1>1, <1>3, RepliesFinite, FS_AddElement
<1> HIDE DEF t
<1>5. Numbers(a, t) = Numbers(a, s) \cup {e.n}
  <2>1. \A i \in RepliesIn(a, s) : t[i].n = s[i].n
    BY <1>2
  <2>2. t[Len(s) + 1].n = e.n
    BY <1>3
  <2> QED
    BY <1>1, <2>1, <2>2 DEF Numbers
<1>6. ASSUME Ascending(a, s), \A n \in Numbers(a, s) : n < e.n  PROVE Ascending(a, t)
  <2> SUFFICES ASSUME NEW i \in RepliesIn(a, t), NEW j \in RepliesIn(a, t), i < j
               PROVE  t[i].n < t[j].n
    BY DEF Ascending
  <2>1. CASE j = Len(s) + 1
    <3>1. i \in RepliesIn(a, s)
      BY <1>1, <1>2, <1>3, <2>1
    <3>2. s[i].n \in Numbers(a, s)
      BY <3>1 DEF Numbers
    <3> QED
      BY <1>2, <1>3, <1>6, <2>1, <3>1, <3>2
  <2>2. CASE j # Len(s) + 1
    <3>1. i \in RepliesIn(a, s) /\ j \in RepliesIn(a, s)
      BY <1>1, <1>2, <1>3, <2>2
    <3> QED
      BY <1>2, <1>6, <3>1 DEF Ascending
  <2> QED
    BY <2>1, <2>2
<1> QED
  BY <1>1, <1>2, <1>3, <1>4, <1>5, <1>6 DEF t

\* Taking the head off a sequence moves the others up; it takes a reply of the request
\* with it only if it is one.
LEMMA TailReplies ==
    ASSUME NEW T, NEW s \in Seq(T), s # <<>>, NEW a, Ascending(a, s)
    PROVE  /\ Ascending(a, Tail(s))
           /\ ~IsReplyOf(a, Head(s)) => Numbers(a, Tail(s)) = Numbers(a, s)
           /\ IsReplyOf(a, Head(s)) =>
                /\ Head(s).n \in Numbers(a, s)
                /\ \A n \in Numbers(a, Tail(s)) : n \in Numbers(a, s) /\ Head(s).n < n
                /\ \A n \in Numbers(a, s) : n = Head(s).n \/ n \in Numbers(a, Tail(s))
<1> DEFINE t == Tail(s)
<1>1. \A i \in 1..Len(t) : i + 1 \in 1..Len(s) /\ t[i] = s[i + 1]
  OBVIOUS
<1>2. \A i \in 1..Len(s) : i # 1 => i - 1 \in 1..Len(t) /\ t[i - 1] = s[i]
  OBVIOUS
<1>3. Head(s) = s[1] /\ 1 \in 1..Len(s) /\ Len(s) \in Nat /\ Len(t) \in Nat
  OBVIOUS
<1> HIDE DEF t
<1>4. \A i \in RepliesIn(a, t) :
         i \in Nat /\ i > 0 /\ i + 1 \in RepliesIn(a, s) /\ t[i] = s[i + 1]
  BY <1>1, <1>3 DEF RepliesIn
<1>5. \A i \in RepliesIn(a, s) :
         i \in Nat /\ (i # 1 => i - 1 \in RepliesIn(a, t) /\ t[i - 1] = s[i])
  BY <1>2, <1>3 DEF RepliesIn
<1>6. 1 \in RepliesIn(a, s) <=> IsReplyOf(a, Head(s))
  BY <1>3 DEF RepliesIn, IsReplyOf
<1>7. Ascending(a, t)
  <2> SUFFICES ASSUME NEW i \in RepliesIn(a, t), NEW j \in RepliesIn(a, t), i < j
               PROVE  t[i].n < t[j].n
    BY DEF Ascending
  <2>1. i + 1 < j + 1
    BY <1>4
  <2> QED
    BY <1>4, <2>1 DEF Ascending
<1>8. \A n \in Numbers(a, t) : \E i \in RepliesIn(a, t) : n = t[i].n
  BY DEF Numbers
<1>9. \A n \in Numbers(a, s) : \E i \in RepliesIn(a, s) : n = s[i].n
  BY DEF Numbers
<1>10. (\A i \in RepliesIn(a, t) : t[i].n \in Numbers(a, t))
       /\ (\A i \in RepliesIn(a, s) : s[i].n \in Numbers(a, s))
  BY DEF Numbers
<1>11. \A n \in Numbers(a, t) : n \in Numbers(a, s)
  BY <1>4, <1>8, <1>10
<1>12. ASSUME ~IsReplyOf(a, Head(s))  PROVE Numbers(a, t) = Numbers(a, s)
  <2>1. \A n \in Numbers(a, s) : n \in Numbers(a, t)
    BY <1>5, <1>6, <1>9, <1>10, <1>12
  <2> QED
    BY <1>11, <2>1
<1>13. ASSUME IsReplyOf(a, Head(s))
       PROVE  /\ Head(s).n \in Numbers(a, s)
              /\ \A n \in Numbers(a, t) : n \in Numbers(a, s) /\ Head(s).n < n
              /\ \A n \in Numbers(a, s) : n = Head(s).n \/ n \in Numbers(a, t)
  <2>1. Head(s).n \in Numbers(a, s)
    BY <1>3, <1>6, <1>10, <1>13
  <2>2. ASSUME NEW n \in Numbers(a, t)  PROVE Head(s).n < n
    <3>1. PICK i \in RepliesIn(a, t) : n = t[i].n
      BY <1>8
    <3>2. i + 1 \in RepliesIn(a, s) /\ 1 \in RepliesIn(a, s) /\ 1 < i + 1 /\ n = s[i + 1].n
      BY <1>4, <1>6, <1>13, <3>1
    <3> QED
      BY <1>3, <3>2 DEF Ascending
  <2>3. ASSUME NEW n \in Numbers(a, s), n # Head(s).n  PROVE n \in Numbers(a, t)
    BY <1>3, <1>5, <1>9, <1>10, <2>3
  <2> QED
    BY <1>11, <2>1, <2>2, <2>3
<1> QED
  BY <1>7, <1>12, <1>13 DEF t

-----------------------------------------------------------------------------
(***************************************************************************)
(* The order of the replies: InOrderOnce for one request, of the wire w,   *)
(* the lost replies l, the queue q and the number p of envelopes pushed.   *)
(***************************************************************************)
PassedOf(a, w, l) == Cardinality(RepliesIn(a, w)) + Cardinality(RepliesIn(a, l))
Ordered(a, w, l, q, p) ==
    /\ Ascending(a, w) /\ Ascending(a, l) /\ Ascending(a, q)
    /\ Numbers(a, w) \cup Numbers(a, l) = 1..PassedOf(a, w, l)
    /\ Numbers(a, w) \cap Numbers(a, l) = {}
    /\ PassedOf(a, w, l) <= p /\ Numbers(a, q) = PassedOf(a, w, l) + 1..p

\* What was passed is a number.
LEMMA PassedNat ==
    ASSUME NEW w \in Seq(Outbound), NEW l \in Seq(Replies), NEW a
    PROVE  PassedOf(a, w, l) \in Nat
BY RepliesFinite DEF PassedOf

\* A worker pushes the next envelope of its request.
LEMMA OrderedPush ==
    ASSUME NEW w \in Seq(Outbound), NEW l \in Seq(Replies), NEW q \in Seq(Replies), NEW p \in Nat,
           NEW a, Ordered(a, w, l, q, p), NEW e \in Replies, IsReplyOf(a, e), e.n = p + 1
    PROVE  Ordered(a, w, l, Append(q, e), p + 1)
<1> DEFINE c == PassedOf(a, w, l)
           t == Append(q, e)
<1>1. c \in Nat /\ c <= p
  BY PassedNat DEF Ordered
<1>2. /\ Numbers(a, t) = Numbers(a, q) \cup {p + 1}
      /\ (Ascending(a, q) /\ \A n \in Numbers(a, q) : n < e.n) => Ascending(a, t)
  BY AppendOwn
<1> HIDE DEF c, t
<1>3. Numbers(a, q) = c + 1..p
  BY DEF Ordered, c
<1>4. Ascending(a, t) /\ Numbers(a, t) = c + 1..p + 1 /\ c <= p + 1
  <2>1. \A n \in Numbers(a, q) : n < p + 1
    BY <1>1, <1>3
  <2>2. Ascending(a, t)
    BY <1>2, <2>1 DEF Ordered
  <2>3. c + 1..p + 1 = (c + 1..p) \cup {p + 1}
    BY <1>1
  <2>4. Numbers(a, t) = c + 1..p + 1
    BY <1>2, <1>3, <2>3
  <2> QED
    BY <1>1, <2>2, <2>4
<1> QED
  BY <1>4 DEF Ordered, c, t

\* An envelope of another request, or no reply at all, leaves the order as it is.
LEMMA OrderedOther ==
    ASSUME NEW w \in Seq(Outbound), NEW l \in Seq(Replies), NEW q \in Seq(Replies), NEW p \in Nat,
           NEW a, Ordered(a, w, l, q, p), NEW e, ~IsReplyOf(a, e)
    PROVE  /\ e \in Outbound => Ordered(a, Append(w, e), l, q, p)
           /\ e \in Replies => /\ Ordered(a, w, Append(l, e), q, p)
                               /\ Ordered(a, w, l, Append(q, e), p)
           /\ q # <<>> /\ e = Head(q) => Ordered(a, w, l, Tail(q), p)
<1>1. ASSUME e \in Outbound  PROVE Ordered(a, Append(w, e), l, q, p)
  <2> DEFINE t == Append(w, e)
  <2>1. /\ RepliesIn(a, t) = RepliesIn(a, w) /\ Numbers(a, t) = Numbers(a, w)
        /\ Ascending(a, w) => Ascending(a, t)
    BY <1>1, AppendOther
  <2> HIDE DEF t
  <2>2. Ordered(a, t, l, q, p)
    BY <2>1 DEF Ordered, PassedOf
  <2> QED
    BY <2>2 DEF t
<1>2. ASSUME e \in Replies  PROVE Ordered(a, w, Append(l, e), q, p)
  <2> DEFINE t == Append(l, e)
  <2>1. /\ RepliesIn(a, t) = RepliesIn(a, l) /\ Numbers(a, t) = Numbers(a, l)
        /\ Ascending(a, l) => Ascending(a, t)
    BY <1>2, AppendOther
  <2> HIDE DEF t
  <2>2. Ordered(a, w, t, q, p)
    BY <2>1 DEF Ordered, PassedOf
  <2> QED
    BY <2>2 DEF t
<1>3. ASSUME e \in Replies  PROVE Ordered(a, w, l, Append(q, e), p)
  <2> DEFINE t == Append(q, e)
  <2>1. /\ Numbers(a, t) = Numbers(a, q)
        /\ Ascending(a, q) => Ascending(a, t)
    BY <1>3, AppendOther
  <2> HIDE DEF t
  <2>2. Ordered(a, w, l, t, p)
    BY <2>1 DEF Ordered
  <2> QED
    BY <2>2 DEF t
<1>4. ASSUME q # <<>>, e = Head(q)  PROVE Ordered(a, w, l, Tail(q), p)
  <2> DEFINE t == Tail(q)
  <2>1. Ascending(a, t) /\ Numbers(a, t) = Numbers(a, q)
    BY <1>4, TailReplies DEF Ordered
  <2> HIDE DEF t
  <2>2. Ordered(a, w, l, t, p)
    BY <2>1 DEF Ordered
  <2> QED
    BY <2>2 DEF t
<1> QED
  BY <1>1, <1>2, <1>3, <1>4

\* The head of the queue is the next reply of its request.
LEMMA HeadIsNext ==
    ASSUME NEW w \in Seq(Outbound), NEW l \in Seq(Replies), NEW q \in Seq(Replies), NEW p \in Nat,
           NEW a, Ordered(a, w, l, q, p), q # <<>>, IsReplyOf(a, Head(q))
    PROVE  /\ Head(q).n = PassedOf(a, w, l) + 1 /\ PassedOf(a, w, l) < p
           /\ Numbers(a, Tail(q)) = PassedOf(a, w, l) + 2..p
           /\ Ascending(a, Tail(q))
<1> DEFINE c == PassedOf(a, w, l)
           n0 == Head(q).n
           t == Tail(q)
<1>1. c \in Nat
  BY PassedNat
<1>2. Numbers(a, q) = c + 1..p
  BY DEF Ordered
<1>3. /\ Ascending(a, t) /\ n0 \in Numbers(a, q)
      /\ \A n \in Numbers(a, t) : n \in Numbers(a, q) /\ n0 < n
      /\ \A n \in Numbers(a, q) : n = n0 \/ n \in Numbers(a, t)
  BY TailReplies DEF Ordered
<1> HIDE DEF c, n0, t
<1>4. n0 \in Nat /\ c + 1 <= n0 /\ n0 <= p
  BY <1>1, <1>2, <1>3
<1>5. n0 = c + 1
  <2>1. c + 1 \in Numbers(a, q)
    BY <1>1, <1>2, <1>4
  <2> QED
    BY <1>1, <1>3, <1>4, <2>1
<1>6. \A n : n \in Numbers(a, t) <=> n \in c + 2..p
  <2>1. ASSUME NEW n \in Numbers(a, t)  PROVE n \in c + 2..p
    <3>1. n \in c + 1..p /\ c + 1 < n
      BY <1>2, <1>3, <1>5, <2>1
    <3> QED
      BY <1>1, <3>1
  <2>2. ASSUME NEW n \in c + 2..p  PROVE n \in Numbers(a, t)
    <3>1. n \in c + 1..p /\ n # c + 1
      BY <1>1, <2>2
    <3> QED
      BY <1>2, <1>3, <1>5, <3>1
  <2> QED
    BY <2>1, <2>2
<1>7. Numbers(a, t) = c + 2..p
  BY <1>6
<1> QED
  BY <1>1, <1>3, <1>4, <1>5, <1>7 DEF c, n0, t

\* The loop takes it off and sends it, or loses it.
LEMMA OrderedPop ==
    ASSUME NEW w \in Seq(Outbound), NEW l \in Seq(Replies), NEW q \in Seq(Replies), NEW p \in Nat,
           NEW a, Ordered(a, w, l, q, p), q # <<>>, IsReplyOf(a, Head(q))
    PROVE  /\ Ordered(a, Append(w, Head(q)), l, Tail(q), p)
           /\ Ordered(a, w, Append(l, Head(q)), Tail(q), p)
<1> DEFINE c == PassedOf(a, w, l)
           e == Head(q)
           t == Tail(q)
           w1 == Append(w, e)
           l1 == Append(l, e)
<1>1. /\ e.n = c + 1 /\ c < p /\ c \in Nat /\ Numbers(a, t) = c + 2..p /\ Ascending(a, t)
  BY HeadIsNext, PassedNat
<1>2. e \in Replies /\ e \in Outbound
  BY DEF Outbound
<1>3. /\ Numbers(a, w) \cup Numbers(a, l) = 1..c /\ Numbers(a, w) \cap Numbers(a, l) = {}
      /\ Ascending(a, w) /\ Ascending(a, l)
  BY DEF Ordered
<1>4. /\ Cardinality(RepliesIn(a, w1)) = Cardinality(RepliesIn(a, w)) + 1
      /\ Numbers(a, w1) = Numbers(a, w) \cup {e.n}
      /\ (Ascending(a, w) /\ \A n \in Numbers(a, w) : n < e.n) => Ascending(a, w1)
  BY <1>2, AppendOwn
<1>5. /\ Cardinality(RepliesIn(a, l1)) = Cardinality(RepliesIn(a, l)) + 1
      /\ Numbers(a, l1) = Numbers(a, l) \cup {e.n}
      /\ (Ascending(a, l) /\ \A n \in Numbers(a, l) : n < e.n) => Ascending(a, l1)
  BY <1>2, AppendOwn
<1>6. Cardinality(RepliesIn(a, w)) \in Nat /\ Cardinality(RepliesIn(a, l)) \in Nat
  BY RepliesFinite
<1> HIDE DEF e, t, w1, l1
<1>7. PassedOf(a, w1, l) = c + 1 /\ PassedOf(a, w, l1) = c + 1
  BY <1>4, <1>5, <1>6 DEF PassedOf
<1> HIDE DEF c
<1>8. Ascending(a, w1) /\ Ascending(a, l1)
  BY <1>1, <1>3, <1>4, <1>5
<1>9. /\ Numbers(a, w1) \cup Numbers(a, l) = 1..c + 1
      /\ Numbers(a, w1) \cap Numbers(a, l) = {}
  BY <1>1, <1>3, <1>4
<1>10. /\ Numbers(a, w) \cup Numbers(a, l1) = 1..c + 1
       /\ Numbers(a, w) \cap Numbers(a, l1) = {}
  BY <1>1, <1>3, <1>5
<1>11. c + 1 <= p /\ Numbers(a, t) = (c + 1) + 1..p
  BY <1>1
<1> QED
  BY <1>1, <1>3, <1>7, <1>8, <1>9, <1>10, <1>11 DEF Ordered, e, t, w1, l1

-----------------------------------------------------------------------------
(***************************************************************************)
(* The steps, as far as the replies are concerned.                         *)
(***************************************************************************)
\* A step of the loop or of a worker takes a reply off the queue and sends or loses it,
LEMMA PopShape ==
    ASSUME IndInv, PopAndSend
    PROVE  /\ queue # <<>> /\ queue' = Tail(queue) /\ Head(queue) \in Replies
           /\ UNCHANGED <<wk, produced, pushed>>
           /\ \/ wire' = Append(wire, Head(queue)) /\ lost' = lost
              \/ wire' = wire /\ lost' = Append(lost, Head(queue))
<1>1. queue # <<>> /\ queue' = Tail(queue) /\ Head(queue) \in Replies
  BY DEF PopAndSend, IndInv, TypeOK
<1>2. Head(queue).kind = "reply"
  BY <1>1 DEF Replies
<1> QED
  BY <1>1, <1>2 DEF PopAndSend, SendBestEffort, workerVars

\* or puts one on it, the next one of its request,
Pushes(a) ==
    /\ queue' = Append(queue, Reply(a, pushed[a] + 1)) /\ UNCHANGED <<wire, lost>>
    /\ pushed' = [pushed EXCEPT ![a] = pushed[a] + 1] /\ pushed[a] + 1 \in 1..MaxOut

\* as a worker does in push (38-46),
LEMMA PushShape ==
    ASSUME IndInv, NEW a \in Actions, WorkerPush(a)
    PROVE  Pushes(a) /\ produced' = produced /\ pushed[a] < produced[a]
           /\ wk' = [wk EXCEPT ![a] = "signal"]
<1>1. pushed[a] < produced[a] /\ pushed[a] \in 0..MaxOut /\ produced[a] \in 0..MaxOut
  BY DEF WorkerPush, IndInv, Counts, TypeOK
<1>2. pushed[a] + 1 \in 1..MaxOut
  BY <1>1, OutAssumption
<1> QED
  BY <1>1, <1>2 DEF WorkerPush, Enqueue, Pushes, outVars

\* and the loop itself when it rejects a request,
LEMMA RejectShape ==
    ASSUME IndInv, RejectAction
    PROVE  \E a \in Actions :
              /\ Pushes(a) /\ wk[a] = "none" /\ wk' = [wk EXCEPT ![a] = "rejected"]
              /\ produced' = [produced EXCEPT ![a] = 1] /\ pushed[a] = 0
<1>1. Receive("action", <<>>) /\ TypeOK /\ Fresh
  BY DEF RejectAction, IndInv
<1>2. PICK a : a = Head(inbox).act
  OBVIOUS
<1>3. a \in Actions /\ wk[a] = "none"
  BY <1>1, <1>2, ReceiveFresh, InboundType
<1>4. pushed[a] = 0
  BY <1>3 DEF IndInv, Counts
<1>5. 0 + 1 \in 1..MaxOut /\ 0 + 1 = 1
  BY OutAssumption
<1>6. /\ wk' = [wk EXCEPT ![a] = "rejected"] /\ produced' = [produced EXCEPT ![a] = 1]
      /\ pushed' = [pushed EXCEPT ![a] = 1] /\ queue' = Append(queue, Reply(a, 1))
      /\ UNCHANGED <<wire, lost>>
  BY <1>2 DEF RejectAction, Enqueue, outVars
<1> QED
  BY <1>3, <1>4, <1>5, <1>6 DEF Pushes

\* or writes something that is no reply, or moves nothing at all,
Written(e) == e \in Outbound /\ e.kind # "reply"
Chatters ==
    /\ UNCHANGED <<lost, queue, wk, produced, pushed>>
    /\ wire' = wire \/ \E e : Written(e) /\ wire' = Append(wire, e)

\* as it does to answer pings, events and other messages.
LEMMA ChatterShape ==
    ASSUME IndInv, SendAnswer
    PROVE  Chatters
<1>1. Head(answer) \in Outbound /\ (wire' = wire \/ wire' = Append(wire, Head(answer)))
  BY AnswerShape DEF IndInv
<1>2. Head(answer).kind # "reply"
  BY AnswerShape DEF IndInv, Answers
<1>3. UNCHANGED <<lost, queue, wk, produced, pushed>>
  BY DEF SendAnswer, workerVars
<1> QED
  BY <1>1, <1>2, <1>3 DEF Chatters, Written

\* The other steps move no reply; they start a thread, or end a handler or a thread.
Works ==
    \/ \E a \in Actions : HandlerReturns(a) \/ HandlerThrows(a) \/ WorkerSignal(a)
    \/ SpawnHandler

\* There are no others.
LEMMA OtherShape ==
    ASSUME IndInv, [Next]_vars, ~PopAndSend, ~RejectAction, ~ \E a \in Actions : WorkerPush(a)
    PROVE  Chatters \/ (Works /\ UNCHANGED <<wire, lost, queue, pushed>>)
<1>1. CASE SendAnswer
  BY <1>1, ChatterShape
<1>2. CASE Works
  BY <1>2 DEF Works, HandlerReturns, HandlerThrows, WorkerSignal, SpawnHandler, outVars
<1>3. CASE \/ KernelSend \/ KernelClose \/ KernelStalls \/ Stopped \/ UNCHANGED vars
           \/ \E a \in Actions : KernelRequest(a)
           \/ \E e \in Events : KernelEvent(e)
  BY <1>3 DEF KernelSend, KernelClose, KernelStalls, KernelRequest, KernelEvent, Deliver, Stopped, vars,
     workerVars, outVars, Chatters
<1>4. CASE \/ Register \/ OnInit \/ NativeHandleThrows \/ Poll \/ DrainWakePipe \/ QueueEmpty
           \/ PollFails \/ RejectSignal \/ JoinWorkers \/ ClosePipe \/ OnShutdown
  BY <1>4 DEF Register, OnInit, NativeHandleThrows, Poll, DrainWakePipe, QueueEmpty, PollFails,
     RejectSignal, JoinWorkers, ClosePipe, OnShutdown, workerVars, outVars, Chatters
<1>5. CASE \/ RecvPart \/ RecvThrows \/ OnPing \/ OnPluginShutdown \/ SpawnFails
           \/ OnEventThrows \/ OnEvent \/ OnMessage
  BY <1>5 DEF RecvPart, RecvThrows, OnPing, OnPluginShutdown, SpawnFails, OnEventThrows, OnEvent,
     OnMessage, workerVars, outVars, Chatters
<1> QED
  BY <1>1, <1>2, <1>3, <1>4, <1>5 DEF Next, LoopThread, Worker, Works

-----------------------------------------------------------------------------
(***************************************************************************)
(* The order of the replies is kept.                                       *)
(***************************************************************************)
\* A handler that has not returned owes nothing, and no more is pushed than was returned.
Owed ==
    \A a \in Actions :
        /\ pushed[a] <= produced[a]
        /\ wk[a] \in {"none", "running"} => produced[a] = 0

\* What a step may do to the number of envelopes owed: a handler returns, once.
Returns(a) ==
    /\ produced[a] = 0 /\ \E n \in 1..MaxOut : produced' = [produced EXCEPT ![a] = n]

\* No step makes a handler return twice, or pushes what was not returned.
LEMMA OwedStep ==
    ASSUME IndInv, Owed, [Next]_vars
    PROVE  Owed' /\ (produced' = produced \/ \E a \in Actions : Returns(a))
<1>1. /\ wk \in [Actions -> WorkerStates] /\ produced \in [Actions -> 0..MaxOut]
      /\ pushed \in [Actions -> 0..MaxOut]
  BY DEF IndInv, TypeOK
<1>2. ASSUME NEW a \in Actions, WorkerPush(a)
      PROVE  Owed' /\ produced' = produced
  <2>1. /\ produced' = produced /\ pushed[a] < produced[a] /\ wk' = [wk EXCEPT ![a] = "signal"]
        /\ pushed' = [pushed EXCEPT ![a] = pushed[a] + 1]
    BY <1>2, PushShape DEF Pushes
  <2> QED
    BY <1>1, <2>1 DEF Owed
<1>3. CASE RejectAction
  <2>1. PICK a \in Actions :
          /\ Pushes(a) /\ wk[a] = "none" /\ wk' = [wk EXCEPT ![a] = "rejected"]
          /\ produced' = [produced EXCEPT ![a] = 1] /\ pushed[a] = 0
    BY <1>3, RejectShape
  <2>2. Owed'
    BY <1>1, <2>1 DEF Owed, Pushes
  <2>3. Returns(a)
    <3>1. produced[a] = 0 /\ 1 \in 1..MaxOut
      BY <2>1, OutAssumption DEF Owed
    <3> QED
      BY <2>1, <3>1 DEF Returns
  <2> QED
    BY <2>2, <2>3
<1>4. CASE PopAndSend
  BY <1>4, PopShape DEF Owed
<1>5. CASE Chatters
  BY <1>5 DEF Chatters, Owed
<1>6. ASSUME NEW a \in Actions, HandlerReturns(a) \/ HandlerThrows(a)
      PROVE  Owed' /\ (produced' = produced \/ Returns(a))
  <2>1. PICK n \in 0..MaxOut : produced' = [produced EXCEPT ![a] = n]
    <3>1. 1 \in 0..MaxOut
      BY OutAssumption
    <3> QED
      BY <1>6, <3>1 DEF HandlerReturns, HandlerThrows
  <2>2. /\ pushed' = pushed /\ wk[a] = "running"
        /\ wk' = [wk EXCEPT ![a] = "exited"] \/ wk' = [wk EXCEPT ![a] = "push"]
    BY <1>6 DEF HandlerReturns, HandlerThrows
  <2>3. pushed[a] = 0 /\ produced[a] = 0
    BY <2>2 DEF IndInv, Counts, Owed
  <2>4. Owed'
    BY <1>1, <2>1, <2>2, <2>3 DEF Owed
  <2>5. CASE n = 0
    <3>1. produced' = produced
      BY <1>1, <2>1, <2>3, <2>5
    <3> QED
      BY <2>4, <3>1
  <2>6. CASE n # 0
    <3>1. n \in 1..MaxOut
      BY <2>6, OutAssumption
    <3> QED
      BY <2>1, <2>3, <2>4, <3>1 DEF Returns
  <2> QED
    BY <2>5, <2>6
<1>7. CASE \E a \in Actions : WorkerSignal(a)
  <2>1. PICK a \in Actions : WorkerSignal(a)
    BY <1>7
  <2>2. /\ produced' = produced /\ pushed' = pushed
        /\ wk' = [wk EXCEPT ![a] = IF pushed[a] < produced[a] THEN "push" ELSE "exited"]
    BY <2>1 DEF WorkerSignal
  <2> QED
    BY <1>1, <2>2 DEF Owed
<1>8. CASE SpawnHandler
  <2>1. Receive("action", <<>>) /\ TypeOK /\ Fresh
    BY <1>8 DEF SpawnHandler, IndInv
  <2>2. PICK a : a = Head(inbox).act
    OBVIOUS
  <2>3. a \in Actions /\ wk[a] = "none"
    BY <2>1, <2>2, ReceiveFresh, InboundType
  <2>4. /\ produced' = produced /\ pushed' = pushed /\ wk' = [wk EXCEPT ![a] = "running"]
    BY <1>8, <2>2 DEF SpawnHandler
  <2> QED
    BY <1>1, <2>3, <2>4 DEF Owed
<1> QED
  BY <1>2, <1>3, <1>4, <1>5, <1>6, <1>7, <1>8, OtherShape DEF Works

\* InOrderOnce says of every request that its replies are in order.
LEMMA InOrderOrdered ==
    InOrderOnce <=> \A a \in Actions : Ordered(a, wire, lost, queue, pushed[a])
BY DEF InOrderOnce, Ordered, Passed, PassedOf

\* Every step keeps the replies of every request in order.
LEMMA OrderStep ==
    ASSUME IndInv, InOrderOnce, [Next]_vars
    PROVE  InOrderOnce'
<1>1. /\ wire \in Seq(Outbound) /\ lost \in Seq(Replies) /\ queue \in Seq(Replies)
      /\ pushed \in [Actions -> 0..MaxOut] /\ \A a \in Actions : pushed[a] \in Nat
  BY OutAssumption DEF IndInv, TypeOK
<1>2. \A a \in Actions : Ordered(a, wire, lost, queue, pushed[a])
  BY InOrderOrdered
<1> SUFFICES ASSUME NEW a \in Actions  PROVE Ordered(a, wire', lost', queue', pushed'[a])
  BY DEF InOrderOnce, Ordered, Passed, PassedOf
<1>3. ASSUME NEW b \in Actions, Pushes(b)
      PROVE  Ordered(a, wire', lost', queue', pushed'[a])
  <2> DEFINE e == Reply(b, pushed[b] + 1)
  <2>1. e \in Replies /\ e.n = pushed[b] + 1 /\ e.kind = "reply" /\ e.act = b
    BY <1>3, ReplyType DEF Pushes, Reply
  <2>2. queue' = Append(queue, e) /\ wire' = wire /\ lost' = lost
    BY <1>3 DEF Pushes
  <2> HIDE DEF e
  <2>3. CASE a = b
    <3>1. pushed'[a] = pushed[a] + 1
      BY <1>1, <1>3, <2>3 DEF Pushes
    <3>2. IsReplyOf(a, e)
      BY <2>1, <2>3 DEF IsReplyOf
    <3>3. Ordered(a, wire, lost, Append(queue, e), pushed[a] + 1)
      BY <1>1, <1>2, <2>1, <2>3, <3>2, OrderedPush
    <3> QED
      BY <2>2, <3>1, <3>3
  <2>4. CASE a # b
    <3>1. pushed'[a] = pushed[a] /\ ~IsReplyOf(a, e)
      BY <1>1, <1>3, <2>1, <2>4 DEF Pushes, IsReplyOf
    <3>2. Ordered(a, wire, lost, Append(queue, e), pushed[a])
      BY <1>1, <1>2, <2>1, <3>1, OrderedOther
    <3> QED
      BY <2>2, <3>1, <3>2
  <2> QED
    BY <2>3, <2>4
<1>4. CASE PopAndSend
  <2>1. /\ queue # <<>> /\ queue' = Tail(queue) /\ Head(queue) \in Replies /\ pushed' = pushed
        /\ \/ wire' = Append(wire, Head(queue)) /\ lost' = lost
           \/ wire' = wire /\ lost' = Append(lost, Head(queue))
    BY <1>4, PopShape
  <2>2. CASE IsReplyOf(a, Head(queue))
    <3>1. /\ Ordered(a, Append(wire, Head(queue)), lost, Tail(queue), pushed[a])
          /\ Ordered(a, wire, Append(lost, Head(queue)), Tail(queue), pushed[a])
      BY <1>1, <1>2, <2>1, <2>2, OrderedPop
    <3> QED
      BY <2>1, <3>1
  <2>3. CASE ~IsReplyOf(a, Head(queue))
    <3>1. Ordered(a, wire, lost, Tail(queue), pushed[a]) /\ Tail(queue) \in Seq(Replies)
      BY <1>1, <1>2, <2>1, <2>3, OrderedOther
    <3>2. Head(queue) \in Outbound
      BY <2>1 DEF Outbound
    <3>3. /\ Ordered(a, Append(wire, Head(queue)), lost, Tail(queue), pushed[a])
          /\ Ordered(a, wire, Append(lost, Head(queue)), Tail(queue), pushed[a])
      BY <1>1, <2>1, <2>3, <3>1, <3>2, OrderedOther
    <3> QED
      BY <2>1, <3>3
  <2> QED
    BY <2>2, <2>3
<1>5. CASE Chatters
  <2>1. lost' = lost /\ queue' = queue /\ pushed' = pushed
    BY <1>5 DEF Chatters
  <2>2. ASSUME NEW e, Written(e), NEW w \in Seq(Outbound),
               Ordered(a, w, lost, queue, pushed[a])
        PROVE  Ordered(a, Append(w, e), lost, queue, pushed[a]) /\ Append(w, e) \in Seq(Outbound)
    BY <1>1, <2>2, OrderedOther DEF Written, IsReplyOf
  <2>3. CASE wire' = wire
    BY <1>2, <2>1, <2>3
  <2>4. CASE \E e : Written(e) /\ wire' = Append(wire, e)
    BY <1>1, <1>2, <2>1, <2>2, <2>4
  <2> QED
    BY <1>5, <2>3, <2>4 DEF Chatters
<1>6. CASE UNCHANGED <<wire, lost, queue, pushed>>
  BY <1>2, <1>6
<1> QED
  BY <1>3, <1>4, <1>5, <1>6, PushShape, RejectShape, OtherShape

\* The replies of every request leave the loop in the order its handler returned them,
\* none twice and none skipped, for any number of handler threads and envelopes.
THEOREM RepliesInOrder == Spec => []InOrderOnce
<1>1. Init => InOrderOnce
  <2> SUFFICES ASSUME Init, NEW a \in Actions
               PROVE  Ordered(a, wire, lost, queue, pushed[a])
    BY InOrderOrdered
  <2>1. wire = <<>> /\ lost = <<>> /\ queue = <<>> /\ pushed[a] = 0
    BY DEF Init
  <2>2. RepliesIn(a, <<>>) = {}
    BY DEF RepliesIn
  <2>3. Numbers(a, <<>>) = {} /\ Ascending(a, <<>>)
    BY <2>2 DEF Numbers, Ascending
  <2>4. PassedOf(a, <<>>, <<>>) = 0
    BY <2>2, FS_EmptySet DEF PassedOf
  <2>5. Ordered(a, <<>>, <<>>, <<>>, 0)
    <3>1. 1..0 = {} /\ 0 + 1..0 = {} /\ 0 <= 0
      OBVIOUS
    <3> QED
      BY <2>3, <2>4, <3>1, Zenon DEF Ordered
  <2> QED
    BY <2>1, <2>5
<1>2. IndInv /\ InOrderOnce /\ [Next]_vars => InOrderOnce'
  BY OrderStep
<1> QED
  BY <1>1, <1>2, Invariance, PTL DEF Spec

-----------------------------------------------------------------------------
(***************************************************************************)
(* The loop implements ReplyService.                                       *)
(***************************************************************************)
\* What is written at the positions of a set, in order; every rank has its position.
GotFrom(P, w) == [r \in 1..Cardinality(P) |-> w[Pick(Ranked(P, r))].n]
FilledIn(P) == \A r \in 1..Cardinality(P) : Ranked(P, r) # {}

\* The elements of a finite set of numbers up to one of them are some of it.
LEMMA RankBound ==
    ASSUME NEW P, IsFiniteSet(P), NEW p
    PROVE  /\ IsFiniteSet({q \in P : q <= p})
           /\ Cardinality({q \in P : q <= p}) \in Nat /\ Cardinality(P) \in Nat
           /\ Cardinality({q \in P : q <= p}) <= Cardinality(P)
<1>1. {q \in P : q <= p} \in SUBSET P
  OBVIOUS
<1> QED
  BY <1>1, FS_Subset, FS_CardinalityType

\* A position after all others is the last one, and leaves theirs as they were.
LEMMA RankedAppend ==
    ASSUME NEW P, IsFiniteSet(P), P \subseteq Nat, NEW k \in Nat, \A p \in P : p < k
    PROVE  /\ \A r \in 1..Cardinality(P) : Ranked(P \cup {k}, r) = Ranked(P, r)
           /\ Ranked(P \cup {k}, Cardinality(P) + 1) = {k}
<1> DEFINE Q == P \cup {k}
           c == Cardinality(P)
<1>1. k \notin P /\ IsFiniteSet(Q) /\ Cardinality(Q) = c + 1 /\ c \in Nat
  BY FS_AddElement, FS_CardinalityType
<1>2. \A p \in P : {q \in Q : q <= p} = {q \in P : q <= p}
  OBVIOUS
<1>3. {q \in Q : q <= k} = Q
  <2>1. \A q \in Q : q <= k
    OBVIOUS
  <2> QED
    BY <2>1
<1>4. \A p \in P : /\ Cardinality({q \in Q : q <= p}) = Cardinality({q \in P : q <= p})
                   /\ Cardinality({q \in P : q <= p}) \in Nat
                   /\ Cardinality({q \in P : q <= p}) <= c
  BY <1>2, RankBound
<1>5. Cardinality({q \in Q : q <= k}) = c + 1
  BY <1>1, <1>3
<1> HIDE DEF c
<1>6. ASSUME NEW r \in 1..c  PROVE Ranked(Q, r) = Ranked(P, r)
  <2>1. \A p : p \in Ranked(Q, r) <=> p \in Ranked(P, r)
    <3> SUFFICES ASSUME NEW p  PROVE p \in Ranked(Q, r) <=> p \in Ranked(P, r)
      OBVIOUS
    <3>1. CASE p \in P
      BY <1>4, <3>1 DEF Ranked
    <3>2. CASE p = k
      <4>1. r # c + 1
        BY <1>1
      <4> QED
        BY <1>1, <1>5, <3>2, <4>1 DEF Ranked
    <3>3. CASE p \notin Q
      BY <3>3 DEF Ranked
    <3> QED
      BY <3>1, <3>2, <3>3
  <2> QED
    BY <2>1
<1>7. Ranked(Q, c + 1) = {k}
  <2>1. \A p : p \in Ranked(Q, c + 1) <=> p = k
    <3> SUFFICES ASSUME NEW p  PROVE p \in Ranked(Q, c + 1) <=> p = k
      OBVIOUS
    <3>1. CASE p \in P
      <4>1. Cardinality({q \in Q : q <= p}) # c + 1 /\ p # k
        BY <1>1, <1>4, <3>1
      <4> QED
        BY <4>1 DEF Ranked
    <3>2. CASE p = k
      BY <1>5, <3>2 DEF Ranked
    <3>3. CASE p \notin Q
      BY <3>3 DEF Ranked
    <3> QED
      BY <3>1, <3>2, <3>3
  <2> QED
    BY <2>1
<1> QED
  BY <1>6, <1>7 DEF c

\* The only element of a set is the one that is picked.
LEMMA PickOne ==
    ASSUME NEW k
    PROVE  Pick({k}) = k
BY DEF Pick

\* The element picked from a set that has one is in it.
LEMMA PickIn ==
    ASSUME NEW S, S # {}
    PROVE  Pick(S) \in S
BY DEF Pick

\* What the kernel got of a request, when the envelope written is not a reply of it
LEMMA GotOther ==
    ASSUME NEW w \in Seq(Outbound), NEW e \in Outbound, NEW a, ~IsReplyOf(a, e),
           FilledIn(RepliesIn(a, w))
    PROVE  LET v == Append(w, e)
           IN  /\ RepliesIn(a, v) = RepliesIn(a, w)
               /\ GotFrom(RepliesIn(a, v), v) = GotFrom(RepliesIn(a, w), w)
<1> DEFINE v == Append(w, e)
           P == RepliesIn(a, w)
<1>1. RepliesIn(a, v) = P /\ \A i \in P : v[i] = w[i]
  BY AppendOther
<1> HIDE DEF v, P
<1>2. ASSUME NEW r \in 1..Cardinality(P)  PROVE v[Pick(Ranked(P, r))] = w[Pick(Ranked(P, r))]
  <2>1. Pick(Ranked(P, r)) \in Ranked(P, r)
    BY PickIn DEF FilledIn, P
  <2>2. Pick(Ranked(P, r)) \in P
    BY <2>1 DEF Ranked
  <2> QED
    BY <1>1, <2>2
<1>3. GotFrom(P, v) = GotFrom(P, w)
  BY <1>2 DEF GotFrom
<1> QED
  BY <1>1, <1>3 DEF v, P

\* and when it is one.
LEMMA GotOwn ==
    ASSUME NEW w \in Seq(Outbound), NEW e \in Outbound, NEW a, IsReplyOf(a, e),
           FilledIn(RepliesIn(a, w))
    PROVE  LET v == Append(w, e)
           IN  /\ FilledIn(RepliesIn(a, v))
               /\ Cardinality(RepliesIn(a, v)) = Cardinality(RepliesIn(a, w)) + 1
               /\ GotFrom(RepliesIn(a, v), v) = Append(GotFrom(RepliesIn(a, w), w), e.n)
<1> DEFINE v == Append(w, e)
           P == RepliesIn(a, w)
           Q == RepliesIn(a, v)
           k == Len(w) + 1
           c == Cardinality(P)
<1>1. /\ Q = P \cup {k} /\ v[k] = e /\ Cardinality(Q) = c + 1
      /\ \A i \in P : v[i] = w[i]
  <2>1. Q = P \cup {k}
    BY AppendOwn
  <2>4. \A i \in P : v[i] = w[i]
    BY DEF RepliesIn
  <2>2. v[k] = e
    BY AppendOwn
  <2>3. Cardinality(Q) = c + 1
    BY AppendOwn
  <2> QED
    BY <2>1, <2>2, <2>3, <2>4
<1>2. IsFiniteSet(P) /\ P \subseteq 1..Len(w) /\ c \in Nat
  BY RepliesFinite
<1>3. P \subseteq Nat /\ k \in Nat /\ \A p \in P : p < k
  BY <1>2
<1> HIDE DEF P, Q, v, k
<1>4. /\ \A r \in 1..c : Ranked(Q, r) = Ranked(P, r)
      /\ Ranked(Q, c + 1) = {k}
  BY <1>1, <1>2, <1>3, RankedAppend
<1> HIDE DEF c
<1>5. \A r \in 1..c : Ranked(P, r) # {}
  BY DEF FilledIn, P, c
<1>6. 1..c + 1 = (1..c) \cup {c + 1} /\ c + 1 \notin 1..c
  BY <1>2
<1>7. FilledIn(Q)
  BY <1>1, <1>4, <1>5, <1>6 DEF FilledIn
<1>8. ASSUME NEW r \in 1..c  PROVE v[Pick(Ranked(Q, r))].n = w[Pick(Ranked(P, r))].n
  <2>1. Pick(Ranked(P, r)) \in Ranked(P, r)
    BY <1>5, PickIn
  <2>2. Pick(Ranked(P, r)) \in P
    BY <2>1 DEF Ranked
  <2> QED
    BY <1>1, <1>4, <2>2
<1>9. v[Pick(Ranked(Q, c + 1))].n = e.n
  BY <1>1, <1>4, PickOne
<1>10. GotFrom(Q, v) = Append(GotFrom(P, w), e.n)
  <2> DEFINE g == [r \in 1..c |-> w[Pick(Ranked(P, r))].n]
             h == [r \in 1..c + 1 |-> v[Pick(Ranked(Q, r))].n]
  <2>1. GotFrom(P, w) = g /\ GotFrom(Q, v) = h
    BY <1>1 DEF GotFrom, c
  <2>2. \A r \in 1..c : g[r] = h[r]
    BY <1>6, <1>8
  <2>3. h[c + 1] = e.n
    BY <1>6, <1>9
  <2>4. DOMAIN g = 1..c /\ DOMAIN h = 1..c + 1 /\ h = [r \in 1..c + 1 |-> h[r]]
    OBVIOUS
  <2>5. g = [r \in 1..c |-> g[r]]
    OBVIOUS
  <2> HIDE DEF g, h
  <2>6. Len(g) = c
    BY <1>2, <2>4, <2>5
  <2>7. h = [r \in 1..c + 1 |-> IF r = c + 1 THEN e.n ELSE g[r]]
    BY <1>6, <2>2, <2>3, <2>4
  <2>8. Append(g, e.n) = h
    BY <1>2, <2>5, <2>6, <2>7
  <2> QED
    BY <2>1, <2>8
<1> QED
  BY <1>1, <1>7, <1>10 DEF P, Q, v, c

\* Every reply on the wire has its place among those of its request.
Filled == \A a \in Actions : FilledIn(RepliesIn(a, wire))

\* What the kernel got of a request stays the same when no reply is written.
SameReplies(a) ==
    /\ RepliesIn(a, wire') = RepliesIn(a, wire)
    /\ GotFrom(RepliesIn(a, wire'), wire') = GotFrom(RepliesIn(a, wire), wire)

\* Acks, pongs and other envelopes change nothing for any request.
LEMMA ChatterKeeps ==
    ASSUME IndInv, Filled, Chatters, NEW a \in Actions
    PROVE  SameReplies(a)
<1>1. wire \in Seq(Outbound) /\ FilledIn(RepliesIn(a, wire))
  BY DEF IndInv, TypeOK, Filled
<1>2. ASSUME NEW e, Written(e), NEW w \in Seq(Outbound), FilledIn(RepliesIn(a, w))
      PROVE  /\ Append(w, e) \in Seq(Outbound)
             /\ RepliesIn(a, Append(w, e)) = RepliesIn(a, w)
             /\ GotFrom(RepliesIn(a, Append(w, e)), Append(w, e)) = GotFrom(RepliesIn(a, w), w)
  <2>1. e \in Outbound /\ ~IsReplyOf(a, e)
    BY <1>2 DEF Written, IsReplyOf
  <2>2. Append(w, e) \in Seq(Outbound)
    BY <2>1
  <2> QED
    BY <1>2, <2>1, <2>2, GotOther
<1>3. CASE wire' = wire
  BY <1>3 DEF SameReplies
<1>4. CASE \E e : Written(e) /\ wire' = Append(wire, e)
  <2>1. PICK e : Written(e) /\ wire' = Append(wire, e)
    BY <1>4
  <2> QED
    BY <1>1, <1>2, <2>1 DEF SameReplies
<1> QED
  BY <1>3, <1>4 DEF Chatters

\* A step that writes no reply and loses none keeps the abstract state but for the
\* envelopes owed.
LEMMA QuietMap ==
    ASSUME Filled, \A a \in Actions : SameReplies(a), lost' = lost
    PROVE  /\ Filled' /\ UNCHANGED [a \in Actions |-> Passed(a)]
           /\ UNCHANGED [a \in Actions |-> Got(a)]
<1>1. Filled'
  BY DEF Filled, SameReplies
<1>2. ASSUME NEW a \in Actions  PROVE Passed(a)' = Passed(a) /\ Got(a)' = Got(a)
  BY DEF Passed, Got, GotFrom, SameReplies
<1> QED
  BY <1>1, <1>2

\* Sending the head of the queue is Send of its request, losing it is Skip.
LEMMA PopMap ==
    ASSUME IndInv, InOrderOnce, Owed, Filled, PopAndSend
    PROVE  Filled' /\ \E a \in Actions : Abstract!Send(a) \/ Abstract!Skip(a)
<1>1. /\ wire \in Seq(Outbound) /\ lost \in Seq(Replies) /\ queue \in Seq(Replies)
      /\ pushed \in [Actions -> 0..MaxOut] /\ produced \in [Actions -> 0..MaxOut]
  BY DEF IndInv, TypeOK
<1>2. /\ queue # <<>> /\ Head(queue) \in Replies /\ produced' = produced
      /\ \/ wire' = Append(wire, Head(queue)) /\ lost' = lost
         \/ wire' = wire /\ lost' = Append(lost, Head(queue))
  BY PopShape
<1>3. PICK e : e = Head(queue)
  OBVIOUS
<1>4. PICK a \in Actions : a = e.act
  BY <1>2, <1>3 DEF Replies
<1>5. e \in Replies /\ e \in Outbound /\ IsReplyOf(a, e)
  BY <1>2, <1>3, <1>4 DEF Replies, Outbound, IsReplyOf
<1>6. \A b \in Actions : b # a => ~IsReplyOf(b, e)
  BY <1>4 DEF IsReplyOf
<1>7. e.n = Passed(a) + 1 /\ Passed(a) < produced[a]
  <2>1. Ordered(a, wire, lost, queue, pushed[a])
    BY InOrderOrdered
  <2>2. pushed[a] \in Nat /\ produced[a] \in Nat /\ pushed[a] <= produced[a]
    BY <1>1, OutAssumption DEF Owed
  <2>3. e.n = PassedOf(a, wire, lost) + 1 /\ PassedOf(a, wire, lost) < pushed[a]
    BY <1>1, <1>2, <1>3, <1>5, <2>1, <2>2, HeadIsNext
  <2>4. PassedOf(a, wire, lost) \in Nat
    BY <1>1, PassedNat
  <2> QED
    BY <2>2, <2>3, <2>4 DEF Passed, PassedOf
<1>8. \A b \in Actions : /\ Cardinality(RepliesIn(b, wire)) \in Nat
                         /\ Cardinality(RepliesIn(b, lost)) \in Nat
  BY <1>1, RepliesFinite
<1>9. CASE wire' = Append(wire, e) /\ lost' = lost
  <2>1. \A b \in Actions : b # a => SameReplies(b)
    BY <1>1, <1>5, <1>6, <1>9, GotOther DEF Filled, SameReplies
  <2>2. /\ FilledIn(RepliesIn(a, wire'))
        /\ Cardinality(RepliesIn(a, wire')) = Cardinality(RepliesIn(a, wire)) + 1
        /\ GotFrom(RepliesIn(a, wire'), wire')
             = Append(GotFrom(RepliesIn(a, wire), wire), e.n)
    BY <1>1, <1>5, <1>9, GotOwn DEF Filled
  <2>3. Filled'
    BY <2>1, <2>2 DEF Filled, SameReplies
  <2>4. \A b \in Actions : b # a => Passed(b)' = Passed(b) /\ Got(b)' = Got(b)
    BY <1>9, <2>1 DEF Passed, Got, GotFrom, SameReplies
  <2>5. Passed(a)' = Passed(a) + 1
    BY <1>8, <1>9, <2>2 DEF Passed
  <2>6. Got(a)' = Append(Got(a), Passed(a) + 1)
    BY <1>7, <2>2 DEF Got, GotFrom
  <2>7. Abstract!Send(a)
    BY <1>2, <1>7, <2>4, <2>5, <2>6 DEF Abstract!Send, Abstract!Pass
  <2> QED
    BY <2>3, <2>7
<1>10. CASE wire' = wire /\ lost' = Append(lost, e)
  <2>1. Filled' /\ \A b \in Actions : Got(b)' = Got(b)
    BY <1>10 DEF Filled, Got
  <2>2. \A b \in Actions : b # a => RepliesIn(b, lost') = RepliesIn(b, lost)
    BY <1>1, <1>5, <1>6, <1>10, AppendOther
  <2>3. Cardinality(RepliesIn(a, lost')) = Cardinality(RepliesIn(a, lost)) + 1
    BY <1>1, <1>5, <1>10, AppendOwn
  <2>4. \A b \in Actions : b # a => Passed(b)' = Passed(b)
    BY <1>10, <2>2 DEF Passed
  <2>5. Passed(a)' = Passed(a) + 1
    BY <1>8, <1>10, <2>3 DEF Passed
  <2>6. Abstract!Skip(a)
    BY <1>2, <1>7, <2>1, <2>4, <2>5 DEF Abstract!Skip, Abstract!Pass
  <2> QED
    BY <2>1, <2>6
<1> QED
  BY <1>2, <1>3, <1>9, <1>10

\* Every step of a thread or of the kernel is a step of the reply service, or none.
LEMMA RefinementStep ==
    ASSUME IndInv, InOrderOnce, Owed, Filled, [Next]_vars
    PROVE  Filled' /\ [Abstract!Next]_(Abstract!vars)
<1>1. CASE PopAndSend
  BY <1>1, PopMap DEF Abstract!Next
<1>2. CASE ~PopAndSend
  <2>1. lost' = lost /\ \A a \in Actions : SameReplies(a)
    <3>1. CASE Chatters
      BY <3>1, ChatterKeeps DEF Chatters
    <3>2. CASE UNCHANGED <<wire, lost>>
      BY <3>2 DEF SameReplies
    <3> QED
      BY <1>2, <3>1, <3>2, OtherShape, PushShape, RejectShape DEF Pushes
  <2>2. /\ Filled' /\ UNCHANGED [a \in Actions |-> Passed(a)]
        /\ UNCHANGED [a \in Actions |-> Got(a)]
    BY <2>1, QuietMap
  <2>3. CASE produced' = produced
    BY <2>2, <2>3 DEF Abstract!vars
  <2>4. CASE \E a \in Actions : Returns(a)
    <3>1. PICK a \in Actions : Returns(a)
      BY <2>4
    <3>2. Abstract!Return(a)
      BY <2>2, <3>1 DEF Returns, Abstract!Return
    <3> QED
      BY <2>2, <3>2 DEF Abstract!Next
  <2> QED
    BY <2>3, <2>4, OwedStep
<1> QED
  BY <1>1, <1>2

\* serve_concurrent implements ReplyService (concurrent.cpp:38-55, 132-133, 150-152): for
\* any number of handler threads, however they interleave with the loop and the kernel,
\* the replies of a request leave one by one, in the order its handler returned them.
THEOREM Refinement == Spec => ImplementsReplies
<1>1. Init => Owed /\ Filled /\ Abstract!Init
  <2> SUFFICES ASSUME Init  PROVE Owed /\ Filled /\ Abstract!Init
    OBVIOUS
  <2>1. /\ wire = <<>> /\ lost = <<>> /\ produced = [a \in Actions |-> 0]
        /\ pushed = [a \in Actions |-> 0]
    BY DEF Init
  <2>2. \A a \in Actions : RepliesIn(a, <<>>) = {}
    BY DEF RepliesIn
  <2>3. Cardinality({}) = 0 /\ 1..0 = {} /\ 0 + 0 = 0
    BY FS_EmptySet
  <2>4. Owed
    BY <2>1 DEF Owed
  <2>5. Filled
    BY <2>1, <2>2, <2>3 DEF Filled, FilledIn
  <2>6. \A a \in Actions : Passed(a) = 0
    BY <2>1, <2>2, <2>3 DEF Passed
  <2>7. \A a \in Actions : Got(a) = <<>>
    <3> SUFFICES ASSUME NEW a \in Actions  PROVE Got(a) = <<>>
      OBVIOUS
    <3>1. Cardinality(RepliesIn(a, wire)) = 0
      BY <2>1, <2>2, <2>3
    <3>2. \E f : Got(a) = [r \in 1..0 |-> f[r]]
      <4>1. Got(a) = [r \in 1..0 |-> Got(a)[r]]
        BY <3>1 DEF Got
      <4> QED
        BY <4>1
    <3> QED
      BY <3>2
  <2>8. Abstract!Init
    BY <2>1, <2>6, <2>7 DEF Abstract!Init
  <2> QED
    BY <2>4, <2>5, <2>8
<1>2. IndInv /\ InOrderOnce /\ Owed /\ Filled /\ [Next]_vars
        => Owed' /\ Filled' /\ [Abstract!Next]_(Abstract!vars)
  BY OwedStep, RefinementStep
<1> QED
  BY <1>1, <1>2, Invariance, RepliesInOrder, PTL DEF Spec, ImplementsReplies, Abstract!Spec

=============================================================================
