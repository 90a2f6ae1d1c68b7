------------------------- MODULE PluginServeProofs --------------------------
(***************************************************************************)
(* Proofs about PluginServe, for every set of events and every number of   *)
(* frames.                                                                 *)
(***************************************************************************)
EXTENDS PluginServe, TLAPS

Frames == Events \cup {"ping", "action", "bad", "answer", "shutdown"}

\* What is known of the calls made so far, at each place of serve.
Stages ==
    /\ pc \in {"start", "register"} => calls.init = 0
    /\ pc \notin {"start", "register", "ended"} => calls.init = 1
    /\ pc # "ended" => calls.shutdown = 0
    /\ pc \notin {"shutdown", "ended"} => calls.threw = 0
    /\ pc # "ended" => (err <=> calls.threw = 1)
    /\ pc \notin {"start", "ended"} => client

\* The event to be acked was handled.
Acking == pc = "ack" => ev \in handled

IndInv ==
    /\ TypeOK /\ inbox \in Seq(Frames) /\ client \in BOOLEAN /\ err \in BOOLEAN
    /\ Stages /\ Acking /\ HandlerErrorPropagates /\ AckedWasHandled /\ OnShutdownRuns

-----------------------------------------------------------------------------
\* The steps of the kernel and of a waiting handler change the inbox and nothing that
\* serve has decided.
LEMMA InboxStep ==
    ASSUME IndInv, Kernel \/ HandlerRequests \/ SendRequest \/ HandlerReceives \/ HandlerGivesUp
    PROVE  IndInv'
<1> USE DEF IndInv, serveVars, kernelVars
<1>1. UNCHANGED <<pc, ev, client, err, outcome, calls, handled, acked>>
  BY DEF Kernel, KernelPings, KernelAsks, KernelDelivers, KernelAnswers, KernelShutsDown,
     KernelCloses, KernelStalls, KernelPuts, HandlerRequests, SendRequest, HandlerReceives,
     HandlerGivesUp
<1>2. /\ waiting' \in {"no", "write", "answer"}
      /\ waiting' # "no" => pc \in Handlers
  BY DEF Kernel, KernelPings, KernelAsks, KernelDelivers, KernelAnswers, KernelShutsDown,
     KernelCloses, KernelStalls, KernelPuts, HandlerRequests, SendRequest, HandlerReceives,
     HandlerGivesUp, TypeOK
<1>3. inbox' \in Seq(Frames) /\ Len(inbox') <= InboxCap
  <2>1. ASSUME NEW f \in Frames, KernelPuts(f)
        PROVE  inbox' \in Seq(Frames) /\ Len(inbox') <= InboxCap
    BY <2>1, BoundAssumption DEF KernelPuts, TypeOK
  <2>2. CASE KernelPings \/ KernelAsks \/ KernelDelivers \/ KernelAnswers \/ KernelShutsDown
    <3>1. \E f \in Frames : KernelPuts(f)
      BY <2>2 DEF KernelPings, KernelAsks, KernelDelivers, KernelAnswers, KernelShutsDown, Frames
    <3> QED
      BY <2>1, <3>1
  <2>3. CASE HandlerReceives
    BY <2>3, BoundAssumption DEF HandlerReceives, TypeOK
  <2>4. CASE KernelCloses \/ KernelStalls \/ HandlerRequests \/ SendRequest \/ HandlerGivesUp
    BY <2>4 DEF KernelCloses, KernelStalls, HandlerRequests, SendRequest, HandlerGivesUp, TypeOK
  <2> QED
    BY <2>2, <2>3, <2>4 DEF Kernel
<1>4. TypeOK'
  BY <1>1, <1>2, <1>3 DEF TypeOK
<1>5. Stages' /\ Acking' /\ HandlerErrorPropagates' /\ AckedWasHandled' /\ OnShutdownRuns'
  BY <1>1 DEF Stages, Acking, HandlerErrorPropagates, AckedWasHandled, OnShutdownRuns
<1> QED
  BY <1>1, <1>3, <1>4, <1>5

\* Taking a frame off the inbox keeps its type and its bound.
LEMMA TakeFrame ==
    ASSUME IndInv, NEW f, Recv(f)
    PROVE  pc = "loop" /\ inbox' \in Seq(Frames) /\ Len(inbox') <= InboxCap
BY BoundAssumption DEF IndInv, TypeOK, Recv

\* Registration and on_init.
LEMMA StartStep ==
    ASSUME IndInv, Registering \/ OnInitReturns \/ OnInitThrows
    PROVE  IndInv'
<1> USE DEF IndInv, serveVars, kernelVars
<1>1. UNCHANGED <<waiting, inbox, ev, err, handled, acked>>
  BY DEF Registering, StartServe, RegisterThrows, Rejected, Accepted, OnInitReturns,
     OnInitThrows, Ends
<1>2. client' \in BOOLEAN /\ pc \in {"start", "register", "init"} /\ waiting = "no"
  BY DEF Registering, StartServe, RegisterThrows, Rejected, Accepted, OnInitReturns,
     OnInitThrows, Ends, TypeOK, Handlers
<1>3. calls' \in [init : 0..1, shutdown : 0..1, threw : 0..1] /\ calls'.threw = 0
  BY <1>2 DEF Registering, StartServe, RegisterThrows, Rejected, Accepted, OnInitReturns,
     OnInitThrows, Ends, TypeOK, Stages
<1>4. TypeOK'
  BY <1>1, <1>2, <1>3 DEF Registering, StartServe, RegisterThrows, Rejected, Accepted,
     OnInitReturns, OnInitThrows, Ends, TypeOK, PCs, Handlers, Writes, Thrown
<1>5. Stages' /\ HandlerErrorPropagates'
  BY <1>1, <1>2, <1>3 DEF Registering, StartServe, RegisterThrows, Rejected, Accepted,
     OnInitReturns, OnInitThrows, Ends, TypeOK, Stages, HandlerErrorPropagates
<1>6. AckedWasHandled' /\ Acking'
  BY <1>1 DEF AckedWasHandled, Acking, Registering, StartServe, RegisterThrows, Rejected,
     Accepted, OnInitReturns, OnInitThrows, Ends
<1>7. OnShutdownRuns'
  BY <1>1, <1>2, <1>3 DEF Registering, StartServe, RegisterThrows, Rejected, Accepted,
     OnInitReturns, OnInitThrows, Ends, TypeOK, Stages, OnShutdownRuns
<1> QED
  BY <1>1, <1>2, <1>4, <1>5, <1>6, <1>7

\* The end of a handler, and the writes that follow it and do not end serve.
HandlerSteps ==
    \/ OnEventReturns \/ OnEventThrows \/ OnMessageReturns \/ OnMessageThrows
    \/ SendAck \/ SendEventReply \/ SendMessageReply \/ SendPong

LEMMA HandlerStep ==
    ASSUME IndInv, HandlerSteps
    PROVE  IndInv'
<1> USE DEF IndInv, serveVars, kernelVars
<1>1. UNCHANGED <<waiting, inbox, client, outcome>> /\ waiting = "no"
  BY DEF HandlerSteps, OnEventReturns, OnEventThrows, OnMessageReturns, OnMessageThrows,
     OnMessageFails, SendAck, SendEventReply, SendMessageReply, SendPong, TypeOK, Handlers
<1>2. /\ pc \in {"event", "message"} \cup Writes
      /\ pc' \in {"loop", "shutdown", "ack", "event_reply", "message_reply"}
      /\ outcome = "none" /\ ev' \in Events \cup {NoEvent} /\ (ev' # NoEvent <=> pc' = "ack")
  <2>1. CASE OnEventReturns \/ OnEventThrows \/ SendAck
    BY <2>1 DEF OnEventReturns, OnEventThrows, SendAck, TypeOK, Writes
  <2>2. CASE OnMessageReturns \/ OnMessageThrows \/ SendEventReply \/ SendMessageReply \/ SendPong
    BY <2>2 DEF OnMessageReturns, OnMessageThrows, OnMessageFails, SendEventReply,
       SendMessageReply, SendPong, TypeOK, Writes
  <2> QED
    BY <2>1, <2>2 DEF HandlerSteps
<1>3. /\ calls' \in [init : 0..1, shutdown : 0..1, threw : 0..1]
      /\ calls'.init = 1 /\ calls'.shutdown = 0 /\ err' \in BOOLEAN
      /\ pc' # "shutdown" => calls'.threw = 0
      /\ err' <=> calls'.threw = 1
  <2>1. /\ calls \in [init : 0..1, shutdown : 0..1, threw : 0..1]
        /\ calls.init = 1 /\ calls.shutdown = 0 /\ calls.threw = 0 /\ ~err
    BY <1>2 DEF TypeOK, Stages, Writes
  <2>2. CASE OnMessageThrows
    <3>1. calls' = [calls EXCEPT !.threw = @ + 1] /\ err' = TRUE /\ pc' = "shutdown"
      BY <2>2 DEF OnMessageThrows
    <3>2. calls'.init = 1 /\ calls'.shutdown = 0 /\ calls'.threw = 1
      BY <2>1, <3>1
    <3>3. calls' \in [init : 0..1, shutdown : 0..1, threw : 0..1]
      BY <2>1, <3>1
    <3> QED
      BY <3>1, <3>2, <3>3
  <2>3. CASE ~OnMessageThrows
    <3>1. calls' = calls /\ err' = err
      BY <2>3 DEF HandlerSteps, OnEventReturns, OnEventThrows, OnMessageReturns, SendAck,
         SendEventReply, SendMessageReply, SendPong
    <3> QED
      BY <2>1, <3>1
  <2> QED
    BY <2>2, <2>3
<1>4. acked' \subseteq handled' /\ handled' \subseteq Events
  <2>1. CASE OnEventReturns
    <3>1. ev \in Events /\ handled' = handled \cup {ev} /\ acked' = acked
      BY <2>1 DEF OnEventReturns, TypeOK
    <3> QED
      BY <3>1 DEF AckedWasHandled, TypeOK
  <2>2. CASE SendAck
    <3>1. ev \in handled /\ handled' = handled /\ acked' \in {acked, acked \cup {ev}}
      BY <2>2 DEF SendAck, Acking
    <3> QED
      BY <3>1 DEF AckedWasHandled, TypeOK
  <2>3. CASE ~OnEventReturns /\ ~SendAck
    BY <2>3 DEF HandlerSteps, OnEventThrows, OnMessageReturns, OnMessageThrows, SendEventReply,
       SendMessageReply, SendPong, AckedWasHandled, TypeOK
  <2> QED
    BY <2>1, <2>2, <2>3
<1>5. pc' = "ack" => ev' \in handled'
  BY <1>2 DEF HandlerSteps, OnEventReturns, OnEventThrows, OnMessageReturns, OnMessageThrows,
     SendAck, SendEventReply, SendMessageReply, SendPong
<1>6. TypeOK' /\ AckedWasHandled' /\ Acking'
  BY <1>1, <1>2, <1>3, <1>4, <1>5 DEF TypeOK, PCs, Writes, AckedWasHandled, Acking
<1>7. client
  BY <1>2 DEF Stages, Writes
<1>8. Stages' /\ HandlerErrorPropagates' /\ OnShutdownRuns'
  BY <1>1, <1>2, <1>3, <1>7 DEF Stages, HandlerErrorPropagates, OnShutdownRuns
<1> QED
  BY <1>1, <1>3, <1>6, <1>8

\* The receive loop, and the two ways it ends.
LEMMA LoopStep ==
    ASSUME IndInv,
           \/ RecvThrows \/ OnPluginShutdown \/ OnPing \/ StartEvent \/ StartMessage
           \/ PongThrows \/ OnShutdown
    PROVE  IndInv'
<1> USE DEF IndInv, serveVars, kernelVars
<1>1. UNCHANGED <<waiting, err, handled, acked>>
  BY DEF RecvThrows, OnPluginShutdown, OnPing, PongThrows, StartEvent, StartMessage, OnShutdown
<1>2. /\ inbox' \in Seq(Frames) /\ Len(inbox') <= InboxCap /\ pc \in {"loop", "pong", "shutdown"}
  <2>1. CASE OnShutdown \/ PongThrows
    BY <2>1 DEF OnShutdown, PongThrows, TypeOK
  <2>2. CASE RecvThrows /\ UNCHANGED inbox
    BY <2>2 DEF RecvThrows, Recv, TypeOK
  <2>3. CASE ~OnShutdown /\ ~PongThrows /\ ~(RecvThrows /\ UNCHANGED inbox)
    <3>1. \E f : Recv(f)
      BY <2>3 DEF RecvThrows, OnPluginShutdown, OnPing, StartEvent, StartMessage
    <3> QED
      BY <3>1, TakeFrame
  <2> QED
    BY <2>1, <2>2, <2>3
<1>3. waiting = "no" /\ AckedWasHandled'
  BY <1>1, <1>2 DEF TypeOK, Handlers, AckedWasHandled
<1>4. CASE RecvThrows \/ OnPluginShutdown \/ OnPing \/ StartMessage
  <2>1. /\ UNCHANGED <<ev, client, outcome, calls>> /\ pc = "loop"
        /\ pc' \in {"loop", "shutdown", "message", "pong"}
    BY <1>4 DEF RecvThrows, OnPluginShutdown, OnPing, StartMessage, Recv
  <2>2. TypeOK' /\ Acking'
    BY <1>1, <1>2, <1>3, <2>1 DEF TypeOK, PCs, Handlers, Writes, Acking
  <2>3. Stages' /\ HandlerErrorPropagates' /\ OnShutdownRuns'
    BY <1>1, <2>1 DEF Stages, HandlerErrorPropagates, OnShutdownRuns
  <2> QED
    BY <1>1, <1>2, <1>3, <2>1, <2>2, <2>3
<1>5. CASE StartEvent
  <2>1. /\ UNCHANGED <<client, outcome, calls>> /\ pc = "loop" /\ pc' = "event"
        /\ ev' \in Events
    BY <1>5 DEF StartEvent, Recv
  <2>2. ev' # NoEvent
    BY <2>1, EventAssumption DEF NoEvent
  <2> QED
    BY <1>1, <1>2, <1>3, <2>1, <2>2 DEF TypeOK, PCs, Handlers, Stages, HandlerErrorPropagates,
       OnShutdownRuns, Acking
<1>6. CASE PongThrows
  <2>1. /\ UNCHANGED <<ev, client, calls>> /\ pc = "pong" /\ pc' = "ended" /\ outcome' = "pong"
    BY <1>6 DEF PongThrows, Ends
  <2> QED
    BY <1>1, <1>2, <1>3, <2>1 DEF TypeOK, PCs, Thrown, Stages, HandlerErrorPropagates,
       OnShutdownRuns, Acking
<1>7. CASE OnShutdown
  <2>1. /\ UNCHANGED ev /\ pc = "shutdown" /\ pc' = "ended"
        /\ \/ outcome' = (IF err THEN "on_message" ELSE "returned") /\ client' = FALSE
           \/ outcome' = "on_shutdown" /\ client' = client
    BY <1>7 DEF OnShutdown, Ends
  <2>2. /\ calls' \in [init : 0..1, shutdown : 0..1, threw : 0..1]
        /\ calls'.shutdown = 1 /\ calls'.threw = calls.threw /\ calls'.init = 1
    BY <1>7 DEF OnShutdown, Stages, TypeOK
  <2>3. client = TRUE /\ (err <=> calls.threw = 1)
    BY <2>1 DEF Stages
  <2>4. TypeOK' /\ Stages' /\ Acking'
    BY <1>1, <1>2, <1>3, <2>1, <2>2 DEF TypeOK, PCs, Thrown, Stages, Acking
  <2>5. client' \in BOOLEAN /\ (client' <=> outcome' = "on_shutdown")
    BY <2>1, <2>3, Zenon
  <2>6. OnShutdownRuns'
    BY <2>1, <2>2, <2>5 DEF OnShutdownRuns
  <2>7. HandlerErrorPropagates'
    BY <2>1, <2>2, <2>3 DEF HandlerErrorPropagates
  <2> QED
    BY <1>1, <1>2, <1>3, <2>4, <2>5, <2>6, <2>7
<1> QED
  BY <1>4, <1>5, <1>6, <1>7

-----------------------------------------------------------------------------
(***************************************************************************)
(* The theorems.                                                           *)
(***************************************************************************)
\* The invariant holds initially and every step keeps it.
THEOREM Invariance == Spec => []IndInv
<1>1. Init => IndInv
  <2> SUFFICES ASSUME Init PROVE IndInv
    OBVIOUS
  <2>1. client \in BOOLEAN /\ err \in BOOLEAN
    BY Zenon DEF Init
  <2>2. inbox \in Seq(Frames) /\ Len(inbox) <= InboxCap
    BY BoundAssumption DEF Init
  <2>3. TypeOK
    BY <2>1, <2>2 DEF Init, TypeOK, PCs, Handlers, NoEvent
  <2>4. Stages /\ Acking /\ HandlerErrorPropagates /\ AckedWasHandled /\ OnShutdownRuns
    BY DEF Init, Stages, Acking, HandlerErrorPropagates, AckedWasHandled, OnShutdownRuns
  <2> QED
    BY <2>1, <2>2, <2>3, <2>4 DEF IndInv
<1>2. IndInv /\ [Next]_vars => IndInv'
  <2> SUFFICES ASSUME IndInv, [Next]_vars PROVE IndInv'
    OBVIOUS
  <2>1. CASE Kernel \/ HandlerRequests \/ SendRequest \/ HandlerReceives \/ HandlerGivesUp
    BY <2>1, InboxStep
  <2>2. CASE Registering \/ HandlerEnds
    BY <2>2, StartStep, HandlerStep DEF HandlerEnds, HandlerSteps
  <2>3. CASE Loop
    BY <2>3, LoopStep, HandlerStep DEF Loop, Sends, HandlerSteps
  <2>4. CASE Done \/ UNCHANGED vars
    <3>1. UNCHANGED <<pc, waiting, inbox, ev, client, err, outcome, calls, handled, acked>>
      BY <2>4 DEF Done, vars, serveVars, kernelVars
    <3> QED
      BY <3>1 DEF IndInv, TypeOK, Stages, Acking, HandlerErrorPropagates, AckedWasHandled,
         OnShutdownRuns
  <2> QED
    BY <2>1, <2>2, <2>3, <2>4 DEF Next
<1> QED
  BY <1>1, <1>2, PTL DEF Spec

\* Type correctness: in particular on_init, on_shutdown and the error of on_message happen
\* at most once.
THEOREM TypeCorrect == Spec => []TypeOK
BY Invariance, PTL DEF IndInv

\* An error of on_message, or of sending its reply, leaves serve after on_shutdown ran; only
\* an exception of on_shutdown itself can take its place (plugin.hpp:117-119, 156-169).
THEOREM ErrorPropagates == Spec => []HandlerErrorPropagates
BY Invariance, PTL DEF IndInv

\* An event is acked only when on_event returned from it (plugin.hpp:143-153).
THEOREM AckMeansHandled == Spec => []AckedWasHandled
BY Invariance, PTL DEF IndInv

\* After on_init, serve ends without on_shutdown exactly when it ends with the exception of
\* its own pong; and client_ stays set exactly when register_full, that pong or on_shutdown
\* threw (plugin.hpp:100-115, 139, 166-169).
THEOREM ShutdownCalled == Spec => []OnShutdownRuns
BY Invariance, PTL DEF IndInv
=============================================================================
