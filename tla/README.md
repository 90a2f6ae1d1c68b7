# TLA+ specifications of the Vynkor C++ SDK

The SDK connects plugins and remote devices to the Vynkor kernel over a UNIX
socket (or a WebSocket gateway). This directory models the parts of it that carry
state, interleave or fail, checks them with TLC on small instances, and proves the
core invariants with TLAPS for every value of the constants.

## 1. Inventory

| Part | State | Operations | Interacts with |
|---|---|---|---|
| Concurrent loop (`src/concurrent.cpp`) | response queue, wake pipe, worker threads, `running` | `serve_concurrent`, `run_concurrent_loop`, `ResponseChannel::push/try_pop` | owns the client; runs handlers on threads |
| Confirmation gate (`src/confirmation_gate.cpp`) | pending map under a mutex, id counter | `route` (request, confirm), sweep, allowlist | called from handler threads; replies through the loop |
| Fragmentation (`src/client.cpp`) | `next_stream_id_`, `reassembly_` | `send_fragmented`, `absorb_fragment`, `recv_frame` | below every receive |
| Client session and requests (`src/client.cpp`) | `fd_`, `session_key_`, the call in progress | `connect`, `close`, `register_full`, `recv`, `publish_event`, `send_action`, `send_command`, `ping`, sends | the kernel |
| Plugin serve loop (`include/vynkor/plugin.hpp`) | `client_`, `handler_err` | `serve` and the plugin's handlers | client; handlers may call the client again |
| Framing and MAC (`src/framing.cpp`, `src/mac.cpp`) | position in the byte stream | pack, parse, tags, reads with deadlines | below the client on both transports |
| WebSocket transport (`src/ws.cpp`) | `fd`, TLS objects, `read_buf`, the message being assembled | `connect`, `send_binary`, `receive_binary_deadline`, `close` | below the client; the gateway |
| Client construction (`src/client.cpp`, `src/env.cpp`) | which object owns which connection, `device_id_`, `secret_` | constructors, factories, moves, `close`, environment lookups, `run_ws` | transports; registration |

What is hard here: handler threads racing the loop (wakeups, lifetime, order);
confirmations racing each other and a time to live; answers that come late, out of
order or not at all; state that outlives the connection it belongs to (session key,
half-assembled payloads, a stream abandoned in the middle of a frame, the identity of
a client that was moved); writes that fail between two steps, or block because nobody
reads; and which of the many
exits of the loops still run `on_shutdown`. `PROJECT.json` lists these hazards at
their lines, each with the properties aimed at it.

## 2. Modules

Each component has a module, an `MC` module for TLC, and where something is proved a
`Proofs` module that extends it. A definition preceded by "Mutant:" is a deliberately
wrong version of the one after it; `PROJECT.json` says which property it breaks.
Three small modules state what a component promises, without its mechanism, and the
component's module shows that it implements them:

| Abstract specification | Implemented by | Mapping |
|---|---|---|
| **ReplyService**: the replies of a request leave in order, each once; one that cannot be sent is skipped | ConcurrentLoop (`ImplementsReplies`) | what is on the wire and what was lost, per request |
| **ConfirmedOperation**: ask, claim once, run once on what was asked, or lapse | ConfirmationGate (`ImplementsOperation`) | open = ids in the map; claimed = ids held by calls about to execute |
| **FrameChannel**: frames in order, none twice, none lost without an exception other than `VynkorTimeout` | FrameReader and WsTransport (`ImplementsChannel`) | frames sent or begun, the last one returned, whether a call has thrown since |

* **ConcurrentLoop** - one process for the loop thread (`pc`), one per accepted
  request (`wk`), and the kernel's end of the socket. `push` is two steps (`Enqueue`
  under the mutex, `Signal` outside it), so is the loop's drain (`DrainWakePipe`,
  then `PopAndSend`). Payloads are abstracted to (request, position). Sends can fail:
  oversized, or to a closed socket, which raises SIGPIPE unless the host ignores it
  (`sigpipeIgnored`, both kinds of host). And they can block: `write_all` does not return
  while the kernel does not read (`stalled`). What the loop writes in answer to a frame
  (pong, ack, returned envelope) is a step of its own, `SendAnswer`. `pipe2` failing,
  `poll` failing, a WebSocket client (`native_handle` throws), a rejected registration,
  `on_init` or `on_shutdown` throwing and thread creation failing are all exits of the
  model.
* **ConfirmationGate** - concurrent calls of `route`. Each access to the map under
  the mutex is one step; the permission check before and the executor after it are
  others. Ids are the numbers of the stored requests; caller ids are sequences of
  segments, so that `prefix.*` means what `may_confirm` computes.
* **Reassembly** - one sender, the socket, the receiver's `absorb_fragment` with
  pruning, header checks, stream and byte limits, replacement of re-sent chunks; sends
  that fail half-way, foreign fragments with the same or other stream ids, and `connect()`,
  which leaves `reassembly_` alone and may find a restarted peer that counts from 1. A
  chunk is its origin, header, length and the time it was stored; `alien` (the ids foreign
  fragments carried) is history.
* **VynkorClient** - the session key across connections, and one call at a time
  waiting for frames from a kernel that answers in any order or not at all. A MAC key
  is the number of the connection it was derived for. Frames are read whole here.
* **Framing** - the codec as operators with the names of the source: pack functions,
  compression, header, tag, and `parse_frame_bytes`. Bytes are what they are the text of
  and whether they are its zstd frame; CRC and HMAC are injective. That the tag covers
  the plaintext and the CRC the wire bytes is kept, and so is the order of the checks
  where it decides between accepting and refusing.
* **FrameReader** - a client (or a peer using another pack function) writes frames, the
  timed readers take them off a stream of cells a few at a time: first byte without a
  deadline, then header and body under one. After a read that gives up inside a frame the
  next one takes what follows for a header, of any length and flags; that such bytes never
  pass for a frame (magic and CRC) is an assumption. A timeout that does not fit an int
  (`wide`) makes `poll()` wait for ever or too short (`framing.cpp:415`) and the frame late
  at once (431). Over a WebSocket a frame is one message and the cells are its fragments: a
  `VynkorTimeout` between two of them drops the first ones (`TearMessage`), and what is left
  is refused (`RefuseRest`). WsTransport has the inside of that.
* **WsTransport** - `connect` with its address loop, TLS and HTTP handshake, the buffered
  reader (`stream_fill`, `poll_readable`, `SSL_pending`, blocking `SSL_read`), and
  `receive_binary_deadline` with fragments, control frames, limits and the part of a
  message that a throwing call drops. Writes (the handshake, pongs, close frames, messages)
  end only if the server reads. What the server sends is a script of frames that
  arrives in pieces of any size; whether its answer to the handshake is acceptable is a
  bit of the script.
* **ClientSetup** - client objects in variables: constructed, connected, moved, assigned,
  closed, destroyed; the environment that `connect_from_env` and `run_ws` read; the url's
  port. `Elides` says whether the compiler constructs a returned local in place, which
  `connect_ws_device` depends on: a move would lose the device id it has just set.
* **PluginServe** - `serve` with handlers that return, throw, or wait for a request
  of their own through `client_`. Each write is a step, which blocks while the kernel does
  not read and throws once it has closed the connection (the host is taken to ignore
  SIGPIPE). `outcome` says whose exception leaves: `on_shutdown` may throw as well.

The kernel is not part of this repository. It is modelled from how the code uses it
and kept as free as possible: it may send any kind of frame at any time after
registration, answer late or never, redeliver events until they are acked, stop reading,
and close.

## 3. Runs

Passing runs:

| Run | Bounds | Shows |
|---|---|---|
| `loop` | 2 requests with up to 2 envelopes each (one request's oversized), pipe of 1 byte, 1 event, 3 inbound frames | `NoLostWakeup`, `InOrderOnce`, `ChannelOutlivesWorkers`, `ImplementsReplies`, `QueueServed`, `ShutdownEndsLoop` |
| `gate` | 4 calls, TTL 1, 2 ticks | `ExecutedAtMostOnce`, `ExecutedAsApproved`, `OnlyListed`, `NothingVanishes`, `DeniedLearnsNothing`, `ImplementsOperation` |
| `reassembly` | 2 payloads, at most 3 fragments, 2 sets at a time, 2 stream ids of the sender, 2 foreign fragments (ids 1 and 7), 1 reconnection | `Bounded`, `Integrity`, `ArrivedIsDelivered` |
| `client` | 2 connections, 3 requests, 2 frames in the socket | `OwnAnswer`, `SessionAgrees`, `DeadlineHonoured` |
| `serve` | 2 events, 1 ping, 2 other frames | `HandlerErrorPropagates`, `AckedWasHandled`, `OnShutdownRuns`, `ShutdownEndsServe` |
| `framing` | 2 frames out of 9 kinds, 2 keys and none, both transports, header of 2 cells, payloads of at most 1, three kinds of timeout | `RoundTrip`, `TimeoutIsClean`, `ImplementsChannel`, `EveryReadEnds` |
| `ws` | 9 server scripts of at most 6 items, 2 addresses, messages of at most 3 units, chunks of 2 | `MessageWhole`, `OrphanExplained`, `ImplementsChannel`, `WaitsEnd` |
| `setup` | 2 variables, 2 connections, 2 devices, 18 environments, 5 urls | `OneOwner`, `DeviceIdentity` |

Each module's `TypeOK` is checked along with its invariants. The bounds are the smallest at which the
interesting cases occur: a pipe of one byte is full after the first reply; two requests
queue their replies in turns, while thread creation may fail at any time; two
confirmations race for one id and a fourth call can refill the map; a time to live and a timeout of one tick are hit
exactly and passed; two messages and two foreign ids overflow the stream limit, one of the
ids is also one the sender uses, and with two ids to give out they come round after two
messages: sets of two senders, and of a peer before and after its restart, meet in the run; two
connections show what survives a reconnection; three requests leave room for a
registration and a late answer. Two frames are enough for one to be lost and the next
misread or found again; their kinds are a payload below the compression threshold, one
that shrinks, one that does not, one whose plaintext exceeds the limit, each flag that
changes the codec's way, and a damaged frame. The server scripts hold a message in
fragments with a ping inside, a fragmented text, a message of exactly the limit, two above
it, a masked frame, an abandoned message and its late rest, a refused handshake and an
answer that does not end. Two variables are enough for every move, and the environments
are all combinations of the credentials and every place a socket path can come from.
Symmetry is used over calls, payloads, variables and devices, which only occur as
identities, and in no run with a liveness property.

Runs that show a disagreement between the code and what it says of itself:

* `loop_reply_dropped`: a handler in flight when PluginShutdown arrives pushes its
  reply after the loop's last drain, and it is never sent, although "no reply is ever
  dropped" (`concurrent.hpp:71-72`).
* `serve_pong_skips_shutdown`: the kernel disconnects between a ping and its pong, and the
  exception of the write leaves `serve` without `on_shutdown`, "called once when the
  receive loop ends (kernel shutdown request, disconnect, or handler error)"
  (`plugin.hpp:61-62`).
* `client_stale_key`: a second `connect()` keeps `session_key_`; the registration
  frame is MACed with it, although it "is always CRC-only" (`client.cpp:177`), and the
  un-MACed ack is refused.
* `serve_shutdown_lost`: a PluginShutdown that arrives while a handler waits for its
  own request is discarded, although "PluginShutdown exits the loop"
  (`plugin.hpp:20-21`).

Met while modelling. No passing property depends on these being otherwise, and none claims
the opposite; the properties are about what is left:

* A write to a kernel that has closed raises SIGPIPE, which the library neither ignores
  nor avoids: the process ends although "a failed best-effort reply must not kill the
  loop" (`concurrent.cpp:68-69`). ConcurrentLoop models both kinds of host; the other
  modules take such a write for an exception.
* No write has a deadline (`client.cpp:548-560`, `ws.cpp:221-246`). A kernel that asks for
  a shutdown and stops reading leaves `serve` and `serve_concurrent` blocked before they see
  it; a server that pings and stops reading blocks a receive beyond its deadline.
* `send_command` compares no command id (`client.cpp:520`), although it is to "await its
  ack" (`client.hpp:180`): after an event made one call throw, the next returns the ack left
  behind. `OwnAnswer` is about `send_action`, which compares.
* A handler's error is "propagated" by `serve` (`plugin.hpp:49-50`) unless `on_shutdown`
  throws, whose exception replaces it (`plugin.hpp:166-169`). `HandlerErrorPropagates` says
  that nothing else does.
* A throwing `register_full`, a failed pong and a throwing `on_shutdown` leave `client_` set;
  `OnShutdownRuns` says that there are no other such exits.
* Stream ids name no sender, and every client counts from 1 (`client.hpp:231`). Fragments of
  two senders, or of a peer before and after its restart (`connect()` does not clear
  `reassembly_`), that agree in id and total and come within 30 seconds are put together
  into one payload. Both happen in the `reassembly` run; `Integrity` says that these are the
  only conditions under which they do.
* The move operations leave `device_id_` behind (`client.cpp:45-69`): a moved client of a
  paired device registers without its id, and the target of an assignment with the id it
  had. `client.hpp:67-71` says that "Registration carries device_id". `DeviceIdentity` is
  about `run_ws`, which moves nothing where the compiler elides the return. A moved-from
  client also still reports `is_secured()`, because a moved-from `std::optional` keeps a
  value.
* A frame that its sender compressed (`FLAG_COMPRESSED` passed to
  `send_raw_with_flags`) is tagged over the compressed bytes and checked over the
  plaintext: under a session key it is always refused. A MAC flag without a key makes a
  stream reader take 32 bytes of the next frame for a tag. `Cause` in FrameReader lists
  both.
* A read that times out inside a frame throws `VynkorFrameReadTimeout`, not the
  `VynkorTimeout` that `client.hpp:139` and `153` name, and leaves the stream in the middle of
  the frame; every later read is then misaligned until the connection is closed.
  `TimeoutIsClean` and `ImplementsChannel` say that this is never silent. Over a WebSocket
  it is `VynkorTimeout` that can follow consumed fragments; the rest of the message then
  throws.
* A `timeout_ms` above INT_MAX is cast to int (`framing.cpp:415`, `431`): `poll()` waits for
  ever or too short, and the read of the frame may expire at once. `EveryReadEnds` is about
  the others.
* A WebSocket frame of exactly the maximal size is refused or not depending on how its
  bytes are chunked (`ws.cpp:492`), and a frame that cannot be decoded stays at the front
  of the buffer, so that every later receive throws. The continuation of a fragmented text
  throws although text is "handled transparently" (`README.md:176`, `ws.cpp:509`);
  `OrphanExplained` is about binary messages.
* `SSL_read` on the blocking socket waits for the end of a record whose first bytes poll()
  saw: no deadline bounds it, against `ws.hpp:70-72`. `WaitsEnd` is about plain sockets.
* `parse_ws_url` cuts the port to 16 bits and lets the exceptions of `std::stoi` out,
  where `ws.hpp:22` names `VynkorInternal`.

## 4. Fairness

Weak fairness of the loop thread and of every worker: the operating system schedules
runnable threads, and handlers return. A thread blocked in a write is not runnable: the
step that would write is disabled while the peer does not read. Weak fairness of `Tick` and
of the waiting call in VynkorClient: time passes. In PluginServe deadlines pass (weak
fairness of `HandlerGivesUp`) and a handler ends after finitely many requests of its own
(strong fairness of `HandlerEnds`: it is disabled whenever the handler waits again). In
FrameReader and WsTransport the clock reaches every deadline (`DeadlinePasses`; in
FrameReader not one whose milliseconds were cut to an int) and a reading thread that can go
on does (`FdReader`, `Reader`); FrameReader assumes nothing of a wait on a WebSocket.
`PollFails` is never forced.

Nothing is assumed of the kernel or of the server: it may send nothing more, read nothing
more, and never close. So the liveness properties name the states in which the peer holds
the thread: `QueueServed` a loop parked in `recv` on an incomplete fragment set, or blocked
in a write; `ShutdownEndsLoop`, `ShutdownEndsServe` and `WaitsEnd` a blocked write. A peer
that reads again ends the exception, and the property holds from there.

## 5. Proofs

Every safety property of the passing runs is a theorem: the type invariants, the other
invariants, the action properties and the four refinements hold for every value of the
constants that the assumptions named in the modules allow. Each proof module states an
inductive invariant (`IndInv`; in `WsTransportProofs` `StateInv /\ MsgInv`), proves in
one lemma per action or group of actions that a step keeps it (`Invariance`), and draws
the properties from it.

**`ConcurrentLoopProofs`** - any set of requests, pipe capacity, limit and bound.

* `TypeCorrect`, `WakeupNeverLost`, `ChannelSafe`. `NoLostWakeup` is not inductive
  alone: it says nothing of the loop between enqueueing a rejection and signalling it,
  or of a queue filled before the loop starts (`Wakeup` does). The invariant adds that
  the requests still in the socket are distinct and have no worker yet (`Fresh`), that a
  worker about to push has an envelope left (`Counts`), and that a WebSocket client and
  every throw out of `serve_concurrent` leave no worker behind (`Quiet`).
* `RepliesInOrder` (`InOrderOnce`). Constant lemmas say what appending an envelope and
  taking the head do to the replies of one request (`AppendOwn`, `AppendOther`,
  `TailReplies`); `HeadIsNext` draws from the order that the head of the queue is the next
  reply of its request. The steps reduce to four shapes: pop, push, an envelope that is no
  reply, and the rest.
* `Refinement`: `Spec => ImplementsReplies`. Sending the head of the queue is `Send`,
  losing it `Skip`, a handler's return or a rejection `Return`, all else stutters. It needs
  in addition that no more is pushed than was returned (`Owed`) and that every reply on the
  wire has its rank (`Filled`).

**`ConfirmationGateProofs`** - any set of calls, callers and params, any time to live.

* `OneExecution`, `OnlyApprovedRuns`, `NoRequestLost`. The invariant adds that the map
  holds what was stored (`MapFaithful`), that a call past the check has an allowed
  caller (`Checked`), that a call about to execute holds the stored params of an id that
  is neither in the map nor executed (`Owned`), and that no two calls hold one id
  (`OneOwner`). Together they make the removal under the mutex a transfer of ownership.
* `TypeCorrect`, `BareCallersListed` (`OnlyListed`: a caller id without a dot runs something
  only when the allowlist names it), and `DenialRevealsNothing` (the action property
  `DeniedLearnsNothing`): by `Checked`, no step past the permission check answers a caller
  off the allowlist.
* `Refinement`: `Spec => ImplementsOperation`. `StoreRequest` is an abstract `Ask`,
  `TakePending` a `Claim`, `Execute` a `Run` (`Owned` says that the params are the asked
  ones, `OneOwner` that the claim disappears with it), every other step a `Lapse` or a
  stutter.

**`ReassemblyProofs`** - any messages of any size, any limits, header and id widths.

* `TypeCorrect`, `MemoryBounded` (`Bounded`): the bytes accounted for a set are the running
  sums of its chunks (`FragmentSet`), so that a refused or repeated fragment cannot drift
  the account.
* `NeverMixed` (`Integrity`). Every chunk of a set carries the set's total and was stored
  before the set timed out (`FragmentSet`). Every fragment in the socket or in a buffer has
  the id and the total of the call it came from, or an id that foreign fragments carried
  (`Belongs`, in `LinkOrigin` and `BufferOrigin`); so a set under an id that is one
  message's alone holds nothing else. A message that is alone was alone in every earlier
  state (`AloneBefore`), which carries this over to payloads delivered before.
* `Arrival` (`ArrivedIsDelivered`): every fragment written is in the socket or in the
  message's buffer until the message is delivered or refused (`Progress`), as long as the
  message's id is its own.

**`VynkorClientProofs`** - any timeout, any number of connections and requests.

* `TypeCorrect`, `AnswersOwn` (`OwnAnswer`), `KeysAgree` (`SessionAgrees`). The number of a
  request is in one place only: with the kernel, in one frame on its way, or in one answer
  returned (`Numbers`). Once an ack with a nonce is on its way, the kernel has the key of
  this connection and every frame behind the ack is MACed with it (`SessionKeys`).

**`PluginServeProofs`** - any events, any number of frames.

* `TypeCorrect`, `ErrorPropagates` (`HandlerErrorPropagates`), `AckMeansHandled`
  (`AckedWasHandled`), `ShutdownCalled` (`OnShutdownRuns`), from what is known of the
  handler's calls at each place of `serve` (`Stages`), and that the event about to be acked
  was handled (`Acking`).

**`ClientSetupProofs`** - any number of client variables, any devices, environments, urls.

* `TypeCorrect`, `Owned` (`OneOwner`), `RegistersAsMeant` (`DeviceIdentity`). The invariant
  says who owns which connection (`Ownership`) and that an object that is gone owns none
  (`Consistent`); that `run_ws` registers as the environment says is a case analysis of
  `resolve_ws_credentials`, for a compiler that elides the return and for one that moves.

**`FrameReaderProofs`** - any payloads, flags, keys and thresholds; also about Framing.

* `FramesRoundTrip` (`RoundTrip`): lemmas about the operators of Framing say what each pack
  function puts on the wire and that `parse_frame_bytes` undoes it exactly when `Cause` is
  empty.
* `TypeCorrect`, `CleanTimeouts` (the action property `TimeoutIsClean`) and `Refinement`
  (`Spec => ImplementsChannel`): the frames lie one behind the other (`Layout`), and unless
  a call has thrown, a read begins past the last frame returned and not past the end of
  another: right behind it, behind the tag that frame promised and did not have, or inside
  a torn message (`ChannelInv`).

**`WsTransportProofs`** - any server script, addresses, limits and chunk size.

* `TypeCorrect`: in particular one socket at most. Where an item ends is a recursive
  function of the script; that the function exists, and grows, is proved from the
  well-foundedness of the natural numbers (`SetInduction`, `EndsExist`, `EndsAre`).
* `WholeMessages` (`MessageWhole`), `OrphansExplained` (`OrphanExplained`): what a call
  holds are the data frames from the start of a message up to the front of the buffer
  (`Assembled`), and a message begun and not at its end is being assembled or is lost
  (`Started`).
* `Refinement` (`Spec => ImplementsChannel`): what went by after the last message returned
  made a call throw (`NothingPassed`); when a start was dropped by a timeout, its final
  frame throws.

The assumptions are about the data, not about the behaviour: bounds and limits are natural
numbers, a header has more than one cell, there is more than one stream id, an event is no
other kind of frame, fragment headers have the width of their fields, an allowlist entry is
not empty (".*" alone is no glob), and the reassembly timeout is not zero.
The number a WebSocket frame carries in a script is that of the complete binary message it
is part of (`Numbered`); the continuations of a message are those the code takes for it, so
that the rest of a text interleaved with a binary message, which RFC 6455 forbids and the
code does not notice, counts as part of that message.

What the proofs changed in the models: foreign fragments had headers wider than 16 bits;
`InOrderOnce` said too little about the replies still queued to be kept by a step; the
numbering of WebSocket messages was a comment and is an assumption.

Only model-checked: the liveness properties, which are out of the prover's reach
(`QueueServed`, `ShutdownEndsLoop`, `DeadlineHonoured`, `ShutdownEndsServe`,
`EveryReadEnds`, `WaitsEnd`).

## 6. Not modelled

* HKDF, HMAC, CRC, zstd, SHA-1, base64 and masking as computations: they are injective
  functions, or leave no trace in a model whose payloads are names.
* The JSON scanner, the escaper and the manifest entries of the gate: text to text, without
  state. `send_confirmation_request` and `send_confirmation` are one `send_action` each,
  whose behaviour VynkorClient has.
* The header lines of the WebSocket handshake: the script says whether they are in order.
* The JWT token, which is passed through; error classes; the schema; examples and fuzzers.

## 7. Plan

1. Properties for what none covers yet, where a model can say it: a bound
   on the pending requests of the gate between two sweeps, and the late `EventPublishAck`.
2. The safety part of the liveness properties: from every state in which they wait, the
   step that ends the wait is possible or its exception holds, as invariants.
3. Payloads that are never mixed at all, should `connect()` come to clear `reassembly_` and
   the fragment header to name its sender.
