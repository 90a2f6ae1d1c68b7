-------------------------- MODULE ConfirmationGate --------------------------
(***************************************************************************)
(* ConfirmationGate::route (src/src/confirmation_gate.cpp), shared by the  *)
(* handler threads of the concurrent loop.                                 *)
(*                                                                         *)
(* request_<op> stores the caller's params under a fresh pending id;       *)
(* confirm_<op> from an approved caller takes the entry and runs the       *)
(* executor on the stored params.  The pending map is guarded by a mutex   *)
(* that is held across the sweep and the insertion or removal, and by      *)
(* nothing else: the permission check comes before it, the executor after. *)
(*                                                                         *)
(* The n-th stored request gets the id n: "pending-<millis>-<seq>" is      *)
(* unique because of its sequence number.                                  *)
(***************************************************************************)
EXTENDS Naturals, Sequences, FiniteSets

CONSTANTS
    Calls,          \* calls of route, one per handler thread
    Callers,        \* caller_plugin_ids, as sequences of dot-separated segments
    ConfirmCallers, \* the allowlist: entries [glob |-> whether it ends in ".*", id |-> ...]
    Params,         \* params_json values
    Guesses,        \* the pending_ids that confirm params may carry
    TTL,            \* pending_ttl_
    MaxTime         \* bound: ticks of the clock

\* The constructor refuses an empty allowlist; an id has at least one segment, the prefix
\* of a glob too (an entry that is just ".*" is no glob).
ASSUME AllowlistAssumption ==
    /\ ConfirmCallers # {}
    /\ ConfirmCallers \subseteq [glob : BOOLEAN, id : Seq(STRING) \ {<<>>}]
ASSUME InputAssumption == Callers # {} /\ Params # {}
ASSUME GuessAssumption == Guesses \subseteq Nat \ {0}
ASSUME TimeAssumption == TTL \in Nat /\ MaxTime \in Nat

VARIABLES
    now,      \* steady_clock
    pending,  \* pending_: from the ids it holds to their entries
    call,     \* the threads inside route
    requests, \* every request stored so far, in order (its length is next_seq's counter)
    executed  \* every run of the executor, in order

vars == <<now, pending, call, requests, executed>>

Entries == [params : Params, caller : Callers, at : 0..MaxTime]

\* A params_json without a string pending_id.
NoId == 0

CallStates == {"idle", "store", "check", "take", "execute", "replied"}
Replies == {"none", "pending", "denied", "invalid", "no_pending", "result", "panicked",
            "not_found"}
CallRecords ==
    [st : CallStates, caller : Callers, params : Params, id : Guesses \cup {NoId},
     at : 0..MaxTime, reply : Replies]
Executions == [id : Guesses, params : Params, by : Callers, at : 0..MaxTime]

Init ==
    /\ now = 0 /\ pending = <<>> /\ requests = <<>> /\ executed = <<>>
    /\ call = [c \in Calls |->
                 [st |-> "idle", caller |-> CHOOSE x \in Callers : TRUE,
                  params |-> CHOOSE p \in Params : TRUE, id |-> NoId, at |-> 0,
                  reply |-> "none"]]

Tick == now < MaxTime /\ now' = now + 1 /\ UNCHANGED <<pending, call, requests, executed>>

(***************************************************************************)
(* may_confirm: an exact id, or a "prefix.*" entry, which covers the ids   *)
(* that extend the prefix by at least one segment.                         *)
(***************************************************************************)
\* Mutant: a glob that also covers its bare prefix.
MayConfirmBare(caller) ==
    \E e \in ConfirmCallers :
        IF e.glob THEN Len(caller) >= Len(e.id) /\ SubSeq(caller, 1, Len(e.id)) = e.id
                  ELSE caller = e.id
MayConfirm(caller) ==
    \E e \in ConfirmCallers :
        IF e.glob THEN Len(caller) > Len(e.id) /\ SubSeq(caller, 1, Len(e.id)) = e.id
                  ELSE caller = e.id

\* The ids sweep_expired_locked keeps: an entry dies when its age reaches the TTL.
\* Mutant: an entry is swept a tick early.
LiveEarly == {id \in DOMAIN pending : now + 1 < pending[id].at + TTL}
Live == {id \in DOMAIN pending : now < pending[id].at + TTL}

Finish(c, reply) == call' = [call EXCEPT ![c].st = "replied", ![c].reply = reply]

-----------------------------------------------------------------------------
\* A request is forwarded by the kernel, which stamps the caller.
InvokeRequest(c) ==
    /\ call[c].st = "idle"
    /\ \E caller \in Callers, params \in Params :
         call' = [call EXCEPT ![c].st = "store", ![c].caller = caller, ![c].params = params]
    /\ UNCHANGED <<now, pending, requests, executed>>

InvokeConfirm(c) ==
    /\ call[c].st = "idle"
    /\ \E caller \in Callers, id \in Guesses \cup {NoId} :
         call' = [call EXCEPT ![c].st = "check", ![c].caller = caller, ![c].id = id]
    /\ UNCHANGED <<now, pending, requests, executed>>

\* An action that is neither request_<op> nor confirm_<op>.
InvokeUnknown(c) ==
    /\ call[c].st = "idle" /\ Finish(c, "not_found")
    /\ UNCHANGED <<now, pending, requests, executed>>

\* store_request: sweep, insert under the next id, reply with it.
StoreRequest(c) ==
    /\ call[c].st = "store"
    /\ LET id == Len(requests) + 1
           e  == [params |-> call[c].params, caller |-> call[c].caller, at |-> now]
       IN  /\ pending' = [i \in Live \cup {id} |-> IF i = id THEN e ELSE pending[i]]
           /\ requests' = Append(requests, e)
    /\ Finish(c, "pending")
    /\ UNCHANGED <<now, executed>>

\* Mutant: an unknown pending id is reported before the permission is checked.
LookupThenDeny(c) ==
    /\ call[c].st = "check" /\ ~MayConfirm(call[c].caller)
    /\ Finish(c, IF call[c].id \in Live THEN "denied" ELSE "no_pending")
    /\ UNCHANGED <<now, pending, requests, executed>>

\* Deny before looking up the pending id.
Deny(c) ==
    /\ call[c].st = "check" /\ ~MayConfirm(call[c].caller)
    /\ Finish(c, "denied")
    /\ UNCHANGED <<now, pending, requests, executed>>

RefuseParams(c) ==
    /\ call[c].st = "check" /\ MayConfirm(call[c].caller) /\ call[c].id = NoId
    /\ Finish(c, "invalid")
    /\ UNCHANGED <<now, pending, requests, executed>>

Approve(c) ==
    /\ call[c].st = "check" /\ MayConfirm(call[c].caller) /\ call[c].id # NoId
    /\ call' = [call EXCEPT ![c].st = "take"]
    /\ UNCHANGED <<now, pending, requests, executed>>

\* take_pending: sweep, then move the entry out of the map.
\* Mutant: the entry is read and left in the map.
TakeLeaving(c) ==
    /\ call[c].st = "take" /\ call[c].id \in Live
    /\ pending' = [i \in Live |-> pending[i]]
    /\ call' = [call EXCEPT ![c].st = "execute", ![c].params = pending[call[c].id].params,
                            ![c].at = now]
    /\ UNCHANGED <<now, requests, executed>>
\* Mutant: the confirming caller's own params are executed.
TakeOwnParams(c) ==
    /\ call[c].st = "take" /\ call[c].id \in Live
    /\ pending' = [i \in Live \ {call[c].id} |-> pending[i]]
    /\ call' = [call EXCEPT ![c].st = "execute", ![c].at = now]
    /\ UNCHANGED <<now, requests, executed>>
TakePending(c) ==
    /\ call[c].st = "take" /\ call[c].id \in Live
    /\ pending' = [i \in Live \ {call[c].id} |-> pending[i]]
    /\ call' = [call EXCEPT ![c].st = "execute", ![c].params = pending[call[c].id].params,
                            ![c].at = now]
    /\ UNCHANGED <<now, requests, executed>>

\* Mutant: the map is indexed with [], which inserts an entry for the unknown id.
NoPendingInserting(c) ==
    /\ call[c].st = "take" /\ call[c].id \notin Live
    /\ LET blank == [params |-> call[c].params, caller |-> call[c].caller, at |-> now]
       IN  pending' = [i \in Live \cup {call[c].id} |->
                         IF i = call[c].id THEN blank ELSE pending[i]]
    /\ Finish(c, "no_pending")
    /\ UNCHANGED <<now, requests, executed>>
NoPending(c) ==
    /\ call[c].st = "take" /\ call[c].id \notin Live
    /\ pending' = [i \in Live |-> pending[i]]
    /\ Finish(c, "no_pending")
    /\ UNCHANGED <<now, requests, executed>>

\* The executor runs outside the mutex; its result, ok or error, is the reply, and its
\* exception leaves route for the loop to answer ("handler panicked").
Execute(c) ==
    /\ call[c].st = "execute"
    /\ executed' = Append(executed, [id |-> call[c].id, params |-> call[c].params,
                                     by |-> call[c].caller, at |-> call[c].at])
    /\ Finish(c, "result") \/ Finish(c, "panicked")
    /\ UNCHANGED <<now, pending, requests>>

Route(c) ==
    \/ StoreRequest(c) \/ Deny(c) \/ RefuseParams(c) \/ Approve(c)
    \/ TakePending(c) \/ NoPending(c) \/ Execute(c)

Quiesced == (\A c \in Calls : call[c].st = "replied") /\ UNCHANGED vars

Invoke(c) == InvokeRequest(c) \/ InvokeConfirm(c) \/ InvokeUnknown(c)

Next == (\E c \in Calls : Invoke(c) \/ Route(c)) \/ Tick \/ Quiesced

Spec == Init /\ [][Next]_vars

-----------------------------------------------------------------------------
(***************************************************************************)
(* Properties.                                                             *)
(***************************************************************************)
\* Every variable keeps its type, and the map holds only ids that were handed out.
TypeOK ==
    /\ now \in 0..MaxTime
    /\ call \in [Calls -> CallRecords]
    /\ requests \in Seq(Entries)
    /\ DOMAIN pending \subseteq 1..Len(requests)
    /\ pending \in [DOMAIN pending -> Entries]
    /\ executed \in Seq(Executions)

\* The ids in flight: taken from the map by a call that has yet to run the executor.
Taken == {c \in Calls : call[c].st = "execute"}

\* One confirmation, one execution: however many confirm_<op> calls race for an id, the
\* executor runs at most once for it (take_pending erases under the mutex, 241-251).
ExecutedAtMostOnce ==
    \A i, j \in 1..Len(executed) : executed[i].id = executed[j].id => i = j

\* Every execution was requested and approved: its id was handed out by request_<op>,
\* its params are the ones stored then and not the confirming call's (316-318), the
\* confirming caller is on the allowlist (285-299), and the entry was taken before its
\* time to live had passed (217-225).
Approved(x) ==
    /\ x.id \in 1..Len(requests)
    /\ x.params = requests[x.id].params
    /\ MayConfirm(x.by)
    /\ x.at < requests[x.id].at + TTL
ExecutedAsApproved == \A i \in 1..Len(executed) : Approved(executed[i])

\* The test suite's reading of the allowlist (confirmation_gate.hpp:75-80), in terms of
\* first segments: a bare id passes only if it is listed itself.
OnlyListed ==
    \A i \in 1..Len(executed) :
        Len(executed[i].by) = 1 => [glob |-> FALSE, id |-> executed[i].by] \in ConfirmCallers

\* Route, run by any number of threads, implements ConfirmedOperation: every run was
\* claimed by an approver from the requests that were open, and uses what was asked
\* (227-251, 281-319).  An entry is open until some call's sweep removes it.
Abstract == INSTANCE ConfirmedOperation WITH
    Approvers <- {x \in Callers : MayConfirm(x)},
    asked <- [i \in 1..Len(requests) |-> requests[i].params],
    open <- DOMAIN pending,
    claimed <- {call[c].id : c \in Taken},
    ran <- [i \in 1..Len(executed) |-> [id |-> executed[i].id, params |-> executed[i].params,
                                        by |-> executed[i].by]]
ImplementsOperation == Abstract!Spec

\* No request is lost: until its time to live has passed, a stored request stays
\* available in the map unless some confirmation took it.
NothingVanishes ==
    \A id \in 1..Len(requests) :
        \/ id \in DOMAIN pending
        \/ now >= requests[id].at + TTL
        \/ \E c \in Taken : call[c].id = id
        \/ \E i \in 1..Len(executed) : executed[i].id = id

\* A step that answers a confirmation refuses every caller off the allowlist alike.
RefusedAlike ==
    \A c \in Calls :
        call[c].st # "store" /\ call'[c] # call[c] /\ call'[c].st = "replied"
           /\ ~MayConfirm(call'[c].caller)
               => call'[c].reply \in {"denied", "not_found"} /\ pending' = pending

\* A denied confirmation learns nothing and changes nothing: a caller that is not on the
\* allowlist gets the same answer whatever the map holds, and leaves the map alone
\* (285-299, "denied callers learn nothing about which pending ids exist").
DeniedLearnsNothing == [][RefusedAlike]_vars
=============================================================================
