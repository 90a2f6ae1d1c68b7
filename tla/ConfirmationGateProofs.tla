----------------------- MODULE ConfirmationGateProofs -----------------------
(***************************************************************************)
(* Proofs about ConfirmationGate, for every number of racing calls, every  *)
(* allowlist and every time to live.                                       *)
(***************************************************************************)
EXTENDS ConfirmationGate, TLAPS

\* The map holds stored requests, unchanged.
MapFaithful == \A id \in DOMAIN pending : pending[id] = requests[id]

\* A call that passed the permission check carries an id and an allowlisted caller.
Checked ==
    \A c \in Calls : call[c].st \in {"take", "execute"} =>
        call[c].id \in Guesses /\ MayConfirm(call[c].caller)

\* What a call has taken is a stored request, taken in time, and no longer in the map.
Owned ==
    \A c \in Taken :
        /\ call[c].id \in 1..Len(requests) /\ call[c].id \notin DOMAIN pending
        /\ call[c].params = requests[call[c].id].params
        /\ call[c].at < requests[call[c].id].at + TTL

\* An id has one owner: the map, one call, or the list of executions.
OneOwner ==
    /\ \A c, d \in Taken : call[c].id = call[d].id => c = d
    /\ \A c \in Taken : \A i \in 1..Len(executed) : executed[i].id # call[c].id
    /\ \A i \in 1..Len(executed) : executed[i].id \notin DOMAIN pending

IndInv ==
    /\ TypeOK /\ MapFaithful /\ Checked /\ Owned /\ OneOwner
    /\ ExecutedAtMostOnce /\ ExecutedAsApproved /\ NothingVanishes

-----------------------------------------------------------------------------
\* Nothing but the state of a call that has not taken an entry changes.
LEMMA BookkeepingStep ==
    ASSUME IndInv, UNCHANGED <<now, pending, requests, executed>>,
           NEW c \in Calls, call[c].st # "execute",
           NEW r \in CallRecords, call' = [call EXCEPT ![c] = r], r.st # "execute",
           r.st = "take" => r.id \in Guesses /\ MayConfirm(r.caller)
    PROVE  IndInv'
<1>1. call' \in [Calls -> CallRecords] /\ Taken' = Taken /\ call'[c] = r
  BY DEF IndInv, TypeOK, Taken
<1>2. \A d \in Calls : d # c => call'[d] = call[d]
  BY DEF IndInv, TypeOK
<1>3. \A d \in Taken : call'[d] = call[d] /\ d \in Calls
  BY <1>2 DEF Taken
<1>4. TypeOK' /\ MapFaithful'
  BY <1>1 DEF IndInv, TypeOK, MapFaithful
<1>5. Checked'
  BY <1>1, <1>2 DEF IndInv, Checked
<1>6. Owned' /\ OneOwner'
  BY <1>1, <1>3 DEF IndInv, Owned, OneOwner
<1>7. ExecutedAtMostOnce' /\ ExecutedAsApproved'
  BY DEF IndInv, ExecutedAtMostOnce, ExecutedAsApproved, Approved
<1>8. NothingVanishes'
  BY <1>1, <1>3 DEF IndInv, NothingVanishes
<1> QED
  BY <1>4, <1>5, <1>6, <1>7, <1>8 DEF IndInv

\* Finishing a call replaces its record by one that says "replied".
LEMMA FinishRecord ==
    ASSUME TypeOK, NEW c \in Calls, NEW reply \in Replies, Finish(c, reply)
    PROVE  \E r \in CallRecords :
             call' = [call EXCEPT ![c] = r] /\ r.st = "replied" /\ r.reply = reply
<1> DEFINE r == [call[c] EXCEPT !.st = "replied", !.reply = reply]
<1>1. call[c] \in CallRecords
  BY DEF TypeOK
<1>2. r \in CallRecords /\ r.st = "replied" /\ r.reply = reply
  BY <1>1 DEF CallRecords, CallStates
<1>3. call' = [call EXCEPT ![c] = r]
  BY <1>1 DEF Finish, TypeOK, CallRecords
<1> QED
  BY <1>2, <1>3

\* Arriving, being denied, refused or approved touches neither the map nor the history.
LEMMA CheckStep ==
    ASSUME IndInv, NEW c \in Calls,
           Invoke(c) \/ Deny(c) \/ RefuseParams(c) \/ Approve(c)
    PROVE  IndInv'
<1>1. call[c] \in CallRecords /\ call \in [Calls -> CallRecords]
  BY DEF IndInv, TypeOK
<1>2. CASE InvokeRequest(c)
  <2>1. PICK caller \in Callers, params \in Params :
          call' = [call EXCEPT ![c].st = "store", ![c].caller = caller, ![c].params = params]
    BY <1>2 DEF InvokeRequest
  <2> DEFINE r == [call[c] EXCEPT !.st = "store", !.caller = caller, !.params = params]
  <2>2. r \in CallRecords /\ r.st = "store" /\ call' = [call EXCEPT ![c] = r]
    BY <1>1, <2>1 DEF CallRecords, CallStates
  <2> QED
    BY <1>2, <2>2, BookkeepingStep DEF InvokeRequest
<1>3. CASE InvokeConfirm(c)
  <2>1. PICK caller \in Callers, id \in Guesses \cup {NoId} :
          call' = [call EXCEPT ![c].st = "check", ![c].caller = caller, ![c].id = id]
    BY <1>3 DEF InvokeConfirm
  <2> DEFINE r == [call[c] EXCEPT !.st = "check", !.caller = caller, !.id = id]
  <2>2. r \in CallRecords /\ r.st = "check" /\ call' = [call EXCEPT ![c] = r]
    BY <1>1, <2>1 DEF CallRecords, CallStates
  <2> QED
    BY <1>3, <2>2, BookkeepingStep DEF InvokeConfirm
<1>4. CASE Approve(c)
  <2> DEFINE r == [call[c] EXCEPT !.st = "take"]
  <2>1. r \in CallRecords /\ r.st = "take" /\ call' = [call EXCEPT ![c] = r]
    BY <1>1, <1>4 DEF Approve, CallRecords, CallStates
  <2>2. r.id \in Guesses /\ MayConfirm(r.caller)
    BY <1>1, <1>4 DEF Approve, CallRecords
  <2> QED
    BY <1>4, <2>1, <2>2, BookkeepingStep DEF Approve
<1>5. CASE InvokeUnknown(c) \/ Deny(c) \/ RefuseParams(c)
  <2>1. PICK reply \in {"not_found", "denied", "invalid"} : Finish(c, reply)
    BY <1>5 DEF InvokeUnknown, Deny, RefuseParams
  <2>2. PICK r \in CallRecords : call' = [call EXCEPT ![c] = r] /\ r.st = "replied"
    BY <2>1, FinishRecord DEF IndInv, Replies
  <2>3. UNCHANGED <<now, pending, requests, executed>> /\ call[c].st # "execute"
    BY <1>5 DEF InvokeUnknown, Deny, RefuseParams
  <2> QED
    BY <2>2, <2>3, BookkeepingStep
<1> QED
  BY <1>2, <1>3, <1>4, <1>5 DEF Invoke

\* sweep_expired_locked (217-225) drops only entries whose age has reached the TTL.
LEMMA SweptExpired ==
    ASSUME TypeOK, MapFaithful, NEW k \in DOMAIN pending \ Live
    PROVE  now >= requests[k].at + TTL
<1>1. k \in 1..Len(requests) /\ requests \in Seq(Entries) /\ now \in 0..MaxTime
  BY DEF TypeOK
<1>2. requests[k] \in Entries
  BY <1>1
<1>3. now \in Nat /\ TTL \in Nat /\ requests[k].at \in Nat
  BY <1>1, <1>2, TimeAssumption DEF Entries
<1> QED
  BY <1>3 DEF Live, MapFaithful

\* Storing a request under a fresh id keeps the invariant: no call can own the id yet.
LEMMA StoreStep ==
    ASSUME IndInv, NEW c \in Calls, StoreRequest(c)
    PROVE  IndInv'
<1> USE DEF IndInv
<1> DEFINE id == Len(requests) + 1
           e  == [params |-> call[c].params, caller |-> call[c].caller, at |-> now]
<1>1. call[c] \in CallRecords /\ e \in Entries
  BY DEF TypeOK, CallRecords, Entries
<1>2. PICK r \in CallRecords : call' = [call EXCEPT ![c] = r] /\ r.st = "replied"
  BY FinishRecord DEF StoreRequest, Replies
<1>3. /\ requests' \in Seq(Entries) /\ Len(requests') = id /\ Len(requests) \in Nat
      /\ \A i \in 1..Len(requests) : requests'[i] = requests[i]
      /\ requests'[id] = e
  BY <1>1 DEF StoreRequest, TypeOK
<1>4. /\ DOMAIN pending' = Live \cup {id}
      /\ \A i \in Live : i # id => pending'[i] = pending[i]
      /\ pending'[id] = e
      /\ pending' = [i \in Live \cup {id} |-> IF i = id THEN e ELSE pending[i]]
  BY DEF StoreRequest
<1>5. Live \subseteq DOMAIN pending /\ DOMAIN pending \subseteq 1..Len(requests)
  BY DEF Live, TypeOK
<1>6. id \notin 1..Len(requests) /\ 1..Len(requests') = 1..Len(requests) \cup {id}
  BY <1>3
<1>7. UNCHANGED <<now, executed>> /\ call[c].st = "store"
  BY DEF StoreRequest
<1>8. /\ call' \in [Calls -> CallRecords] /\ Taken' = Taken /\ call'[c] = r
      /\ \A d \in Taken : call'[d] = call[d] /\ d \in Calls
      /\ \A d \in Calls : d # c => call'[d] = call[d]
  BY <1>2, <1>7 DEF TypeOK, Taken
<1> HIDE DEF id, e
<1>9. TypeOK'
  <2>1. \A i \in Live : pending[i] \in Entries
    BY <1>5 DEF TypeOK
  <2>2. pending' \in [DOMAIN pending' -> Entries]
    BY <1>1, <1>4, <2>1
  <2>3. DOMAIN pending' \subseteq 1..Len(requests')
    BY <1>4, <1>5, <1>6
  <2> QED
    BY <1>3, <1>7, <1>8, <2>2, <2>3 DEF TypeOK
<1>10. MapFaithful'
  BY <1>3, <1>4, <1>5, <1>6 DEF MapFaithful
<1>11. Checked'
  BY <1>2, <1>8 DEF Checked
<1>12. \A i \in 1..Len(executed) : executed[i].id \in 1..Len(requests)
  BY DEF ExecutedAsApproved, Approved
<1>13. Owned'
  BY <1>3, <1>4, <1>5, <1>6, <1>8 DEF Owned
<1>14. OneOwner'
  BY <1>4, <1>5, <1>6, <1>7, <1>8, <1>12 DEF OneOwner
<1>15. ExecutedAtMostOnce' /\ ExecutedAsApproved'
  BY <1>3, <1>6, <1>7, <1>12 DEF ExecutedAtMostOnce, ExecutedAsApproved, Approved
<1>16. NothingVanishes'
  <2> SUFFICES ASSUME NEW k \in 1..Len(requests')
               PROVE  \/ k \in DOMAIN pending'
                      \/ now >= requests'[k].at + TTL
                      \/ \E d \in Taken : call[d].id = k
                      \/ \E i \in 1..Len(executed) : executed[i].id = k
    BY <1>7, <1>8 DEF NothingVanishes
  <2>1. CASE k = id
    BY <2>1, <1>4
  <2>2. CASE k # id
    <3>1. k \in 1..Len(requests) /\ requests'[k] = requests[k] /\ requests[k] \in Entries
      BY <1>3, <1>6, <2>2 DEF TypeOK
    <3> QED
      BY <1>4, <3>1, SweptExpired DEF NothingVanishes
  <2> QED
    BY <2>1, <2>2
<1> QED
  BY <1>9, <1>10, <1>11, <1>13, <1>14, <1>15, <1>16

\* Taking an entry moves its id from the map to the call; an unsuccessful take only
\* sweeps the map.
LEMMA TakeStep ==
    ASSUME IndInv, NEW c \in Calls, TakePending(c) \/ NoPending(c)
    PROVE  IndInv'
<1> USE DEF IndInv
<1> DEFINE id == call[c].id
<1>1. /\ call[c] \in CallRecords /\ id \in Guesses /\ MayConfirm(call[c].caller)
      /\ call[c].st = "take" /\ UNCHANGED <<now, requests, executed>>
  BY DEF TypeOK, Checked, TakePending, NoPending
<1>2. Live \subseteq DOMAIN pending /\ DOMAIN pending \subseteq 1..Len(requests)
  BY DEF Live, TypeOK
<1>3. /\ DOMAIN pending' = Live \ {id}
      /\ \A i \in DOMAIN pending' : pending'[i] = pending[i]
      /\ pending' = [i \in Live \ {id} |-> pending[i]]
  <2>1. pending' = [i \in Live \ {id} |-> pending[i]]
    <3>1. CASE TakePending(c)
      BY <3>1 DEF TakePending
    <3>2. CASE NoPending(c)
      <4>1. id \notin Live /\ Live \ {id} = Live
        BY <3>2 DEF NoPending
      <4>2. pending' = [i \in Live |-> pending[i]]
        BY <3>2 DEF NoPending
      <4> QED
        BY <4>1, <4>2
    <3> QED
      BY <3>1, <3>2
  <2> QED
    BY <2>1
<1>4. PICK r \in CallRecords :
        /\ call' = [call EXCEPT ![c] = r]
        /\ \/ r.st = "replied" /\ id \notin Live
           \/ /\ r.st = "execute" /\ id \in Live /\ r.id = id
              /\ r.caller = call[c].caller /\ r.params = pending[id].params /\ r.at = now
  <2>1. CASE TakePending(c)
    <3> DEFINE q == [call[c] EXCEPT !.st = "execute", !.params = pending[id].params, !.at = now]
    <3>1. id \in Live /\ pending[id] \in Entries /\ now \in 0..MaxTime
      BY <2>1, <1>2 DEF TakePending, TypeOK
    <3>2. q \in CallRecords /\ call' = [call EXCEPT ![c] = q]
      BY <1>1, <2>1, <3>1 DEF TakePending, CallRecords, CallStates, Entries, TypeOK
    <3>3. /\ q.st = "execute" /\ q.id = id /\ q.caller = call[c].caller
          /\ q.params = pending[id].params /\ q.at = now
      BY <1>1 DEF CallRecords
    <3> QED
      BY <3>1, <3>2, <3>3
  <2>2. CASE NoPending(c)
    BY <2>2, FinishRecord DEF NoPending, Replies
  <2> QED
    BY <2>1, <2>2
<1>5. /\ call' \in [Calls -> CallRecords] /\ call'[c] = r
      /\ \A d \in Calls : d # c => call'[d] = call[d]
      /\ c \notin Taken /\ Taken' = IF r.st = "execute" THEN Taken \cup {c} ELSE Taken
      /\ \A d \in Taken : d \in Calls /\ d # c /\ call'[d] = call[d]
  BY <1>1, <1>4 DEF TypeOK, Taken
<1>6. \A i \in DOMAIN pending' : i \in DOMAIN pending /\ i # id
  BY <1>2, <1>3
<1> HIDE DEF id
<1>7. TypeOK'
  <2>1. pending' \in [DOMAIN pending' -> Entries]
    BY <1>3, <1>6 DEF TypeOK
  <2> QED
    BY <1>1, <1>2, <1>3, <1>5, <2>1 DEF TypeOK
<1>8. MapFaithful'
  BY <1>1, <1>3, <1>6 DEF MapFaithful
<1>9. Checked'
  BY <1>1, <1>4, <1>5 DEF Checked
<1>10. r.st = "execute" =>
         /\ id \in DOMAIN pending /\ id \in 1..Len(requests)
         /\ r.params = requests[id].params /\ r.at < requests[id].at + TTL
  BY <1>2, <1>4 DEF MapFaithful, Live
<1>11. Owned'
  BY <1>1, <1>4, <1>5, <1>6, <1>10 DEF Owned
<1>12. OneOwner'
  BY <1>1, <1>4, <1>5, <1>6, <1>10 DEF OneOwner, Owned
<1>13. ExecutedAtMostOnce' /\ ExecutedAsApproved'
  BY <1>1 DEF ExecutedAtMostOnce, ExecutedAsApproved, Approved
<1>14. NothingVanishes'
  <2> SUFFICES ASSUME NEW k \in 1..Len(requests)
               PROVE  \/ k \in DOMAIN pending'
                      \/ now >= requests[k].at + TTL
                      \/ \E d \in Taken' : call'[d].id = k
                      \/ \E i \in 1..Len(executed) : executed[i].id = k
    BY <1>1 DEF NothingVanishes
  <2>1. CASE k \in Live
    BY <2>1, <1>3, <1>4, <1>5 DEF id
  <2>2. CASE k \notin Live
    BY <2>2, <1>5, SweptExpired DEF NothingVanishes
  <2> QED
    BY <2>1, <2>2
<1> QED
  BY <1>7, <1>8, <1>9, <1>11, <1>12, <1>13, <1>14

\* Running the executor moves the id from the call to the history.
LEMMA ExecuteStep ==
    ASSUME IndInv, NEW c \in Calls, Execute(c)
    PROVE  IndInv'
<1> USE DEF IndInv
<1> DEFINE x == [id |-> call[c].id, params |-> call[c].params,
                 by |-> call[c].caller, at |-> call[c].at]
<1>1. /\ c \in Taken /\ call[c] \in CallRecords
      /\ call[c].id \in Guesses /\ MayConfirm(call[c].caller)
      /\ UNCHANGED <<now, pending, requests>>
  BY DEF Execute, Taken, TypeOK, Checked
<1>2. x \in Executions /\ x.id = call[c].id /\ Approved(x)
  BY <1>1 DEF Executions, CallRecords, Owned, Approved
<1>3. /\ executed' \in Seq(Executions) /\ Len(executed) \in Nat
      /\ Len(executed') = Len(executed) + 1
      /\ \A i \in 1..Len(executed) : executed'[i] = executed[i]
      /\ executed'[Len(executed) + 1] = x
  <2>1. executed' = Append(executed, x) /\ executed \in Seq(Executions)
    BY DEF Execute, TypeOK
  <2> HIDE DEF x
  <2> QED
    BY <1>2, <2>1
<1>4. PICK r \in CallRecords : call' = [call EXCEPT ![c] = r] /\ r.st = "replied"
  BY FinishRecord DEF Execute, Replies
<1>5. /\ call' \in [Calls -> CallRecords] /\ call'[c] = r
      /\ \A d \in Calls : d # c => call'[d] = call[d]
      /\ Taken' = Taken \ {c}
      /\ \A d \in Taken' : d \in Taken /\ d \in Calls /\ d # c /\ call'[d] = call[d]
  BY <1>4 DEF TypeOK, Taken
<1>6. \A i \in 1..Len(executed') : i \in 1..Len(executed) \/ i = Len(executed) + 1
  BY <1>3
<1> HIDE DEF x
<1>7. TypeOK' /\ MapFaithful'
  BY <1>1, <1>3, <1>5 DEF TypeOK, MapFaithful
<1>8. Checked'
  BY <1>4, <1>5 DEF Checked
<1>9. Owned'
  BY <1>1, <1>5 DEF Owned
<1>10. OneOwner'
  <2>1. \A d, f \in Taken' : call'[d].id = call'[f].id => d = f
    BY <1>5 DEF OneOwner
  <2>2. \A d \in Taken' : call'[d].id # x.id
    BY <1>1, <1>2, <1>5 DEF OneOwner
  <2>3. x.id \notin DOMAIN pending
    BY <1>1, <1>2 DEF Owned
  <2>4. \A d \in Taken' : \A i \in 1..Len(executed') : executed'[i].id # call'[d].id
    BY <1>3, <1>5, <1>6, <2>2 DEF OneOwner
  <2>5. \A i \in 1..Len(executed') : executed'[i].id \notin DOMAIN pending'
    BY <1>1, <1>3, <1>6, <2>3 DEF OneOwner
  <2> QED
    BY <2>1, <2>4, <2>5 DEF OneOwner
<1>11. ExecutedAtMostOnce'
  BY <1>1, <1>2, <1>3, <1>6 DEF ExecutedAtMostOnce, OneOwner
<1>12. ExecutedAsApproved'
  BY <1>1, <1>2, <1>3, <1>6 DEF ExecutedAsApproved, Approved
<1>13. NothingVanishes'
  <2>1. \A i \in 1..Len(executed) : i \in 1..Len(executed')
    BY <1>3
  <2>2. Len(executed) + 1 \in 1..Len(executed')
    BY <1>3
  <2>3. \A d \in Taken : d = c \/ (d \in Taken' /\ call'[d] = call[d])
    BY <1>5
  <2> SUFFICES ASSUME NEW k \in 1..Len(requests)
               PROVE  \/ k \in DOMAIN pending
                      \/ now >= requests[k].at + TTL
                      \/ \E d \in Taken' : call'[d].id = k
                      \/ \E i \in 1..Len(executed') : executed'[i].id = k
    BY <1>1 DEF NothingVanishes
  <2>4. (\E d \in Taken : call[d].id = k) =>
          \/ \E d \in Taken' : call'[d].id = k
          \/ executed'[Len(executed) + 1].id = k
    BY <1>2, <1>3, <2>3
  <2>5. (\E i \in 1..Len(executed) : executed[i].id = k) =>
          \E i \in 1..Len(executed') : executed'[i].id = k
    BY <1>3, <2>1
  <2> QED
    BY <2>2, <2>4, <2>5 DEF NothingVanishes
<1> QED
  BY <1>7, <1>8, <1>9, <1>10, <1>11, <1>12, <1>13

\* The clock only ages entries.
LEMMA TickStep ==
    ASSUME IndInv, Tick
    PROVE  IndInv'
<1> USE DEF IndInv
<1>1. UNCHANGED <<pending, call, requests, executed>> /\ now' \in 0..MaxTime /\ now' >= now
  BY TimeAssumption DEF Tick, TypeOK
<1>2. TypeOK' /\ MapFaithful' /\ Checked' /\ Owned' /\ OneOwner'
  BY <1>1 DEF TypeOK, MapFaithful, Checked, Owned, OneOwner, Taken
<1>3. ExecutedAtMostOnce' /\ ExecutedAsApproved'
  BY <1>1 DEF ExecutedAtMostOnce, ExecutedAsApproved, Approved
<1>4. NothingVanishes'
  <2>1. \A k \in 1..Len(requests) : requests[k].at + TTL \in Nat /\ now \in Nat
    <3>1. \A k \in 1..Len(requests) : requests[k] \in Entries
      BY DEF TypeOK
    <3> QED
      BY <3>1, TimeAssumption DEF TypeOK, Entries
  <2>2. \A k \in 1..Len(requests) :
           now >= requests[k].at + TTL => now' >= requests[k].at + TTL
    BY <1>1, <2>1
  <2> QED
    BY <1>1, <2>2 DEF NothingVanishes, Taken
<1> QED
  BY <1>2, <1>3, <1>4

-----------------------------------------------------------------------------
\* The invariant holds initially and every step of every call keeps it.
THEOREM Invariance == Spec => []IndInv
<1>1. Init => IndInv
  <2> SUFFICES ASSUME Init PROVE IndInv
    OBVIOUS
  <2>1. call \in [Calls -> CallRecords] /\ \A c \in Calls : call[c].st = "idle"
    BY InputAssumption, TimeAssumption DEF Init, CallRecords, CallStates, Replies
  <2>2. /\ pending = <<>> /\ requests = <<>> /\ executed = <<>> /\ now = 0
        /\ DOMAIN pending = {} /\ 1..Len(requests) = {} /\ 1..Len(executed) = {}
    BY DEF Init
  <2>3. TypeOK
    BY <2>1, <2>2, TimeAssumption DEF TypeOK
  <2>4. MapFaithful /\ Checked /\ Owned /\ OneOwner
    BY <2>1, <2>2 DEF MapFaithful, Checked, Owned, OneOwner, Taken
  <2>5. ExecutedAtMostOnce /\ ExecutedAsApproved /\ NothingVanishes
    BY <2>2 DEF ExecutedAtMostOnce, ExecutedAsApproved, NothingVanishes
  <2> QED
    BY <2>3, <2>4, <2>5 DEF IndInv
<1>2. IndInv /\ [Next]_vars => IndInv'
  <2> SUFFICES ASSUME IndInv, [Next]_vars PROVE IndInv'
    OBVIOUS
  <2>1. ASSUME NEW c \in Calls, Invoke(c) \/ Route(c) PROVE IndInv'
    BY <2>1, CheckStep, StoreStep, TakeStep, ExecuteStep DEF Route
  <2>2. CASE Tick
    BY <2>2, TickStep
  <2>3. CASE Quiesced \/ UNCHANGED vars
    <3>1. UNCHANGED <<now, pending, call, requests, executed>>
      BY <2>3 DEF Quiesced, vars
    <3>2. TypeOK' /\ MapFaithful' /\ Checked'
      BY <3>1 DEF IndInv, TypeOK, MapFaithful, Checked
    <3>3. Owned' /\ OneOwner'
      BY <3>1 DEF IndInv, Owned, OneOwner, Taken
    <3>4. ExecutedAtMostOnce' /\ ExecutedAsApproved' /\ NothingVanishes'
      BY <3>1 DEF IndInv, ExecutedAtMostOnce, ExecutedAsApproved, Approved, NothingVanishes,
         Taken
    <3> QED
      BY <3>2, <3>3, <3>4 DEF IndInv
  <2> QED
    BY <2>1, <2>2, <2>3 DEF Next
<1> QED
  BY <1>1, <1>2, PTL DEF Spec

\* Racing confirmations never run the executor twice for one pending id.
THEOREM OneExecution == Spec => []ExecutedAtMostOnce
BY Invariance, PTL DEF IndInv

\* Whatever is executed was requested with these params, confirmed in time, and
\* confirmed by a caller on the allowlist.
THEOREM OnlyApprovedRuns == Spec => []ExecutedAsApproved
BY Invariance, PTL DEF IndInv

\* A caller of a single segment passes only if it is on the allowlist itself: a glob needs
\* a segment after its prefix, which is not empty.
LEMMA BareIsListed ==
    ASSUME NEW caller, Len(caller) = 1, MayConfirm(caller)
    PROVE  [glob |-> FALSE, id |-> caller] \in ConfirmCallers
<1>1. PICK e \in ConfirmCallers :
        IF e.glob THEN Len(caller) > Len(e.id) /\ SubSeq(caller, 1, Len(e.id)) = e.id
                  ELSE caller = e.id
  BY DEF MayConfirm
<1>2. e \in [glob : BOOLEAN, id : Seq(STRING) \ {<<>>}]
  BY AllowlistAssumption
<1>3. e.id \in Seq(STRING) /\ e.id # <<>>
  BY <1>2
<1>4. Len(e.id) \in Nat /\ Len(e.id) > 0
  BY <1>3
<1>5. ~e.glob
  BY <1>1, <1>4
<1>6. e.glob = FALSE
  BY <1>2, <1>5
<1>7. e = [glob |-> FALSE, id |-> caller]
  BY <1>1, <1>2, <1>5, <1>6
<1> QED
  BY <1>7

\* Whatever was executed was confirmed by a caller that the allowlist names, or by one that
\* extends a listed prefix.
THEOREM BareCallersListed == Spec => []OnlyListed
<1>1. IndInv => OnlyListed
  BY BareIsListed DEF IndInv, ExecutedAsApproved, Approved, OnlyListed
<1> QED
  BY <1>1, Invariance, PTL

\* A stored request is not lost before its time to live has passed.
THEOREM NoRequestLost == Spec => []NothingVanishes
BY Invariance, PTL DEF IndInv

\* Every reachable state of the gate is well typed.
THEOREM TypeCorrect == Spec => []TypeOK
BY Invariance, PTL DEF IndInv

-----------------------------------------------------------------------------
(***************************************************************************)
(* Route implements ConfirmedOperation: what the abstract variables stand  *)
(* for, then one lemma per kind of step.                                   *)
(***************************************************************************)
Asked == [i \in 1..Len(requests) |-> requests[i].params]
Claimed == {call[c].id : c \in Taken}
Ran == [i \in 1..Len(executed) |-> [id |-> executed[i].id, params |-> executed[i].params,
                                    by |-> executed[i].by]]

\* A function on 1..n is a sequence of length n.
LEMMA FunctionSequence ==
    ASSUME NEW S, NEW n \in Nat, NEW f \in [1..n -> S]
    PROVE  f \in Seq(S) /\ Len(f) = n
OBVIOUS

\* The abstract history is a sequence as long as the stored requests.
LEMMA AskedSequence ==
    ASSUME TypeOK
    PROVE  Asked \in Seq(Params) /\ Len(Asked) = Len(requests)
<1>1. Len(requests) \in Nat /\ \A i \in 1..Len(requests) : requests[i] \in Entries
  BY DEF TypeOK
<1>2. \A i \in 1..Len(requests) : requests[i].params \in Params
  BY <1>1 DEF Entries
<1>3. Asked \in [1..Len(requests) -> Params]
  BY <1>2 DEF Asked
<1> QED
  BY <1>1, <1>3, FunctionSequence

\* So are the runs.
LEMMA RanSequence ==
    ASSUME TypeOK
    PROVE  /\ Ran \in Seq([id : Guesses, params : Params, by : Callers])
           /\ Len(Ran) = Len(executed)
<1>1. Len(executed) \in Nat /\ \A i \in 1..Len(executed) : executed[i] \in Executions
  BY DEF TypeOK
<1>2. \A i \in 1..Len(executed) :
        [id |-> executed[i].id, params |-> executed[i].params, by |-> executed[i].by]
          \in [id : Guesses, params : Params, by : Callers]
  BY <1>1 DEF Executions
<1>3. Ran \in [1..Len(executed) -> [id : Guesses, params : Params, by : Callers]]
  BY <1>2 DEF Ran
<1> QED
  BY <1>1, <1>3, FunctionSequence

\* Storing a request asks for its params.
LEMMA StoreAsks ==
    ASSUME IndInv, NEW c \in Calls, StoreRequest(c)
    PROVE  \E p \in Params : Abstract!Ask(p)
<1>1. call[c] \in CallRecords /\ requests \in Seq(Entries) /\ TypeOK /\ now \in 0..MaxTime
  BY DEF IndInv, TypeOK
<1> DEFINE e == [params |-> call[c].params, caller |-> call[c].caller, at |-> now]
<1>2. /\ requests' = Append(requests, e) /\ UNCHANGED <<now, executed>>
      /\ DOMAIN pending' = Live \cup {Len(requests) + 1}
  BY DEF StoreRequest
<1>3. e \in Entries /\ call[c].params \in Params
  BY <1>1 DEF Entries, CallRecords
<1>4. Asked' = Append(Asked, call[c].params)
  <2>1. Len(requests') = Len(requests) + 1 /\ Len(requests) \in Nat
    BY <1>1, <1>2, <1>3
  <2>2. \A i \in 1..Len(requests') :
          requests'[i].params = IF i = Len(requests) + 1 THEN call[c].params ELSE requests[i].params
    BY <1>1, <1>2, <1>3, <2>1
  <2>3. Asked' = [i \in 1..Len(requests)+1 |->
                    IF i = Len(requests) + 1 THEN call[c].params ELSE requests[i].params]
    BY <2>1, <2>2 DEF Asked
  <2>4. Asked \in Seq(Params) /\ Len(Asked) = Len(requests)
    BY <1>1, AskedSequence
  <2>5. \A i \in 1..Len(requests) : Asked[i] = requests[i].params
    BY DEF Asked
  <2>6. Append(Asked, call[c].params) =
          [i \in 1..Len(requests)+1 |->
             IF i = Len(requests) + 1 THEN call[c].params ELSE Asked[i]]
    BY <1>3, <2>1, <2>4
  <2> QED
    BY <2>1, <2>3, <2>5, <2>6
<1>5. Claimed' = Claimed
  <2>1. Taken' = Taken /\ \A d \in Taken : call'[d].id = call[d].id
    BY DEF StoreRequest, Finish, Taken, IndInv, TypeOK
  <2> QED
    BY <2>1 DEF Claimed
<1>6. Len(Asked) = Len(requests) /\ Ran' = Ran
  BY <1>1, <1>2, AskedSequence DEF Ran
<1>7. Live \in SUBSET DOMAIN pending
  BY DEF Live
<1>8. Abstract!Ask(call[c].params)
  BY <1>2, <1>4, <1>5, <1>6, <1>7 DEF Abstract!Ask, Abstract!StillOpen, Asked, Claimed, Ran
<1> QED
  BY <1>3, <1>8 DEF Abstract!Ask, Abstract!StillOpen

\* Taking an entry claims it; the sweep that goes with it lets others lapse.
LEMMA TakeClaims ==
    ASSUME IndInv, NEW c \in Calls, TakePending(c)
    PROVE  \E id \in DOMAIN pending : Abstract!Claim(id)
<1>1. call[c].id \in DOMAIN pending /\ DOMAIN pending' \in SUBSET (DOMAIN pending \ {call[c].id})
  BY DEF TakePending, Live
<1>2. Taken' = Taken \cup {c} /\ \A d \in Calls : call'[d].id = call[d].id
  BY DEF TakePending, Taken, IndInv, TypeOK, CallRecords
<1>3. Claimed' = Claimed \cup {call[c].id}
  BY <1>2 DEF Claimed, Taken
<1>4. Asked' = Asked /\ Ran' = Ran
  BY DEF TakePending, Asked, Ran
<1>5. Abstract!Claim(call[c].id)
  BY <1>1, <1>3, <1>4 DEF Abstract!Claim, Asked, Claimed, Ran
<1> QED
  BY <1>1, <1>5 DEF Abstract!Claim

\* Running the executor runs a claimed operation on what was asked, for an approver.
LEMMA ExecuteRuns ==
    ASSUME IndInv, NEW c \in Calls, Execute(c)
    PROVE  \E id \in Claimed, by \in {x \in Callers : MayConfirm(x)} : Abstract!Run(id, by)
<1> DEFINE x == [id |-> call[c].id, params |-> call[c].params, by |-> call[c].caller,
                 at |-> call[c].at]
<1> DEFINE r == [id |-> call[c].id, params |-> call[c].params, by |-> call[c].caller]
<1>1. call[c] \in CallRecords /\ executed \in Seq(Executions) /\ TypeOK /\ c \in Taken
  BY DEF IndInv, TypeOK, Taken, Execute
<1>2. call[c].id \in Guesses /\ MayConfirm(call[c].caller) /\ call[c].caller \in Callers
  BY <1>1 DEF IndInv, Checked, CallRecords, Execute
<1>3. executed' = Append(executed, x) /\ UNCHANGED <<now, pending, requests>>
  BY DEF Execute
<1>4. x \in Executions /\ r \in [id : Guesses, params : Params, by : Callers]
  BY <1>1, <1>2 DEF Executions, CallRecords
<1>5. Ran' = Append(Ran, r)
  <2>1. Len(executed') = Len(executed) + 1 /\ Len(executed) \in Nat
    BY <1>1, <1>3, <1>4
  <2>2. \A i \in 1..Len(executed') :
          executed'[i] = IF i = Len(executed) + 1 THEN x ELSE executed[i]
    BY <1>1, <1>3, <1>4, <2>1
  <2>3. Ran \in Seq([id : Guesses, params : Params, by : Callers]) /\ Len(Ran) = Len(executed)
    BY <1>1, RanSequence
  <2>4. \A i \in 1..Len(executed) :
          Ran[i] = [id |-> executed[i].id, params |-> executed[i].params, by |-> executed[i].by]
    BY DEF Ran
  <2>5. Append(Ran, r) =
          [i \in 1..Len(executed)+1 |-> IF i = Len(executed) + 1 THEN r ELSE Ran[i]]
    BY <1>4, <2>1, <2>3
  <2>6. \A i \in 1..Len(executed') :
          [id |-> executed'[i].id, params |-> executed'[i].params, by |-> executed'[i].by]
            = IF i = Len(executed) + 1 THEN r ELSE Ran[i]
    BY <2>1, <2>2, <2>4
  <2>7. Ran' = [i \in 1..Len(executed)+1 |-> IF i = Len(executed) + 1 THEN r ELSE Ran[i]]
    BY <2>1, <2>6 DEF Ran
  <2> QED
    BY <2>5, <2>7
<1>6. Claimed' = Claimed \ {call[c].id} /\ call[c].id \in Claimed
  <2>1. Taken' = Taken \ {c} /\ \A d \in Calls : call'[d].id = call[d].id
    <3>1. PICK reply : Finish(c, reply)
      BY DEF Execute
    <3>2. \A d \in Calls : d # c => call'[d] = call[d]
      BY <1>1, <3>1 DEF Finish, TypeOK
    <3>3. call'[c].id = call[c].id /\ call'[c].st = "replied"
      BY <1>1, <3>1 DEF Finish, TypeOK, CallRecords
    <3> QED
      BY <3>2, <3>3 DEF Taken
  <2>2. \A d \in Taken : call[d].id = call[c].id => d = c
    BY <1>1 DEF IndInv, OneOwner
  <2> QED
    BY <1>1, <2>1, <2>2 DEF Claimed, Taken
<1>7. call[c].params = Asked[call[c].id]
  BY <1>1 DEF IndInv, Owned, Asked
<1>8. Asked' = Asked
  BY <1>3 DEF Asked
<1>9. Abstract!Run(call[c].id, call[c].caller)
  BY <1>3, <1>5, <1>6, <1>7, <1>8 DEF Abstract!Run, Asked, Claimed, Ran
<1> QED
  BY <1>2, <1>6, <1>9 DEF Abstract!Run

\* Every other step is invisible, or a sweep that lets requests lapse.
LEMMA OtherStutters ==
    ASSUME IndInv, NEW c \in Calls,
           Invoke(c) \/ Deny(c) \/ RefuseParams(c) \/ Approve(c) \/ NoPending(c)
    PROVE  Abstract!Lapse
<1>1. UNCHANGED <<requests, executed>>
  BY DEF Invoke, InvokeRequest, InvokeConfirm, InvokeUnknown, Deny, RefuseParams, Approve,
         NoPending
<1>2. DOMAIN pending' \in SUBSET DOMAIN pending
  BY DEF Invoke, InvokeRequest, InvokeConfirm, InvokeUnknown, Deny, RefuseParams, Approve,
         NoPending, Live
<1>3. Taken' = Taken /\ \A d \in Taken : call'[d].id = call[d].id
  BY DEF Invoke, InvokeRequest, InvokeConfirm, InvokeUnknown, Deny, RefuseParams, Approve,
         NoPending, Finish, Taken, IndInv, TypeOK, CallRecords
<1>4. Asked' = Asked /\ Ran' = Ran /\ Claimed' = Claimed
  BY <1>1, <1>3 DEF Asked, Ran, Claimed
<1> QED
  BY <1>2, <1>4 DEF Abstract!Lapse, Abstract!StillOpen, Asked, Ran, Claimed

\* route implements ConfirmedOperation (227-251, 281-319): whatever the threads'
\* interleaving, every run of the executor was claimed once by an approver from the
\* open requests and works on what was asked.
THEOREM Refinement == Spec => ImplementsOperation
<1>1. Init => Abstract!Init
  BY DEF Init, Abstract!Init, Taken
<1>2. IndInv /\ [Next]_vars => [Abstract!Next]_(Abstract!vars)
  <2> SUFFICES ASSUME IndInv, [Next]_vars PROVE [Abstract!Next]_(Abstract!vars)
    OBVIOUS
  <2>1. ASSUME NEW c \in Calls, Invoke(c) \/ Route(c) PROVE Abstract!Next
    <3>1. CASE StoreRequest(c)
      BY <3>1, StoreAsks DEF Abstract!Next
    <3>2. CASE TakePending(c)
      BY <3>2, TakeClaims DEF Abstract!Next
    <3>3. CASE Execute(c)
      BY <3>3, ExecuteRuns DEF Abstract!Next, Claimed
    <3>4. CASE Invoke(c) \/ Deny(c) \/ RefuseParams(c) \/ Approve(c) \/ NoPending(c)
      BY <3>4, OtherStutters DEF Abstract!Next
    <3> QED
      BY <2>1, <3>1, <3>2, <3>3, <3>4 DEF Route
  <2>2. CASE Tick \/ Quiesced \/ UNCHANGED vars
    <3>1. UNCHANGED <<pending, call, requests, executed>>
      BY <2>2 DEF Tick, Quiesced, vars
    <3> QED
      BY <3>1 DEF Abstract!vars, Taken
  <2> QED
    BY <2>1, <2>2 DEF Next
<1> QED
  BY <1>1, <1>2, Invariance, PTL DEF Spec, ImplementsOperation, Abstract!Spec

-----------------------------------------------------------------------------
\* What a call replies in one step, and whether its caller was allowed.
LEMMA RefusalStep ==
    ASSUME IndInv, NEW c \in Calls, Invoke(c) \/ Route(c), NEW d \in Calls,
           call[d].st # "store", call'[d] # call[d], call'[d].st = "replied",
           ~MayConfirm(call'[d].caller)
    PROVE  call'[d].reply \in {"denied", "not_found"} /\ pending' = pending
<1>1. call \in [Calls -> CallRecords] /\ call[c] \in CallRecords
  BY DEF IndInv, TypeOK
<1>2. CASE InvokeRequest(c) \/ InvokeConfirm(c) \/ Approve(c) \/ TakePending(c)
  <2>1. call'[c].st \in {"store", "check", "take", "execute"}
    <3>1. CASE InvokeRequest(c)
      BY <1>1, <3>1 DEF InvokeRequest, CallRecords
    <3>2. CASE InvokeConfirm(c)
      BY <1>1, <3>2 DEF InvokeConfirm, CallRecords
    <3>3. CASE Approve(c) \/ TakePending(c)
      BY <1>1, <3>3 DEF Approve, TakePending, CallRecords
    <3> QED
      BY <1>2, <3>1, <3>2, <3>3
  <2>2. \A x \in Calls : x # c => call'[x] = call[x]
    BY <1>1, <1>2 DEF InvokeRequest, InvokeConfirm, Approve, TakePending
  <2> QED
    BY <2>1, <2>2
<1>3. ASSUME NEW reply, Finish(c, reply)
      PROVE  d = c /\ call'[c].reply = reply /\ call'[c].caller = call[c].caller
  <2>1. \A x \in Calls : x # c => call'[x] = call[x]
    BY <1>1, <1>3 DEF Finish
  <2>2. call'[c].reply = reply /\ call'[c].caller = call[c].caller
    BY <1>1, <1>3 DEF Finish, CallRecords
  <2> QED
    BY <2>1, <2>2
<1>4. CASE InvokeUnknown(c) \/ Deny(c)
  BY <1>3, <1>4 DEF InvokeUnknown, Deny
<1>5. CASE StoreRequest(c) \/ RefuseParams(c)
  BY <1>3, <1>5 DEF StoreRequest, RefuseParams
<1>6. CASE NoPending(c) \/ Execute(c)
  <2>1. MayConfirm(call[c].caller)
    BY <1>6 DEF NoPending, Execute, IndInv, Checked
  <2> QED
    BY <1>3, <1>6, <2>1 DEF NoPending, Execute
<1> QED
  BY <1>2, <1>4, <1>5, <1>6 DEF Invoke, Route

\* A caller that is not on the allowlist gets the same answer whatever the map holds,
\* and leaves the map alone (285-299).
THEOREM DenialRevealsNothing == Spec => DeniedLearnsNothing
<1>1. IndInv /\ [Next]_vars => [RefusedAlike]_vars
  <2>1. ASSUME IndInv, NEW c \in Calls, Invoke(c) \/ Route(c)
        PROVE  RefusedAlike
    BY <2>1, RefusalStep DEF RefusedAlike
  <2>2. ASSUME Tick \/ Quiesced \/ UNCHANGED vars PROVE RefusedAlike
    BY <2>2 DEF RefusedAlike, Tick, Quiesced, vars
  <2> QED
    BY <2>1, <2>2 DEF Next
<1> QED
  BY <1>1, Invariance, PTL DEF Spec, DeniedLearnsNothing
=============================================================================
