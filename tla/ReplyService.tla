---------------------------- MODULE ReplyService ----------------------------
(***************************************************************************)
(* What serve_concurrent promises the kernel about the replies of its      *)
(* requests, without threads, queue, wake pipe or socket: the replies a    *)
(* handler returned leave one by one, in the order it returned them, each  *)
(* of them once; one that cannot be sent is skipped, never sent late.      *)
(***************************************************************************)
EXTENDS Naturals, Sequences

CONSTANTS Actions, MaxOut

VARIABLES
    owed,   \* how many replies a request's handler returned
    passed, \* how many of them were sent or skipped
    got     \* the positions of the replies the kernel got, in order

vars == <<owed, passed, got>>

Init ==
    /\ owed = [a \in Actions |-> 0] /\ passed = [a \in Actions |-> 0]
    /\ got = [a \in Actions |-> <<>>]

Return(a) ==
    /\ owed[a] = 0 /\ \E n \in 1..MaxOut : owed' = [owed EXCEPT ![a] = n]
    /\ UNCHANGED <<passed, got>>

Pass(a) ==
    /\ passed[a] < owed[a] /\ passed' = [passed EXCEPT ![a] = @ + 1]
    /\ UNCHANGED owed

Send(a) == Pass(a) /\ got' = [got EXCEPT ![a] = Append(@, passed[a] + 1)]

Skip(a) == Pass(a) /\ UNCHANGED got

Next == \E a \in Actions : Return(a) \/ Send(a) \/ Skip(a)

Spec == Init /\ [][Next]_vars
=============================================================================
