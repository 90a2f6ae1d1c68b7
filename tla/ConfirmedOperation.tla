------------------------- MODULE ConfirmedOperation -------------------------
(***************************************************************************)
(* What a confirmation gate promises the owner of its operation, without   *)
(* threads, clock or map: an operation is asked for, claimed once by an    *)
(* approver, and run once, on what was asked; what nobody claims lapses.   *)
(***************************************************************************)
EXTENDS Naturals, Sequences

CONSTANTS Params, Approvers

VARIABLES
    asked,   \* the params of every request, in order
    open,    \* requests that can still be claimed
    claimed, \* requests that are about to run
    ran      \* every run: which request, on which params, approved by whom

vars == <<asked, open, claimed, ran>>

Init == asked = <<>> /\ open = {} /\ claimed = {} /\ ran = <<>>

\* Any step that looks at the open requests may let some of them lapse.
StillOpen == SUBSET open

Ask(p) ==
    /\ asked' = Append(asked, p)
    /\ \E kept \in StillOpen : open' = kept \cup {Len(asked) + 1}
    /\ UNCHANGED <<claimed, ran>>

Claim(id) ==
    /\ id \in open /\ open' \in SUBSET (open \ {id})
    /\ claimed' = claimed \cup {id}
    /\ UNCHANGED <<asked, ran>>

Run(id, by) ==
    /\ id \in claimed /\ claimed' = claimed \ {id}
    /\ ran' = Append(ran, [id |-> id, params |-> asked[id], by |-> by])
    /\ UNCHANGED <<asked, open>>

Lapse == open' \in StillOpen /\ UNCHANGED <<asked, claimed, ran>>

Next ==
    \/ \E p \in Params : Ask(p)
    \/ \E id \in open : Claim(id)
    \/ \E id \in claimed, by \in Approvers : Run(id, by)
    \/ Lapse

Spec == Init /\ [][Next]_vars
=============================================================================
