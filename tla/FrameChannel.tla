---------------------------- MODULE FrameChannel ----------------------------
(***************************************************************************)
(* What both transports promise of the frames one end sends and the other  *)
(* receives: they are delivered in the order they were sent, none twice,   *)
(* and none is passed over unless a receive has thrown since the last      *)
(* delivery.  A receive that only runs out of time throws VynkorTimeout;   *)
(* it is no licence to lose anything.                                      *)
(***************************************************************************)
EXTENDS Naturals

VARIABLES
    sent,   \* how many frames were sent
    last,   \* the last frame delivered
    warned  \* a receive has thrown, other than VynkorTimeout, since then

Init == sent = 0 /\ last = 0 /\ warned = FALSE

Send == sent' = sent + 1 /\ UNCHANGED <<last, warned>>

Deliver ==
    \E i \in last + 1 .. sent :
        /\ i = last + 1 \/ warned
        /\ last' = i /\ warned' = FALSE /\ UNCHANGED sent

Fail == warned' = TRUE /\ UNCHANGED <<sent, last>>

Next == Send \/ Deliver \/ Fail

Spec == Init /\ [][Next]_<<sent, last, warned>>
=============================================================================
