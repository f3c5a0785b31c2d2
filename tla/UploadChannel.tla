---------------------------- MODULE UploadChannel ----------------------------
(***************************************************************************)
(* What an upload client promises its caller, whatever the connection does *)
(* underneath: messages are accepted one at a time, each accepted message  *)
(* is either sent or lost, exactly once, and a caller that offers a        *)
(* message is not kept waiting for ever.                                   *)
(***************************************************************************)
EXTENDS Naturals

VARIABLES
    offering,   \* a caller is waiting to hand over a message
    busy,       \* a message is accepted and undecided
    sent,       \* messages the transport took
    lost        \* messages given up with an error

vars == <<offering, busy, sent, lost>>

Init == ~offering /\ ~busy /\ sent = 0 /\ lost = 0

Offer ==
    /\ ~offering
    /\ offering' = TRUE
    /\ UNCHANGED <<busy, sent, lost>>

Accept ==
    /\ offering /\ ~busy
    /\ offering' = FALSE
    /\ busy' = TRUE
    /\ UNCHANGED <<sent, lost>>

Send ==
    /\ busy
    /\ busy' = FALSE
    /\ sent' = sent + 1
    /\ UNCHANGED <<offering, lost>>

Lose ==
    /\ busy
    /\ busy' = FALSE
    /\ lost' = lost + 1
    /\ UNCHANGED <<offering, sent>>

Next == Offer \/ Accept \/ Send \/ Lose

SafeSpec == Init /\ [][Next]_vars

Spec == SafeSpec /\ WF_vars(Accept) /\ WF_vars(Send \/ Lose)
==============================================================================
