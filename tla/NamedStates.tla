---------------------------- MODULE NamedStates ----------------------------
(***************************************************************************)
(* What a filter promises to the estimators that use it: a value belongs   *)
(* to the state it was made for.  States are added with a value of their   *)
(* own, dropped, or kept as they are; measurements turn values into        *)
(* estimates and never take an estimate back; a saved filter is found      *)
(* again as it was.  There are no indices here.                            *)
(***************************************************************************)
EXTENDS Naturals, Sequences

CONSTANT Keys

VARIABLES states,  \* the value of each state that the filter has
          saved    \* the filters that have been saved

vars == << states, saved >>

NoStates == [k \in {} |-> k]

FreshValues(k) == [key : {k}, born : Nat, from : {"unset", "prior"}]

Init == states = NoStates /\ saved = << >>

(* A state is kept with its value, or gets a new one.                       *)
Renew ==
    /\ DOMAIN states' \subseteq Keys
    /\ \A k \in DOMAIN states' : \/ k \in DOMAIN states /\ states'[k] = states[k]
                                \/ states'[k] \in FreshValues(k)
    /\ UNCHANGED saved

(* Measurements estimate some of the states.                                *)
Improve ==
    /\ DOMAIN states' = DOMAIN states
    /\ \A k \in DOMAIN states : states'[k] \in {states[k], [states[k] EXCEPT !.from = "est"]}
    /\ UNCHANGED saved

Save == saved' = Append(saved, states) /\ UNCHANGED states

Restart ==
    /\ states' = NoStates \/ \E i \in DOMAIN saved : states' = saved[i]
    /\ UNCHANGED saved

Next == Renew \/ Improve \/ Save \/ Restart

Spec == Init /\ [][Next]_vars
=============================================================================
