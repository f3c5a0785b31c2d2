-------------------------- MODULE CorrectionService --------------------------
(***************************************************************************)
(* What the SSR corrections of a network promise to its users: a user      *)
(* corrects a satellite with a correction that was published for that      *)
(* satellite, as one: the orbit and the clock of the same update; and      *)
(* having used one it never returns to an older one.  Corrections may be   *)
(* lost, and a user may be without one.                                    *)
(***************************************************************************)
EXTENDS Integers

CONSTANTS
    Satellites,
    NoCorrection

VARIABLES
    published,      \* all corrections published so far
    inUse,          \* per satellite: the correction the user applies
    reached         \* per satellite: reference time of the latest one used

serviceVars == <<published, inUse, reached>>

ServiceInit ==
    /\ published = {}
    /\ inUse = [s \in Satellites |-> NoCorrection]
    /\ reached = [s \in Satellites |-> 0]

(* An update: corrections of one reference time, later than all before. *)
Publish ==
    /\ published \subseteq published'
    /\ \A c, d \in published' \ published :
          c.t0 = d.t0 /\ (c.sat = d.sat => c = d)
    /\ \A c \in published' \ published : \A d \in published : d.t0 < c.t0
    /\ UNCHANGED <<inUse, reached>>

(* The user turns to other corrections, or finds none. *)
Use ==
    /\ inUse' \in [Satellites -> published \cup {NoCorrection}]
    /\ reached' \in [Satellites -> Nat]
    /\ \A s \in Satellites :
          IF inUse'[s] = NoCorrection
          THEN reached'[s] = reached[s]
          ELSE /\ inUse'[s].sat = s
               /\ inUse'[s].t0 >= reached[s]
               /\ reached'[s] = inUse'[s].t0
    /\ UNCHANGED published

ServiceNext == Publish \/ Use

ServiceSpec == ServiceInit /\ [][ServiceNext]_serviceVars
==============================================================================
