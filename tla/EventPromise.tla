---------------------------- MODULE EventPromise ----------------------------
(***************************************************************************)
(* What the event pipeline promises (docs/EVENTS.md): an event exists only *)
(* if its change committed; its effect is applied at most once; it may be  *)
(* parked on the dead-letter topic.                                        *)
(***************************************************************************)
EXTENDS Naturals

CONSTANT Events

VARIABLES
    recorded,   \* events whose change committed
    applied,    \* how often the effect of each event was applied
    parked      \* events on the dead-letter topic

promiseVars == <<recorded, applied, parked>>

PromiseInit ==
    /\ recorded = {}
    /\ applied = [e \in Events |-> 0]
    /\ parked = {}

Record(e) ==
    /\ e \notin recorded
    /\ recorded' = recorded \cup {e}
    /\ UNCHANGED <<applied, parked>>

ApplyOnce(e) ==
    /\ e \in recorded
    /\ applied[e] = 0
    /\ applied' = [applied EXCEPT ![e] = 1]
    /\ UNCHANGED <<recorded, parked>>

Park(e) ==
    /\ e \in recorded
    /\ parked' = parked \cup {e}
    /\ UNCHANGED <<recorded, applied>>

PromiseNext == \E e \in Events : Record(e) \/ ApplyOnce(e) \/ Park(e)

PromiseSpec == PromiseInit /\ [][PromiseNext]_promiseVars
=============================================================================
