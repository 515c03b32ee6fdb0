----------------------------- MODULE OAuthStates -----------------------------
(***************************************************************************)
(* Single-use OAuth states (app/cache/oauth_state.py): issue binds a fresh *)
(* state to the payload of a flow, consume returns the payload once.  The  *)
(* read and the delete are one GETDEL.                                     *)
(*                                                                         *)
(* A command may not reach Redis ("down"), or be carried out while its     *)
(* answer is lost ("lost"); both raise, and the flow is refused.           *)
(***************************************************************************)
EXTENDS KeyValueStore, Sequences

CONSTANTS
    States,     \* the states that are drawn
    Payloads,
    StateTTL         \* ticks that a state lives

ASSUME StatesAssumption ==
    /\ StateTTL \in Nat \ {0}
    /\ {NULL, "lost"} \cap Payloads = {} /\ NULL # "lost"
    /\ NULL \notin [value : Payloads, left : Nat]

VARIABLES
    states,     \* Redis
    issued,    \* each state: the payload it was issued for; "lost" if its
               \* issue failed; NULL if it has not been drawn yet
    age,       \* ticks since each state was drawn, up to TTL
    accepted   \* the payloads that callbacks with each state were given

stateVars == <<states, issued, age, accepted>>

StatesInit ==
    /\ states = [s \in States |-> NULL]
    /\ issued = [s \in States |-> NULL]
    /\ age = [s \in States |-> 0]
    /\ accepted = [s \in States |-> <<>>]

\* A fresh state; without an answer of Redis nobody learns it.
Issue(s, payload, fault) ==
    /\ issued[s] = NULL
    /\ states' = IF fault = "down" THEN states ELSE SetKey(states, s, payload, StateTTL)
    /\ issued' = [issued EXCEPT ![s] = IF fault = "none" THEN payload ELSE "lost"]
    /\ UNCHANGED <<age, accepted>>

\* Faulty variant: the state is read, and left to expire.
ConsumeKept(s, fault) ==
    /\ issued[s] \in Payloads
    /\ Len(accepted[s]) < 2
    /\ accepted' = IF fault = "none" /\ Get(states, s) # NULL
                   THEN [accepted EXCEPT ![s] = Append(@, Get(states, s))] ELSE accepted
    /\ UNCHANGED <<states, issued, age>>

\* A callback with a state that was issued, perhaps not the first one.
Consume(s, fault) ==
    /\ issued[s] \in Payloads
    /\ states' = IF fault = "down" THEN states ELSE Delete(states, s)
    /\ accepted' = IF fault = "none" /\ Get(states, s) # NULL
                   THEN [accepted EXCEPT ![s] = Append(@, Get(states, s))] ELSE accepted
    /\ UNCHANGED <<issued, age>>

StatesTick ==
    /\ states' = Elapse(states)
    /\ age' = [s \in States |-> IF issued[s] # NULL /\ age[s] < StateTTL THEN age[s] + 1 ELSE age[s]]
    /\ UNCHANGED <<issued, accepted>>

StatesNext ==
    \/ \E s \in States, payload \in Payloads, fault \in Faults : Issue(s, payload, fault)
    \/ \E s \in States, fault \in Faults : Consume(s, fault)
    \/ StatesTick

StatesSpec == StatesInit /\ [][StatesNext]_stateVars

-----------------------------------------------------------------------------
(* Properties.                                                             *)

\* Types: a state that has not been drawn, or whose issue failed before it
\* reached Redis, has left nothing behind.
StatesTypeOK ==
    /\ \A s \in States : issued[s] \in Payloads \cup {"lost", NULL}
    /\ age \in [States -> 0..StateTTL]
    /\ \A s \in States : states[s] # NULL => states[s].value \in Payloads /\ states[s].left \in 1..StateTTL

\* Of all the callbacks that present a state, at whatever time and however
\* commands fail, at most one is accepted, with the payload of its own flow.
AcceptedOnce ==
    \A s \in States : accepted[s] = <<>> \/ accepted[s] = <<issued[s]>>

\* A state is accepted only while it is younger than its time to live.
AcceptedInTime ==
    [][\A s \in States : accepted'[s] # accepted[s] => age[s] < StateTTL]_stateVars

-----------------------------------------------------------------------------
(* The inductive invariant of the proofs.                                  *)

\* What Redis holds for a state is what it was issued for, if the issue was
\* answered; it goes when the state is accepted, and before the state is too old.
StateOK(s) ==
    /\ issued[s] \in Payloads \cup {"lost", NULL}
    /\ issued[s] = NULL => states[s] = NULL /\ accepted[s] = <<>> /\ age[s] = 0
    /\ accepted[s] # <<>> => accepted[s] = <<issued[s]>> /\ states[s] = NULL
    /\ states[s] # NULL =>
          /\ states[s] \in [value : Payloads, left : 1 .. StateTTL]
          /\ age[s] + states[s].left <= StateTTL
          /\ issued[s] \in Payloads => states[s].value = issued[s]

StatesInv ==
    /\ DOMAIN states = States /\ DOMAIN issued = States /\ DOMAIN accepted = States
    /\ age \in [States -> 0 .. StateTTL]
    /\ \A s \in States : StateOK(s)
=============================================================================
