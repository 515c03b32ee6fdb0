----------------------------- MODULE MCRequests -----------------------------
(***************************************************************************)
(* What guards a request before a service sees it: Idempotency, RateLimits *)
(* and OAuthStates.                                                        *)
(*                                                                         *)
(* Their keys in Redis differ, so one run checks them side by side: a      *)
(* behaviour is of the one that part names, and the others stay in their   *)
(* initial states.  Parts = {"idempotency"} checks the first alone.        *)
(***************************************************************************)
EXTENDS Idempotency, RateLimits, OAuthStates, TLC

CONSTANTS Parts, c1, c2, c3, k1, b1, b2, u1, a1

\* Two retries of one request, and another request under the same key.
OneKey == [c \in Clients |-> k1]
TwoBodies == [c \in Clients |-> IF c = c3 THEN b2 ELSE b1]

\* A person and an agent that acts for them.
SomePrincipals == {[user |-> u1, agent |-> NULL], [user |-> u1, agent |-> a1]}

-----------------------------------------------------------------------------
(* The runs side by side.                                                  *)

VARIABLE part

allVars == <<part, vars, rateVars, stateVars>>

PartsInit == part \in Parts /\ Init /\ RateInit /\ StatesInit

PartsNext ==
    /\ UNCHANGED part
    /\ \/ part = "idempotency" /\ Next /\ UNCHANGED <<rateVars, stateVars>>
       \/ part = "rates" /\ RateNext /\ UNCHANGED <<vars, stateVars>>
       \/ part = "states" /\ StatesNext /\ UNCHANGED <<vars, rateVars>>

PartsSpec == PartsInit /\ [][PartsNext]_allVars

Symmetry == Permutations({c1, c2})
=============================================================================
