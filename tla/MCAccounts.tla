----------------------------- MODULE MCAccounts -----------------------------
(***************************************************************************)
(* Who may do what: Memberships and AgentTokens.                           *)
(*                                                                         *)
(* One run checks them side by side: a behaviour is of the one that part   *)
(* names, and the other stays in its initial state.                        *)
(* Parts = {"members"} checks the first alone.                             *)
(***************************************************************************)
EXTENDS Memberships, AgentTokens, TLC

CONSTANTS Parts, o1, read

OrgOfClient == [c \in Clients |-> o1]
ReadOnly == [c \in Clients |-> {read}]

\* Memberships tells ADMIN from the other roles only: VIEWER stands for both.
TwoRoles == \A r \in Requests : request'[r] # NULL => request'[r].order.role # "ENGINEER"

\* An inactive agent gets no further than an inactive VIEWER: only people are
\* deactivated.
PeopleOnly == \A u \in Services : active'[u]

-----------------------------------------------------------------------------
(* The runs side by side.                                                  *)

VARIABLE part

allVars == <<part, membershipVars, tokenVars>>

PartsInit == part \in Parts /\ MembershipsInit /\ TokensInit

PartsNext ==
    /\ UNCHANGED part
    /\ \/ part = "members" /\ MembershipsNext /\ TwoRoles /\ PeopleOnly /\ UNCHANGED tokenVars
       \/ part = "tokens" /\ TokensNext /\ UNCHANGED membershipVars

PartsSpec == PartsInit /\ [][PartsNext]_allVars

Symmetry == Permutations(Requests) \cup Permutations(Processes)
                \cup Permutations(Users \ Services)
=============================================================================
