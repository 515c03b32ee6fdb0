------------------------------ MODULE MCStores ------------------------------
(***************************************************************************)
(* The key-value store and two features that use it: MemoryStore,          *)
(* RetrievalCache and McpSession.                                          *)
(*                                                                         *)
(* One run checks them side by side: a behaviour is of the one that part   *)
(* names, and the others stay in their initial states.                     *)
(* Parts = {"store"} checks the first alone.                               *)
(***************************************************************************)
EXTENDS MemoryStore, RetrievalCache, McpSession, TLC

CONSTANTS Parts, p1, p2, v1

\* One snapshot froze v1, the other nothing.
SomeFacts == [p \in {p1, p2} |-> IF p = p1 THEN {v1} ELSE {}]

-----------------------------------------------------------------------------
(* The runs side by side.                                                  *)

VARIABLE part

allVars == <<part, vars, cacheVars, sessionVars>>

PartsInit == part \in Parts /\ Init /\ CacheInit /\ SessionInit

PartsNext ==
    /\ UNCHANGED part
    /\ \/ part = "store" /\ Next /\ UNCHANGED <<cacheVars, sessionVars>>
       \/ part = "cache" /\ CacheNext /\ UNCHANGED <<vars, sessionVars>>
       \/ part = "sessions" /\ SessionNext /\ UNCHANGED <<vars, cacheVars>>

PartsSpec == PartsInit /\ [][PartsNext]_allVars

Symmetry == Permutations(Readers) \cup Permutations(Calls)
=============================================================================
