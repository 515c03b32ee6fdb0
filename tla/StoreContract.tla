---------------------------- MODULE StoreContract ----------------------------
(***************************************************************************)
(* What KeyValueStore promises its callers (app/cache/store.py), and what  *)
(* RedisStore delivers: atomic operations on keys that expire.             *)
(***************************************************************************)
EXTENDS KeyValueStore

CONSTANTS
    Slots,     \* keys that hold a value
    Counters,  \* keys that are incremented
    Values,    \* what a slot may hold
    TTLs       \* the times to live callers ask for

Keys == Slots \cup Counters

VARIABLES
    store,
    answer     \* the last call that returns something, and what it returned

contractVars == <<store, answer>>

ContractInit == store = [key \in Keys |-> NULL] /\ answer = NULL

CallGet(key) == answer' = <<"get", Get(store, key)>> /\ UNCHANGED store

CallSet(key, value, ttl) ==
    /\ store' = SetKey(store, key, value, ttl)
    /\ answer' = <<"set", TRUE>>

CallSetIfAbsent(key, value, ttl) ==
    /\ store' = SetIfAbsent(store, key, value, ttl)
    /\ answer' = <<"set", store[key] = NULL>>

CallGetAndDelete(key) ==
    /\ store' = Delete(store, key)
    /\ answer' = <<"get", Get(store, key)>>

CallDelete(key) == store' = Delete(store, key) /\ UNCHANGED answer

\* A counter answers with its value and the time until its window resets.
CallIncrement(key, ttl) ==
    /\ store' = Increment(store, key, ttl)
    /\ answer' = <<"count", store'[key].value, store'[key].left>>

Pass == store' = Elapse(store) /\ UNCHANGED answer

ContractNext ==
    \/ \E key \in Keys : CallGet(key) \/ CallDelete(key)
    \/ \E key \in Slots : CallGetAndDelete(key)
    \/ \E key \in Slots, value \in Values, ttl \in TTLs :
          CallSet(key, value, ttl) \/ CallSetIfAbsent(key, value, ttl)
    \/ \E key \in Counters, ttl \in TTLs : CallIncrement(key, ttl)
    \/ Pass

ContractSpec == ContractInit /\ [][ContractNext]_contractVars
=============================================================================
