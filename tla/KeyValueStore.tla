---------------------------- MODULE KeyValueStore ----------------------------
(***************************************************************************)
(* The operations of the KeyValueStore protocol, as RedisStore              *)
(* (app/cache/store.py) asks Redis for them.  Each is one command or one   *)
(* MULTI block, hence one step.  A store gives every key its value and the *)
(* time it has left, or NULL.                                              *)
(***************************************************************************)
EXTENDS Naturals

CONSTANT NULL

Entry(value, ttl) == [value |-> value, left |-> ttl]

Get(store, key) == IF store[key] = NULL THEN NULL ELSE store[key].value

\* SET key value PX ttl.
SetKey(store, key, value, ttl) == [store EXCEPT ![key] = Entry(value, ttl)]

\* SET key value PX ttl NX: leaves an existing key alone.
SetIfAbsent(store, key, value, ttl) ==
    IF store[key] = NULL THEN SetKey(store, key, value, ttl) ELSE store

Delete(store, key) == [store EXCEPT ![key] = NULL]

\* INCR, then PEXPIRE NX: the time to live is set with the first increment.
Increment(store, key, ttl) ==
    IF store[key] = NULL
    THEN SetKey(store, key, 1, ttl)
    ELSE [store EXCEPT ![key].value = @ + 1]

\* What may become of a command: it is answered, it is carried out and its answer
\* is lost, or it does not reach Redis.
Faults == {"none", "lost", "down"}

\* One unit of time: what has no time left is gone.
Elapse(store) ==
    [key \in DOMAIN store |->
        IF store[key] = NULL \/ store[key].left <= 1
        THEN NULL
        ELSE [store[key] EXCEPT !.left = @ - 1]]
=============================================================================
