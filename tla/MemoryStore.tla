----------------------------- MODULE MemoryStore -----------------------------
(***************************************************************************)
(* MemoryStore (app/cache/store.py): the store of a single process.  It    *)
(* keeps absolute expiry times, and an expired entry stays in the          *)
(* dictionary until a call comes across it.  Its methods have no await     *)
(* while they hold the lock, and get and delete, which take none, have no  *)
(* await at all: on the event loop each is one step.                       *)
(***************************************************************************)
EXTENDS KeyValueStore

CONSTANTS
    Slots, Counters, Values, TTLs,  \* as in StoreContract
    MaxTime,                        \* bound: readings of the clock
    MaxCount                        \* bound: increments of one counter

Keys == Slots \cup Counters

EntryType == [value : Values \cup Nat, expires : Nat]

ASSUME StoreAssumption ==
    /\ TTLs \subseteq Nat \ {0}
    /\ {MaxTime, MaxCount} \subseteq Nat
    /\ Slots \cap Counters = {}
    /\ Values \cap Nat = {}
    /\ NULL \notin EntryType \cup [value : Values \cup Nat, left : Nat]

VARIABLES
    clock,  \* time.monotonic()
    data,   \* _data
    answer  \* the last call that returns something, and what it returned

vars == <<clock, data, answer>>

Init ==
    /\ clock = 0
    /\ data = [key \in Keys |-> NULL]
    /\ answer = NULL

\* Faulty variant: an entry is still served at the instant it expires.
IsLiveLate(key) == data[key] # NULL /\ data[key].expires >= clock

\* Whether _live returns an entry.
IsLive(key) == data[key] # NULL /\ data[key].expires > clock

\* What _live leaves behind for one key.
Purged(key) == IF IsLive(key) THEN data ELSE [data EXCEPT ![key] = NULL]

ValueOf(key) == IF IsLive(key) THEN data[key].value ELSE NULL

get(key) ==
    /\ data' = Purged(key)
    /\ answer' = <<"get", ValueOf(key)>>
    /\ UNCHANGED clock

set(key, value, ttl) ==
    /\ data' = [data EXCEPT ![key] = [value |-> value, expires |-> clock + ttl]]
    /\ answer' = <<"set", TRUE>>
    /\ UNCHANGED clock

setOnlyIfAbsent(key, value, ttl) ==
    /\ data' = IF IsLive(key)
               THEN data
               ELSE [data EXCEPT ![key] = [value |-> value, expires |-> clock + ttl]]
    /\ answer' = <<"set", ~IsLive(key)>>
    /\ UNCHANGED clock

get_and_delete(key) ==
    /\ data' = [data EXCEPT ![key] = NULL]
    /\ answer' = <<"get", ValueOf(key)>>
    /\ UNCHANGED clock

delete(key) ==
    /\ data' = [data EXCEPT ![key] = NULL]
    /\ UNCHANGED <<clock, answer>>

\* The entry after an increment: a live counter keeps its expiry.
Counted(key, ttl) ==
    IF IsLive(key)
    THEN [value |-> data[key].value + 1, expires |-> data[key].expires]
    ELSE [value |-> 1, expires |-> clock + ttl]

increment(key, ttl) ==
    /\ IsLive(key) => data[key].value < MaxCount
    /\ LET entry == Counted(key, ttl)
       IN /\ data' = [data EXCEPT ![key] = entry]
          /\ answer' = <<"count", entry.value, entry.expires - clock>>
    /\ UNCHANGED clock

Tick ==
    /\ clock < MaxTime
    /\ clock' = clock + 1
    /\ UNCHANGED <<data, answer>>

Next ==
    \/ \E key \in Keys : get(key) \/ delete(key)
    \/ \E key \in Slots : get_and_delete(key)
    \/ \E key \in Slots, value \in Values, ttl \in TTLs :
          set(key, value, ttl) \/ setOnlyIfAbsent(key, value, ttl)
    \/ \E key \in Counters, ttl \in TTLs : increment(key, ttl)
    \/ Tick

Spec == Init /\ [][Next]_vars

-----------------------------------------------------------------------------
(* Properties.                                                             *)

\* The dictionary and the clock have their types; a counter key holds a number
\* and a slot a value, so int(entry[0]) in increment never fails.
TypeOK ==
    /\ clock \in Nat
    /\ data \in [Keys -> EntryType \cup {NULL}]
    /\ \A key \in Keys :
          data[key] # NULL =>
              data[key].value \in (IF key \in Slots THEN Values ELSE Nat \ {0})

\* The store that callers see: the entries that have not expired, with the time
\* each has left.
View ==
    [key \in Keys |->
        IF IsLive(key)
        THEN [value |-> data[key].value, left |-> data[key].expires - clock]
        ELSE NULL]

Contract == INSTANCE StoreContract WITH store <- View

\* MemoryStore keeps the contract of KeyValueStore: although entries are removed
\* lazily, every call answers and changes what callers see as Redis would, a
\* counter's window included.
ImplementsContract == Contract!ContractSpec
=============================================================================
