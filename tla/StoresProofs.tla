---------------------------- MODULE StoresProofs ----------------------------
(***************************************************************************)
(* Proofs about the key-value store and the features that use it, whatever *)
(* the keys, the values, the times to live, the callers and the length of  *)
(* the run.                                                                *)
(***************************************************************************)
EXTENDS MemoryStore, RetrievalCache, McpSession, TLAPS

-----------------------------------------------------------------------------
(* MemoryStore implements StoreContract: lazy removal of expired entries   *)
(* cannot be told from the expiry of Redis.                                *)
(*                                                                         *)
(* The argument: View looks at one key at a time, so a call changes the    *)
(* view of its own key only; and an entry that is not live is NULL in the  *)
(* view whether it is still in the dictionary or not.                      *)

\* What a key may hold: a value with its expiry, a counter from one on, or
\* nothing.
Held(key) == [value : IF key \in Slots THEN Values ELSE Nat \ {0}, expires : Nat] \cup {NULL}

\* A held entry is not NULL, and its parts have their types.
LEMMA HeldValue ==
    ASSUME NEW key, NEW entry \in EntryType \cup {NULL}
    PROVE  (entry # NULL => entry.value \in (IF key \in Slots THEN Values ELSE Nat \ {0}))
           <=> entry \in Held(key)
BY StoreAssumption, Zenon DEF Held, EntryType

\* The type of the store, key by key.
LEMMA TypeByKey ==
    ASSUME TypeOK
    PROVE  /\ clock \in Nat
           /\ data \in [Keys -> EntryType \cup {NULL}]
           /\ \A key \in Keys : data[key] \in Held(key)
BY HeldValue, Zenon DEF TypeOK

\* Every call leaves a key with nothing, with what it had, or with an entry of
\* its kind.
LEMMA TypeKept ==
    ASSUME TypeOK, NEW key \in Keys, NEW entry \in Held(key),
           data' = [data EXCEPT ![key] = entry], clock' = clock
    PROVE  TypeOK'
<1>1. Held(key) \subseteq EntryType \cup {NULL}
  BY Zenon DEF Held, EntryType
<1>2. /\ clock \in Nat /\ data \in [Keys -> EntryType \cup {NULL}]
      /\ \A k \in Keys : data[k] \in Held(k)
  BY TypeByKey, Zenon
<1>3. data' \in [Keys -> EntryType \cup {NULL}]
  BY <1>1, <1>2, Zenon
<1>4. \A k \in Keys : data'[k] \in Held(k)
  BY <1>2, Zenon
<1>. QED BY <1>2, <1>3, <1>4, HeldValue, Zenon DEF TypeOK

\* The same for a call that changes nothing.
LEMMA TypeUnchanged == ASSUME TypeOK, data' = data, clock' = clock PROVE TypeOK'
BY Zenon DEF TypeOK

\* The entry that a new value, or a first increment, gets.
LEMMA NewEntry ==
    ASSUME TypeOK, NEW key \in Keys, NEW ttl \in TTLs,
           NEW value \in (IF key \in Slots THEN Values ELSE Nat \ {0})
    PROVE  /\ [value |-> value, expires |-> clock + ttl] \in Held(key)
           /\ clock + ttl > clock /\ (clock + ttl) - clock = ttl
<1>1. clock \in Nat /\ ttl \in Nat \ {0}
  BY StoreAssumption, Zenon DEF TypeOK
<1>. QED BY <1>1 DEF Held

\* The entry of a live counter after an increment.
LEMMA NextEntry ==
    ASSUME TypeOK, NEW key \in Counters, IsLive(key)
    PROVE  /\ data[key].value \in Nat /\ data[key].expires \in Nat
           /\ [value |-> data[key].value + 1, expires |-> data[key].expires] \in Held(key)
<1>1. key \in Keys /\ key \notin Slots
  BY StoreAssumption, Zenon DEF Keys
<1>2. data[key] \in [value : Nat \ {0}, expires : Nat]
  BY <1>1, TypeByKey, Zenon DEF Held, IsLive
<1>. QED BY <1>1, <1>2 DEF Held

\* Every step preserves the types.
LEMMA TypeStep == ASSUME TypeOK, [Next]_vars PROVE TypeOK'
<1>1. CASE UNCHANGED vars
  BY <1>1, TypeUnchanged, Zenon DEF vars
<1>2. ASSUME NEW key \in Keys, get(key) PROVE TypeOK'
  <2>1. NULL \in Held(key)
    BY Zenon DEF Held
  <2>. QED BY <1>2, <2>1, TypeKept, TypeUnchanged, Zenon DEF get, Purged
<1>3. ASSUME NEW key \in Keys, delete(key) \/ get_and_delete(key) PROVE TypeOK'
  <2>1. NULL \in Held(key)
    BY Zenon DEF Held
  <2>. QED BY <1>3, <2>1, TypeKept, Zenon DEF delete, get_and_delete
<1>4. ASSUME NEW key \in Slots, NEW value \in Values, NEW ttl \in TTLs,
             set(key, value, ttl) \/ setOnlyIfAbsent(key, value, ttl)
      PROVE  TypeOK'
  <2>1. key \in Keys /\ value \in (IF key \in Slots THEN Values ELSE Nat \ {0})
    BY Zenon DEF Keys
  <2>2. [value |-> value, expires |-> clock + ttl] \in Held(key)
    BY <2>1, NewEntry, Zenon
  <2>. QED BY <1>4, <2>1, <2>2, TypeKept, TypeUnchanged, Zenon DEF set, setOnlyIfAbsent
<1>5. ASSUME NEW key \in Counters, NEW ttl \in TTLs, increment(key, ttl) PROVE TypeOK'
  <2>1. key \in Keys /\ 1 \in (IF key \in Slots THEN Values ELSE Nat \ {0})
    BY StoreAssumption DEF Keys
  <2>2. [value |-> 1, expires |-> clock + ttl] \in Held(key)
    BY <2>1, NewEntry, Zenon
  <2>3. Counted(key, ttl) \in Held(key)
    BY <2>2, NextEntry, Zenon DEF Counted
  <2>. QED BY <1>5, <2>1, <2>3, TypeKept, Zenon DEF increment
<1>6. CASE Tick
  BY <1>6 DEF Tick, TypeOK
<1>. QED BY <1>1, <1>2, <1>3, <1>4, <1>5, <1>6, Zenon DEF Next, Keys

-----------------------------------------------------------------------------
(* The view of one key.                                                    *)

\* What callers see of an entry at a time.
Seen(entry, time) ==
    IF entry # NULL /\ entry.expires > time
    THEN [value |-> entry.value, left |-> entry.expires - time]
    ELSE NULL

\* The view of the store, key by key.
LEMMA ViewSeen == View = [key \in Keys |-> Seen(data[key], clock)]
BY Zenon DEF View, Seen, IsLive

\* A call changes the view of its own key.
LEMMA ViewChanges ==
    ASSUME TypeOK, NEW key \in Keys, NEW entry,
           data' = [data EXCEPT ![key] = entry], clock' = clock
    PROVE  View' = [View EXCEPT ![key] = Seen(entry, clock)]
<1>1. data \in [Keys -> EntryType \cup {NULL}]
  BY Zenon DEF TypeOK
<1>2. View' = [k \in Keys |-> Seen(data'[k], clock')]
  BY Zenon DEF View, Seen, IsLive
<1>3. \A k \in Keys : data'[k] = IF k = key THEN entry ELSE data[k]
  BY <1>1, Zenon
<1>4. View' = [k \in Keys |-> IF k = key THEN Seen(entry, clock) ELSE Seen(data[k], clock)]
  <2>1. \A k \in Keys : Seen(data'[k], clock') = IF k = key THEN Seen(entry, clock) ELSE Seen(data[k], clock)
    BY <1>3, Zenon DEF Seen
  <2>. QED BY <1>2, <2>1, Zenon
<1>. QED BY <1>4, ViewSeen, Zenon

\* The view depends on the entries and the clock alone.
LEMMA ViewUnchanged == ASSUME data' = data, clock' = clock PROVE View' = View
BY Zenon DEF View, IsLive

\* The value and the time left that a live key shows; the others show nothing.
LEMMA ViewAt ==
    ASSUME TypeOK, NEW key \in Keys
    PROVE  /\ IsLive(key) => /\ View[key] = [value |-> data[key].value, left |-> data[key].expires - clock]
                             /\ View[key] # NULL
                             /\ View[key].value = data[key].value
                             /\ View[key].left = data[key].expires - clock
                             /\ data[key].expires - clock \in Nat \ {0}
           /\ ~IsLive(key) => View[key] = NULL
<1>1. clock \in Nat /\ data[key] \in EntryType \cup {NULL}
  BY Zenon DEF TypeOK
<1>2. View[key] = IF IsLive(key)
                  THEN [value |-> data[key].value, left |-> data[key].expires - clock] ELSE NULL
  BY Zenon DEF View
<1>3. ASSUME IsLive(key)
      PROVE  /\ data[key].expires - clock \in Nat \ {0}
             /\ [value |-> data[key].value, left |-> data[key].expires - clock] # NULL
  <2>1. data[key] \in EntryType /\ data[key].expires > clock
    BY <1>1, <1>3, Zenon DEF IsLive
  <2>2. data[key].value \in Values \cup Nat /\ data[key].expires - clock \in Nat \ {0}
    BY <1>1, <2>1 DEF EntryType
  <2>. QED BY <2>2, StoreAssumption
<1>. QED BY <1>2, <1>3

\* A new entry is seen with its whole time to live.
LEMMA SeenNew ==
    ASSUME TypeOK, NEW key \in Keys, NEW ttl \in TTLs,
           NEW value \in (IF key \in Slots THEN Values ELSE Nat \ {0})
    PROVE  Seen([value |-> value, expires |-> clock + ttl], clock) = [value |-> value, left |-> ttl]
<1>1. [value |-> value, expires |-> clock + ttl] \in EntryType
  BY StoreAssumption DEF EntryType, TypeOK
<1>2. [value |-> value, expires |-> clock + ttl] # NULL
  BY <1>1, StoreAssumption, Zenon
<1>. QED BY <1>2, NewEntry, Zenon DEF Seen

-----------------------------------------------------------------------------
(* Each call is the call of the contract.                                  *)

\* A read, which may drop a dead entry, is a read of the contract.
LEMMA GetRefines == ASSUME TypeOK, NEW key \in Keys, get(key) PROVE Contract!CallGet(key)
<1>1. View' = View
  <2>1. CASE IsLive(key)
    BY <2>1, ViewUnchanged, Zenon DEF get, Purged
  <2>2. CASE ~IsLive(key)
    <3>1. View' = [View EXCEPT ![key] = Seen(NULL, clock)]
      BY <2>2, ViewChanges, Zenon DEF get, Purged
    <3>2. View[key] = NULL /\ Seen(NULL, clock) = NULL /\ View = [k \in Keys |-> View[k]]
      BY <2>2, ViewAt, Zenon DEF Seen, View
    <3>. QED BY <3>1, <3>2, Zenon
  <2>. QED BY <2>1, <2>2, Zenon
<1>2. ValueOf(key) = Contract!Get(View, key)
  BY ViewAt, Zenon DEF ValueOf, Contract!Get
<1>. QED BY <1>1, <1>2, Zenon DEF get, Contract!CallGet

\* A deletion is a deletion of the contract.
LEMMA DeleteRefines ==
    ASSUME TypeOK, NEW key \in Keys
    PROVE  /\ delete(key) => Contract!CallDelete(key)
           /\ get_and_delete(key) => Contract!CallGetAndDelete(key)
<1>1. Seen(NULL, clock) = NULL
  BY Zenon DEF Seen
<1>2. ValueOf(key) = Contract!Get(View, key)
  BY ViewAt, Zenon DEF ValueOf, Contract!Get
<1>3. ASSUME delete(key) \/ get_and_delete(key) PROVE View' = Contract!Delete(View, key)
  <2>1. data' = [data EXCEPT ![key] = NULL] /\ clock' = clock
    BY <1>3, Zenon DEF delete, get_and_delete
  <2>2. View' = [View EXCEPT ![key] = Seen(NULL, clock)]
    BY <2>1, ViewChanges, Zenon
  <2>. QED BY <1>1, <2>2, Zenon DEF Contract!Delete
<1>. QED BY <1>2, <1>3, Zenon DEF delete, get_and_delete, Contract!CallDelete, Contract!CallGetAndDelete

\* A write is a write of the contract.
LEMMA SetRefines ==
    ASSUME TypeOK, NEW key \in Slots, NEW value \in Values, NEW ttl \in TTLs
    PROVE  /\ set(key, value, ttl) => Contract!CallSet(key, value, ttl)
           /\ setOnlyIfAbsent(key, value, ttl) => Contract!CallSetIfAbsent(key, value, ttl)
<1> DEFINE entry == [value |-> value, expires |-> clock + ttl]
<1>1. key \in Keys /\ value \in (IF key \in Slots THEN Values ELSE Nat \ {0})
  BY Zenon DEF Keys
<1>2. Seen(entry, clock) = Contract!Entry(value, ttl)
  BY <1>1, SeenNew, Zenon DEF Contract!Entry
<1>3. ASSUME data' = [data EXCEPT ![key] = entry], clock' = clock
      PROVE  View' = Contract!SetKey(View, key, value, ttl)
  BY <1>1, <1>2, <1>3, ViewChanges, Zenon DEF Contract!SetKey
<1>4. IsLive(key) <=> View[key] # NULL
  BY <1>1, ViewAt, Zenon
<1>5. ASSUME set(key, value, ttl) PROVE Contract!CallSet(key, value, ttl)
  BY <1>3, <1>5, Zenon DEF set, Contract!CallSet
<1>6. ASSUME setOnlyIfAbsent(key, value, ttl) PROVE Contract!CallSetIfAbsent(key, value, ttl)
  <2>1. View' = Contract!SetIfAbsent(View, key, value, ttl)
    BY <1>3, <1>4, <1>6, ViewUnchanged, Zenon DEF setOnlyIfAbsent, Contract!SetIfAbsent
  <2>2. (~IsLive(key)) = (View[key] = NULL)
    BY <1>4, Zenon
  <2>. QED BY <1>6, <2>1, <2>2, Zenon DEF setOnlyIfAbsent, Contract!CallSetIfAbsent
<1>. QED BY <1>5, <1>6, Zenon

\* A count is a count of the contract: only the first one sets the expiry.
LEMMA IncrementRefines ==
    ASSUME TypeOK, NEW key \in Counters, NEW ttl \in TTLs, increment(key, ttl)
    PROVE  Contract!CallIncrement(key, ttl)
<1>1. key \in Keys /\ 1 \in (IF key \in Slots THEN Values ELSE Nat \ {0})
  BY StoreAssumption DEF Keys
<1>2. /\ data' = [data EXCEPT ![key] = Counted(key, ttl)] /\ clock' = clock
      /\ answer' = <<"count", Counted(key, ttl).value, Counted(key, ttl).expires - clock>>
  BY Zenon DEF increment
<1>3. View' = [View EXCEPT ![key] = Seen(Counted(key, ttl), clock)]
  BY <1>1, <1>2, ViewChanges, Zenon
<1>4. View \in [Keys -> {View[k] : k \in Keys}]
  BY Zenon DEF View
<1>5. View'[key] = Seen(Counted(key, ttl), clock)
  BY <1>1, <1>3, <1>4, Zenon
<1>6. CASE IsLive(key)
  <2> DEFINE entry == [value |-> data[key].value + 1, expires |-> data[key].expires]
  <2>1. /\ data[key].value \in Nat /\ data[key].expires \in Nat /\ clock \in Nat
        /\ data[key].expires > clock
    BY <1>6, NextEntry, Zenon DEF TypeOK, IsLive
  <2>2. entry # NULL
    BY <2>1, StoreAssumption DEF EntryType
  <2>3. Counted(key, ttl) = entry
    BY <1>6, Zenon DEF Counted
  <2>4. Seen(entry, clock) = [value |-> data[key].value + 1, left |-> data[key].expires - clock]
    BY <2>1, <2>2, Zenon DEF Seen
  <2>5. View[key] # NULL /\ View[key] = [value |-> data[key].value, left |-> data[key].expires - clock]
    BY <1>1, <1>6, ViewAt, Zenon
  <2>6. [View EXCEPT ![key].value = @ + 1] = [View EXCEPT ![key] = Seen(entry, clock)]
    <3>1. [View[key] EXCEPT !.value = @ + 1] = Seen(entry, clock)
      BY <2>4, <2>5
    <3>. QED BY <1>1, <1>4, <3>1, Zenon
  <2>7. View' = Contract!Increment(View, key, ttl)
    BY <1>3, <2>3, <2>5, <2>6, Zenon DEF Contract!Increment
  <2>8. answer' = <<"count", View'[key].value, View'[key].left>>
    BY <1>2, <1>5, <2>3, <2>4
  <2>. QED BY <2>7, <2>8, Zenon DEF Contract!CallIncrement
<1>7. CASE ~IsLive(key)
  <2>1. Counted(key, ttl) = [value |-> 1, expires |-> clock + ttl]
    BY <1>7, Zenon DEF Counted
  <2>2. Seen(Counted(key, ttl), clock) = [value |-> 1, left |-> ttl] /\ (clock + ttl) - clock = ttl
    BY <1>1, <2>1, SeenNew, NewEntry, Zenon
  <2>3. View[key] = NULL
    BY <1>1, <1>7, ViewAt, Zenon
  <2>4. View' = Contract!Increment(View, key, ttl)
    BY <1>3, <2>2, <2>3, Zenon DEF Contract!Increment, Contract!SetKey, Contract!Entry
  <2>5. answer' = <<"count", View'[key].value, View'[key].left>>
    BY <1>2, <1>5, <2>1, <2>2
  <2>. QED BY <2>4, <2>5, Zenon DEF Contract!CallIncrement
<1>. QED BY <1>6, <1>7, Zenon

\* An instant that passes here passes in the contract.
LEMMA TickRefines == ASSUME TypeOK, Tick PROVE Contract!Pass
<1>1. DOMAIN View = Keys
  BY Zenon DEF View
<1>2. View' = [key \in Keys |-> Seen(data[key], clock + 1)]
  BY Zenon DEF Tick, View, Seen, IsLive
<1>3. ASSUME NEW key \in Keys
      PROVE  Seen(data[key], clock + 1) =
                 IF View[key] = NULL \/ View[key].left <= 1
                 THEN NULL ELSE [View[key] EXCEPT !.left = @ - 1]
  <2>1. clock \in Nat /\ data[key] \in EntryType \cup {NULL}
    BY Zenon DEF TypeOK
  <2>2. CASE IsLive(key)
    <3>1. data[key] # NULL /\ data[key].expires > clock /\ data[key].expires \in Nat
      BY <2>1, <2>2, Zenon DEF IsLive, EntryType
    <3>2. /\ View[key] = [value |-> data[key].value, left |-> data[key].expires - clock]
          /\ View[key] # NULL /\ View[key].left = data[key].expires - clock
      BY <2>2, ViewAt, Zenon
    <3>. QED BY <2>1, <3>1, <3>2 DEF Seen
  <2>3. CASE ~IsLive(key)
    <3>1. View[key] = NULL
      BY <2>3, ViewAt, Zenon
    <3>2. data[key] = NULL \/ ~(data[key].expires > clock + 1)
      BY <2>1, <2>3 DEF IsLive, EntryType
    <3>. QED BY <3>1, <3>2, Zenon DEF Seen
  <2>. QED BY <2>2, <2>3, Zenon
<1>. QED BY <1>1, <1>2, <1>3, Zenon DEF Contract!Pass, Contract!Elapse, Tick

-----------------------------------------------------------------------------
(* Theorems.                                                               *)

\* The dictionary, its expiry times and its counters have their types.
THEOREM StoreTyped == Spec => []TypeOK
<1>1. Init => TypeOK
  BY DEF Init, TypeOK
<1>2. TypeOK /\ [Next]_vars => TypeOK'
  BY TypeStep, Zenon
<1>. QED BY <1>1, <1>2, PTL DEF Spec

\* MemoryStore (app/cache/store.py), which removes expired entries lazily,
\* keeps the contract of KeyValueStore as Redis does.
THEOREM ContractKept == Spec => ImplementsContract
<1>1. Init => Contract!ContractInit
  BY Zenon DEF Init, Contract!ContractInit, View, IsLive, Keys, Contract!Keys
<1>2. ASSUME TypeOK, [Next]_vars
      PROVE  [Contract!ContractNext]_(Contract!contractVars)
  <2>1. CASE UNCHANGED vars
    BY <2>1, ViewUnchanged, Zenon DEF vars, Contract!contractVars
  <2>2. ASSUME Next PROVE Contract!ContractNext
    BY <1>2, <2>2, GetRefines, DeleteRefines, SetRefines, IncrementRefines, TickRefines, Zenon
       DEF Next, Contract!ContractNext, Keys, Contract!Keys
  <2>. QED BY <1>2, <2>1, <2>2, Zenon
<1>. QED BY <1>1, <1>2, StoreTyped, PTL DEF Spec, ImplementsContract, Contract!ContractSpec

-----------------------------------------------------------------------------
(* RetrievalCache: hits are fresh.  What was announced when a generation   *)
(* was read is told by the generation and the epoch, because the one only  *)
(* rises while the other stays.                                            *)

\* The generation has its own key, and a search's key is not NULL.
LEMMA CacheKeysApart ==
    /\ GenerationKey \notin EntryKeys
    /\ NULL \notin EntryKeys /\ NULL \notin GenerationType /\ NULL \notin CachedType
    /\ NULL \notin ResultType
    /\ \A k \in EntryKeys : k[1] \in 0 .. MaxGeneration /\ k[2] \in Questions
BY CacheAssumption DEF GenerationKey, EntryKeys

\* The generation is a number of the range.
LEMMA GenerationBounded == ASSUME CacheTypeOK PROVE generation \in 0 .. MaxGeneration
<1>1. 0 \in 0 .. MaxGeneration
    BY CacheAssumption
<1> QED
    BY <1>1, Zenon DEF CacheTypeOK, generation, Get, GenerationType

\* Nothing is cached at first.
LEMMA CacheInitInv == CacheInit => CacheInv
<1> SUFFICES ASSUME CacheInit PROVE CacheInv
    BY Zenon
<1>1. GenerationKey \in CacheKeys /\ EntryKeys \subseteq CacheKeys
    BY Zenon DEF CacheKeys
<1>2. cacheStore[GenerationKey] = NULL /\ \A k \in EntryKeys : cacheStore[k] = NULL
    BY <1>1, Zenon DEF CacheInit
<1>3. NoSearch \in SearchType
    BY Zenon DEF NoSearch, SearchType
<1>4. CacheTypeOK
    BY <1>2, <1>3, Zenon DEF CacheInit, CacheTypeOK
<1>5. SearchOK(NoSearch) /\ PhaseOK("idle", NoSearch) /\ Agree(NoSearch, NoSearch)
    BY <1>2, Zenon DEF SearchOK, PhaseOK, Agree, NoSearch
<1>6. \A r \in Readers : search[r] = NoSearch /\ searchPhase[r] = "idle"
    BY Zenon DEF CacheInit
<1> QED
    BY <1>2, <1>4, <1>5, <1>6, Zenon DEF CacheInv

\* A step of one search that leaves the store and the database alone.
LEMMA ReaderStep ==
    ASSUME CacheInv, NEW r \in Readers, NEW x \in SearchType,
           NEW p \in {"idle", "lookup", "embed", "query", "put", "answered"},
           search' = [search EXCEPT ![r] = x], searchPhase' = [searchPhase EXCEPT ![r] = p],
           UNCHANGED <<dbVars, cacheStore, announced, epoch>>,
           SearchOK(x), PhaseOK(p, x), \A q \in Readers : q # r => Agree(x, search[q])
    PROVE  CacheInv'
<1>1. UNCHANGED <<committed, owed, deliveries, cacheStore, announced, epoch>>
    BY Zenon DEF dbVars
<1>2. CacheTypeOK'
    BY <1>1, Zenon DEF CacheInv, CacheTypeOK
<1>3. generation' = generation
    BY <1>1, Zenon DEF generation, Get
<1>a. \A e, g : (Reached(e, g)' <=> Reached(e, g)) /\ (Current(e, g)' <=> Current(e, g))
    BY <1>1, <1>3, Zenon DEF Reached, Current
<1>4. ASSUME NEW y, SearchOK(y) PROVE SearchOK(y)'
    BY <1>1, <1>4, <1>a, Zenon DEF SearchOK
<1>5. \A k \in EntryKeys : cacheStore'[k] # NULL =>
          /\ EntryOK(k[1], cacheStore[k].value)'
          /\ cacheStore'[k].value.question = k[2] /\ cacheStore'[k].value.vector
    BY <1>1, <1>3, Zenon DEF CacheInv, EntryOK, Reached, Current
<1>6. \A q \in Readers : IF q = r THEN search'[q] = x /\ searchPhase'[q] = p
                         ELSE search'[q] = search[q] /\ searchPhase'[q] = searchPhase[q]
    BY Zenon DEF CacheInv, CacheTypeOK
<1>7. ASSUME NEW q \in Readers PROVE SearchOK(search[q])' /\ PhaseOK(searchPhase[q], search[q])'
  <2>1. PICK y : y = search'[q] /\ SearchOK(y) /\ PhaseOK(searchPhase'[q], y)
    BY <1>6, Zenon DEF CacheInv
  <2>2. SearchOK(y)'
    BY <1>4, <2>1, Zenon
  <2> QED
    BY <2>1, <2>2, Zenon DEF SearchOK, PhaseOK
<1>8. ASSUME NEW q \in Readers, NEW t \in Readers PROVE Agree(search[q], search[t])'
    BY <1>6 DEF CacheInv, Agree
<1> QED
    BY <1>2, <1>5, <1>7, <1>8, Zenon DEF CacheInv

\* A step outside the searches: entries may go, and what the generation tells
\* of the past stays true.
LEMMA StateStep ==
    ASSUME CacheInv, CacheTypeOK', UNCHANGED <<search, searchPhase>>,
           announced \subseteq announced',
           \A k \in EntryKeys : cacheStore'[k] # NULL =>
              cacheStore[k] # NULL /\ cacheStore'[k].value = cacheStore[k].value,
           \A e, g \in Nat : Reached(e, g) =>
              Reached(e, g)' /\ (Current(e, g)' => Current(e, g) /\ announced' = announced)
    PROVE  CacheInv'
<1>1. \A k \in EntryKeys : k[1] \in Nat
    BY CacheKeysApart, CacheAssumption
<1>2. ASSUME NEW k \in EntryKeys, cacheStore'[k] # NULL
      PROVE  /\ EntryOK(k[1], cacheStore[k].value)'
             /\ cacheStore'[k].value.question = k[2] /\ cacheStore'[k].value.vector
  <2>1. cacheStore[k] # NULL /\ cacheStore'[k].value = cacheStore[k].value
    BY <1>2, Zenon
  <2>2. cacheStore[k].value.epoch \in Nat
    BY <2>1, Zenon DEF CacheInv, CacheTypeOK, CachedType, ResultType
  <2>3. /\ EntryOK(k[1], cacheStore[k].value)
        /\ cacheStore[k].value.question = k[2] /\ cacheStore[k].value.vector
    BY <2>1, Zenon DEF CacheInv
  <2> QED
    BY <1>1, <2>1, <2>2, <2>3, Zenon DEF EntryOK
<1>3. ASSUME NEW r \in Readers PROVE SearchOK(search[r])'
  <2>1. search[r] \in SearchType /\ SearchOK(search[r]) /\ search'[r] = search[r]
    BY Zenon DEF CacheInv, CacheTypeOK
  <2>2. PICK x \in SearchType : x = search[r] /\ x = search'[r] /\ SearchOK(x)
    BY <2>1, Zenon
  <2>3. x.known \subseteq announced'
    BY <2>2, Zenon DEF SearchOK
  <2>4. ASSUME x.key # NULL
        PROVE  /\ x.key[2] = x.question
               /\ Reached(x.epoch, x.key[1])'
               /\ Current(x.epoch, x.key[1])' => x.known = announced'
               /\ \A k \in EntryKeys :
                     /\ cacheStore'[k] # NULL
                     /\ k[1] = x.key[1]
                     /\ cacheStore'[k].value.epoch = x.epoch
                     => x.known \subseteq cacheStore'[k].value.seen
    <3>1. x.key \in EntryKeys /\ x.epoch \in Nat
        BY <2>4, Zenon DEF SearchType
    <3>2. x.key[1] \in Nat
        BY <1>1, <3>1, Zenon
    <3>3. /\ x.key[2] = x.question
          /\ Reached(x.epoch, x.key[1])
          /\ Current(x.epoch, x.key[1]) => x.known = announced
          /\ \A k \in EntryKeys :
                /\ cacheStore[k] # NULL
                /\ k[1] = x.key[1]
                /\ cacheStore[k].value.epoch = x.epoch
                => x.known \subseteq cacheStore[k].value.seen
        BY <2>2, <2>4, Zenon DEF SearchOK
    <3>4. /\ Reached(x.epoch, x.key[1])'
          /\ Current(x.epoch, x.key[1])' => x.known = announced'
        BY <3>1, <3>2, <3>3, Zenon
    <3> QED
        BY <3>3, <3>4, Zenon
  <2>5. /\ x.result # NULL /\ x.result.epoch = x.epoch => x.known \subseteq x.result.seen
        /\ x.hit => x.result # NULL /\ x.result.question = x.question /\ x.result.vector
    BY <2>2, Zenon DEF SearchOK
  <2>6. SearchOK(x)'
    BY <2>3, <2>4, <2>5, Zenon DEF SearchOK
  <2> QED
    BY <2>2, <2>6, Zenon DEF SearchOK
<1>4. \A r \in Readers : PhaseOK(searchPhase[r], search[r])'
    BY Zenon DEF CacheInv, PhaseOK
<1>5. \A r, q \in Readers : Agree(search[r], search[q])'
    BY Zenon DEF CacheInv, Agree
<1> QED
    BY <1>2, <1>3, <1>4, <1>5, Zenon DEF CacheInv

\* The generation is incremented: nothing was read at the new one yet.
LEMMA InvalidateStep ==
    ASSUME CacheInv, NEW w \in committed, invalidate(w), UNCHANGED <<committed, epoch, searchPhase, search>>,
           owed' \subseteq owed, deliveries' \in [Writes -> Nat]
    PROVE  CacheInv'
<1> USE DEF CacheInv, CacheTypeOK
<1>1. CASE UNCHANGED <<cacheStore, announced>>
  <2>1. generation' = generation
    BY <1>1, Zenon DEF generation, Get
  <2>2. CacheTypeOK'
    BY <1>1, Zenon
  <2>3. \A e, g : (Reached(e, g)' <=> Reached(e, g)) /\ (Current(e, g)' <=> Current(e, g))
    BY <1>1, <2>1, Zenon DEF Reached, Current
  <2> QED
    BY <1>1, <2>2, <2>3, StateStep, Zenon
<1>2. CASE /\ generation < MaxGeneration
           /\ cacheStore' = Increment(cacheStore, GenerationKey, GenerationTTL)
           /\ announced' = announced \cup {w}
  <2>0. generation \in 0 .. MaxGeneration /\ MaxGeneration \in Nat /\ GenerationTTL \in Nat
    BY GenerationBounded, CacheAssumption, Zenon
  <2>1. /\ DOMAIN cacheStore' = CacheKeys
        /\ \A k \in EntryKeys : cacheStore'[k] = cacheStore[k]
    BY <1>2, CacheKeysApart, Zenon DEF Increment, SetKey, CacheKeys
  <2>2. cacheStore'[GenerationKey] \in GenerationType /\ generation' = generation + 1
    <3>1. GenerationKey \in CacheKeys
        BY Zenon DEF CacheKeys
    <3>2. CASE cacheStore[GenerationKey] = NULL
      <4>1. generation = 0 /\ cacheStore'[GenerationKey] = [value |-> 1, left |-> GenerationTTL]
        BY <1>2, <3>1, <3>2, Zenon DEF Increment, SetKey, Entry, generation
      <4>2. [value |-> 1, left |-> GenerationTTL] \in GenerationType
        BY <1>2, <2>0, <4>1 DEF GenerationType
      <4>3. generation' = 1
        BY <4>1, <4>2, CacheKeysApart DEF generation, Get
      <4> QED
        BY <4>1, <4>2, <4>3
    <3>3. CASE cacheStore[GenerationKey] # NULL
      <4>1. /\ generation = cacheStore[GenerationKey].value
            /\ cacheStore[GenerationKey] \in GenerationType
        BY <3>3, Zenon DEF generation, Get
      <4>2. cacheStore'[GenerationKey] = [cacheStore[GenerationKey] EXCEPT !.value = generation + 1]
        BY <1>2, <3>1, <3>3, <4>1, Zenon DEF Increment
      <4>3. /\ cacheStore'[GenerationKey] \in GenerationType
            /\ cacheStore'[GenerationKey].value = generation + 1
        BY <1>2, <2>0, <4>1, <4>2 DEF GenerationType
      <4> QED
        BY <4>3, CacheKeysApart, Zenon DEF generation, Get
    <3> QED
        BY <3>2, <3>3, Zenon
  <2>3. CacheTypeOK'
    BY <1>2, <2>1, <2>2, Zenon
  <2>4. ASSUME NEW e \in Nat, NEW g \in Nat, Reached(e, g) PROVE Reached(e, g)' /\ ~Current(e, g)'
    BY <2>0, <2>2, <2>4 DEF Reached, Current
  <2> QED
    BY <1>2, <2>1, <2>3, <2>4, StateStep, Zenon
<1> QED
    BY <1>1, <1>2, Zenon DEF invalidate

\* Keys expire; when the generation key does, a new epoch begins.
LEMMA CacheTickStep == ASSUME CacheInv, CacheTick PROVE CacheInv'
<1> USE DEF CacheInv, CacheTypeOK
<1>0. /\ cacheStore' = [k \in CacheKeys |->
              IF cacheStore[k] = NULL \/ cacheStore[k].left <= 1 THEN NULL
              ELSE [cacheStore[k] EXCEPT !.left = cacheStore[k].left - 1]]
      /\ UNCHANGED <<committed, owed, deliveries, announced, searchPhase, search>>
      /\ epoch \in Nat
    BY Zenon DEF CacheTick, Elapse, dbVars
<1>1. GenerationKey \in CacheKeys /\ EntryKeys \subseteq CacheKeys
    BY Zenon DEF CacheKeys
<1>2. ASSUME NEW k \in EntryKeys, cacheStore'[k] # NULL
      PROVE  /\ cacheStore[k] # NULL /\ cacheStore'[k].value = cacheStore[k].value
             /\ cacheStore'[k] \in CachedType
  <2>1. /\ cacheStore[k] \in CachedType /\ cacheStore[k] # NULL /\ ~(cacheStore[k].left <= 1)
        /\ cacheStore'[k] = [cacheStore[k] EXCEPT !.left = cacheStore[k].left - 1]
    BY <1>0, <1>1, <1>2, Zenon
  <2> QED
    BY <2>1 DEF CachedType
<1>3. ASSUME cacheStore'[GenerationKey] # NULL
      PROVE  /\ cacheStore[GenerationKey] # NULL
             /\ cacheStore'[GenerationKey].value = cacheStore[GenerationKey].value
             /\ cacheStore'[GenerationKey] \in GenerationType
  <2>1. /\ cacheStore[GenerationKey] \in GenerationType /\ cacheStore[GenerationKey] # NULL
        /\ ~(cacheStore[GenerationKey].left <= 1)
        /\ cacheStore'[GenerationKey] =
              [cacheStore[GenerationKey] EXCEPT !.left = cacheStore[GenerationKey].left - 1]
    BY <1>0, <1>1, <1>3, Zenon
  <2> QED
    BY <2>1 DEF GenerationType
<1>4. CASE /\ cacheStore[GenerationKey] # NULL /\ cacheStore'[GenerationKey] = NULL
           /\ epoch' = epoch + 1
  <2>1. CacheTypeOK'
    <3>1. epoch' \in Nat /\ DOMAIN cacheStore' = CacheKeys
        BY <1>0, <1>4
    <3>2. \A k \in EntryKeys : cacheStore'[k] \in CachedType \cup {NULL}
        BY <1>2, Zenon
    <3> QED
        BY <1>0, <1>4, <3>1, <3>2, Zenon
  <2>2. ASSUME NEW e \in Nat, NEW g \in Nat, Reached(e, g) PROVE Reached(e, g)' /\ ~Current(e, g)'
    BY <1>0, <1>4, <2>2 DEF Reached, Current
  <2> QED
    BY <1>0, <1>2, <2>1, <2>2, StateStep, Zenon
<1>5. CASE ~(cacheStore[GenerationKey] # NULL /\ cacheStore'[GenerationKey] = NULL) /\ epoch' = epoch
  <2>1. cacheStore'[GenerationKey] \in GenerationType \cup {NULL} /\ generation' = generation
    BY <1>3, <1>5, Zenon DEF generation, Get
  <2>2. CacheTypeOK'
    <3>1. DOMAIN cacheStore' = CacheKeys
        BY <1>0, Zenon
    <3>2. \A k \in EntryKeys : cacheStore'[k] \in CachedType \cup {NULL}
        BY <1>2, Zenon
    <3> QED
        BY <1>0, <1>5, <2>1, <3>1, <3>2, Zenon
  <2>3. \A e, g : (Reached(e, g)' <=> Reached(e, g)) /\ (Current(e, g)' <=> Current(e, g))
    BY <1>5, <2>1, Zenon DEF Reached, Current
  <2> QED
    BY <1>0, <1>2, <2>2, <2>3, StateStep, Zenon
<1> QED
    BY <1>4, <1>5, Zenon DEF CacheTick

\* put stores a result under the generation its search read.
LEMMA StoreStep ==
    ASSUME CacheInv, NEW r \in Readers, searchPhase[r] = "put",
           cacheStore' = SetKey(cacheStore, search[r].key, search[r].result, EntryTTL),
           searchPhase' = [searchPhase EXCEPT ![r] = "answered"],
           UNCHANGED <<dbVars, announced, epoch, search>>
    PROVE  CacheInv'
<1> DEFINE key == search[r].key
           result == search[r].result
<1>0. /\ search[r] \in SearchType /\ SearchOK(search[r]) /\ key # NULL
      /\ result # NULL /\ result.epoch = search[r].epoch
      /\ result.question = search[r].question /\ result.vector
    BY Zenon DEF CacheInv, CacheTypeOK, PhaseOK
<1>1. key \in EntryKeys /\ result \in ResultType /\ EntryTTL \in Nat
    BY <1>0, CacheAssumption, Zenon DEF SearchType
<1>2. [value |-> result, left |-> EntryTTL] \in CachedType
    BY <1>1, Zenon DEF CachedType
<1>3. /\ DOMAIN cacheStore' = CacheKeys /\ cacheStore'[GenerationKey] = cacheStore[GenerationKey]
      /\ \A k \in EntryKeys : k # key => cacheStore'[k] = cacheStore[k]
      /\ cacheStore'[key] = [value |-> result, left |-> EntryTTL]
    BY <1>1, CacheKeysApart, Zenon DEF SetKey, Entry, CacheInv, CacheTypeOK, CacheKeys
<1>a. cacheStore'[key].value = result
    BY <1>3
<1>4. generation' = generation /\ UNCHANGED <<committed, owed, deliveries, announced, epoch, search>>
    BY <1>3, Zenon DEF generation, Get, dbVars
<1>5. \A e, g : (Reached(e, g)' <=> Reached(e, g)) /\ (Current(e, g)' <=> Current(e, g))
    BY <1>4, Zenon DEF Reached, Current
<1>6. CacheTypeOK'
  <2>1. \A k \in EntryKeys : cacheStore'[k] \in CachedType \cup {NULL}
    BY <1>2, <1>3, Zenon DEF CacheInv, CacheTypeOK
  <2> QED
    BY <1>3, <1>4, <2>1, Zenon DEF CacheInv, CacheTypeOK
<1>b. /\ key[2] = search[r].question
      /\ Reached(search[r].epoch, key[1])
      /\ Current(search[r].epoch, key[1]) => search[r].known = announced
      /\ search[r].known \subseteq result.seen
    BY <1>0, Zenon DEF SearchOK
<1>7. ASSUME NEW k \in EntryKeys, cacheStore'[k] # NULL
      PROVE  /\ EntryOK(k[1], cacheStore[k].value)'
             /\ cacheStore'[k].value.question = k[2] /\ cacheStore'[k].value.vector
  <2>1. CASE k = key
    BY <1>0, <1>4, <1>5, <1>a, <1>b, <2>1, Zenon DEF EntryOK
  <2>2. CASE k # key
    <3>1. cacheStore'[k] = cacheStore[k]
        BY <1>3, <2>2, Zenon
    <3> QED
        BY <1>4, <1>5, <1>7, <3>1, Zenon DEF EntryOK, CacheInv
  <2> QED
    BY <2>1, <2>2, Zenon
<1>8. ASSUME NEW q \in Readers PROVE SearchOK(search[q])'
  <2>1. PICK x : x = search[q] /\ x = search'[q]
    BY <1>4, Zenon
  <2>2. SearchOK(x) /\ Agree(search[r], x)
    BY <2>1, Zenon DEF CacheInv
  <2>3. ASSUME x.key # NULL, NEW k \in EntryKeys, cacheStore'[k] # NULL, k[1] = x.key[1],
               cacheStore'[k].value.epoch = x.epoch
        PROVE  x.known \subseteq cacheStore'[k].value.seen
    <3>1. CASE k = key
      <4>1. search[r].known = x.known
        BY <1>0, <1>a, <2>2, <2>3, <3>1, Zenon DEF Agree
      <4> QED
        BY <1>a, <1>b, <3>1, <4>1, Zenon
    <3>2. CASE k # key
      <4>1. cacheStore'[k] = cacheStore[k]
        BY <1>3, <3>2, Zenon
      <4> QED
        BY <2>2, <2>3, <4>1, Zenon DEF SearchOK
    <3> QED
        BY <3>1, <3>2, Zenon
  <2>4. SearchOK(x)'
    BY <1>4, <1>5, <2>2, <2>3, Zenon DEF SearchOK
  <2> QED
    BY <2>1, <2>4, Zenon DEF SearchOK
<1>9. \A q \in Readers : PhaseOK(searchPhase[q], search[q])'
  <2>1. ASSUME NEW q \in Readers, q # r PROVE PhaseOK(searchPhase[q], search[q])'
    BY <1>4, <2>1, Zenon DEF CacheInv, CacheTypeOK, PhaseOK
  <2>2. PhaseOK(searchPhase[r], search[r])'
    <3>1. searchPhase'[r] = "answered"
        BY Zenon DEF CacheInv, CacheTypeOK
    <3> QED
        BY <3>1, Zenon DEF PhaseOK
  <2> QED
    BY <2>1, <2>2, Zenon
<1>c. \A q, t \in Readers : Agree(search[q], search[t])'
    BY <1>4 DEF CacheInv, Agree
<1> QED
    BY <1>6, <1>7, <1>8, <1>9, <1>c, Zenon DEF CacheInv

\* A search begins: with the generation it reads, or without the cache.
LEMMA SearchBegins ==
    ASSUME CacheInv, NEW r \in Readers, NEW q \in Questions,
           ReadGeneration(r, q) \/ SkipCache(r, q)
    PROVE  CacheInv'
<1>0. /\ NoSearch \in SearchType /\ NoSearch.key = NULL /\ NoSearch.result = NULL
      /\ NoSearch.hit = FALSE
    BY Zenon DEF NoSearch, SearchType
<1>1. CASE ReadGeneration(r, q)
  <2> DEFINE x == [NoSearch EXCEPT !.question = q, !.key = CacheKey(generation, q),
                                   !.known = announced, !.epoch = epoch]
  <2>1. generation \in 0 .. MaxGeneration /\ announced \subseteq Writes /\ epoch \in Nat
    BY GenerationBounded, Zenon DEF CacheInv, CacheTypeOK
  <2>2. CacheKey(generation, q) \in EntryKeys /\ CacheKey(generation, q)[1] = generation
        /\ CacheKey(generation, q)[2] = q
    BY <2>1, Zenon DEF CacheKey, EntryKeys
  <2>4. x \in SearchType
    BY <1>0, <2>1, <2>2, Zenon DEF SearchType
  <2>5. /\ x.key = CacheKey(generation, q) /\ x.question = q /\ x.known = announced
        /\ x.epoch = epoch /\ x.result = NULL /\ x.hit = FALSE
    BY <1>0, <2>1, <2>2, Zenon DEF SearchType
  <2>6. ASSUME NEW k \in EntryKeys, cacheStore[k] # NULL, k[1] = generation,
               cacheStore[k].value.epoch = epoch
        PROVE  announced \subseteq cacheStore[k].value.seen
    BY <2>6, Zenon DEF CacheInv, EntryOK, Current
  <2>7. Reached(epoch, generation)
    BY <2>1, CacheAssumption DEF Reached
  <2>8. SearchOK(x)
    BY <2>2, <2>5, <2>6, <2>7, Zenon DEF SearchOK
  <2>9. PhaseOK("lookup", x)
    <3>1. x.key # NULL
        BY <2>2, <2>5, CacheKeysApart, Zenon
    <3> QED
        BY <2>5, <3>1, Zenon DEF PhaseOK
  <2>10. ASSUME NEW t \in Readers PROVE Agree(x, search[t])
    <3>1. SearchOK(search[t])
        BY Zenon DEF CacheInv
    <3>2. /\ search[t].key # NULL /\ search[t].epoch = epoch /\ search[t].key[1] = generation
          => search[t].known = announced
        BY <3>1, Zenon DEF SearchOK, Current
    <3> QED
        BY <2>2, <2>5, <3>2, Zenon DEF Agree
  <2>11. /\ search' = [search EXCEPT ![r] = x] /\ searchPhase' = [searchPhase EXCEPT ![r] = "lookup"]
         /\ UNCHANGED <<dbVars, cacheStore, announced, epoch>>
    BY <1>1, Zenon DEF ReadGeneration, Goto
  <2> HIDE DEF x
  <2> QED
    BY <2>4, <2>8, <2>9, <2>10, <2>11, ReaderStep, Zenon
<1>2. CASE SkipCache(r, q)
  <2> DEFINE x == [NoSearch EXCEPT !.question = q, !.known = announced, !.epoch = epoch]
  <2>1. announced \subseteq Writes /\ epoch \in Nat
    BY Zenon DEF CacheInv, CacheTypeOK
  <2>2. /\ x.key = NULL /\ x.question = q /\ x.known = announced
        /\ x.epoch = epoch /\ x.result = NULL /\ x.hit = FALSE
    BY <1>0, <2>1, Zenon DEF SearchType
  <2>3. x \in SearchType
    BY <1>0, <2>1, Zenon DEF SearchType
  <2> HIDE DEF x
  <2>4. SearchOK(x) /\ PhaseOK("embed", x) /\ \A t \in Readers : Agree(x, search[t])
    BY <2>2, Zenon DEF SearchOK, PhaseOK, Agree
  <2> QED
    BY <1>2, <2>3, <2>4, ReaderStep, Zenon DEF SkipCache, Goto, x
<1> QED
    BY <1>1, <1>2, Zenon

\* The search finds an entry of the generation it read.
LEMMA HitStep == ASSUME CacheInv, NEW r \in Readers, Hit(r) PROVE CacheInv'
<1>1. PICK x \in SearchType : x = search[r]
    BY Zenon DEF CacheInv, CacheTypeOK
<1>2. PICK k : k = x.key /\ k \in EntryKeys /\ cacheStore[k] # NULL
    BY <1>1, Zenon DEF CacheInv, Hit, PhaseOK, SearchType
<1>3. PICK v \in ResultType : v = cacheStore[k].value
    BY <1>2, Zenon DEF CacheInv, CacheTypeOK, CachedType
<1>4. v # NULL /\ v.question = k[2] /\ v.vector
    BY <1>2, <1>3, CacheKeysApart, Zenon DEF CacheInv
<1> DEFINE y == [x EXCEPT !.result = v, !.hit = TRUE]
<1>5. /\ y \in SearchType /\ y.key = x.key /\ y.question = x.question /\ y.known = x.known
      /\ y.epoch = x.epoch /\ y.result = v /\ y.hit = TRUE
    BY Zenon DEF SearchType
<1>6. search' = [search EXCEPT ![r] = y]
    BY <1>1, <1>2, <1>3, Zenon DEF Hit, Get, CacheInv, CacheTypeOK
<1>7. SearchOK(x) /\ \A t \in Readers : Agree(x, search[t])
    BY <1>1, Zenon DEF CacheInv
<1>8. SearchOK(y)
  <2>1. x.key # NULL /\ k[2] = x.question
    BY <1>2, <1>7, CacheKeysApart, Zenon DEF SearchOK
  <2>2. v.epoch = x.epoch => x.known \subseteq v.seen
    BY <1>2, <1>3, <1>7, <2>1, Zenon DEF SearchOK
  <2> QED
    BY <1>4, <1>5, <1>7, <2>1, <2>2, Zenon DEF SearchOK
<1>9. PhaseOK("answered", y)
    BY Zenon DEF PhaseOK
<1>10. \A t \in Readers : Agree(y, search[t])
    BY <1>5, <1>7, Zenon DEF Agree
<1> HIDE DEF y
<1> QED
    BY <1>5, <1>6, <1>8, <1>9, <1>10, ReaderStep, Zenon DEF Hit, Goto

\* The steps between the lookup and the answer.
LEMMA SearchGoesOn ==
    ASSUME CacheInv, NEW r \in Readers, Miss(r) \/ Embed(r) \/ Query(r) \/ Answer(r)
    PROVE  CacheInv'
<1>1. PICK x \in SearchType : x = search[r]
    BY Zenon DEF CacheInv, CacheTypeOK
<1>2. /\ SearchOK(x) /\ PhaseOK(searchPhase[r], x) /\ \A t \in Readers : Agree(x, search[t])
    BY <1>1, Zenon DEF CacheInv
<1>3. search \in [Readers -> SearchType]
    BY Zenon DEF CacheInv, CacheTypeOK
<1>4. CASE Miss(r)
  <2>1. search' = [search EXCEPT ![r] = x]
    BY <1>1, <1>3, <1>4, Zenon DEF Miss
  <2>2. PhaseOK("embed", x)
    BY <1>2, <1>4, Zenon DEF PhaseOK, Miss
  <2> QED
    BY <1>2, <1>4, <2>1, <2>2, ReaderStep, Zenon DEF Miss, Goto
<1>5. CASE Embed(r)
  <2>1. PICK b \in BOOLEAN : search' = [search EXCEPT ![r].vector = b]
    BY <1>5, Zenon DEF Embed
  <2> DEFINE y == [x EXCEPT !.vector = b]
  <2>2. /\ y \in SearchType /\ y.key = x.key /\ y.question = x.question /\ y.known = x.known
        /\ y.epoch = x.epoch /\ y.result = x.result /\ y.hit = x.hit
    BY Zenon DEF SearchType
  <2>3. search' = [search EXCEPT ![r] = y]
    BY <1>1, <2>1, Zenon
  <2>4. SearchOK(y) /\ \A t \in Readers : Agree(y, search[t])
    BY <1>2, <2>2, Zenon DEF SearchOK, Agree
  <2>5. PhaseOK("query", y)
    BY <1>2, <1>5, <2>2, Zenon DEF PhaseOK, Embed
  <2> HIDE DEF y
  <2> QED
    BY <1>5, <2>2, <2>3, <2>4, <2>5, ReaderStep, Zenon DEF Embed, Goto
<1>6. CASE Query(r)
  <2> DEFINE v == [question |-> x.question, seen |-> committed, vector |-> x.vector, epoch |-> x.epoch]
             y == [x EXCEPT !.result = v]
             p == IF Cacheable(r) THEN "put" ELSE "answered"
  <2>1. /\ x.question \in Questions /\ ~x.hit
        /\ x.vector \in BOOLEAN /\ x.epoch \in Nat /\ committed \subseteq Writes
    BY <1>2, <1>6, Zenon DEF PhaseOK, Query, CacheInv, CacheTypeOK, SearchType
  <2>2. /\ v \in ResultType /\ v.question = x.question /\ v.seen = committed
        /\ v.vector = x.vector /\ v.epoch = x.epoch
    BY <2>1, Zenon DEF ResultType
  <2>3. v # NULL
    BY <2>2, CacheKeysApart, Zenon
  <2> HIDE DEF v
  <2>4. /\ y \in SearchType /\ y.key = x.key /\ y.question = x.question /\ y.known = x.known
        /\ y.epoch = x.epoch /\ y.result = v /\ y.hit = x.hit
    BY <2>2, Zenon DEF SearchType
  <2>5. search' = [search EXCEPT ![r] = y]
    BY <1>1, <1>6, Zenon DEF Query, v
  <2>6. x.known \subseteq committed
    BY <1>2, Zenon DEF SearchOK, CacheInv, CacheTypeOK
  <2>7. SearchOK(y)
    BY <1>2, <2>1, <2>2, <2>4, <2>6, Zenon DEF SearchOK
  <2>8. \A t \in Readers : Agree(y, search[t])
    BY <1>2, <2>4, Zenon DEF Agree
  <2>9. p = "put" => x.key # NULL /\ x.vector
    BY <1>1, Zenon DEF Cacheable
  <2>10. p \in {"put", "answered"}
    BY Zenon
  <2>11. searchPhase' = [searchPhase EXCEPT ![r] = p]
    BY <1>6, Zenon DEF Query, Goto
  <2> HIDE DEF y, p
  <2>12. PhaseOK(p, y)
    BY <2>1, <2>2, <2>3, <2>4, <2>9, <2>10, Zenon DEF PhaseOK
  <2>13. p \in {"idle", "lookup", "embed", "query", "put", "answered"}
    BY <2>10, Zenon
  <2> QED
    BY <1>6, <2>4, <2>5, <2>7, <2>8, <2>11, <2>12, <2>13, ReaderStep, Zenon DEF Query
<1>7. CASE Answer(r)
  <2>1. NoSearch \in SearchType
    BY Zenon DEF NoSearch, SearchType
  <2>2. SearchOK(NoSearch) /\ PhaseOK("idle", NoSearch) /\ \A t \in Readers : Agree(NoSearch, search[t])
    BY Zenon DEF SearchOK, PhaseOK, Agree, NoSearch
  <2> QED
    BY <1>7, <2>1, <2>2, ReaderStep, Zenon DEF Answer, Goto
<1> QED
    BY <1>4, <1>5, <1>6, <1>7, Zenon

\* A put the store refuses.
LEMMA PutStep == ASSUME CacheInv, NEW r \in Readers, Put(r) PROVE CacheInv'
<1>1. CASE cacheStore' = SetKey(cacheStore, search[r].key, search[r].result, EntryTTL)
    BY <1>1, StoreStep, Zenon DEF Put, Goto
<1>2. CASE UNCHANGED cacheStore
  <2>1. PICK x \in SearchType : x = search[r]
    BY Zenon DEF CacheInv, CacheTypeOK
  <2>2. SearchOK(x) /\ \A t \in Readers : Agree(x, search[t])
    BY <2>1, Zenon DEF CacheInv
  <2>3. search' = [search EXCEPT ![r] = x]
    BY <2>1, Zenon DEF Put, CacheInv, CacheTypeOK
  <2>4. PhaseOK("answered", x)
    BY Zenon DEF PhaseOK
  <2> QED
    BY <1>2, <2>2, <2>3, <2>4, ReaderStep, Zenon DEF Put, Goto
<1> QED
    BY <1>1, <1>2, Zenon DEF Put

\* The steps of the writers and of the event consumer.
LEMMA WriterSteps ==
    ASSUME CacheInv, NEW w \in Writes,
           CommitWrite(w) \/ AfterCommit(w) \/ WriterFails(w) \/ ConsumeEvent(w)
    PROVE  CacheInv'
<1> USE DEF CacheInv, CacheTypeOK
<1>1. CASE CommitWrite(w) \/ WriterFails(w)
  <2>1. UNCHANGED <<deliveries, cacheStore, announced, epoch, searchPhase, search>>
    BY <1>1, Zenon DEF CommitWrite, WriterFails
  <2>2. /\ committed' \subseteq Writes /\ owed' \subseteq committed'
        /\ announced \subseteq committed'
    BY <1>1, Zenon DEF CommitWrite, WriterFails
  <2>3. CacheTypeOK'
    BY <2>1, <2>2, Zenon
  <2>4. generation' = generation
    BY <2>1, Zenon DEF generation, Get
  <2>5. \A e, g : (Reached(e, g)' <=> Reached(e, g)) /\ (Current(e, g)' <=> Current(e, g))
    BY <2>1, <2>4, Zenon DEF Reached, Current
  <2> QED
    BY <2>1, <2>3, <2>5, StateStep, Zenon
<1>2. CASE AfterCommit(w)
    BY <1>2, InvalidateStep, Zenon DEF AfterCommit
<1>3. CASE ConsumeEvent(w)
  <2>1. deliveries' \in [Writes -> Nat]
    BY <1>3 DEF ConsumeEvent
  <2> QED
    BY <1>3, <2>1, InvalidateStep, Zenon DEF ConsumeEvent
<1> QED
    BY <1>1, <1>2, <1>3, Zenon

\* Every step keeps the invariant of the cache.
LEMMA CacheInvariance == CacheSpec => []CacheInv
<1>1. CacheInit => CacheInv
    BY CacheInitInv, Zenon
<1>2. CacheInv /\ [CacheNext]_cacheVars => CacheInv'
  <2> SUFFICES ASSUME CacheInv, [CacheNext]_cacheVars PROVE CacheInv'
    BY Zenon
  <2>1. CASE CacheCalls
    BY <2>1, WriterSteps, SearchBegins, HitStep, SearchGoesOn, PutStep, Zenon DEF CacheCalls, SearchStep
  <2>2. CASE CacheTick
    BY <2>2, CacheTickStep, Zenon
  <2>3. CASE UNCHANGED cacheVars
    <3>1. UNCHANGED <<committed, owed, deliveries, cacheStore, announced, epoch, searchPhase, search>>
        BY <2>3, Zenon DEF cacheVars, dbVars
    <3>2. CacheTypeOK' /\ generation' = generation
        BY <3>1, Zenon DEF CacheInv, CacheTypeOK, generation, Get
    <3>3. \A e, g : (Reached(e, g)' <=> Reached(e, g)) /\ (Current(e, g)' <=> Current(e, g))
        BY <3>1, <3>2, Zenon DEF Reached, Current
    <3> QED
        BY <3>1, <3>2, <3>3, StateStep, Zenon
  <2> QED
    BY <2>1, <2>2, <2>3, Zenon DEF CacheNext
<1> QED
    BY <1>1, <1>2, PTL DEF CacheSpec

\* A search served from the cache has every write that was announced before it
\* read the generation, within an epoch of the generation key: whatever the
\* number of writers, searches and questions and however their steps interleave.
THEOREM CacheIsFresh == CacheSpec => []FreshWithinEpoch
<1>1. CacheInv => FreshWithinEpoch
    BY Zenon DEF CacheInv, SearchOK, FreshWithinEpoch
<1> QED
    BY <1>1, CacheInvariance, PTL

\* A cached result is only served to the question it answers and is never a
\* degraded one.
THEOREM HitsAnswer == CacheSpec => []HitsAnswerTheQuestion
<1>1. CacheInv => HitsAnswerTheQuestion
    BY Zenon DEF CacheInv, SearchOK, HitsAnswerTheQuestion
<1> QED
    BY <1>1, CacheInvariance, PTL

-----------------------------------------------------------------------------
(* McpSession.                                                             *)

\* What the sessions have captured only grows.
CapturesGrow == \A s, p : CapturedBy(s, p) => CapturedBy(s, p)'

\* A state that was whole stays whole, and so does a call.
LEMMA WholeStays ==
    ASSUME CapturesGrow
    PROVE  /\ \A s, held : WholeFor(s, held) => WholeFor(s, held)'
           /\ \A x : CallOK(x) => CallOK(x)'
           /\ Captured \subseteq Captured'
<1>1. ASSUME NEW s, NEW held, WholeFor(s, held) PROVE WholeFor(s, held)'
    BY <1>1, Zenon DEF WholeFor, CapturesGrow
<1>2. ASSUME NEW x, CallOK(x) PROVE CallOK(x)'
  <2>1. WholeFor(x.session, x.data)'
    BY <1>1, <1>2, Zenon DEF CallOK
  <2> QED
    BY <1>2, <2>1, Zenon DEF CallOK, CapturesGrow
<1>3. ASSUME NEW p \in Captured PROVE p \in Captured'
  <2>1. PICK i \in DOMAIN captures : captures[i].snapshot = p
    BY <1>3, Zenon DEF Captured
  <2>2. CapturedBy(captures[i].session, p)
    BY <2>1, Zenon DEF CapturedBy
  <2>3. PICK s : s = captures[i].session
    BY Zenon
  <2>4. CapturedBy(s, p)'
    BY <2>2, <2>3, Zenon DEF CapturesGrow
  <2> QED
    BY <2>4, Zenon DEF CapturedBy, Captured
<1> QED
    BY <1>1, <1>2, <1>3, Zenon

\* A step of one call that leaves the stored states and the decision alone.
LEMMA CallStep ==
    ASSUME SessionInv, NEW c \in Calls, NEW x, call' = [call EXCEPT ![c] = x],
           x # NULL => CallOK(x)', captures' \in Seq(CaptureType), CapturesGrow,
           UNCHANGED <<sessionStore, decision>>
    PROVE  SessionInv'
<1>1. \A d \in Calls : IF d = c THEN call'[d] = x ELSE call'[d] = call[d]
    BY Zenon DEF SessionInv
<1>2. ASSUME NEW d \in Calls, call'[d] # NULL PROVE CallOK(call[d])'
  <2>1. PICK y : y = call'[d] /\ CallOK(y)'
    BY <1>1, <1>2, WholeStays, Zenon DEF SessionInv
  <2> QED
    BY <2>1 DEF CallOK, WholeFor
<1>3. ASSUME NEW s \in Sessions, sessionStore'[s] # NULL
      PROVE  DOMAIN sessionStore'[s] = {"value", "left"} /\ WholeFor(s, sessionStore[s].value)'
  <2>1. PICK v : v = sessionStore[s].value /\ v = sessionStore'[s].value
    BY Zenon
  <2>2. WholeFor(s, v)'
    BY <1>3, <2>1, WholeStays, Zenon DEF SessionInv
  <2> QED
    BY <1>3, <2>1, <2>2, Zenon DEF SessionInv, WholeFor
<1>4. CitesSnapshot'
    BY WholeStays, Zenon DEF SessionInv, CitesSnapshot
<1>5. DOMAIN sessionStore' = Sessions /\ DOMAIN call' = Calls
    BY Zenon DEF SessionInv
<1> QED
    BY <1>2, <1>3, <1>4, <1>5, Zenon DEF SessionInv

\* The captures are as they were.
LEMMA CapturesStay == ASSUME UNCHANGED captures PROVE CapturesGrow
BY Zenon DEF CapturesGrow, CapturedBy

\* A new call carries the empty state.
LEMMA NewCall ==
    ASSUME NEW s \in Sessions, NEW step, NEW query, NEW p,
           step \in {"load", "save"} /\ p # NULL => CapturedBy(s, p)
    PROVE  /\ CallOK(Call(s, step, query, p))
           /\ \A a : CallOK([Call(s, step, query, p) EXCEPT !.after = a])
<1>1. WholeFor(s, Empty)
    BY Zenon DEF WholeFor, Empty
<1>2. CallOK(Call(s, step, query, p))
    BY <1>1, Zenon DEF CallOK, Call
<1>3. ASSUME NEW a PROVE CallOK([Call(s, step, query, p) EXCEPT !.after = a])
    BY <1>1, Zenon DEF CallOK, Call
<1> QED
    BY <1>2, <1>3, Zenon

\* A tool call begins.
LEMMA CallBegins ==
    ASSUME SessionInv, NEW c \in Calls, NEW s \in Sessions, NEW query, NEW p \in Snapshots \cup {NULL},
           \/ SearchFacts(c, s, query)
           \/ p \in Snapshots /\ CaptureContext(c, s, p)
           \/ RecordDecision(c, s, p)
    PROVE  SessionInv'
<1>1. CASE SearchFacts(c, s, query)
  <2>1. CapturesGrow /\ captures' \in Seq(CaptureType)
    BY <1>1, CapturesStay, Zenon DEF SearchFacts, SessionInv
  <2>2. CallOK(Call(s, "load", query, NULL))'
    BY <2>1, NewCall, WholeStays, Zenon
  <2> QED
    BY <1>1, <2>1, <2>2, CallStep, Zenon DEF SearchFacts
<1>2. CASE p \in Snapshots /\ CaptureContext(c, s, p)
  <2> DEFINE new == [snapshot |-> p, session |-> s, returned |-> FALSE]
  <2>1. new \in CaptureType /\ new.snapshot = p /\ new.session = s
    BY <1>2, Zenon DEF CaptureType
  <2>2. captures \in Seq(CaptureType) /\ captures' = Append(captures, new)
    BY <1>2, Zenon DEF CaptureContext, SessionInv
  <2> HIDE DEF new
  <2>3. /\ captures' \in Seq(CaptureType)
        /\ \A i \in DOMAIN captures : i \in DOMAIN captures' /\ captures'[i] = captures[i]
        /\ Len(captures) + 1 \in DOMAIN captures' /\ captures'[Len(captures) + 1] = new
    BY <2>1, <2>2
  <2>4. CapturesGrow
    BY <2>3, Zenon DEF CapturesGrow, CapturedBy
  <2>5. CapturedBy(s, p)'
    BY <2>1, <2>3, Zenon DEF CapturedBy
  <2>6. CallOK(Call(s, "load", NULL, p))'
    <3>1. WholeFor(s, Empty)'
        BY Zenon DEF WholeFor, Empty
    <3> QED
        BY <2>5, <3>1, Zenon DEF CallOK, Call
  <2> QED
    BY <1>2, <2>3, <2>4, <2>6, CallStep, Zenon DEF CaptureContext
<1>3. CASE RecordDecision(c, s, p)
  <2>1. CapturesGrow /\ captures' \in Seq(CaptureType)
    BY <1>3, CapturesStay, Zenon DEF RecordDecision, SessionInv
  <2>2. PICK x : /\ call' = [call EXCEPT ![c] = x]
                 /\ x = IF p # NULL THEN Call(s, "record", NULL, p)
                        ELSE [Call(s, "default", NULL, NULL) EXCEPT !.after = LastReturned(s)]
    BY <1>3, Zenon DEF RecordDecision
  <2>3. CallOK(x)
    BY <2>2, NewCall, Zenon
  <2>4. CallOK(x)'
    BY <2>1, <2>3, WholeStays, Zenon
  <2> QED
    BY <1>3, <2>1, <2>2, <2>4, CallStep, Zenon DEF RecordDecision
<1> QED
    BY <1>1, <1>2, <1>3, Zenon

\* What a session loads is whole.
LEMMA LoadedWhole == ASSUME SessionInv, NEW s \in Sessions PROVE WholeFor(s, Loaded(s))
<1>1. WholeFor(s, Empty)
    BY Zenon DEF WholeFor, Empty
<1> QED
    BY <1>1, Zenon DEF SessionInv, Loaded, Get, KeyOf

\* _load, _last_snapshot and the answer of a tool.
LEMMA CallGoesOn ==
    ASSUME SessionInv, NEW c \in Calls, NEW reached \in BOOLEAN,
           Load(c, reached) \/ LastSnapshot(c, reached) \/ Return(c)
    PROVE  SessionInv'
<1>1. call[c] # NULL
    BY Zenon DEF Load, LastSnapshot, Return, CallAt
<1>2. PICK x : x = call[c] /\ CallOK(x)
    BY <1>1, Zenon DEF SessionInv
<1>3. x.session \in Sessions
    BY <1>2, Zenon DEF CallOK
<1>4. CASE Load(c, reached)
  <2>1. CapturesGrow /\ captures' \in Seq(CaptureType)
    BY <1>4, CapturesStay, Zenon DEF Load, SessionInv
  <2>2. PICK held : held = Loaded(x.session) /\ WholeFor(x.session, held)
    BY <1>3, LoadedWhole, Zenon
  <2>3. x.step = "load"
    BY <1>2, <1>4, Zenon DEF Load, CallAt
  <2> DEFINE y == IF reached THEN [x EXCEPT !.step = "save", !.data = held]
                  ELSE [x EXCEPT !.step = "return"]
  <2>4. CallOK(y)
    BY <1>2, <2>2, <2>3, Zenon DEF CallOK
  <2>5. call' = [call EXCEPT ![c] = y]
    BY <1>2, <1>4, <2>2, Zenon DEF Load, SessionInv
  <2> HIDE DEF y
  <2>6. CallOK(y)'
    BY <2>1, <2>4, WholeStays, Zenon
  <2> QED
    BY <1>4, <2>1, <2>5, <2>6, CallStep, Zenon DEF Load
<1>5. CASE LastSnapshot(c, reached)
  <2>1. CapturesGrow /\ captures' \in Seq(CaptureType)
    BY <1>5, CapturesStay, Zenon DEF LastSnapshot, SessionInv
  <2>2. PICK p : p = Loaded(x.session).snapshot
    BY Zenon
  <2> DEFINE y == IF reached /\ p # NULL THEN [x EXCEPT !.step = "record", !.snapshot = p] ELSE NULL
  <2>3. y # NULL => CallOK(y)
    BY <1>2, Zenon DEF CallOK
  <2>4. call' = [call EXCEPT ![c] = y]
    BY <1>2, <1>5, <2>2, Zenon DEF LastSnapshot, SessionInv
  <2> HIDE DEF y
  <2>5. y # NULL => CallOK(y)'
    BY <2>1, <2>3, WholeStays, Zenon
  <2> QED
    BY <1>5, <2>1, <2>4, <2>5, CallStep, Zenon DEF LastSnapshot
<1>6. CASE Return(c)
  <2>0. captures \in Seq(CaptureType)
    BY Zenon DEF SessionInv
  <2>1. PICK p : captures' = [i \in DOMAIN captures |->
          IF captures[i].snapshot = p THEN [captures[i] EXCEPT !.returned = TRUE] ELSE captures[i]]
    BY <1>6, Zenon DEF Return
  <2>2. ASSUME NEW i \in DOMAIN captures
        PROVE  /\ captures'[i] \in CaptureType /\ captures'[i].snapshot = captures[i].snapshot
               /\ captures'[i].session = captures[i].session
    <3>1. captures[i] \in CaptureType
        BY <2>0
    <3> QED
        BY <2>1, <3>1, Zenon DEF CaptureType
  <2>3. DOMAIN captures' = DOMAIN captures
    BY <2>1, Zenon
  <2>4. captures' \in Seq(CaptureType)
    BY <2>0, <2>1, <2>2, <2>3
  <2>5. CapturesGrow
    BY <2>2, <2>3, Zenon DEF CapturesGrow, CapturedBy
  <2> QED
    BY <1>6, <2>4, <2>5, CallStep, Zenon DEF Return
<1> QED
    BY <1>4, <1>5, <1>6, Zenon

\* A remembered query leaves the snapshot and its facts; a remembered snapshot
\* brings its facts along.
LEMMA SaveKeepsWhole ==
    ASSUME NEW s \in Sessions, NEW held, WholeFor(s, held), NEW query, NEW p
    PROVE  /\ WholeFor(s, WithQuery(held, query))
           /\ p # NULL /\ CapturedBy(s, p) => WholeFor(s, WithSnapshot(held, p))
<1>1. ASSUME NEW queries PROVE WholeFor(s, [held EXCEPT !.queries = queries])
    BY <1>1, Zenon DEF WholeFor
<1>2. ASSUME p # NULL, CapturedBy(s, p) PROVE WholeFor(s, WithSnapshot(held, p))
    BY <1>2, Zenon DEF WholeFor, WithSnapshot
<1>3. WholeFor(s, WithQuery(held, query))
    BY <1>1, Zenon DEF WithQuery
<1> QED
    BY <1>2, <1>3, Zenon

\* The stored states change; captures and the decision do not.
LEMMA StoredStep ==
    ASSUME SessionInv, UNCHANGED <<captures, decision>>, DOMAIN sessionStore' = Sessions,
           DOMAIN call' = Calls, \A c \in Calls : call'[c] # NULL => CallOK(call'[c]),
           \A s \in Sessions : sessionStore'[s] # NULL =>
              DOMAIN sessionStore'[s] = {"value", "left"} /\ WholeFor(s, sessionStore'[s].value)
    PROVE  SessionInv'
<1>0. CapturesGrow
    BY CapturesStay, Zenon
<1>1. ASSUME NEW c \in Calls, call'[c] # NULL PROVE CallOK(call[c])'
  <2>1. PICK y : y = call'[c] /\ CallOK(y)'
    BY <1>0, <1>1, WholeStays, Zenon
  <2> QED
    BY <2>1, Zenon DEF CallOK, WholeFor
<1>2. ASSUME NEW s \in Sessions, sessionStore'[s] # NULL PROVE WholeFor(s, sessionStore[s].value)'
  <2>1. PICK v : v = sessionStore'[s].value /\ WholeFor(s, v)'
    BY <1>0, <1>2, WholeStays, Zenon
  <2> QED
    BY <2>1, Zenon DEF WholeFor
<1>3. CitesSnapshot' /\ captures' \in Seq(CaptureType)
    BY Zenon DEF SessionInv, CitesSnapshot, Captured
<1> QED
    BY <1>1, <1>2, <1>3, Zenon DEF SessionInv

\* _save writes the whole value that the call loaded and changed.
LEMMA SaveStep ==
    ASSUME SessionInv, NEW c \in Calls, NEW reached \in BOOLEAN, Save(c, reached) PROVE SessionInv'
<1>1. call[c] # NULL
    BY Zenon DEF Save, CallAt
<1>2. PICK x : x = call[c] /\ CallOK(x)
    BY <1>1, Zenon DEF SessionInv
<1>3. x.session \in Sessions /\ x.step = "save" /\ WholeFor(x.session, x.data)
    BY <1>2, Zenon DEF CallOK, Save, CallAt
<1>4. PICK held : /\ held = IF x.snapshot = NULL THEN WithQuery(x.data, x.query)
                            ELSE WithSnapshot(x.data, x.snapshot)
                  /\ WholeFor(x.session, held)
    BY <1>2, <1>3, SaveKeepsWhole, Zenon DEF CallOK
<1>5. sessionStore' = IF reached THEN SetKey(sessionStore, x.session, held, SessionTTL) ELSE sessionStore
    BY <1>2, <1>4, Zenon DEF Save, KeyOf
<1>6. DOMAIN sessionStore' = Sessions
    BY <1>5, Zenon DEF SetKey, SessionInv
<1>7. ASSUME NEW s \in Sessions, sessionStore'[s] # NULL
      PROVE  DOMAIN sessionStore'[s] = {"value", "left"} /\ WholeFor(s, sessionStore'[s].value)
  <2>1. CASE reached /\ s = x.session
    <3>1. sessionStore'[s] = [value |-> held, left |-> SessionTTL]
        BY <1>5, <2>1, Zenon DEF SetKey, Entry, SessionInv
    <3>2. DOMAIN sessionStore'[s] = {"value", "left"} /\ sessionStore'[s].value = held
        BY <3>1
    <3> QED
        BY <1>4, <2>1, <3>2, Zenon
  <2>2. CASE ~(reached /\ s = x.session)
    <3>1. sessionStore'[s] = sessionStore[s]
        BY <1>5, <2>2, Zenon DEF SetKey, SessionInv
    <3> QED
        BY <1>7, <3>1, Zenon DEF SessionInv
  <2> QED
    BY <2>1, <2>2, Zenon
<1> DEFINE y == [x EXCEPT !.step = "return", !.data = Empty]
<1>8. CallOK(y)
  <2>1. WholeFor(x.session, Empty)
    BY Zenon DEF WholeFor, Empty
  <2> QED
    BY <1>2, <2>1, Zenon DEF CallOK
<1>9. call' = [call EXCEPT ![c] = y]
    BY <1>2, Zenon DEF Save, SessionInv
<1> HIDE DEF y
<1>10. DOMAIN call' = Calls /\ \A d \in Calls : call'[d] # NULL => CallOK(call'[d])
    BY <1>8, <1>9, Zenon DEF SessionInv
<1> QED
    BY <1>6, <1>7, <1>10, StoredStep, Zenon DEF Save

\* Expiry removes a state as a whole.
LEMMA SessionTickStep == ASSUME SessionInv, SessionTick PROVE SessionInv'
<1>1. /\ DOMAIN sessionStore' = Sessions
      /\ \A s \in Sessions : sessionStore'[s] =
            IF sessionStore[s] = NULL \/ sessionStore[s].left <= 1 THEN NULL
            ELSE [sessionStore[s] EXCEPT !.left = sessionStore[s].left - 1]
    BY Zenon DEF SessionTick, Elapse, SessionInv
<1>2. ASSUME NEW s \in Sessions, sessionStore'[s] # NULL
      PROVE  DOMAIN sessionStore'[s] = {"value", "left"} /\ WholeFor(s, sessionStore'[s].value)
  <2>1. /\ sessionStore'[s] = [sessionStore[s] EXCEPT !.left = sessionStore[s].left - 1]
        /\ DOMAIN sessionStore[s] = {"value", "left"} /\ WholeFor(s, sessionStore[s].value)
    BY <1>1, <1>2, Zenon DEF SessionInv
  <2>2. DOMAIN sessionStore'[s] = {"value", "left"} /\ sessionStore'[s].value = sessionStore[s].value
    BY <2>1, Zenon
  <2> QED
    BY <2>1, <2>2, Zenon
<1> QED
    BY <1>1, <1>2, StoredStep, Zenon DEF SessionTick, SessionInv

\* A decision is recorded only with a captured snapshot that holds its citations.
LEMMA DecideStep ==
    ASSUME SessionInv, NEW c \in Calls, NEW relied, Decide(c, relied) PROVE SessionInv'
<1>1. PICK p : p = call[c].snapshot
    BY Zenon
<1>2. Made(c, relied).snapshot = p /\ Made(c, relied).relied = relied
    BY <1>1, Zenon DEF Made
<1>3. decision' = IF p \in Captured /\ relied \subseteq FactsOf[p] THEN Made(c, relied) ELSE decision
    BY <1>1, Zenon DEF Decide, ValidateReliedOn
<1>4. CapturesGrow /\ Captured' = Captured
    BY CapturesStay, Zenon DEF Decide, Captured
<1>5. CitesSnapshot'
    BY <1>2, <1>3, <1>4, Zenon DEF SessionInv, CitesSnapshot
<1>6. ASSUME NEW d \in Calls, call'[d] # NULL PROVE CallOK(call[d])'
  <2>1. PICK y : y = call'[d] /\ CallOK(y)'
    BY <1>4, <1>6, WholeStays, Zenon DEF SessionInv, Decide
  <2> QED
    BY <2>1, Zenon DEF CallOK, WholeFor
<1>7. ASSUME NEW s \in Sessions, sessionStore'[s] # NULL
      PROVE  DOMAIN sessionStore'[s] = {"value", "left"} /\ WholeFor(s, sessionStore[s].value)'
  <2>1. PICK v : v = sessionStore[s].value /\ v = sessionStore'[s].value
    BY Zenon DEF Decide
  <2>2. WholeFor(s, v)'
    BY <1>4, <1>7, <2>1, WholeStays, Zenon DEF SessionInv, Decide
  <2> QED
    BY <1>7, <2>1, <2>2, Zenon DEF SessionInv, WholeFor, Decide
<1>8. DOMAIN sessionStore' = Sessions /\ DOMAIN call' = Calls /\ captures' \in Seq(CaptureType)
    BY Zenon DEF Decide, SessionInv
<1> QED
    BY <1>5, <1>6, <1>7, <1>8, Zenon DEF SessionInv

\* Every step keeps the invariant of the sessions.
LEMMA SessionInvariance == SessionSpec => []SessionInv
<1>1. SessionInit => SessionInv
    BY DEF SessionInit, SessionInv, CitesSnapshot
<1>2. SessionInv /\ [SessionNext]_sessionVars => SessionInv'
  <2> SUFFICES ASSUME SessionInv, [SessionNext]_sessionVars PROVE SessionInv'
    BY Zenon
  <2>1. CASE \E c \in Calls, s \in Sessions :
          \/ \E query \in Queries : SearchFacts(c, s, query)
          \/ \E p \in Snapshots : CaptureContext(c, s, p)
          \/ \E p \in Snapshots \cup {NULL} : RecordDecision(c, s, p)
    BY <2>1, CallBegins, Zenon
  <2>2. CASE \E c \in Calls : Steps(c)
    BY <2>2, CallGoesOn, SaveStep, DecideStep, Zenon DEF Steps
  <2>3. CASE SessionTick
    BY <2>3, SessionTickStep, Zenon
  <2>4. CASE UNCHANGED sessionVars
    <3>1. UNCHANGED <<sessionStore, captures, call, decision>>
        BY <2>4, Zenon DEF sessionVars
    <3> QED
        BY <3>1, StoredStep, Zenon DEF SessionInv
  <2> QED
    BY <2>1, <2>2, <2>3, <2>4, Zenon DEF SessionNext
<1> QED
    BY <1>1, <1>2, PTL DEF SessionSpec

\* What a session is shown is always one snapshot it captured with exactly the
\* facts of that snapshot, for any number of overlapping tool calls, lost saves
\* and expired states.
THEOREM SessionContextWhole == SessionSpec => []ContextWhole
<1>1. ASSUME SessionInv, NEW s \in Sessions PROVE WholeFor(s, GetSessionContext(s))
    BY <1>1, LoadedWhole, Zenon DEF GetSessionContext
<1>2. SessionInv => ContextWhole
    BY <1>1, Zenon DEF WholeFor, CapturedBy, ContextWhole
<1> QED
    BY <1>2, SessionInvariance, PTL
=============================================================================
