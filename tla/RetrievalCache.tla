--------------------------- MODULE RetrievalCache ---------------------------
(***************************************************************************)
(* Searches through the shared cache of retrieval results                  *)
(* (app/services/retrieval.py, app/cache/retrieval.py), the writers that   *)
(* invalidate it, and the event consumer that invalidates it once more     *)
(* (app/events/handlers.py), for one organization: every key carries it.   *)
(*                                                                         *)
(* Any call of the store may fail; every feature here fails open.  A       *)
(* question stands for all that RetrievalCache.key digests: the query, the *)
(* filters, the limit, the instants and the visible scopes, which do not   *)
(* change while a search runs.                                             *)
(***************************************************************************)
EXTENDS KeyValueStore

CONSTANTS
    Writes,         \* bound: writes that change what a search can return
    Direct,         \* those that bypass the API (scripts, backfills)
    Questions,
    Readers,        \* concurrent searches
    EntryTTL,       \* retrieval_cache_ttl_seconds
    GenerationTTL,  \* GENERATION_TTL_SECONDS
    MaxDeliveries,  \* bound: deliveries of one event to the consumer
    MaxGeneration   \* bound: increments of the generation key

GenerationKey == <<"gen">>

EntryKeys == (0 .. MaxGeneration) \X Questions

CacheKeys == {GenerationKey} \cup EntryKeys

\* A RetrievalResult: the question, the writes it reflects, whether the vector
\* search was used, and the epoch of the generation it is stored under.
ResultType == [question : Questions, seen : SUBSET Writes, vector : BOOLEAN, epoch : Nat]

GenerationType == [value : 0 .. MaxGeneration, left : Nat]

CachedType == [value : ResultType, left : Nat]

ASSUME CacheAssumption ==
    /\ Direct \subseteq Writes
    /\ {EntryTTL, GenerationTTL, MaxDeliveries, MaxGeneration} \subseteq Nat \ {0}
    /\ EntryTTL < GenerationTTL
    /\ NULL \notin EntryKeys \cup GenerationType \cup CachedType \cup ResultType

VARIABLES
    committed,   \* writes in PostgreSQL
    owed,        \* writes whose request has still to invalidate
    deliveries,  \* how often the event of each write was handled
    cacheStore,  \* Redis
    announced,   \* writes after whose commit the generation was incremented
    epoch,       \* how often the generation key has expired
    searchPhase, \* what each search does next
    search       \* its question, cache key, result, and when it began

dbVars == <<committed, owed, deliveries>>
cacheVars == <<dbVars, cacheStore, announced, epoch, searchPhase, search>>

\* Faulty variant: the key leaves out the generation.
CacheKeyOfQuestion(generation, question) == <<0, question>>

\* RetrievalCache.key.
CacheKey(generation, question) == <<generation, question>>

SearchType ==
    [question : Questions \cup {NULL}, key : EntryKeys \cup {NULL}, vector : BOOLEAN,
     result : ResultType \cup {NULL}, hit : BOOLEAN, known : SUBSET Writes, epoch : Nat]

NoSearch == [question |-> NULL, key |-> NULL, vector |-> FALSE, result |-> NULL,
             hit |-> FALSE, known |-> {}, epoch |-> 0]

CacheInit ==
    /\ committed = {}
    /\ owed = {}
    /\ deliveries = [w \in Writes |-> 0]
    /\ cacheStore = [k \in CacheKeys |-> NULL]
    /\ announced = {}
    /\ epoch = 0
    /\ searchPhase = [r \in Readers |-> "idle"]
    /\ search = [r \in Readers |-> NoSearch]

\* RetrievalCache.generation: a missing key is generation 0.
generation == IF cacheStore[GenerationKey] = NULL THEN 0 ELSE Get(cacheStore, GenerationKey)

-----------------------------------------------------------------------------
(* Writers.                                                                *)

\* A fact version, a revocation or a vector is committed; its trigger records
\* the event.
CommitWrite(w) ==
    /\ w \notin committed
    /\ committed' = committed \cup {w}
    /\ owed' = owed \cup ({w} \ Direct)
    /\ UNCHANGED <<deliveries, cacheStore, announced, epoch, searchPhase, search>>

\* RetrievalCache.invalidate; an unavailable store is only logged.
invalidate(w) ==
    \/ /\ generation < MaxGeneration
       /\ cacheStore' = Increment(cacheStore, GenerationKey, GenerationTTL)
       /\ announced' = announced \cup {w}
    \/ UNCHANGED <<cacheStore, announced>>

\* The request that committed the write invalidates the cache.
AfterCommit(w) ==
    /\ w \in owed
    /\ owed' = owed \ {w}
    /\ invalidate(w)
    /\ UNCHANGED <<committed, deliveries, epoch, searchPhase, search>>

\* The process ends between the commit and the invalidation.
WriterFails(w) ==
    /\ w \in owed
    /\ owed' = owed \ {w}
    /\ UNCHANGED <<committed, deliveries, cacheStore, announced, epoch, searchPhase, search>>

\* RetrievalCacheInvalidator.handle; an event may be delivered more than once.
ConsumeEvent(w) ==
    /\ w \in committed
    /\ deliveries[w] < MaxDeliveries
    /\ deliveries' = [deliveries EXCEPT ![w] = @ + 1]
    /\ invalidate(w)
    /\ UNCHANGED <<committed, owed, epoch, searchPhase, search>>

-----------------------------------------------------------------------------
(* RetrievalService._search.                                               *)

Goto(r, p) == searchPhase' = [searchPhase EXCEPT ![r] = p]

\* The permission check has passed; the generation is read before PostgreSQL.
ReadGeneration(r, q) ==
    /\ searchPhase[r] = "idle"
    /\ search' = [search EXCEPT ![r] = [NoSearch EXCEPT
                     !.question = q, !.key = CacheKey(generation, q),
                     !.known = announced, !.epoch = epoch]]
    /\ Goto(r, "lookup")
    /\ UNCHANGED <<dbVars, cacheStore, announced, epoch>>

\* The store is unavailable: the search runs without the cache.
SkipCache(r, q) ==
    /\ searchPhase[r] = "idle"
    /\ search' = [search EXCEPT ![r] = [NoSearch EXCEPT
                     !.question = q, !.known = announced, !.epoch = epoch]]
    /\ Goto(r, "embed")
    /\ UNCHANGED <<dbVars, cacheStore, announced, epoch>>

\* Faulty variant: a hit renews the entry.
LookupSliding(r) ==
    LET k == search[r].key
    IN /\ searchPhase[r] = "lookup"
       /\ cacheStore[k] # NULL
       /\ cacheStore' = SetKey(cacheStore, k, Get(cacheStore, k), EntryTTL)
       /\ search' = [search EXCEPT ![r].result = Get(cacheStore, k), ![r].hit = TRUE]
       /\ Goto(r, "answered")
       /\ UNCHANGED <<dbVars, announced, epoch>>

Hit(r) ==
    LET k == search[r].key
    IN /\ searchPhase[r] = "lookup"
       /\ cacheStore[k] # NULL
       /\ search' = [search EXCEPT ![r].result = Get(cacheStore, k), ![r].hit = TRUE]
       /\ Goto(r, "answered")
       /\ UNCHANGED <<dbVars, cacheStore, announced, epoch>>

\* No entry, an entry that does not decode, or no store.
Miss(r) ==
    /\ searchPhase[r] = "lookup"
    /\ Goto(r, "embed")
    /\ UNCHANGED <<dbVars, cacheStore, announced, epoch, search>>

\* _embed: without a vector the search uses full text only.
Embed(r) ==
    /\ searchPhase[r] = "embed"
    /\ \E available \in BOOLEAN : search' = [search EXCEPT ![r].vector = available]
    /\ Goto(r, "query")
    /\ UNCHANGED <<dbVars, cacheStore, announced, epoch>>

\* A degraded answer is not cached: the next call may do better.
Cacheable(r) == search[r].key # NULL /\ search[r].vector

\* The REPEATABLE READ transaction, and the ranking of what it read.
Query(r) ==
    /\ searchPhase[r] = "query"
    /\ search' = [search EXCEPT ![r].result =
                     [question |-> search[r].question, seen |-> committed,
                      vector |-> search[r].vector, epoch |-> search[r].epoch]]
    /\ Goto(r, IF Cacheable(r) THEN "put" ELSE "answered")
    /\ UNCHANGED <<dbVars, cacheStore, announced, epoch>>

\* RetrievalCache.put; an unavailable store is only logged.
Put(r) ==
    /\ searchPhase[r] = "put"
    /\ \/ cacheStore' = SetKey(cacheStore, search[r].key, search[r].result, EntryTTL)
       \/ UNCHANGED cacheStore
    /\ Goto(r, "answered")
    /\ UNCHANGED <<dbVars, announced, epoch, search>>

Answer(r) ==
    /\ searchPhase[r] = "answered"
    /\ search' = [search EXCEPT ![r] = NoSearch]
    /\ Goto(r, "idle")
    /\ UNCHANGED <<dbVars, cacheStore, announced, epoch>>

CacheTick ==
    /\ cacheStore' = Elapse(cacheStore)
    /\ epoch' = IF cacheStore[GenerationKey] # NULL /\ cacheStore'[GenerationKey] = NULL
                THEN epoch + 1 ELSE epoch
    /\ UNCHANGED <<dbVars, announced, searchPhase, search>>

SearchStep(r) == Hit(r) \/ Miss(r) \/ Embed(r) \/ Query(r) \/ Put(r) \/ Answer(r)

CacheCalls ==
    \/ \E w \in Writes : CommitWrite(w) \/ AfterCommit(w) \/ WriterFails(w) \/ ConsumeEvent(w)
    \/ \E r \in Readers, q \in Questions : ReadGeneration(r, q) \/ SkipCache(r, q)
    \/ \E r \in Readers : SearchStep(r)

CacheNext == CacheCalls \/ CacheTick

CacheSpec == CacheInit /\ [][CacheNext]_cacheVars

-----------------------------------------------------------------------------
(* Properties.                                                             *)

\* The state has its types, and the generation never leaves the keys' range.
CacheTypeOK ==
    /\ committed \subseteq Writes /\ owed \subseteq committed
    /\ announced \subseteq committed
    /\ deliveries \in [Writes -> Nat]
    /\ DOMAIN cacheStore = CacheKeys
    /\ cacheStore[GenerationKey] \in GenerationType \cup {NULL}
    /\ \A k \in EntryKeys : cacheStore[k] \in CachedType \cup {NULL}
    /\ epoch \in Nat
    /\ searchPhase \in [Readers -> {"idle", "lookup", "embed", "query", "put", "answered"}]
    /\ search \in [Readers -> SearchType]

\* A search served from the cache reflects every write that was announced before
\* it read the generation, if the generation key has not expired between the
\* search that filled the entry and this one: whatever the order in which writers
\* commit and invalidate and slow searches store what they read, the increment
\* orphans every result computed without the write.
FreshWithinEpoch ==
    \A r \in Readers :
        search[r].hit /\ search[r].result.epoch = search[r].epoch =>
            search[r].known \subseteq search[r].result.seen

\* A hit answers the question that was asked, and never with a degraded result,
\* although searches of different questions share the store.
HitsAnswerTheQuestion ==
    \A r \in Readers :
        search[r].hit =>
            search[r].result.question = search[r].question /\ search[r].result.vector

\* Staleness ends: even if every invalidation was lost, a time comes when no entry
\* of any generation lacks a committed write.
EventuallyFresh ==
    <>[](\A k \in CacheKeys \ {GenerationKey} :
            cacheStore[k] # NULL => cacheStore[k].value.seen = committed)

-----------------------------------------------------------------------------
(* The inductive invariant of the proofs.  The generation only rises within *)
(* an epoch, so its value and the epoch tell what was announced when it was *)
(* read.                                                                    *)

\* The generation has been g in epoch e; it is g now.
Reached(e, g) == e < epoch \/ (e = epoch /\ g <= generation)
Current(e, g) == e = epoch /\ g = generation

\* A cached result has every write announced by the time its generation passed.
EntryOK(g, result) ==
    /\ Reached(result.epoch, g)
    /\ Current(result.epoch, g) => announced \subseteq result.seen

\* What a search knows fits the generation it read, its result, and the entries
\* stored under that generation.
SearchOK(x) ==
    /\ x.known \subseteq announced
    /\ x.key # NULL =>
          /\ x.key[2] = x.question
          /\ Reached(x.epoch, x.key[1])
          /\ Current(x.epoch, x.key[1]) => x.known = announced
          /\ \A k \in EntryKeys :
                /\ cacheStore[k] # NULL
                /\ k[1] = x.key[1]
                /\ cacheStore[k].value.epoch = x.epoch
                => x.known \subseteq cacheStore[k].value.seen
    /\ x.result # NULL /\ x.result.epoch = x.epoch => x.known \subseteq x.result.seen
    /\ x.hit => x.result # NULL /\ x.result.question = x.question /\ x.result.vector

\* Searches that read the same generation know the same writes.
Agree(x, y) ==
    x.key # NULL /\ y.key # NULL /\ x.epoch = y.epoch /\ x.key[1] = y.key[1] => x.known = y.known

\* What a search is about to do.
PhaseOK(p, x) ==
    /\ p \in {"lookup", "put"} => x.key # NULL
    /\ p \in {"lookup", "embed", "query"} => x.question \in Questions
    /\ p # "answered" => ~x.hit
    /\ p = "put" =>
          /\ x.result # NULL /\ x.result.epoch = x.epoch
          /\ x.result.question = x.question /\ x.result.vector

CacheInv ==
    /\ CacheTypeOK
    /\ \A k \in EntryKeys : cacheStore[k] # NULL =>
          /\ EntryOK(k[1], cacheStore[k].value)
          /\ cacheStore[k].value.question = k[2] /\ cacheStore[k].value.vector
    /\ \A r \in Readers : SearchOK(search[r]) /\ PhaseOK(searchPhase[r], search[r])
    /\ \A r, q \in Readers : Agree(search[r], search[q])

-----------------------------------------------------------------------------
(* What the documentation says and the code does not keep.                 *)

\* docs/REDIS.md of the generation: "Every older entry becomes unreachable at
\* once": a hit reflects every write announced before the search began.
OlderEntriesUnreachable ==
    \A r \in Readers : search[r].hit => search[r].known \subseteq search[r].result.seen
=============================================================================
