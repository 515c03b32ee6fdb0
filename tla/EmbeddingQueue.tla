---------------------------- MODULE EmbeddingQueue ----------------------------
(***************************************************************************)
(* The embedding worker (app/workers/embeddings.py), its job queue         *)
(* (app/repositories/embeddings.py) and the provider it calls              *)
(* (app/providers/embeddings.py), for one embedding model.                 *)
(*                                                                         *)
(* Each step of a worker is one of its transactions, or one answer of the  *)
(* provider, which is called outside any transaction.  Times are kept as   *)
(* the time that is left: until a job may be claimed, and of its lease.    *)
(* A rendered document stands for its SHA-256, and for the vector computed *)
(* from it.                                                                *)
(***************************************************************************)
EXTENDS Null, Naturals, FiniteSets

CONSTANTS
    LastVersion,  \* bound: fact versions 1 .. LastVersion, by recorded_at
    Org,          \* the organization of each version
    Text,         \* the document render_fact_document makes of each version
    Refused,      \* documents the provider answers with a status it does not retry
    Workers,      \* worker processes
    Drainers,     \* those that run with --drain
    MaxBatches,   \* their limit of batches
    BatchSize,    \* jobs a worker claims at most
    ChunkSize,    \* provider.max_batch_size
    MaxRetries,   \* retries of one provider request
    MaxAttempts,  \* claims of a job before it fails for good
    Lease,        \* duration of a lease
    RetryBase,    \* retry_base_seconds
    RetryCap,     \* retry_cap_seconds
    MaxFaults     \* bound: crashes, errors of the database, calls that outlive a lease

Versions == 1 .. LastVersion
Texts == {Text[v] : v \in Versions}
Orgs == {Org[v] : v \in Versions}

Statuses == {"PENDING", "RUNNING", "SUCCEEDED", "FAILED"}

\* A row of embedding_jobs.  Every claim draws a new uuid4 token; the number of
\* claims names it.
JobType ==
    {j \in [status : Statuses, attempts : Nat, token : Nat \cup {NULL},
            wait : 0 .. RetryCap, lease : 0 .. Lease] :
        (j.status = "RUNNING") <=> (j.token # NULL)}

\* A row of fact_embeddings: the hash, and the document its vector was made from.
EmbeddingType == [sha : Texts, of : Texts]

ASSUME QueueAssumption ==
    /\ {LastVersion, MaxRetries, RetryBase, RetryCap, MaxFaults, MaxBatches} \subseteq Nat
    /\ {BatchSize, ChunkSize, MaxAttempts, Lease} \subseteq Nat \ {0}
    /\ DOMAIN Org = Versions /\ DOMAIN Text = Versions
    /\ Drainers \subseteq Workers
    /\ NULL \notin Nat \cup JobType \cup EmbeddingType
    /\ \A n \in 0 .. MaxAttempts : RetryBase * 2^n \in Nat

VARIABLES
    recorded,     \* committed fact versions
    jobs,         \* embedding_jobs: a row, or NULL, for each version
    vectors,      \* fact_embeddings: a row, or NULL, for each version
    unannounced,  \* organizations with a vector cached searches may lack
    phase,        \* what each worker does next
    batch,        \* the jobs it claimed, with the token of the claim
    cache,        \* vectors it found stored, by organization and document
    fresh,        \* documents the provider has embedded for this batch
    todo,         \* documents it has still to send
    tries,        \* failed tries of the current provider request
    batches,      \* batches a drainer may still process
    faults        \* faults still to come

dbVars == <<recorded, jobs, vectors>>
callVars == <<cache, fresh, todo, tries>>
vars == <<dbVars, unannounced, phase, batch, callVars, batches, faults>>

Phases == {"idle", "claiming", "loading", "calling", "saving", "failing", "announcing",
           "exited", "dead"}

Init ==
    /\ recorded = {}
    /\ jobs = [v \in Versions |-> NULL]
    /\ vectors = [v \in Versions |-> NULL]
    /\ unannounced = {}
    /\ phase = [w \in Workers |-> "idle"]
    /\ batch = [w \in Workers |-> <<>>]
    /\ cache = [w \in Workers |-> {}]
    /\ fresh = [w \in Workers |-> {}]
    /\ todo = [w \in Workers |-> {}]
    /\ tries = [w \in Workers |-> 0]
    /\ batches = [w \in Workers |-> MaxBatches]
    /\ faults = MaxFaults

Goto(w, p) == phase' = [phase EXCEPT ![w] = p]

Fault == faults > 0 /\ faults' = faults - 1

-----------------------------------------------------------------------------
(* EmbeddingJobStore.                                                      *)

\* Versions with neither a job nor an embedding, the first of them in the order
\* of recorded_at; at most four batches.
Missing ==
    LET candidates == {v \in recorded : jobs[v] = NULL /\ vectors[v] = NULL}
    IN {v \in candidates : Cardinality({u \in candidates : u < v}) < 4 * BatchSize}

NewJob == [status |-> "PENDING", attempts |-> 0, token |-> NULL, wait |-> 0, lease |-> 0]

\* Faulty variant: only waiting jobs are due, the job of a dead worker never is.
DuePendingOnly == {v \in Versions : jobs[v] # NULL /\ jobs[v].status = "PENDING" /\ jobs[v].wait = 0}

\* Faulty variant: a running job is due whatever its lease.
DueAnyRunning ==
    {v \in Versions :
        /\ jobs[v] # NULL
        /\ jobs[v].wait = 0
        /\ jobs[v].status \in {"PENDING", "RUNNING"}}

\* The jobs that may be claimed.
Due ==
    {v \in Versions :
        /\ jobs[v] # NULL
        /\ jobs[v].wait = 0
        /\ \/ jobs[v].status = "PENDING"
           \/ jobs[v].status = "RUNNING" /\ jobs[v].lease = 0}

\* A claimed row.
Leased(j) ==
    [j EXCEPT !.status = "RUNNING", !.token = j.attempts + 1, !.attempts = @ + 1,
              !.lease = Lease]

\* Vectors of identical documents of the same organization.
CachedVectors(o, hashes) ==
    {[org |-> o, sha |-> vectors[v].sha, of |-> vectors[v].of] :
        v \in {u \in recorded : Org[u] = o /\ vectors[u] # NULL /\ vectors[u].sha \in hashes}}

\* ON CONFLICT DO NOTHING.
SaveEmbedding(old, row) == IF old = NULL THEN row ELSE old

\* SUCCEEDED, when the lease is still held.
Complete(j, token) ==
    IF j.token = token
    THEN [j EXCEPT !.status = "SUCCEEDED", !.token = NULL, !.lease = 0]
    ELSE j

\* base * 2^(attempts - 1), capped.
RetryDelay(attempts) ==
    IF attempts < 1 THEN 0
    ELSE LET delay == RetryBase * 2^(attempts - 1)
         IN IF delay < RetryCap THEN delay ELSE RetryCap

\* Back to PENDING after the delay, or FAILED for good, when the lease is held.
Fail(j, token) ==
    IF j.token # token THEN j
    ELSE [j EXCEPT !.status = IF token >= MaxAttempts THEN "FAILED" ELSE "PENDING",
                   !.wait = IF token >= MaxAttempts THEN @ ELSE RetryDelay(token),
                   !.token = NULL, !.lease = 0]

-----------------------------------------------------------------------------
(* EmbeddingWorker.                                                        *)

\* The ledger commits the next fact version.
RecordVersion ==
    /\ \E v \in Versions \ recorded :
        /\ \A u \in Versions \ recorded : v <= u
        /\ recorded' = recorded \cup {v}
    /\ UNCHANGED <<jobs, vectors, unannounced, phase, batch, callVars, batches, faults>>

\* run_once, first transaction: the reconciliation sweep.
EnqueueMissing(w) ==
    /\ phase[w] = "idle"
    /\ w \in Drainers => batches[w] > 0
    /\ jobs' = [v \in Versions |-> IF v \in Missing THEN NewJob ELSE jobs[v]]
    /\ Goto(w, "claiming")
    /\ UNCHANGED <<recorded, vectors, unannounced, batch, callVars, batches, faults>>

\* run_once, second transaction.  The order of available_at is not kept: any
\* full batch of due jobs may be the one that is claimed.
ClaimJobs(w) ==
    /\ phase[w] = "claiming"
    /\ Due # {}
    /\ \E ids \in SUBSET Due :
        /\ Cardinality(ids) = IF Cardinality(Due) < BatchSize THEN Cardinality(Due) ELSE BatchSize
        /\ jobs' = [v \in Versions |-> IF v \in ids THEN Leased(jobs[v]) ELSE jobs[v]]
        /\ batch' = [batch EXCEPT ![w] = [v \in ids |-> Leased(jobs[v]).token]]
    /\ batches' = [batches EXCEPT ![w] = IF w \in Drainers THEN @ - 1 ELSE @]
    /\ Goto(w, "loading")
    /\ UNCHANGED <<recorded, vectors, unannounced, callVars, faults>>

\* Nothing to claim: the loop sleeps, a drainer exits.
NothingDue(w) ==
    /\ phase[w] = "claiming"
    /\ Due = {}
    /\ Goto(w, IF w \in Drainers THEN "exited" ELSE "idle")
    /\ UNCHANGED <<dbVars, unannounced, batch, callVars, batches, faults>>

\* A drainer that has used up its batches.
DrainLimit(w) ==
    /\ phase[w] = "idle"
    /\ w \in Drainers
    /\ batches[w] = 0
    /\ Goto(w, "exited")
    /\ UNCHANGED <<dbVars, unannounced, batch, callVars, batches, faults>>

\* The rendered documents of jobs.
Documents(ids) == {Text[v] : v \in ids}

\* _process, first transaction: documents, hashes, vectors already stored.
LoadDocuments(w) ==
    LET ids == DOMAIN batch[w]
        stored == UNION {CachedVectors(o, Documents({u \in ids : Org[u] = o})) :
                            o \in {Org[v] : v \in ids}}
        missing == {v \in ids : ~\E c \in stored : c.org = Org[v] /\ c.sha = Text[v]}
    IN /\ phase[w] = "loading"
       /\ cache' = [cache EXCEPT ![w] = stored]
       /\ todo' = [todo EXCEPT ![w] = Documents(missing)]
       /\ fresh' = [fresh EXCEPT ![w] = {}]
       /\ tries' = [tries EXCEPT ![w] = 0]
       /\ Goto(w, IF missing = {} THEN "saving" ELSE "calling")
       /\ UNCHANGED <<dbVars, unannounced, batch, batches, faults>>

\* The documents of the next request.
Chunks(w) ==
    LET n == Cardinality(todo[w])
    IN {c \in SUBSET todo[w] : Cardinality(c) = IF n < ChunkSize THEN n ELSE ChunkSize}

\* Status 200 and a well-formed body: one vector for each document.
ProviderAnswers(w) ==
    /\ phase[w] = "calling"
    /\ \E chunk \in Chunks(w) :
        /\ chunk \cap Refused = {}
        /\ fresh' = [fresh EXCEPT ![w] = @ \cup chunk]
        /\ todo' = [todo EXCEPT ![w] = @ \ chunk]
        /\ Goto(w, IF todo[w] = chunk THEN "saving" ELSE "calling")
    /\ tries' = [tries EXCEPT ![w] = 0]
    /\ UNCHANGED <<dbVars, unannounced, batch, cache, batches, faults>>

\* A timeout, a transport error or a retryable status, with retries left.
ProviderRetries(w) ==
    /\ phase[w] = "calling"
    /\ tries[w] < MaxRetries
    /\ tries' = [tries EXCEPT ![w] = @ + 1]
    /\ UNCHANGED <<dbVars, unannounced, phase, batch, cache, fresh, todo, batches, faults>>

\* The last try failed, or the answer is not one to retry (a refused document, a
\* malformed body): EmbeddingProviderError.
ProviderFails(w) ==
    /\ phase[w] = "calling"
    /\ \/ tries[w] = MaxRetries
       \/ \E chunk \in Chunks(w) : chunk \cap Refused # {}
    /\ Goto(w, "failing")
    /\ UNCHANGED <<dbVars, unannounced, batch, callVars, batches, faults>>

\* The vector of a job: the one found stored, or the fresh one.
VectorOf(w, v) ==
    IF \E c \in cache[w] : c.org = Org[v] /\ c.sha = Text[v]
    THEN (CHOOSE c \in cache[w] : c.org = Org[v] /\ c.sha = Text[v]).of
    ELSE CHOOSE t \in fresh[w] : t = Text[v]

\* _process, last transaction: every vector is stored, lease or no lease, and
\* the jobs whose lease is held are completed.
WriteBatch(w) ==
    /\ phase[w] = "saving"
    /\ vectors' = [v \in Versions |->
                    IF v \in DOMAIN batch[w]
                    THEN SaveEmbedding(vectors[v], [sha |-> Text[v], of |-> VectorOf(w, v)])
                    ELSE vectors[v]]
    /\ jobs' = [v \in Versions |->
                    IF v \in DOMAIN batch[w] THEN Complete(jobs[v], batch[w][v]) ELSE jobs[v]]
    /\ unannounced' = unannounced \cup {Org[v] : v \in DOMAIN batch[w]}
    /\ Goto(w, "announcing")
    /\ UNCHANGED <<recorded, batch, callVars, batches, faults>>

\* The worker forgets its batch.
Forget(w) ==
    /\ batch' = [batch EXCEPT ![w] = <<>>]
    /\ cache' = [cache EXCEPT ![w] = {}]
    /\ fresh' = [fresh EXCEPT ![w] = {}]
    /\ todo' = [todo EXCEPT ![w] = {}]
    /\ tries' = [tries EXCEPT ![w] = 0]

\* Cached searches of the batch's organizations are invalidated.
Invalidate(w) ==
    /\ phase[w] = "announcing"
    /\ unannounced' = unannounced \ {Org[v] : v \in DOMAIN batch[w]}
    /\ Forget(w)
    /\ Goto(w, "idle")
    /\ UNCHANGED <<dbVars, batches, faults>>

\* The whole batch fails with the request.
RecordFailure(w) ==
    /\ phase[w] = "failing"
    /\ jobs' = [v \in Versions |->
                    IF v \in DOMAIN batch[w] THEN Fail(jobs[v], batch[w][v]) ELSE jobs[v]]
    /\ Forget(w)
    /\ Goto(w, "idle")
    /\ UNCHANGED <<recorded, vectors, unannounced, batches, faults>>

\* The process dies and is restarted, or run_forever logs an exception and goes
\* on: the batch is forgotten, its jobs stay RUNNING.  An exception ends a drainer.
WorkerFails(w) ==
    /\ phase[w] \notin {"idle", "exited", "dead"}
    /\ Fault
    /\ Forget(w)
    /\ Goto(w, IF w \in Drainers THEN "dead" ELSE "idle")
    /\ UNCHANGED <<dbVars, unannounced, batches>>

\* The token of job v is in the hands of a worker.
Held(v) == \E w \in Workers : v \in DOMAIN batch[w] /\ batch[w][v] = jobs[v].token

\* Time passes.  A lease that runs out while its holder is at work is a fault.
Tick ==
    LET running == {v \in Versions : jobs[v] # NULL}
        expiring == {v \in running : jobs[v].lease = 1}
        Less(n) == IF n = 0 THEN 0 ELSE n - 1
    IN /\ \E v \in running : jobs[v].wait > 0 \/ jobs[v].lease > 0
       /\ IF \E v \in expiring : Held(v) THEN Fault ELSE UNCHANGED faults
       /\ jobs' = [v \in Versions |->
                    IF v \in running
                    THEN [jobs[v] EXCEPT !.wait = Less(@), !.lease = Less(@)]
                    ELSE NULL]
       /\ UNCHANGED <<recorded, vectors, unannounced, phase, batch, callVars, batches>>

WorkerNext(w) ==
    \/ EnqueueMissing(w) \/ ClaimJobs(w) \/ NothingDue(w) \/ DrainLimit(w) \/ LoadDocuments(w)
    \/ ProviderAnswers(w) \/ ProviderRetries(w) \/ ProviderFails(w)
    \/ WriteBatch(w) \/ Invalidate(w) \/ RecordFailure(w)

Next ==
    \/ RecordVersion
    \/ \E w \in Workers : WorkerNext(w) \/ WorkerFails(w)
    \/ Tick

Spec == Init /\ [][Next]_vars

-----------------------------------------------------------------------------
(* Properties.                                                             *)

\* The rows keep their types; a job is RUNNING exactly while it has a token
\* (the CHECK constraint lease_only_while_running).
TypeOK ==
    /\ recorded \subseteq Versions
    /\ jobs \in [Versions -> JobType \cup {NULL}]
    /\ vectors \in [Versions -> EmbeddingType \cup {NULL}]
    /\ unannounced \subseteq Orgs
    /\ phase \in [Workers -> Phases]
    /\ \A w \in Workers :
        /\ DOMAIN batch[w] \subseteq Versions
        /\ \A v \in DOMAIN batch[w] : batch[w][v] \in Nat
        /\ cache[w] \subseteq [org : Orgs, sha : Texts, of : Texts]
    /\ fresh \in [Workers -> SUBSET Texts]
    /\ todo \in [Workers -> SUBSET Texts]
    /\ tries \in [Workers -> 0 .. MaxRetries]
    /\ batches \in [Workers -> 0 .. MaxBatches]
    /\ faults \in Nat

\* Search never ranks a version by the vector of another text: every stored
\* vector was computed from the document of its own version, whether it came from
\* the provider or from the tenant's content-hash cache.
VectorsTrue == \A v \in Versions : vectors[v] # NULL => vectors[v].of = Text[v]

\* A version whose job says SUCCEEDED is searchable: its vector is there.
SucceededHasVector ==
    \A v \in Versions :
        jobs[v] # NULL /\ jobs[v].status = "SUCCEEDED" => vectors[v] # NULL

\* A job fails for good only after MaxAttempts claims, and is never left waiting
\* for a further attempt once it has used them up, whatever crashes consumed them.
RetryLimit ==
    \A v \in Versions : jobs[v] # NULL =>
        /\ jobs[v].status = "FAILED" => jobs[v].attempts >= MaxAttempts
        /\ jobs[v].status = "PENDING" => jobs[v].attempts < MaxAttempts

\* No two workers hold the current lease of one job: a job is claimed again only
\* after its lease ran out, and then under another token.
OneHolder ==
    \A w, x \in Workers : w # x =>
        \A v \in DOMAIN batch[w] \cap DOMAIN batch[x] : batch[w][v] # batch[x][v]

\* Every organization whose vectors changed since its cached searches were
\* invalidated is about to be invalidated, unless a worker failed.
AnnouncedUnlessFailed ==
    \A o \in unannounced :
        \/ faults < MaxFaults
        \/ \E w \in Workers :
            phase[w] = "announcing" /\ \E v \in DOMAIN batch[w] : Org[v] = o

\* A worker whose lease ran out cannot overwrite the newer outcome: a finished
\* job stays as it is, and stored vectors never change.
OutcomesFinal ==
    [][\A v \in Versions :
        /\ jobs[v] # NULL /\ jobs[v].status \in {"SUCCEEDED", "FAILED"} => jobs'[v] = jobs[v]
        /\ vectors[v] # NULL => vectors'[v] = vectors[v]]_vars

\* While a job runs under a lease that has not run out, its row changes only by
\* the hand of the worker that holds the token.
LeaseProtects ==
    [][\A v \in Versions :
        /\ jobs[v] # NULL /\ jobs[v].status = "RUNNING" /\ jobs[v].lease > 0
        /\ jobs'[v].token # jobs[v].token
        => \E w \in Workers :
            v \in DOMAIN batch[w] /\ batch[w][v] = jobs[v].token /\ phase'[w] # phase[w]]_vars

\* Every recorded version is eventually searchable or its job FAILED, although
\* workers die with jobs in their hands and the provider may always fail.
EventuallySettled ==
    \A v \in Versions :
        v \in recorded ~> vectors[v] # NULL \/ (jobs[v] # NULL /\ jobs[v].status = "FAILED")

-----------------------------------------------------------------------------
(* What the documentation says and the code does not keep.                 *)

\* VECTOR_INDEXING.md: "save + complete ── only if the lease token still matches".
\* So a vector is stored in the transaction that completes its job.
StoredMeansSucceeded ==
    \A v \in Versions : vectors[v] # NULL => jobs[v].status = "SUCCEEDED"

\* The help of --drain: "process batches until none are pending (at most
\* MAX_BATCHES), then exit".
DrainedMeansNonePending ==
    \A w \in Drainers : phase[w] = "exited" /\ batches[w] > 0 =>
        \A v \in Versions : jobs[v] # NULL => jobs[v].status # "PENDING"
=============================================================================
