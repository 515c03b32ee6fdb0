----------------------------- MODULE FactLedger -----------------------------
(***************************************************************************)
(* The bitemporal fact ledger of one organization: the transactions of     *)
(* FactService.record_version (app/services/facts.py) and of               *)
(* RevocationService.revoke (app/services/revocations.py) running          *)
(* concurrently on PostgreSQL at READ COMMITTED.                           *)
(*                                                                         *)
(* A request is one API call and so one database transaction.  It begins   *)
(* (now() is fixed), waits for the row lock of its fact, reads and writes  *)
(* under the lock, and commits; until then its writes are its own.  A      *)
(* request inserts at most one fact_versions row, so the request names     *)
(* the row (it stands for the UUID primary key).                           *)
(***************************************************************************)
EXTENDS Temporal

CONSTANTS
    Facts,             \* the facts requests write to
    Requests,          \* API requests; each runs once
    Commands,          \* the RecordFactVersion commands clients may send
    CapturedEvidence,  \* evidence already captured in the organization
    Instants,          \* the instants readers ask about, on both timelines
    MaxClock,          \* bound: the last reading of the database clock
    ClockStepsBack     \* may the server clock step backwards?

CommandType ==
    [source: STRING, value: STRING, valid_from: Nat, valid_until: Nat \cup {NULL},
     observed_at: Nat, trust: Nat, evidence_ids: SUBSET STRING]

ASSUME LedgerAssumption ==
    /\ Commands \subseteq CommandType
    \* ValidityWindow.__post_init__ has accepted the command's window
    /\ \A c \in Commands : c.valid_until # NULL => c.valid_from < c.valid_until
    /\ NULL \notin Requests
    /\ Instants \subseteq Nat
    /\ MaxClock \in Nat
    /\ ClockStepsBack \in BOOLEAN

VARIABLES
    clock,           \* the database server's wall clock
    versions,        \* committed rows of fact_versions: the chain of each fact
    revocations,     \* committed rows of fact_revocations
    contradictions,  \* committed value_conflict rows of contradictions
    links,           \* committed rows of fact_version_evidence
    lock,            \* holder of the row lock of each fact, NULL if free
    phase,           \* how far each request is
    job,             \* what each request was asked to do
    started,         \* now(): when each request's transaction began
    work             \* what each request has written and not yet committed

tables == <<versions, revocations, contradictions, links>>
vars == <<clock, tables, lock, phase, job, started, work>>

VersionType ==
    [id: Requests, version: Nat, source: STRING, value: STRING,
     valid_from: Nat, valid_until: Nat \cup {NULL},
     recorded_at: Nat, valid_until_recorded_at: Nat \cup {NULL},
     observed_at: Nat, trust: Nat, supersedes_id: Requests \cup {NULL}]

RevocationType == [fact_version_id: Requests, revoked_at: Nat]

ContradictionType ==
    [left_version_id: Requests, right_version_id: Requests,
     preferred_version_id: Requests]

LinkType == [fact_version_id: Requests, evidence_id: STRING, linked_at: Nat]

WorkType ==
    [chain: Seq(VersionType), revocations: SUBSET RevocationType,
     contradictions: SUBSET ContradictionType, links: SUBSET LinkType]

\* version_id = NULL asks for the latest version.
RecordJobs == [kind: {"record"}, fact: Facts, command: Commands]
RevokeJobs == [kind: {"revoke"}, fact: Facts, version_id: Requests \cup {NULL}]
Jobs == RecordJobs \cup RevokeJobs

InFlight == {"begun", "locked", "written"}
Ended == {"committed", "refused", "rolledback"}
Phases == {"idle"} \cup InFlight \cup Ended

NoWork == [chain |-> <<>>, revocations |-> {}, contradictions |-> {}, links |-> {}]

-----------------------------------------------------------------------------
(* The domain rules, as functions of a chain.                              *)

Latest(chain) == chain[Len(chain)]

\* Faulty variant: the overlap with a fixed end is not refused.
PlanConflictNoOverlap(chain, cmd) ==
    chain # <<>> /\ cmd.valid_from <= Latest(chain).valid_from

\* plan_new_version() raises ConflictError.
PlanConflict(chain, cmd) ==
    /\ chain # <<>>
    /\ \/ cmd.valid_from <= Latest(chain).valid_from
       \/ /\ Latest(chain).valid_until # NULL
          /\ cmd.valid_from < Latest(chain).valid_until

\* Strictly after the previous version, even if the server clock is not.
NextTransactionTime(chain, now) ==
    IF chain # <<>> /\ now <= Latest(chain).recorded_at
    THEN Latest(chain).recorded_at + 1
    ELSE now

CloseVersionRetroactive(v, cmd, recordedAt) ==
    IF v.valid_until = NULL
    THEN [v EXCEPT !.valid_until = cmd.valid_from, !.valid_until_recorded_at = v.recorded_at]
    ELSE v

\* Only an open version is closed (plan.close_previous_at).
CloseVersion(v, cmd, recordedAt) ==
    IF v.valid_until = NULL
    THEN [v EXCEPT !.valid_until = cmd.valid_from,
                   !.valid_until_recorded_at = recordedAt]
    ELSE v

NewVersion(id, chain, cmd, recordedAt) ==
    [id            |-> id,
     version       |-> Len(chain) + 1,
     source        |-> cmd.source,
     value         |-> cmd.value,
     valid_from    |-> cmd.valid_from,
     valid_until   |-> cmd.valid_until,
     recorded_at   |-> recordedAt,
     valid_until_recorded_at |-> IF cmd.valid_until = NULL THEN NULL ELSE recordedAt,
     observed_at   |-> cmd.observed_at,
     trust         |-> cmd.trust,
     supersedes_id |-> IF chain = <<>> THEN NULL ELSE Latest(chain).id]

\* The chain after record_version has closed the latest version and appended.
Extended(id, chain, cmd, recordedAt) ==
    [i \in 1 .. Len(chain) + 1 |->
        IF i = Len(chain) + 1 THEN NewVersion(id, chain, cmd, recordedAt)
        ELSE IF i = Len(chain) THEN CloseVersion(chain[i], cmd, recordedAt)
        ELSE chain[i]]

\* The deterministic contradiction rule, on the previous version as claimed.
ValueConflict(previous, new) ==
    /\ previous.source # new.source
    /\ previous.value # new.value
    /\ previous.valid_until = NULL \/ previous.observed_at < previous.valid_until
    /\ new.valid_from <= previous.observed_at

\* trust ranks (authority, confidence); max() keeps its first argument on a tie.
Preferred(a, b) ==
    IF b.trust > a.trust \/ (b.trust = a.trust /\ b.observed_at > a.observed_at)
    THEN b.id ELSE a.id

\* Faulty variant: the rule sees the previous version after it was closed.
DetectValueConflictClosed(chain, new) ==
    LET previous == [Latest(chain) EXCEPT !.valid_until = new.valid_from]
    IN  IF chain # <<>> /\ ValueConflict(previous, new)
        THEN {[left_version_id |-> previous.id, right_version_id |-> new.id,
               preferred_version_id |-> Preferred(previous, new)]}
        ELSE {}

DetectValueConflict(chain, new) ==
    IF chain # <<>> /\ ValueConflict(Latest(chain), new)
    THEN {[left_version_id |-> Latest(chain).id, right_version_id |-> new.id,
           preferred_version_id |-> Preferred(Latest(chain), new)]}
    ELSE {}

LinkEvidence(id, cmd, now) ==
    {[fact_version_id |-> id, evidence_id |-> e, linked_at |-> now] :
        e \in cmd.evidence_ids}

-----------------------------------------------------------------------------
Init ==
    /\ clock = 0
    /\ versions = [f \in Facts |-> <<>>]
    /\ revocations = {}
    /\ contradictions = {}
    /\ links = {}
    /\ lock = [f \in Facts |-> NULL]
    /\ phase = [r \in Requests |-> "idle"]
    /\ job = [r \in Requests |-> NULL]
    /\ started = [r \in Requests |-> 0]
    /\ work = [r \in Requests |-> NoWork]

\* get_fact() finds no row.  A fact row is committed together with its first
\* version, so a fact without versions does not exist yet.
FactMissing(j) == j.kind = "revoke" /\ versions[j.fact] = <<>>

\* The transaction opens and makes the checks that precede the lock.
Begin(r) ==
    /\ phase[r] = "idle"
    /\ \E j \in Jobs :
        /\ ~FactMissing(j)
        /\ job' = [job EXCEPT ![r] = j]
    /\ phase' = [phase EXCEPT ![r] = "begun"]
    /\ started' = [started EXCEPT ![r] = clock]
    /\ UNCHANGED <<clock, tables, lock, work>>

RefuseMissing(r) ==
    /\ phase[r] = "idle"
    /\ \E j \in Jobs : FactMissing(j)
    /\ phase' = [phase EXCEPT ![r] = "refused"]
    /\ UNCHANGED <<clock, tables, lock, job, started, work>>

\* Faulty variant: reads the fact without FOR UPDATE.
LockFactNoWait(r) ==
    /\ phase[r] = "begun"
    /\ lock' = [lock EXCEPT ![job[r].fact] = r]
    /\ phase' = [phase EXCEPT ![r] = "locked"]
    /\ UNCHANGED <<clock, tables, job, started, work>>

\* Upsert of entity and fact, then SELECT ... FOR UPDATE.  The insert of a new
\* fact row blocks a concurrent insert of the same row just as the row lock does.
LockFact(r) ==
    /\ phase[r] = "begun"
    /\ lock[job[r].fact] = NULL
    /\ lock' = [lock EXCEPT ![job[r].fact] = r]
    /\ phase' = [phase EXCEPT ![r] = "locked"]
    /\ UNCHANGED <<clock, tables, job, started, work>>

\* Under the lock: plan, take the transaction time, close, insert, detect a
\* contradiction, link the evidence.
RecordVersion(r) ==
    LET f == job[r].fact
        cmd == job[r].command
        recordedAt == NextTransactionTime(versions[f], clock)
        new == NewVersion(r, versions[f], cmd, recordedAt)
    IN  /\ phase[r] = "locked"
        /\ job[r].kind = "record"
        /\ ~PlanConflict(versions[f], cmd)
        /\ cmd.evidence_ids \subseteq CapturedEvidence
        /\ work' = [work EXCEPT ![r] =
              [chain |-> Extended(r, versions[f], cmd, recordedAt),
               revocations |-> {},
               contradictions |-> DetectValueConflict(versions[f], new),
               links |-> LinkEvidence(r, cmd, started[r])]]
        /\ phase' = [phase EXCEPT ![r] = "written"]
        /\ UNCHANGED <<clock, tables, lock, job, started>>

\* The version a revoke request names, among those of its fact.
RevokeTarget(r) ==
    LET chain == versions[job[r].fact]
    IN  {i \in DOMAIN chain :
            IF job[r].version_id = NULL THEN i = Len(chain)
            ELSE chain[i].id = job[r].version_id}

AlreadyRevoked(id) == \E rev \in revocations : rev.fact_version_id = id

\* Under the lock: pick the version and insert the revocation.  revoked_at is
\* the column default now(), the start of the transaction.
RevokeVersion(r) ==
    LET chain == versions[job[r].fact]
    IN  /\ phase[r] = "locked"
        /\ job[r].kind = "revoke"
        /\ \E i \in RevokeTarget(r) :
            /\ ~AlreadyRevoked(chain[i].id)
            /\ work' = [work EXCEPT ![r] =
                  [chain |-> chain,
                   revocations |-> {[fact_version_id |-> chain[i].id,
                                     revoked_at |-> started[r]]},
                   contradictions |-> {},
                   links |-> {}]]
        /\ phase' = [phase EXCEPT ![r] = "written"]
        /\ UNCHANGED <<clock, tables, lock, job, started>>

\* Faulty variant: a request that fails leaves its transaction, and its lock, open.
EndKeepsLock(r, outcome) ==
    /\ phase' = [phase EXCEPT ![r] = outcome]
    /\ lock' = [lock EXCEPT ![job[r].fact] =
                   IF @ = r /\ outcome = "committed" THEN NULL ELSE @]
    /\ job' = [job EXCEPT ![r] = IF outcome = "committed" THEN @ ELSE NULL]
    /\ started' = [started EXCEPT ![r] = 0]
    /\ work' = [work EXCEPT ![r] = NoWork]
    /\ UNCHANGED clock

\* The end of a transaction releases its lock and forgets its private state.
\* The job of a committed request stays, for the properties to refer to.
End(r, outcome) ==
    /\ phase' = [phase EXCEPT ![r] = outcome]
    /\ lock' = [lock EXCEPT ![job[r].fact] = IF @ = r THEN NULL ELSE @]
    /\ job' = [job EXCEPT ![r] = IF outcome = "committed" THEN @ ELSE NULL]
    /\ started' = [started EXCEPT ![r] = 0]
    /\ work' = [work EXCEPT ![r] = NoWork]
    /\ UNCHANGED clock

\* ConflictError or NotFoundError under the lock: the transaction rolls back.
Refuse(r) ==
    /\ phase[r] = "locked"
    /\ IF job[r].kind = "record"
       THEN \/ PlanConflict(versions[job[r].fact], job[r].command)
            \/ ~(job[r].command.evidence_ids \subseteq CapturedEvidence)
       ELSE \A i \in RevokeTarget(r) : AlreadyRevoked(versions[job[r].fact][i].id)
    /\ End(r, "refused")
    /\ UNCHANGED tables

\* The transaction's rows become visible and its lock is released, together.
Commit(r) ==
    /\ phase[r] = "written"
    /\ versions' = [versions EXCEPT ![job[r].fact] = work[r].chain]
    /\ revocations' = revocations \cup work[r].revocations
    /\ contradictions' = contradictions \cup work[r].contradictions
    /\ links' = links \cup work[r].links
    /\ End(r, "committed")

\* A lost connection, a cancelled request, a missing permission or source:
\* nothing the transaction wrote survives.
Rollback(r) ==
    /\ phase[r] \in InFlight
    /\ End(r, "rolledback")
    /\ UNCHANGED tables

Tick ==
    /\ clock < MaxClock
    /\ clock' = clock + 1
    /\ UNCHANGED <<tables, lock, phase, job, started, work>>

StepBack ==
    /\ ClockStepsBack
    /\ clock > 0
    /\ clock' = clock - 1
    /\ UNCHANGED <<tables, lock, phase, job, started, work>>

Finished == (\A r \in Requests : phase[r] \in Ended) /\ UNCHANGED vars

Serve(r) == LockFact(r) \/ RecordVersion(r) \/ RevokeVersion(r) \/ Refuse(r) \/ Commit(r)

Next ==
    \/ \E r \in Requests : Begin(r) \/ RefuseMissing(r) \/ Serve(r) \/ Rollback(r)
    \/ Tick
    \/ StepBack
    \/ Finished

Spec == Init /\ [][Next]_vars

\* PostgreSQL grants a free row lock to a waiter, and a handler that is not cut
\* off runs to its end; nothing makes a request arrive or the clock move.
FairSpec == Spec /\ \A r \in Requests : WF_vars(Serve(r))

-----------------------------------------------------------------------------
(* Properties.                                                             *)

TypeOK ==
    /\ clock \in Nat
    /\ versions \in [Facts -> Seq(VersionType)]
    /\ revocations \subseteq RevocationType
    /\ contradictions \subseteq ContradictionType
    /\ links \subseteq LinkType
    /\ lock \in [Facts -> Requests \cup {NULL}]
    /\ phase \in [Requests -> Phases]
    /\ job \in [Requests -> Jobs \cup {NULL}]
    /\ started \in [Requests -> Nat]
    /\ work \in [Requests -> WorkType]

Rows(f) == DOMAIN versions[f]

Answer(f, validAt, knownAt) == FactsValidAt(versions[f], revocations, validAt, knownAt)

\* The versions are numbered and linked by supersedes_id without a gap.  For
\* every pair of versions of a fact, the earlier one has an end, the end is
\* not after the later one's start (the exclusion constraint of migration 0003
\* never fires), and the earlier one and its end were recorded before, or with,
\* the later one (next_transaction_time under the row lock).  An end that the
\* latest version has was claimed with it.
ChainOK(chain) ==
    /\ \A i \in DOMAIN chain :
        /\ chain[i].version = i
        /\ chain[i].supersedes_id = IF i = 1 THEN NULL ELSE chain[i - 1].id
        /\ chain[i].valid_until = NULL <=> chain[i].valid_until_recorded_at = NULL
        /\ chain[i].valid_until # NULL =>
              /\ chain[i].valid_from < chain[i].valid_until
              /\ chain[i].recorded_at <= chain[i].valid_until_recorded_at
    /\ \A i, j \in DOMAIN chain : i < j =>
        /\ chain[i].valid_until # NULL
        /\ chain[i].valid_until <= chain[j].valid_from
        /\ chain[i].recorded_at < chain[j].recorded_at
        /\ chain[i].valid_until_recorded_at <= chain[j].recorded_at
    /\ \A i \in DOMAIN chain : i = Len(chain) /\ chain[i].valid_until # NULL =>
        chain[i].valid_until_recorded_at = chain[i].recorded_at

\* The constraints of fact_versions hold on every committed chain.
ChainsOK == \A f \in Facts : ChainOK(versions[f])

\* At most one version of a fact is valid at T as known at K: DISTINCT ON in
\* facts_valid_at never has to choose and reference.resolve never raises.
UniqueResolution ==
    \A f \in Facts, validAt \in Instants, knownAt \in Instants \cup {NULL} :
        \A i, j \in Resolve(versions[f], validAt, knownAt) : i = j

\* The SQL engine returns what the reference returns, less the revoked versions.
SqlMatchesReference ==
    \A f \in Facts, validAt \in Instants, knownAt \in Instants \cup {NULL} :
        Answer(f, validAt, knownAt) =
            {i \in Resolve(versions[f], validAt, knownAt) :
                NotRevokedCondition(versions[f][i], revocations, knownAt)}

\* The versions known at K are a prefix of the chain: history(K) has no gap.
KnownIsPrefix ==
    \A f \in Facts, knownAt \in Instants : \A i \in Rows(f) :
        IsKnown(versions[f][i], knownAt) =>
            \A k \in 1 .. i : IsKnown(versions[f][k], knownAt)

\* A version as it was claimed, before a successor gave it an end.
Claimed(v) == AsKnown(v, v.recorded_at)

\* The rows that the consecutive versions of a chain deserve whose claims
\* conflict, the earlier claim taken as it was when recorded and not as closed.
ConflictsOf(chain) ==
    {[left_version_id |-> Claimed(chain[i - 1]).id,
      right_version_id |-> chain[i].id,
      preferred_version_id |-> Preferred(Claimed(chain[i - 1]), chain[i])] :
        i \in {k \in DOMAIN chain \ {1} : ValueConflict(Claimed(chain[k - 1]), chain[k])}}

\* A contradiction is stored exactly for the consecutive versions whose claims
\* conflict: none is missed or left behind by a request that did not commit, and
\* closing a version later neither adds one nor takes one away.
ContradictionsExact == contradictions = UNION {ConflictsOf(versions[f]) : f \in Facts}

\* A committed record_version is in the chains exactly once and nothing else is:
\* no update is lost to a concurrent writer, no version of a refused or
\* rolled-back request (unknown evidence included) stays behind, and its
\* evidence links are committed with it.
CommittedOnce ==
    /\ \A r \in Requests :
        (phase[r] = "committed" /\ job[r].kind = "record") =>
            /\ \E i \in Rows(job[r].fact) : versions[job[r].fact][i].id = r
            /\ {l.evidence_id : l \in {k \in links : k.fact_version_id = r}} =
                  job[r].command.evidence_ids
    /\ \A f \in Facts : \A i \in Rows(f) :
        LET r == versions[f][i].id
        IN  /\ phase[r] = "committed"
            /\ job[r].kind = "record"
            /\ job[r].fact = f
            /\ \A j \in Rows(f) : versions[f][j].id = r => i = j

\* Two revoke requests for one version never both succeed: the second sees the
\* first under the row lock (the unique index of migration 0013 never fires).
RevokedOnce ==
    \A r, s \in revocations : r.fact_version_id = s.fact_version_id => r = s

\* Committed rows are append-only, as the triggers of migrations 0003 and 0013
\* demand: a version changes only by receiving its end, once.
AppendOnly ==
    [][/\ \A f \in Facts : \A i \in Rows(f) :
            LET v == versions[f][i]
                w == versions'[f][i]
            IN  /\ i \in DOMAIN versions'[f]
                /\ \/ w = v
                   \/ /\ v.valid_until = NULL
                      /\ w = [v EXCEPT !.valid_until = w.valid_until,
                                !.valid_until_recorded_at = w.valid_until_recorded_at]
       /\ revocations \subseteq revocations'
       /\ contradictions \subseteq contradictions'
       /\ links \subseteq links']_vars

\* A commit changes an answer "valid at T as known at K" only if the version or
\* the revocation it adds carries a transaction time at or before K.
HistoryStable ==
    [][\A f \in Facts, validAt \in Instants, knownAt \in Instants :
          Answer(f, validAt, knownAt)' # Answer(f, validAt, knownAt) =>
              \/ \E i \in DOMAIN versions'[f] \ Rows(f) :
                    versions'[f][i].recorded_at <= knownAt
              \/ \E rev \in revocations' \ revocations : rev.revoked_at <= knownAt]_vars

\* Every request that waits for the fact row lock gets it and ends: a refused or
\* interrupted holder releases it.
RequestsEnd == \A r \in Requests : phase[r] = "begun" ~> phase[r] \in Ended

-----------------------------------------------------------------------------
(* The inductive invariant of the proofs.                                  *)

\* An open transaction knows its job, and holds the fact's lock while it writes.
LocksOK ==
    \A r \in Requests :
        /\ phase[r] \in InFlight \cup {"committed"} => job[r] \in Jobs
        /\ phase[r] \in {"locked", "written"} => lock[job[r].fact] = r

RecordWork(r) ==
    LET chain == versions[job[r].fact]
        cmd == job[r].command
        t == Latest(work[r].chain).recorded_at
    IN  /\ job[r].kind = "record"
        /\ ~PlanConflict(chain, cmd)
        /\ chain # <<>> => Latest(chain).recorded_at < t
        /\ work[r].chain = Extended(r, chain, cmd, t)
        /\ work[r].revocations = {}
        /\ work[r].contradictions = DetectValueConflict(chain, NewVersion(r, chain, cmd, t))
        /\ work[r].links = LinkEvidence(r, cmd, started[r])

RevokeWork(r) ==
    LET chain == versions[job[r].fact]
    IN  /\ job[r].kind = "revoke"
        /\ work[r].chain = chain
        /\ \E i \in DOMAIN chain :
            /\ work[r].revocations = {[fact_version_id |-> chain[i].id,
                                       revoked_at |-> started[r]]}
            /\ ~AlreadyRevoked(chain[i].id)
        /\ work[r].contradictions = {}
        /\ work[r].links = {}

\* What a transaction has written but not committed is still based on the
\* committed rows: nobody else changed them while the lock was held.
WorkOK == \A r \in Requests : phase[r] = "written" => RecordWork(r) \/ RevokeWork(r)

\* Evidence links hang off committed versions only.
LinksOK == \A l \in links : phase[l.fact_version_id] = "committed"

Inv ==
    /\ TypeOK
    /\ ChainsOK
    /\ LocksOK
    /\ WorkOK
    /\ LinksOK
    /\ CommittedOnce
    /\ RevokedOnce
    /\ ContradictionsExact

-----------------------------------------------------------------------------
(* What the documentation says of the ledger and the code does not keep.   *)

\* TEMPORAL.md: "earlier answers stay reproducible".  Asking about a past
\* instant K again gives the answer given before.
AnswersReproducible ==
    [][\A f \in Facts, validAt \in Instants, knownAt \in Instants :
          knownAt < clock => Answer(f, validAt, knownAt)' = Answer(f, validAt, knownAt)]_vars

\* REVOCATION.md: "Valid at T as known at K < R: still the version: that is what
\* was known".  A version revoked at R was recorded by R.
RevokedVersionWasKnown ==
    \A f \in Facts : \A i \in Rows(f) : \A rev \in revocations :
        rev.fact_version_id = versions[f][i].id =>
            versions[f][i].recorded_at <= rev.revoked_at

\* changes_between reports "the value at end"; facts_at gives the value at an
\* instant.  They name the same version.
ChangesMatchFactsAt ==
    \A f \in Facts, start, end \in Instants, knownAt \in Instants \cup {NULL} :
        start < end =>
            ChangeBetween(versions[f], start, end, knownAt).after = Answer(f, end, knownAt)
=============================================================================
