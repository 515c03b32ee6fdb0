------------------------------ MODULE Decisions ------------------------------
(***************************************************************************)
(* Decisions on top of the fact ledger: capture_context, record_decision   *)
(* and receipt of app/services/decisions.py, and the impact assessment of  *)
(* app/services/revocations.py, running concurrently with the writers of   *)
(* FactLedger.                                                             *)
(*                                                                         *)
(* An agent makes one capture_context call and then one record_decision    *)
(* call, so its name stands for the ids of its snapshot and its decision.  *)
(* capture_context is three transactions: pin known_at, search, store.     *)
(***************************************************************************)
EXTENDS FactLedger

CONSTANTS
    Agents,
    KnownAtChoices,  \* known_at of requests; NULL: pin to the database clock
    ValidAtChoices,  \* valid_at of requests; NULL: the same as known_at
    Outcomes,        \* outcomes of decisions, as JSON
    Jsonb            \* what a JSONB column gives back for each outcome: numbers are
                     \* decimals there, so 1e16 comes back as 10000000000000000

ASSUME DecisionsAssumption ==
    /\ KnownAtChoices \subseteq Instants \cup {NULL}
    /\ ValidAtChoices \subseteq Instants \cup {NULL}
    /\ NULL \notin Agents
    /\ Jsonb \in [Outcomes -> Outcomes]

VARIABLES
    snapshots,   \* committed context_snapshots and their facts, by agent
    decisions,   \* committed decisions and the facts they rely on, by agent
    impacts,     \* committed revocation_impacts
    step,        \* how far each agent is
    pinned,      \* valid_at and known_at of the capture in progress
    found,       \* result of its search
    draft,       \* decision inserted and not yet committed
    assessed     \* impact rows inserted by a revoke request, not yet committed

agentVars == <<snapshots, decisions, step, pinned, found, draft>>
decisionVars == <<agentVars, impacts, assessed>>
allVars == <<vars, decisionVars>>

PointType == [valid_at: Nat, known_at: Nat]

SnapshotType == [at: PointType, facts: SUBSET Requests]

\* The document receipt_hash() digests; SHA-256 is taken to be injective.
ContentType ==
    [snapshot_id: Agents, decided_at: Nat, context: PointType,
     facts: SUBSET [fact_version_id: Requests, value: STRING], relied_on: SUBSET Requests,
     outcome: Outcomes]

DecisionType ==
    [snapshot_id: Agents, decided_at: Nat, relied_on: SUBSET Requests, outcome: Outcomes,
     receipt_sha256: ContentType]

ImpactType == [fact_version_id: Requests, decision_id: Agents, relied_on: BOOLEAN]

AgentSteps == {"idle", "pinned", "searched", "captured", "deciding", "decided", "gone"}

-----------------------------------------------------------------------------
(* Reads.                                                                  *)

Row(id) ==
    LET f == job[id].fact
    IN  versions[f][CHOOSE i \in Rows(f) : versions[f][i].id = id]

\* The versions hybrid search ranks: those valid at T as known at K.
Candidates(validAt, knownAt) ==
    UNION {{versions[f][i].id : i \in Answer(f, validAt, knownAt)} : f \in Facts}

\* Faulty variant: the digest covers the end of a version.
ContentWithEnd(s, decidedAt, reliedOn, outcome) ==
    [snapshot_id |-> s,
     decided_at  |-> decidedAt,
     context     |-> snapshots[s].at,
     facts       |-> {[fact_version_id |-> id,
                       value |-> IF Row(id).valid_until = NULL THEN Row(id).value ELSE "ended"] :
                         id \in snapshots[s].facts},
     relied_on   |-> reliedOn,
     outcome     |-> outcome]

\* _content(): version ids and values, never the mutable end of a version.
Content(s, decidedAt, reliedOn, outcome) ==
    [snapshot_id |-> s,
     decided_at  |-> decidedAt,
     context     |-> snapshots[s].at,
     facts       |-> {[fact_version_id |-> id, value |-> Row(id).value] :
                         id \in snapshots[s].facts},
     relied_on   |-> reliedOn,
     outcome     |-> outcome]

\* What receipt() shows of each fact of a decision's context.
Receipt(a) ==
    LET s == snapshots[decisions[a].snapshot_id]
    IN  {[version   |-> AsKnown(Row(id), s.at.known_at),
          relied_on |-> id \in decisions[a].relied_on,
          evidence  |-> {l \in links : l.fact_version_id = id /\ l.linked_at <= s.at.known_at}] :
             id \in s.facts}

\* receipt() of stored rows: the hash is computed again, with the outcome as
\* the database gives it back.
IntegrityVerified(a) ==
    LET d == decisions[a]
    IN  d.receipt_sha256 = Content(d.snapshot_id, d.decided_at, d.relied_on, d.outcome)

\* _decisions_with(): committed decisions whose frozen context held the version.
DecisionsWith(id) ==
    {a \in Agents : decisions[a] # NULL /\ id \in snapshots[decisions[a].snapshot_id].facts}

ImpactRowsRelyingOnly(id) ==
    {[fact_version_id |-> id, decision_id |-> a, relied_on |-> TRUE] :
        a \in {b \in DecisionsWith(id) : id \in decisions[b].relied_on}}

ImpactRows(id) ==
    {[fact_version_id |-> id, decision_id |-> a, relied_on |-> id \in decisions[a].relied_on] :
        a \in DecisionsWith(id)}

\* _report() of a revocation: the decisions, recomputed on every read.
Report(rev) ==
    LET stored == {m.decision_id : m \in {k \in impacts :
                                              k.fact_version_id = rev.fact_version_id}}
    IN  {[decision_id |-> a,
          relied_on   |-> rev.fact_version_id \in decisions[a].relied_on,
          recorded_at_revocation   |-> a \in stored,
          decided_after_revocation |-> a \notin stored] :
             a \in DecisionsWith(rev.fact_version_id)}

-----------------------------------------------------------------------------
DecisionsInit ==
    /\ Init
    /\ snapshots = [a \in Agents |-> NULL]
    /\ decisions = [a \in Agents |-> NULL]
    /\ impacts = {}
    /\ step = [a \in Agents |-> "idle"]
    /\ pinned = [a \in Agents |-> [valid_at |-> 0, known_at |-> 0]]
    /\ found = [a \in Agents |-> {}]
    /\ draft = [a \in Agents |-> NULL]
    /\ assessed = [r \in Requests |-> {}]

\* First transaction: read the database clock; what the request leaves open is
\* pinned to it.
PinContext(a) ==
    /\ step[a] = "idle"
    /\ \E k \in KnownAtChoices, v \in ValidAtChoices :
          LET knownAt == IF k = NULL THEN clock ELSE k
          IN  pinned' = [pinned EXCEPT ![a] =
                 [valid_at |-> IF v = NULL THEN knownAt ELSE v, known_at |-> knownAt]]
    /\ step' = [step EXCEPT ![a] = "pinned"]
    /\ UNCHANGED <<snapshots, decisions, found, draft>>

\* Second transaction, REPEATABLE READ: hybrid search at the pinned point; which
\* candidates make the top of the ranking is left open.
SearchContext(a) ==
    /\ step[a] = "pinned"
    /\ \E ids \in SUBSET Candidates(pinned[a].valid_at, pinned[a].known_at) :
          found' = [found EXCEPT ![a] = ids]
    /\ step' = [step EXCEPT ![a] = "searched"]
    /\ UNCHANGED <<snapshots, decisions, pinned, draft>>

\* Third transaction: store the snapshot and its facts.
StoreSnapshot(a) ==
    /\ step[a] = "searched"
    /\ snapshots' = [snapshots EXCEPT ![a] =
          [at |-> pinned[a], facts |-> found[a]]]
    /\ found' = [found EXCEPT ![a] = {}]
    /\ step' = [step EXCEPT ![a] = "captured"]
    /\ UNCHANGED <<decisions, pinned, draft>>

\* record_decision: any stored snapshot may be cited; relied_on must come from it.
\* The outcome is digested as it was given, and stored as JSONB.
RecordDecision(a) ==
    /\ step[a] = "captured"
    /\ \E s \in {b \in Agents : snapshots[b] # NULL}, given \in Outcomes :
       \E reliedOn \in SUBSET snapshots[s].facts :
          draft' = [draft EXCEPT ![a] =
             [snapshot_id |-> s, decided_at |-> clock, relied_on |-> reliedOn, outcome |-> Jsonb[given],
              receipt_sha256 |-> Content(s, clock, reliedOn, given)]]
    /\ step' = [step EXCEPT ![a] = "deciding"]
    /\ UNCHANGED <<snapshots, decisions, pinned, found>>

CommitDecision(a) ==
    /\ step[a] = "deciding"
    /\ decisions' = [decisions EXCEPT ![a] = draft[a]]
    /\ draft' = [draft EXCEPT ![a] = NULL]
    /\ step' = [step EXCEPT ![a] = "decided"]
    /\ UNCHANGED <<snapshots, pinned, found>>

\* The agent or its connection fails; only what was committed remains.
AgentFails(a) ==
    /\ step[a] \in {"pinned", "searched", "captured", "deciding"}
    /\ found' = [found EXCEPT ![a] = {}]
    /\ draft' = [draft EXCEPT ![a] = NULL]
    /\ step' = [step EXCEPT ![a] = "gone"]
    /\ UNCHANGED <<snapshots, decisions, pinned>>

AgentNext(a) ==
    \/ PinContext(a) \/ SearchContext(a) \/ StoreSnapshot(a)
    \/ RecordDecision(a) \/ CommitDecision(a) \/ AgentFails(a)

\* Faulty variant: the impact is stored apart from the revocation.
AssessApart(r) ==
    /\ RevokeVersion(r)
    /\ impacts' = impacts \cup UNION {ImpactRows(rev.fact_version_id) : rev \in work'[r].revocations}
    /\ UNCHANGED <<agentVars, assessed>>

\* The whole of revoke under the lock: the revocation and one impact row per
\* decision that is committed by then.
RevokeAndAssess(r) ==
    /\ RevokeVersion(r)
    /\ assessed' = [assessed EXCEPT ![r] =
          UNION {ImpactRows(rev.fact_version_id) : rev \in work'[r].revocations}]
    /\ UNCHANGED <<agentVars, impacts>>

CommitRequest(r) ==
    /\ Commit(r)
    /\ impacts' = impacts \cup assessed[r]
    /\ assessed' = [assessed EXCEPT ![r] = {}]
    /\ UNCHANGED agentVars

RollbackRequest(r) ==
    /\ Rollback(r)
    /\ assessed' = [assessed EXCEPT ![r] = {}]
    /\ UNCHANGED <<agentVars, impacts>>

DecisionsFinished ==
    /\ \A r \in Requests : phase[r] \in Ended
    /\ \A a \in Agents : step[a] \in {"decided", "gone"}
    /\ UNCHANGED allVars

\* What the handler of a request does next, until its transaction ends.
HandlerStep(r) ==
    \/ RevokeAndAssess(r) \/ CommitRequest(r)
    \/ (LockFact(r) \/ RecordVersion(r) \/ Refuse(r)) /\ UNCHANGED decisionVars

DecisionsNext ==
    \/ \E a \in Agents : AgentNext(a) /\ UNCHANGED <<vars, impacts, assessed>>
    \/ \E r \in Requests :
        \/ HandlerStep(r) \/ RollbackRequest(r)
        \/ (Begin(r) \/ RefuseMissing(r)) /\ UNCHANGED decisionVars
    \/ (Tick \/ StepBack) /\ UNCHANGED decisionVars
    \/ DecisionsFinished

DecisionsSpec == DecisionsInit /\ [][DecisionsNext]_allVars

-----------------------------------------------------------------------------
(* Properties.                                                             *)

DecisionsTypeOK ==
    /\ snapshots \in [Agents -> SnapshotType \cup {NULL}]
    /\ decisions \in [Agents -> DecisionType \cup {NULL}]
    /\ impacts \subseteq ImpactType
    /\ step \in [Agents -> AgentSteps]
    /\ pinned \in [Agents -> PointType]
    /\ found \in [Agents -> SUBSET Requests]
    /\ draft \in [Agents -> DecisionType \cup {NULL}]
    /\ assessed \in [Requests -> SUBSET ImpactType]

\* The outcome that was digested with a decision.
Digested(a) == decisions[a].receipt_sha256.outcome

\* receipt() of untouched rows verifies exactly when the database gives back
\* the outcome that was digested, whatever was closed, superseded or revoked
\* since.
ReceiptsVerify ==
    \A a \in Agents :
        decisions[a] # NULL => (IntegrityVerified(a) <=> Jsonb[Digested(a)] = Digested(a))

\* The impact rows of a revocation name decisions whose frozen context held the
\* version, with the relied_on flag the decision was committed with, and are
\* committed only together with the revocation.
ImpactsTrue ==
    \A m \in impacts :
        /\ m.decision_id \in DecisionsWith(m.fact_version_id)
        /\ m.relied_on = (m.fact_version_id \in decisions[m.decision_id].relied_on)
        /\ AlreadyRevoked(m.fact_version_id)

\* A decision that is committed, with the version in its context, before a revoke
\* request assesses the impact is in the stored impact rows of the revocation.
ImpactsComplete ==
    \A a \in Agents, id \in Requests :
        [](/\ a \in DecisionsWith(id)
           /\ ~AlreadyRevoked(id)
           /\ \A r \in Requests : \A rev \in work[r].revocations : rev.fact_version_id # id
           => [](AlreadyRevoked(id) =>
                   \E m \in impacts : m.fact_version_id = id /\ m.decision_id = a))

\* A version whose revocation is committed before a context is captured never
\* appears in that context.
RevokedStaysOut ==
    \A a \in Agents, id \in Requests :
        []((step[a] = "idle" /\ AlreadyRevoked(id)) =>
             [](snapshots[a] # NULL => id \notin snapshots[a].facts))

-----------------------------------------------------------------------------
(* The inductive invariant of the proofs.                                  *)

\* The id of a version that some request has committed.
Recorded(id) == phase[id] = "committed" /\ job[id].kind = "record"

\* Searches find, and snapshots hold, committed versions; a snapshot is stored
\* once, and found is kept only until then.
ContextsOK ==
    \A a \in Agents :
        /\ \A id \in found[a] : Recorded(id)
        /\ snapshots[a] # NULL => \A id \in snapshots[a].facts : Recorded(id)
        /\ step[a] \in {"idle", "pinned", "searched"} => snapshots[a] = NULL
        /\ step[a] # "searched" => found[a] = {}

\* A decision cites a stored snapshot, its outcome is what JSONB keeps of the
\* digested one, and its hash is that of the rest of its content.
Sealed(d) ==
    /\ snapshots[d.snapshot_id] # NULL
    /\ d.relied_on \subseteq snapshots[d.snapshot_id].facts
    /\ d.outcome = Jsonb[d.receipt_sha256.outcome]
    /\ d.receipt_sha256 = Content(d.snapshot_id, d.decided_at, d.relied_on, d.receipt_sha256.outcome)

\* A decision is committed once, as it was drafted.
DecisionsOK ==
    \A a \in Agents :
        /\ draft[a] # NULL => Sealed(draft[a])
        /\ decisions[a] # NULL => Sealed(decisions[a]) /\ step[a] = "decided"

\* An impact row not yet committed belongs to a revocation not yet committed.
AssessedOK ==
    \A r \in Requests : \A m \in assessed[r] :
        /\ phase[r] = "written"
        /\ \E rev \in work[r].revocations : rev.fact_version_id = m.fact_version_id
        /\ m.decision_id \in DecisionsWith(m.fact_version_id)
        /\ m.relied_on = (m.fact_version_id \in decisions[m.decision_id].relied_on)

DecisionsInv == DecisionsTypeOK /\ ContextsOK /\ DecisionsOK /\ AssessedOK /\ ImpactsTrue

\* Unless the clock steps back, no request began, and no revocation is dated,
\* after it.
ClockOK ==
    /\ \A r \in Requests : started[r] <= clock
    /\ \A rev \in revocations : rev.revoked_at <= clock
    /\ \A r \in Requests : \A rev \in work[r].revocations : rev.revoked_at <= clock

-----------------------------------------------------------------------------
(* What the documentation says and the code does not keep.                 *)

\* DECISION_RECEIPTS.md: the hash is recomputed on every read, and "tampering is
\* detectable"; domain/decisions.py: "silent changes are detected".  Rows that
\* nobody touched verify.
UntouchedVerifies == \A a \in Agents : decisions[a] # NULL => IntegrityVerified(a)

\* DECISION_RECEIPTS.md: "a later correction or supersession does not change
\* what the receipt shows".
ReceiptsNeverChange ==
    [][\A a \in Agents : decisions[a] # NULL => Receipt(a)' = Receipt(a)]_allVars

\* REVOCATION.md: a decision is flagged decided_after_revocation when it was
\* "recorded later" than the revocation.
DecidedAfterMeansAfter ==
    \A rev \in revocations : \A d \in Report(rev) :
        d.decided_after_revocation => decisions[d.decision_id].decided_at >= rev.revoked_at
=============================================================================
