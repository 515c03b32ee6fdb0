----------------------------- MODULE Migrations -----------------------------
(***************************************************************************)
(* The Alembic migration history (migrations/versions/0001 to 0013) and    *)
(* the transaction env.py runs it in, while clients of the previous schema *)
(* keep writing.                                                           *)
(*                                                                         *)
(* A migration is its sequence of statements.  The schema is the set of    *)
(* objects that exist, each with the objects PostgreSQL records it to      *)
(* depend on: a statement fails if it creates what exists, drops what does *)
(* not, or drops what something else depends on.  Indexes, triggers and    *)
(* constraints go with their table.  Statements lock the tables they touch *)
(* until the transaction ends, and wait for writers of those tables.       *)
(***************************************************************************)
EXTENDS Naturals, Sequences, SequencesExt

CONSTANTS
    NULL,
    Rows,         \* bound: rows clients may insert, <<table, number>>
    Targets,      \* the revisions a migration may be asked for
    Preinstalled  \* extensions an init script has enabled beforehand

Extension(x) == <<"extension", x>>
Table(t) == <<"table", t>>
Function(f) == <<"function", f>>
Index(t, columns) == <<"index", t, columns>>
Trigger(t, f) == <<"trigger", t, f>>
Constraint(t, name) == <<"constraint", t, name>>

VersionKey == Constraint("fact_versions", "uq_organization_id_id")

\* The table an index, trigger or constraint belongs to; NULL for other objects.
Owner(o) == IF Len(o) = 3 THEN Table(o[2]) ELSE NULL

\* Every foreign key of another table to fact_versions targets VersionKey.
KeysOf(t) == IF t = "fact_versions" THEN {Table(t), VersionKey} ELSE {Table(t)}

Create(o, needs) == [do |-> "create", object |-> o, needs |-> needs]
CreateTable(t, refs) == Create(Table(t), UNION {KeysOf(r) : r \in refs})
CreatePart(o) == Create(o, {Owner(o)})
CreateTrigger(t, f) == Create(Trigger(t, f), {Table(t), Function(f)})
Drop(o) == [do |-> "drop", object |-> o, needs |-> {}]
Backfill(t) == [do |-> "backfill", object |-> Table(t), needs |-> {}]

Each(tables, Statement(_)) == [i \in DOMAIN tables |-> Statement(tables[i])]
-----------------------------------------------------------------------------
(* upgrade and downgrade of each revision.                                 *)

U0001 == <<Create(Extension("vector"), {})>>
D0001 == <<Drop(Extension("vector"))>>

U0002 == <<
    CreateTable("organizations", {}),
    CreateTable("users", {}),
    CreateTable("organization_memberships", {"organizations", "users"}),
    CreatePart(Index("organization_memberships", "user_id"))>>
D0002 == <<
    Drop(Index("organization_memberships", "user_id")),
    Drop(Table("organization_memberships")),
    Drop(Table("users")),
    Drop(Table("organizations"))>>

U0003Tables == <<
    Create(Extension("btree_gist"), {}),
    CreateTable("entities", {"organizations"}),
    CreateTable("fact_sources", {"organizations"}),
    CreateTable("facts", {"organizations", "entities"}),
    CreateTable("fact_versions", {"organizations", "facts", "fact_sources"})>>
U0003Guards == <<
    CreatePart(Constraint("fact_versions", "fk_supersedes")),
    CreatePart(Index("fact_versions", "valid_from")),
    Create(Constraint("fact_versions", "ex_no_overlapping_validity"),
           {Table("fact_versions"), Extension("btree_gist")}),
    Create(Function("append_only"), {}),
    CreateTrigger("fact_versions", "append_only")>>
U0003 == U0003Tables \o U0003Guards

D0003 == <<
    Drop(Trigger("fact_versions", "append_only")),
    Drop(Function("append_only")),
    Drop(Table("fact_versions")),
    Drop(Table("facts")),
    Drop(Table("fact_sources")),
    Drop(Table("entities")),
    Drop(Extension("btree_gist"))>>

Guarded(t) == CreateTrigger(t, "forbid_modification")
Unguarded(t) == Drop(Trigger(t, "forbid_modification"))

U0004 == <<
    CreatePart(VersionKey),
    CreateTable("evidence", {"organizations", "fact_sources"}),
    CreateTable("fact_version_evidence", {"organizations", "fact_versions", "evidence", "users"}),
    CreatePart(Index("fact_version_evidence", "evidence_id")),
    Create(Function("forbid_modification"), {}),
    Guarded("evidence"),
    Guarded("fact_version_evidence")>>

D0004Tables == <<
    Unguarded("evidence"),
    Unguarded("fact_version_evidence"),
    Drop(Function("forbid_modification")),
    Drop(Index("fact_version_evidence", "evidence_id")),
    Drop(Table("fact_version_evidence")),
    Drop(Table("evidence"))>>

\* Faulty variant: the unique constraint that 0004 adds is left behind.
D0004KeepsKey == D0004Tables

D0004 == D0004Tables \o <<Drop(VersionKey)>>

U0005 == <<
    CreateTable("fact_embeddings", {"organizations", "fact_versions"}),
    Create(Constraint("fact_embeddings", "column embedding"),
           {Table("fact_embeddings"), Extension("vector")}),
    CreatePart(Index("fact_embeddings", "content_sha256")),
    Create(Index("fact_embeddings", "ann"),
           {Table("fact_embeddings"), Constraint("fact_embeddings", "column embedding")}),
    CreateTable("embedding_jobs", {"organizations", "fact_versions"}),
    CreatePart(Index("embedding_jobs", "available_at"))>>
D0005 == <<
    Drop(Index("embedding_jobs", "available_at")),
    Drop(Table("embedding_jobs")),
    Drop(Index("fact_embeddings", "ann")),
    Drop(Index("fact_embeddings", "content_sha256")),
    Drop(Table("fact_embeddings"))>>

U0006 == <<
    CreateTable("fact_search_documents", {"organizations", "fact_versions"}),
    CreatePart(Index("fact_search_documents", "search_vector")),
    Create(Function("fact_search_text"), {}),
    Create(Function("index_fact_version"), {}),
    CreateTrigger("fact_versions", "index_fact_version"),
    Guarded("fact_search_documents"),
    Backfill("fact_search_documents")>>
D0006 == <<
    Drop(Trigger("fact_versions", "index_fact_version")),
    Unguarded("fact_search_documents"),
    Drop(Function("index_fact_version")),
    Drop(Function("fact_search_text")),
    Drop(Index("fact_search_documents", "search_vector")),
    Drop(Table("fact_search_documents"))>>

U0007 == <<
    CreateTable("context_snapshots", {"organizations", "users"}),
    CreatePart(Index("context_snapshots", "created_at")),
    CreateTable("context_snapshot_facts", {"organizations", "context_snapshots", "fact_versions"}),
    CreatePart(Index("context_snapshot_facts", "fact_version_id")),
    CreateTable("decisions", {"organizations", "users", "context_snapshots"}),
    CreatePart(Index("decisions", "decided_at")),
    CreatePart(Index("decisions", "snapshot_id")),
    CreateTable("decision_facts", {"organizations", "decisions", "context_snapshot_facts"}),
    CreatePart(Index("decision_facts", "fact_version_id"))>>
    \o Each(<<"context_snapshots", "context_snapshot_facts", "decisions", "decision_facts">>, Guarded)
D0007 ==
    Each(<<"context_snapshots", "context_snapshot_facts", "decisions", "decision_facts">>, Unguarded)
    \o <<
    Drop(Index("decision_facts", "fact_version_id")),
    Drop(Table("decision_facts")),
    Drop(Index("decisions", "snapshot_id")),
    Drop(Index("decisions", "decided_at")),
    Drop(Table("decisions")),
    Drop(Index("context_snapshot_facts", "fact_version_id")),
    Drop(Table("context_snapshot_facts")),
    Drop(Index("context_snapshots", "created_at")),
    Drop(Table("context_snapshots"))>>

\* The keys of PROJECTED_TABLES.
ProjectedTables == <<"entities", "facts", "fact_sources", "fact_versions", "evidence",
    "fact_version_evidence", "context_snapshots", "context_snapshot_facts", "decisions",
    "decision_facts">>

Captured(t) == CreateTrigger(t, "graph_outbox")
Uncaptured(t) == Drop(Trigger(t, "graph_outbox"))

\* Faulty variant: the rows of a table are copied before its trigger exists.
ProjectBackfillFirst(t) == <<Backfill(t), Captured(t)>>

\* The body of the loop: first the trigger, then the rows that already exist.
Project(t) == <<Captured(t), Backfill(t)>>

U0008 == <<
    CreateTable("graph_outbox", {"organizations"}),
    CreatePart(Index("graph_outbox", "organization_id_id")),
    Create(Function("graph_outbox"), {})>>
    \o FlattenSeq(Each(ProjectedTables, Project))
D0008 ==
    Each(ProjectedTables, Uncaptured)
    \o <<
    Drop(Function("graph_outbox")),
    Drop(Index("graph_outbox", "organization_id_id")),
    Drop(Table("graph_outbox"))>>

U0009 == <<CreateTable("agent_clients", {"organizations", "users"})>>
D0009 == <<Drop(Table("agent_clients"))>>

\* The keys of EMITTING_TABLES.
EmittingTables == <<"fact_versions", "fact_embeddings", "evidence", "fact_version_evidence",
    "context_snapshots", "decisions">>

Emitting(t) == CreateTrigger(t, "emit_event")
NotEmitting(t) == Drop(Trigger(t, "emit_event"))

U0010 == <<
    CreateTable("event_outbox", {"organizations"}),
    CreatePart(Index("event_outbox", "organization_id_id")),
    CreateTable("processed_events", {"organizations"}),
    CreatePart(Index("processed_events", "processed_at")),
    CreateTable("organization_activity_daily", {"organizations"}),
    Create(Function("emit_event"), {})>>
    \o Each(EmittingTables, Emitting)
D0010 ==
    Each(EmittingTables, NotEmitting)
    \o <<
    Drop(Function("emit_event")),
    Drop(Table("organization_activity_daily")),
    Drop(Index("processed_events", "processed_at")),
    Drop(Table("processed_events")),
    Drop(Index("event_outbox", "organization_id_id")),
    Drop(Table("event_outbox"))>>

U0011 == <<
    CreateTable("agent_runs", {"organizations", "users"}),
    CreatePart(Index("agent_runs", "created_at")),
    Guarded("agent_runs")>>
D0011 == <<
    Unguarded("agent_runs"),
    Drop(Index("agent_runs", "created_at")),
    Drop(Table("agent_runs"))>>

U0012 == <<
    CreateTable("contradictions", {"organizations", "entities", "fact_versions", "users"}),
    CreatePart(Index("contradictions", "detected_at")),
    CreatePart(Index("contradictions", "entity_id")),
    Emitting("contradictions")>>
D0012 == <<
    NotEmitting("contradictions"),
    Drop(Index("contradictions", "entity_id")),
    Drop(Index("contradictions", "detected_at")),
    Drop(Table("contradictions"))>>

U0013 == <<
    CreateTable("fact_revocations", {"organizations", "fact_versions", "users"}),
    CreatePart(Index("fact_revocations", "revoked_at")),
    CreateTable("revocation_impacts",
        {"organizations", "fact_revocations", "decisions", "context_snapshot_facts"}),
    CreatePart(Index("revocation_impacts", "decision_id"))>>
    \o Each(<<"fact_revocations", "revocation_impacts">>, Guarded)
    \o Each(<<"fact_revocations", "revocation_impacts">>, Emitting)
D0013 == <<
    NotEmitting("fact_revocations"),
    Unguarded("fact_revocations"),
    NotEmitting("revocation_impacts"),
    Unguarded("revocation_impacts"),
    Drop(Index("revocation_impacts", "decision_id")),
    Drop(Table("revocation_impacts")),
    Drop(Index("fact_revocations", "revoked_at")),
    Drop(Table("fact_revocations"))>>

Upgrade == <<U0001, U0002, U0003, U0004, U0005, U0006, U0007, U0008, U0009, U0010, U0011,
    U0012, U0013>>
Downgrade == <<D0001, D0002, D0003, D0004, D0005, D0006, D0007, D0008, D0009, D0010, D0011,
    D0012, D0013>>

LastRevision == Len(Upgrade)

\* What alembic runs to get from one revision to another.
Statements(from, to) ==
    IF from <= to
    THEN FlattenSeq([i \in 1 .. to - from |-> Upgrade[from + i]])
    ELSE FlattenSeq([i \in 1 .. from - to |-> Downgrade[from + 1 - i]])

-----------------------------------------------------------------------------
(* PostgreSQL.                                                             *)

VARIABLES
    revision,   \* alembic_version; 0 when it is empty
    schema,     \* objects that exist, with what each depends on
    rows,       \* committed rows
    writing,    \* rows of clients whose transaction is open
    documents,  \* rows with a search document
    outbox,     \* rows the graph outbox has captured
    tx,         \* the transaction of the migration, or NULL
    failed      \* whether a statement has failed

dataVars == <<rows, writing, documents, outbox>>
vars == <<revision, schema, dataVars, tx, failed>>

Objects(s) == {e.object : e \in s}

Init ==
    /\ revision = 0
    /\ schema = {[object |-> Extension(x), needs |-> {}] : x \in Preinstalled}
    /\ rows = {} /\ writing = {} /\ documents = {} /\ outbox = {}
    /\ tx = NULL
    /\ failed = FALSE

\* IF [NOT] EXISTS is written for these kinds, and for the ann_ index.
Lenient(o) == o[1] \in {"extension", "function", "trigger"} \/ o = Index("fact_embeddings", "ann")

\* An object goes with the table that owns it.
GoesWith(o) == {o} \cup {p \in Objects(tx.schema) : Owner(p) = o}

Succeeds(statement) ==
    LET o == statement.object
    IN CASE statement.do = "create" ->
                /\ o \notin Objects(tx.schema) \/ o[1] = "extension"
                /\ statement.needs \subseteq Objects(tx.schema)
         [] statement.do = "drop" ->
                /\ o \in Objects(tx.schema) \/ Lenient(o)
                /\ \A e \in tx.schema :
                      e.object \notin GoesWith(o) => e.needs \cap GoesWith(o) = {}
         [] OTHER -> o \in Objects(tx.schema)

\* What the transaction sees after a statement.
After(statement) ==
    LET o == statement.object
        kept == {e \in tx.schema : e.object # o}
    IN CASE statement.do = "create" ->
                [tx EXCEPT !.schema = kept \cup {[object |-> o, needs |-> statement.needs]}]
         [] statement.do = "drop" ->
                [tx EXCEPT !.schema = {e \in tx.schema : e.object \notin GoesWith(o)}]
         [] o = Table("fact_search_documents") ->
                [tx EXCEPT !.documents = {r \in rows : r[1] = "fact_versions"}]
         [] OTHER -> [tx EXCEPT !.outbox = @ \cup {r \in rows : Table(r[1]) = o}]

\* Tables on which a statement takes a lock that writers conflict with: the
\* one it is about and, for foreign keys, the ones it refers to.
Locks(statement) ==
    LET o == statement.object
        referred == UNION {e.needs : e \in {x \in tx.schema : x.object \in GoesWith(o)}}
    IN IF statement.do = "backfill" THEN {}
       ELSE {x \in statement.needs \cup referred \cup {o, Owner(o)} : x # NULL /\ x[1] = "table"}

-----------------------------------------------------------------------------
(* Clients that write, with the triggers of the schema they meet.          *)

Insert(r) ==
    /\ r \notin rows \cup writing
    /\ Table(r[1]) \in Objects(schema)
    /\ tx # NULL => Table(r[1]) \notin tx.locks
    /\ writing' = writing \cup {r}
    /\ UNCHANGED <<revision, schema, rows, documents, outbox, tx, failed>>

CommitInsert(r) ==
    /\ r \in writing
    /\ writing' = writing \ {r}
    /\ rows' = rows \cup {r}
    /\ documents' = documents \cup
          {x \in {r} : Trigger(r[1], "index_fact_version") \in Objects(schema)}
    /\ outbox' = outbox \cup {x \in {r} : Trigger(r[1], "graph_outbox") \in Objects(schema)}
    /\ UNCHANGED <<revision, schema, tx, failed>>

RollbackInsert(r) ==
    /\ r \in writing
    /\ writing' = writing \ {r}
    /\ UNCHANGED <<revision, schema, rows, documents, outbox, tx, failed>>

-----------------------------------------------------------------------------
(* alembic upgrade and downgrade: one transaction for all the steps.       *)

Begin(target) ==
    /\ tx = NULL
    /\ target # revision
    /\ tx' = [target |-> target, todo |-> Statements(revision, target), schema |-> schema,
              documents |-> {}, outbox |-> {}, locks |-> {}]
    /\ UNCHANGED <<revision, schema, dataVars, failed>>

Execute ==
    /\ tx # NULL
    /\ tx.todo # <<>>
    /\ LET statement == Head(tx.todo)
       IN /\ \A r \in writing : Table(r[1]) \notin Locks(statement)
          /\ IF Succeeds(statement)
             THEN /\ tx' = [After(statement) EXCEPT
                               !.todo = Tail(@), !.locks = @ \cup Locks(statement)]
                  /\ UNCHANGED failed
             ELSE tx' = NULL /\ failed' = TRUE
    /\ UNCHANGED <<revision, schema, dataVars>>

Finish ==
    /\ tx # NULL
    /\ tx.todo = <<>>
    /\ revision' = tx.target
    /\ schema' = tx.schema
    /\ LET Exists(t) == Table(t) \in Objects(tx.schema)
       IN /\ rows' = {r \in rows : Exists(r[1])}
          /\ documents' = {r \in documents \cup tx.documents : Exists("fact_search_documents")}
          /\ outbox' = {r \in outbox \cup tx.outbox : Exists("graph_outbox")}
    /\ tx' = NULL
    /\ UNCHANGED <<writing, failed>>

\* The process, or its connection, ends: PostgreSQL rolls back.
Abort ==
    /\ tx # NULL
    /\ tx' = NULL
    /\ UNCHANGED <<revision, schema, dataVars, failed>>

Next ==
    \/ \E r \in Rows : Insert(r) \/ CommitInsert(r) \/ RollbackInsert(r)
    \/ \E target \in Targets : Begin(target)
    \/ Execute \/ Finish \/ Abort

Spec == Init /\ [][Next]_vars

-----------------------------------------------------------------------------
(* Properties.                                                             *)

\* Rows belong to tables that exist, and the derived rows to rows.
TypeOK ==
    /\ revision \in 0 .. LastRevision
    /\ rows \cup writing \subseteq {r \in Rows : Table(r[1]) \in Objects(schema)}
    /\ documents \subseteq rows
    /\ tx # NULL => tx.target \in 0 .. LastRevision /\ tx.documents \subseteq Rows

\* No statement of any migration fails, whatever revision it starts from, in
\* whatever order upgrades and downgrades follow each other, and whatever was
\* written in between: what is dropped exists and nothing left depends on it.
EveryStatementSucceeds == ~failed

\* A revision names one schema: after any sequence of upgrades, downgrades and
\* interrupted migrations the objects are those the upgrades up to it create.
RevisionNamesSchema ==
    revision > 0 =>
        Objects(schema) = {st.object : st \in {x \in UNION {Range(Upgrade[i]) : i \in 1 .. revision} :
                                    x.do = "create"}}

\* Every row is captured: although clients write while 0006 and 0008 run, no
\* committed version lacks its search document, and no row of a projected table
\* is missing from what the graph outbox captured.
EveryRowCaptured ==
    /\ revision >= 6 => {r \in rows : r[1] = "fact_versions"} \subseteq documents
    /\ revision >= 8 => {r \in rows : r[1] \in Range(ProjectedTables)} \subseteq outbox
=============================================================================
