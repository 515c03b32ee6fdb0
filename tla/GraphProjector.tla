---------------------------- MODULE GraphProjector ----------------------------
(***************************************************************************)
(* The provenance graph of one organization: triggers fill graph_outbox    *)
(* (migration 0008), projectors copy the rows it names to Neo4j            *)
(* (app/workers/graph.py), and ProvenanceService answers from Neo4j.       *)
(*                                                                         *)
(* A row of PostgreSQL is named by its key and is immutable, except that   *)
(* fact versions are closed once.  A node of the graph is the row it was   *)
(* projected from, or a placeholder with only its id.                      *)
(***************************************************************************)
EXTENDS Naturals, Sequences, FiniteSets, Null

CONSTANTS
    Row,           \* the rows, by key: the table and the columns that refer to rows
    Existing,      \* rows from before migration 0008, in the order it lists them
    Transactions,  \* writes: each a sequence of keys, inserted or, if stored, closed
    Projectors,    \* projector processes
    GraphBatch,     \* events a projector claims at most
    Visible,       \* fact versions within the reader's privacy scopes
    Queries,       \* questions put to ProvenanceService: <<kind, key>>
    GraphFetch,    \* records GraphReader fetches at most (100,000)
    MaxGraphFaults      \* bound: failures of Neo4j, of the commit or of a projector

Rows == DOMAIN Row
Txns == DOMAIN Transactions

Tables == {"entities", "facts", "fact_sources", "fact_versions", "evidence",
           "fact_version_evidence", "context_snapshots", "context_snapshot_facts",
           "decisions", "decision_facts"}

\* Tables whose rows become nodes; the others are relationships only.
NodeTables == Tables \ {"fact_version_evidence", "context_snapshot_facts", "decision_facts"}

InTable(t) == {r \in Rows : Row[r].table = t}
Nodes == {r \in Rows : Row[r].table \in NodeTables}

\* The relationships a row is projected to.
Edges(r) ==
    LET x == Row[r]
    IN CASE x.table = "facts" -> {<<r, "OF_ENTITY", x.entity>>}
         [] x.table = "fact_versions" ->
                {<<r, "VERSION_OF", x.fact>>, <<r, "ASSERTED_BY", x.source>>}
                \cup {<<r, "SUPERSEDES", p>> : p \in {x.supersedes} \ {NULL}}
         [] x.table = "evidence" -> {<<r, "FROM_SOURCE", x.source>>}
         [] x.table = "fact_version_evidence" -> {<<x.evidence, x.relation, x.version>>}
         [] x.table = "context_snapshot_facts" -> {<<x.snapshot, "INCLUDED", x.version>>}
         [] x.table = "decisions" -> {<<r, "BASED_ON", x.snapshot>>}
         [] x.table = "decision_facts" -> {<<x.decision, "RELIED_ON", x.version>>}
         [] OTHER -> {}

\* Keys a row refers to: each of its foreign keys becomes the end of a
\* relationship.
References(r) == (UNION {{e[1], e[3]} : e \in Edges(r)}) \ {r}

QueryKinds == {"version", "source", "evidence", "decision"}

\* What the four questions are about.
AskedTable(kind) ==
    CASE kind = "version" -> "fact_versions"
      [] kind = "source" -> "fact_sources"
      [] kind = "evidence" -> "evidence"
      [] kind = "decision" -> "decisions"

\* Foreign keys refer to rows of their table, and the versions of a fact are
\* numbered from 1, each superseding the one before it (ChainsOK of FactLedger).
RowOK(r) ==
    LET x == Row[r]
    IN /\ x.table \in Tables
       /\ x.table = "facts" => x.entity \in InTable("entities")
       /\ x.table = "fact_versions" =>
            /\ x.fact \in InTable("facts")
            /\ x.source \in InTable("fact_sources")
            /\ x.number \in Nat \ {0}
            /\ IF x.number = 1 THEN x.supersedes = NULL
               ELSE /\ x.supersedes \in InTable("fact_versions")
                    /\ Row[x.supersedes].fact = x.fact
                    /\ Row[x.supersedes].number = x.number - 1
       /\ x.table = "evidence" => x.source \in InTable("fact_sources")
       /\ x.table = "fact_version_evidence" =>
            /\ x.evidence \in InTable("evidence")
            /\ x.version \in InTable("fact_versions")
            /\ x.relation \in {"SUPPORTS", "CONTRADICTS"}
       /\ x.table = "context_snapshot_facts" =>
            x.snapshot \in InTable("context_snapshots") /\ x.version \in InTable("fact_versions")
       /\ x.table = "decisions" => x.snapshot \in InTable("context_snapshots")
       /\ x.table = "decision_facts" =>
            x.decision \in InTable("decisions") /\ x.version \in InTable("fact_versions")

ASSUME ProjectorAssumption ==
    /\ NULL \notin Rows
    /\ \A r \in Rows : RowOK(r)
    /\ \A v, w \in InTable("fact_versions") :
          Row[v].fact = Row[w].fact /\ Row[v].number = Row[w].number => v = w
    /\ Existing \in Seq(Rows)
    /\ \A i \in DOMAIN Existing : \A k \in References(Existing[i]) : \E j \in DOMAIN Existing : Existing[j] = k
    /\ Transactions \in Seq(Seq(Rows))
    /\ \A q \in Queries : q[1] \in QueryKinds /\ q[2] \in InTable(AskedTable(q[1]))
    /\ GraphBatch \in Nat \ {0} /\ GraphFetch \in Nat \ {0}
    /\ MaxGraphFaults \in Nat

VARIABLES
    row,      \* PostgreSQL: "absent", "stored" or "closed"
    todo,     \* transactions that have not committed
    graphOutbox,   \* committed events of graph_outbox: <<id, key>>
    nextId,   \* identity column
    node,     \* Neo4j nodes: "absent", "placeholder", "stored" or "closed"
    edge,     \* Neo4j relationships: <<from, type, to>>
    phase,    \* what each projector does next
    graphClaimed,  \* events it has locked
    loaded,   \* rows it has read
    reader,   \* the request ProvenanceService works on
    graphFaults    \* faults still to come

pgVars == <<row, todo, nextId>>
graphVars == <<node, edge>>
projectorVars == <<phase, graphClaimed, loaded>>
projectionVars == <<pgVars, graphOutbox, graphVars, projectorVars, reader, graphFaults>>

States == {"absent", "stored", "closed"}
NoRows == [r \in {} |-> "absent"]
NoRequest == [phase |-> "idle"]

-----------------------------------------------------------------------------
(* PostgreSQL.                                                             *)

\* Events for the written keys, in the order of the writes.
OutboxEvents(first, keys) == {<<first + i - 1, keys[i]>> : i \in DOMAIN keys}

\* After migration 0008: the rows that already exist are in the outbox.
GraphInit ==
    /\ row = [r \in Rows |-> IF \E i \in DOMAIN Existing : Existing[i] = r THEN "stored" ELSE "absent"]
    /\ todo = Txns
    /\ graphOutbox = OutboxEvents(1, Existing)
    /\ nextId = Len(Existing) + 1
    /\ node = [r \in Nodes |-> "absent"]
    /\ edge = {}
    /\ phase = [p \in Projectors |-> "idle"]
    /\ graphClaimed = [p \in Projectors |-> {}]
    /\ loaded = [p \in Projectors |-> NoRows]
    /\ reader = NoRequest
    /\ graphFaults = MaxGraphFaults

\* Faulty variant: the trigger fires on INSERT only.
EventsInsertOnly(keys) == OutboxEvents(nextId, SelectSeq(keys, LAMBDA r : row[r] = "absent"))

\* The AFTER INSERT OR UPDATE trigger of every projected table.
OutboxTrigger(keys) == OutboxEvents(nextId, keys)

\* A transaction commits, its events with it; what its rows refer to is there.
CommitTransaction(t) ==
    LET keys == Transactions[t]
        written == {keys[i] : i \in DOMAIN keys}
    IN /\ t \in todo
       /\ todo' = todo \ {t}
       /\ \A r \in written : \A k \in References(r) : row[k] # "absent" \/ k \in written
       /\ row' = [r \in Rows |->
                    IF r \notin written THEN row[r]
                    ELSE IF row[r] = "absent" THEN "stored" ELSE "closed"]
       /\ graphOutbox' = graphOutbox \cup OutboxTrigger(keys)
       /\ nextId' = nextId + Len(keys)
       /\ UNCHANGED <<graphVars, projectorVars, reader, graphFaults>>

-----------------------------------------------------------------------------
(* Neo4j: one CYPHER statement per table.                                  *)

\* MERGE and SET by id; a far end that is missing becomes a placeholder.
Merge(rows) ==
    LET ends == UNION {{e[1], e[3]} : e \in UNION {Edges(r) : r \in DOMAIN rows}}
    IN /\ node' = [r \in Nodes |->
                    IF r \in DOMAIN rows THEN rows[r]
                    ELSE IF r \in ends /\ node[r] = "absent" THEN "placeholder" ELSE node[r]]
       /\ edge' = edge \cup UNION {Edges(r) : r \in DOMAIN rows}

-----------------------------------------------------------------------------
(* GraphProjector.run_once, in one PostgreSQL transaction.                 *)

\* Events no projector has locked.
Pending == graphOutbox \ UNION {graphClaimed[p] : p \in Projectors}

OldestEvents(events) == {e \in events : Cardinality({d \in events : d[1] < e[1]}) < GraphBatch}

Claim(p) ==
    /\ phase[p] = "idle"
    /\ Pending # {}
    /\ graphClaimed' = [graphClaimed EXCEPT ![p] = OldestEvents(Pending)]
    /\ phase' = [phase EXCEPT ![p] = "claimed"]
    /\ UNCHANGED <<pgVars, graphOutbox, graphVars, loaded, reader, graphFaults>>

\* No events: run_once returns and the projector sleeps.
NoEvents(p) ==
    /\ phase[p] = "idle"
    /\ Pending = {}
    /\ UNCHANGED projectionVars

\* The current rows of the claimed keys.
Load(p) ==
    /\ phase[p] = "claimed"
    /\ loaded' = [loaded EXCEPT ![p] = [r \in {e[2] : e \in graphClaimed[p]} |-> row[r]]]
    /\ phase' = [phase EXCEPT ![p] = "loaded"]
    /\ UNCHANGED <<pgVars, graphOutbox, graphVars, graphClaimed, reader, graphFaults>>

\* All tables in one Neo4j transaction.
ApplyRows(p) ==
    /\ phase[p] = "loaded"
    /\ Merge(loaded[p])
    /\ phase' = [phase EXCEPT ![p] = "applied"]
    /\ UNCHANGED <<pgVars, graphOutbox, graphClaimed, loaded, reader, graphFaults>>

Release(p) ==
    /\ graphClaimed' = [graphClaimed EXCEPT ![p] = {}]
    /\ loaded' = [loaded EXCEPT ![p] = NoRows]
    /\ phase' = [phase EXCEPT ![p] = "idle"]

\* Faulty variant: the events are deleted when their rows are loaded.
DeleteOnLoad(p) ==
    /\ phase[p] \in {"loaded", "applied"}
    /\ graphOutbox' = graphOutbox \ graphClaimed[p]
    /\ IF phase[p] = "applied" THEN Release(p) ELSE UNCHANGED projectorVars
    /\ UNCHANGED <<pgVars, graphVars, reader, graphFaults>>

\* The events are deleted and the transaction commits.
Delete(p) ==
    /\ phase[p] = "applied"
    /\ graphOutbox' = graphOutbox \ graphClaimed[p]
    /\ Release(p)
    /\ UNCHANGED <<pgVars, graphVars, reader, graphFaults>>

\* Neo4j, the commit or the process fails: the events stay in the outbox.
ProjectorFails(p) ==
    /\ phase[p] # "idle"
    /\ graphFaults > 0 /\ graphFaults' = graphFaults - 1
    /\ Release(p)
    /\ UNCHANGED <<pgVars, graphOutbox, graphVars, reader>>

ProjectorNext(p) == Claim(p) \/ NoEvents(p) \/ Load(p) \/ ApplyRows(p) \/ Delete(p)

-----------------------------------------------------------------------------
(* The traversals of GraphReader.                                          *)

From(type, to) == {e[1] : e \in {x \in edge : x[2] = type /\ x[3] = to}}
To(from, type) == {e[3] : e \in {x \in edge : x[2] = type /\ x[1] = from}}

\* Rows <<version, via, decision>>.
ImpactOfVersion(v) ==
    LET relied == From("RELIED_ON", v)
        context == UNION {From("BASED_ON", n) : n \in From("INCLUDED", v)}
    IN {<<v, "relied_on", d>> : d \in relied} \cup {<<v, "in_context", d>> : d \in context \ relied}

\* Later versions, over one or more SUPERSEDES relationships: those in every set
\* that holds what supersedes v and, with a version, what supersedes it.
SupersededBy(v) ==
    {w \in InTable("fact_versions") :
        \A closed \in SUBSET InTable("fact_versions") :
            (\A u \in closed \cup {v} : From("SUPERSEDES", u) \subseteq closed) => w \in closed}

\* OPTIONAL MATCH: a version without decisions is a row with a NULL decision.
WithDecisions(pairs) ==
    UNION {{<<p[1], p[2], d>> :
                d \in IF From("RELIED_ON", p[1]) = {} THEN {NULL} ELSE From("RELIED_ON", p[1])} :
           p \in pairs}

ImpactOfSource(s) ==
    WithDecisions({<<v, "asserted_by_source">> : v \in From("ASSERTED_BY", s)} \cup
                  {<<v, "supported_by_source_evidence">> :
                        v \in UNION {To(x, "SUPPORTS") : x \in From("FROM_SOURCE", s)}})

ImpactOfEvidence(x) ==
    WithDecisions(UNION {{<<v, relation>> : v \in To(x, relation)} :
                            relation \in {"SUPPORTS", "CONTRADICTS"}})

\* A step per relied-on version: its source, entity and evidence; a version above
\* the reader's privacy scopes, or still a placeholder, shows only its id.
LineageStep(v, s, e) ==
    IF v \in Visible /\ node[v] # "placeholder"
    THEN <<v, s, e, UNION {From(relation, v) : relation \in {"SUPPORTS", "CONTRADICTS"}}>>
    ELSE <<v, NULL, NULL, {}>>

Lineage(d) ==
    UNION {{LineageStep(v, s, e) : s \in To(v, "ASSERTED_BY"),
                                   e \in UNION {To(f, "OF_ENTITY") : f \in To(v, "VERSION_OF")}} :
           v \in To(d, "RELIED_ON")}

Traverse(kind, key) ==
    CASE kind = "version" -> ImpactOfVersion(key)
      [] kind = "source" -> ImpactOfSource(key)
      [] kind = "evidence" -> ImpactOfEvidence(key)
      [] kind = "decision" -> Lineage(key)

\* Whether _records leaves records of the traversal behind, and what it may
\* return: all of them, or as many as it fetches, in no particular order.
CutOff(all) == Cardinality(all) > GraphFetch
Fetched(all) ==
    IF CutOff(all) THEN {rows \in SUBSET all : Cardinality(rows) = GraphFetch} ELSE {all}

\* What the service makes of the records: versions and decisions of impact rows;
\* for a lineage, its versions.
GroupVersions(kind, key, rows) == IF kind = "version" THEN {key} ELSE {r[1] : r \in rows}
GroupDecisions(kind, rows) == IF kind = "decision" THEN {} ELSE {r[3] : r \in rows} \ {NULL}

\* What it makes of the whole traversal.
FoundVersions(kind, key) == GroupVersions(kind, key, Traverse(kind, key))
FoundDecisions(kind, key) == GroupDecisions(kind, Traverse(kind, key))

-----------------------------------------------------------------------------
(* What the answers mean: the same questions put to PostgreSQL.            *)

StoredIn(t) == {r \in InTable(t) : row[r] # "absent"}

ReliedOn(d) == {Row[r].version : r \in {x \in StoredIn("decision_facts") : Row[x].decision = d}}

InContext(d) ==
    {Row[r].version :
        r \in {x \in StoredIn("context_snapshot_facts") : Row[x].snapshot = Row[d].snapshot}}

Linked(x, relations) ==
    {Row[r].version :
        r \in {l \in StoredIn("fact_version_evidence") :
                    Row[l].evidence = x /\ Row[l].relation \in relations}}

AffectedVersions(kind, key) ==
    CASE kind = "version" -> {key}
      [] kind = "source" ->
            {v \in StoredIn("fact_versions") : Row[v].source = key} \cup
            UNION {Linked(x, {"SUPPORTS"}) : x \in {y \in StoredIn("evidence") : Row[y].source = key}}
      [] kind = "evidence" -> Linked(key, {"SUPPORTS", "CONTRADICTS"})
      [] kind = "decision" -> ReliedOn(key)

AffectedDecisions(kind, key) ==
    CASE kind = "version" -> {d \in StoredIn("decisions") : key \in ReliedOn(d) \cup InContext(d)}
      [] kind = "decision" -> {}
      [] OTHER -> {d \in StoredIn("decisions") : ReliedOn(d) \cap AffectedVersions(kind, key) # {}}

LaterVersions(kind, key) ==
    IF kind # "version" THEN {}
    ELSE {v \in StoredIn("fact_versions") : Row[v].fact = Row[key].fact /\ Row[v].number > Row[key].number}

-----------------------------------------------------------------------------
(* ProvenanceService: a PostgreSQL transaction, then reads of Neo4j.       *)

\* Faulty variant: locked events are taken for projected.
AnyPendingUnlocked == Pending # {}

\* count_pending, as far as it is zero or not.
AnyPending == graphOutbox # {}

\* _authorize counts the pending events.  The reader also remembers, for the
\* properties, what PostgreSQL answers at this moment.
Ask(q) ==
    /\ reader = NoRequest
    /\ row[q[2]] # "absent"
    /\ reader' = [phase |-> "asked", kind |-> q[1], key |-> q[2], pending |-> AnyPending,
                  versions |-> AffectedVersions(q[1], q[2]),
                  decisions |-> AffectedDecisions(q[1], q[2]),
                  later |-> LaterVersions(q[1], q[2])]
    /\ UNCHANGED <<pgVars, graphOutbox, graphVars, projectorVars, graphFaults>>

\* _require: the node, or a placeholder, is in the graph.
RequireNode ==
    /\ reader.phase = "asked"
    /\ reader' = [reader EXCEPT !.phase = IF node[reader.key] = "absent" THEN "notfound" ELSE "found"]
    /\ UNCHANGED <<pgVars, graphOutbox, graphVars, projectorVars, graphFaults>>

\* The traversal and, for a version, a second one for its successors (which are
\* collected in one record).  Whether records were left behind is remembered for
\* the properties; the answer does not tell.
ReadGraph ==
    /\ reader.phase = "found"
    /\ LET all == Traverse(reader.kind, reader.key)
       IN \E rows \in Fetched(all) :
            reader' = [phase |-> IF reader.kind = "version" THEN "impact" ELSE "answered",
                       gotVersions |-> GroupVersions(reader.kind, reader.key, rows),
                       gotDecisions |-> GroupDecisions(reader.kind, rows),
                       gotLater |-> {}, cut |-> CutOff(all),
                       kind |-> reader.kind, key |-> reader.key, pending |-> reader.pending,
                       versions |-> reader.versions, decisions |-> reader.decisions,
                       later |-> reader.later]
    /\ UNCHANGED <<pgVars, graphOutbox, graphVars, projectorVars, graphFaults>>

ReadSuccessors ==
    /\ reader.phase = "impact"
    /\ reader' = [reader EXCEPT !.gotLater = SupersededBy(reader.key), !.phase = "answered"]
    /\ UNCHANGED <<pgVars, graphOutbox, graphVars, projectorVars, graphFaults>>

\* The answer, or NotFoundError, is returned.
Respond ==
    /\ reader.phase \in {"answered", "notfound"}
    /\ reader' = NoRequest
    /\ UNCHANGED <<pgVars, graphOutbox, graphVars, projectorVars, graphFaults>>

ReaderNext ==
    \/ \E q \in Queries : Ask(q)
    \/ RequireNode \/ ReadGraph \/ ReadSuccessors \/ Respond

GraphNext ==
    \/ \E t \in Txns : CommitTransaction(t)
    \/ \E p \in Projectors : ProjectorNext(p) \/ ProjectorFails(p)
    \/ ReaderNext

GraphSpec == GraphInit /\ [][GraphNext]_projectionVars

-----------------------------------------------------------------------------
(* Properties.                                                             *)

Question == [phase : {"asked", "found", "notfound"}, kind : QueryKinds, key : Nodes, pending : BOOLEAN,
             versions : SUBSET Rows, decisions : SUBSET Rows, later : SUBSET Rows]

Answer == [phase : {"impact", "answered"}, kind : QueryKinds, key : Nodes, pending : BOOLEAN,
           versions : SUBSET Rows, decisions : SUBSET Rows, later : SUBSET Rows,
           gotVersions : SUBSET Rows, gotDecisions : SUBSET Rows, gotLater : SUBSET Rows,
           cut : BOOLEAN]

GraphTypeOK ==
    /\ row \in [Rows -> States]
    /\ todo \subseteq Txns
    /\ graphOutbox \subseteq Nat \X Rows
    /\ nextId \in Nat
    /\ node \in [Nodes -> States \cup {"placeholder"}]
    /\ edge \subseteq UNION {Edges(r) : r \in Rows}
    /\ phase \in [Projectors -> {"idle", "claimed", "loaded", "applied"}]
    /\ graphClaimed \in [Projectors -> SUBSET (Nat \X Rows)]
    /\ DOMAIN loaded = Projectors
    /\ graphFaults \in Nat

\* The graph asserts nothing PostgreSQL does not: every relationship is one of a
\* stored row, a node is never ahead of its row, and its ends exist.
GraphSound ==
    /\ \A e \in edge : \E r \in Rows : row[r] # "absent" /\ e \in Edges(r)
    /\ \A e \in edge : node[e[1]] # "absent" /\ node[e[3]] # "absent"
    /\ \A r \in Nodes : (node[r] # "absent" => row[r] # "absent")
                        /\ (node[r] = "closed" => row[r] = "closed")

\* A row is in the graph: as a node that is not a placeholder, unless its table
\* has none, and with all its relationships.
Projected(r) ==
    /\ r \in Nodes => node[r] \notin {"absent", "placeholder"}
    /\ Edges(r) \subseteq edge

HasEvent(r) == \E e \in graphOutbox : e[2] = r

\* "Nothing is missed": a row with no pending event is in the graph.
NothingMissed == \A r \in Rows : row[r] # "absent" /\ ~HasEvent(r) => Projected(r)

\* With one projector the graph is exact where the queue is empty: a row with no
\* pending event is in the graph with its current contents.
QuietMeansExact == \A r \in Nodes : ~HasEvent(r) => node[r] = row[r]

Answered == reader.phase = "answered"

\* pending_events lets "a caller tell 'no impact' apart from 'not projected yet'":
\* an answer that reports no pending events has every version, decision and
\* successor PostgreSQL had when the events were counted, unless the traversal
\* has more records than the reader fetches: then versions and decisions are
\* missing, and nothing in the answer says so.
ZeroPendingMeansComplete ==
    /\ reader.phase = "notfound" => reader.pending
    /\ Answered /\ ~reader.pending =>
        /\ ~reader.cut => /\ reader.versions \subseteq reader.gotVersions
                         /\ reader.decisions \subseteq reader.gotDecisions
        /\ reader.later \subseteq reader.gotLater

\* An answer names only versions, decisions and successors that really are
\* affected, however little of the graph is projected.
AnswersTrue ==
    Answered =>
        /\ reader.gotVersions \subseteq AffectedVersions(reader.kind, reader.key)
        /\ reader.gotDecisions \subseteq AffectedDecisions(reader.kind, reader.key)
        /\ reader.gotLater \subseteq LaterVersions(reader.kind, reader.key)

\* Every committed row eventually reaches the graph, with its relationships.
EventuallyProjected == \A r \in Rows : row[r] # "absent" ~> Projected(r)

-----------------------------------------------------------------------------
(* The inductive invariant of the proofs.                                  *)

\* Foreign keys hold, and events are of stored rows and older than the next id.
RowsOK ==
    /\ \A r \in Rows : row[r] # "absent" => \A k \in References(r) : row[k] # "absent"
    /\ \A e \in graphOutbox : row[e[2]] # "absent" /\ e[1] < nextId

\* The rows whose events a projector holds.
Held(p) == {e[2] : e \in graphClaimed[p]}

\* A projector holds events of the outbox that no other holds; what it has read
\* was stored then, and is in the graph once it is applied.
ProjectorOK(p) ==
    /\ graphClaimed[p] \subseteq graphOutbox
    /\ \A q \in Projectors \ {p} : graphClaimed[p] \cap graphClaimed[q] = {}
    /\ phase[p] \in {"loaded", "applied"} =>
          /\ loaded[p] \in [Held(p) -> {"stored", "closed"}]
          /\ \A r \in Held(p) : loaded[p][r] = "closed" => row[r] = "closed"
    /\ phase[p] = "applied" => \A r \in Held(p) : Projected(r)

GraphInv ==
    /\ GraphTypeOK /\ RowsOK /\ GraphSound /\ NothingMissed
    /\ \A p \in Projectors : ProjectorOK(p)

\* What a single projector has read is the row, or the row has another event.
ProjectorExact(p) ==
    /\ phase[p] \in {"loaded", "applied"} =>
          \A r \in Held(p) : loaded[p][r] = row[r] \/ \E e \in graphOutbox \ graphClaimed[p] : e[2] = r
    /\ phase[p] = "applied" => \A r \in Held(p) \cap Nodes : node[r] = loaded[p][r]

\* A request that found no pending events will find what PostgreSQL had, and what
\* it has found is so.
RequestOK(x) ==
    /\ x \in {NoRequest} \cup Question \cup Answer
    /\ x.phase # "idle" =>
          /\ x.key \in InTable(AskedTable(x.kind)) /\ row[x.key] # "absent"
          /\ x.kind # "version" => x.later = {}
    /\ x.phase \in {"asked", "found"} /\ ~x.pending =>
          /\ node[x.key] # "absent"
          /\ x.versions \subseteq FoundVersions(x.kind, x.key)
          /\ x.decisions \subseteq FoundDecisions(x.kind, x.key)
    /\ x.phase \in {"asked", "found", "impact"} /\ ~x.pending => x.later \subseteq SupersededBy(x.key)
    /\ x.phase = "notfound" => x.pending
    /\ x.phase = "impact" => x.kind = "version"
    /\ x.phase \in {"impact", "answered"} =>
          /\ ~x.pending /\ ~x.cut => x.versions \subseteq x.gotVersions /\ x.decisions \subseteq x.gotDecisions
          /\ x.gotVersions \subseteq AffectedVersions(x.kind, x.key)
          /\ x.gotDecisions \subseteq AffectedDecisions(x.kind, x.key)
          /\ x.gotLater \subseteq LaterVersions(x.kind, x.key)
    /\ x.phase = "answered" /\ ~x.pending => x.later \subseteq x.gotLater

ReaderOK == RequestOK(reader)

-----------------------------------------------------------------------------
(* What the documentation says and the code does not keep.                 *)

\* PROVENANCE_GRAPH.md: "Order does not matter. (...) the projector always writes
\* the *current* row."  So what is in the graph once the queue is empty is current.
AlwaysCurrent == QuietMeansExact
=============================================================================
