------------------------------ MODULE GraphProofs ------------------------------
(***************************************************************************)
(* Proofs about GraphProjector, for any rows with their foreign keys, any  *)
(* transactions, projectors, batch size and number of faults: the graph    *)
(* never holds what PostgreSQL does not, a quiet outbox means it is exact, *)
(* and an answer that reports no pending event is complete.                *)
(***************************************************************************)
EXTENDS GraphProjector, WellFoundedInduction, TLAPS

-----------------------------------------------------------------------------
(* GraphProjector: rows and their relationships.                           *)

LEMMA TableOfRow ==
    ASSUME NEW r \in Rows
    PROVE  Row[r].table \in Tables
BY ProjectorAssumption, Zenon DEF RowOK

LEMMA NodeOfTable ==
    ASSUME NEW t \in NodeTables
    PROVE  InTable(t) \subseteq Nodes
BY Zenon DEF InTable, Nodes

\* The tables that foreign keys refer to have nodes.
LEMMA NodesOfTables ==
    /\ InTable("entities") \subseteq Nodes /\ InTable("facts") \subseteq Nodes
    /\ InTable("fact_sources") \subseteq Nodes /\ InTable("fact_versions") \subseteq Nodes
    /\ InTable("evidence") \subseteq Nodes /\ InTable("context_snapshots") \subseteq Nodes
    /\ InTable("decisions") \subseteq Nodes
<1>1. {"entities", "facts", "fact_sources", "fact_versions", "evidence", "context_snapshots",
       "decisions"} \subseteq NodeTables
    BY DEF NodeTables, Tables
<1> QED
    BY <1>1, NodeOfTable, Zenon

LEMMA NodesAreRows == Nodes \subseteq Rows
BY ZenonT(40) DEF Nodes

\* What the CYPHER statement of each table makes of a row.
LEMMA EdgesByTable ==
    ASSUME NEW r \in Rows
    PROVE  /\ Row[r].table = "facts" => Edges(r) = {<<r, "OF_ENTITY", Row[r].entity>>}
           /\ Row[r].table = "fact_versions" =>
                 Edges(r) = {<<r, "VERSION_OF", Row[r].fact>>, <<r, "ASSERTED_BY", Row[r].source>>}
                            \cup {<<r, "SUPERSEDES", q>> : q \in {Row[r].supersedes} \ {NULL}}
           /\ Row[r].table = "evidence" => Edges(r) = {<<r, "FROM_SOURCE", Row[r].source>>}
           /\ Row[r].table = "fact_version_evidence" =>
                 Edges(r) = {<<Row[r].evidence, Row[r].relation, Row[r].version>>}
           /\ Row[r].table = "context_snapshot_facts" =>
                 Edges(r) = {<<Row[r].snapshot, "INCLUDED", Row[r].version>>}
           /\ Row[r].table = "decisions" => Edges(r) = {<<r, "BASED_ON", Row[r].snapshot>>}
           /\ Row[r].table = "decision_facts" =>
                 Edges(r) = {<<Row[r].decision, "RELIED_ON", Row[r].version>>}
           /\ Row[r].table \in {"entities", "fact_sources", "context_snapshots"} => Edges(r) = {}
BY DEF Edges

\* The rows whose projection gives a relationship.
LEMMA EdgeOfRow ==
    ASSUME NEW r \in Rows, NEW e \in Edges(r)
    PROVE  \/ r \in InTable("facts") /\ e = <<r, "OF_ENTITY", Row[r].entity>>
           \/ r \in InTable("fact_versions") /\ e = <<r, "VERSION_OF", Row[r].fact>>
           \/ r \in InTable("fact_versions") /\ e = <<r, "ASSERTED_BY", Row[r].source>>
           \/ /\ r \in InTable("fact_versions") /\ Row[r].supersedes # NULL
              /\ e = <<r, "SUPERSEDES", Row[r].supersedes>>
           \/ r \in InTable("evidence") /\ e = <<r, "FROM_SOURCE", Row[r].source>>
           \/ /\ r \in InTable("fact_version_evidence")
              /\ e = <<Row[r].evidence, Row[r].relation, Row[r].version>>
           \/ r \in InTable("context_snapshot_facts") /\ e = <<Row[r].snapshot, "INCLUDED", Row[r].version>>
           \/ r \in InTable("decisions") /\ e = <<r, "BASED_ON", Row[r].snapshot>>
           \/ r \in InTable("decision_facts") /\ e = <<Row[r].decision, "RELIED_ON", Row[r].version>>
<1>1. \/ Row[r].table \in {"entities", "fact_sources", "context_snapshots"}
      \/ Row[r].table = "facts" \/ Row[r].table = "fact_versions" \/ Row[r].table = "evidence"
      \/ Row[r].table = "fact_version_evidence" \/ Row[r].table = "context_snapshot_facts"
      \/ Row[r].table = "decisions" \/ Row[r].table = "decision_facts"
    BY TableOfRow, Zenon DEF Tables
<1>2. \A t : Row[r].table = t => r \in InTable(t)
    BY Zenon DEF InTable
<1>3. Row[r].table \in {"entities", "fact_sources", "context_snapshots"} => FALSE
    BY EdgesByTable, Zenon
<1>4. Row[r].table = "facts" => e = <<r, "OF_ENTITY", Row[r].entity>>
    BY EdgesByTable, Zenon
<1>5. Row[r].table = "fact_versions" =>
         \/ e = <<r, "VERSION_OF", Row[r].fact>>
         \/ e = <<r, "ASSERTED_BY", Row[r].source>>
         \/ Row[r].supersedes # NULL /\ e = <<r, "SUPERSEDES", Row[r].supersedes>>
    BY EdgesByTable
<1>6. Row[r].table = "evidence" => e = <<r, "FROM_SOURCE", Row[r].source>>
    BY EdgesByTable, Zenon
<1>7. Row[r].table = "fact_version_evidence" => e = <<Row[r].evidence, Row[r].relation, Row[r].version>>
    BY EdgesByTable, Zenon
<1>8. Row[r].table = "context_snapshot_facts" => e = <<Row[r].snapshot, "INCLUDED", Row[r].version>>
    BY EdgesByTable, Zenon
<1>9. Row[r].table = "decisions" => e = <<r, "BASED_ON", Row[r].snapshot>>
    BY EdgesByTable, Zenon
<1>10. Row[r].table = "decision_facts" => e = <<Row[r].decision, "RELIED_ON", Row[r].version>>
    BY EdgesByTable, ZenonT(40)
<1> QED
    BY <1>1, <1>2, <1>3, <1>4, <1>5, <1>6, <1>7, <1>8, <1>9, <1>10, Zenon

\* Its ends are nodes.
LEMMA EdgeEnds ==
    ASSUME NEW r \in Rows, NEW e \in Edges(r)
    PROVE  e[1] \in Nodes /\ e[3] \in Nodes
<1>1. RowOK(r)
    BY ProjectorAssumption, Zenon
<1>2. \A t : r \in InTable(t) => Row[r].table = t
    BY Zenon DEF InTable
<1>3. r \in InTable("facts") => r \in Nodes /\ Row[r].entity \in Nodes
    BY <1>1, <1>2, NodesOfTables, Zenon DEF RowOK
<1>4. r \in InTable("fact_versions") =>
         /\ r \in Nodes /\ Row[r].fact \in Nodes /\ Row[r].source \in Nodes
         /\ Row[r].supersedes # NULL => Row[r].supersedes \in Nodes
    BY <1>1, <1>2, NodesOfTables, Zenon DEF RowOK
<1>5. r \in InTable("evidence") => r \in Nodes /\ Row[r].source \in Nodes
    BY <1>1, <1>2, NodesOfTables, Zenon DEF RowOK
<1>6. r \in InTable("fact_version_evidence") => Row[r].evidence \in Nodes /\ Row[r].version \in Nodes
    BY <1>1, <1>2, NodesOfTables, Zenon DEF RowOK
<1>7. r \in InTable("context_snapshot_facts") => Row[r].snapshot \in Nodes /\ Row[r].version \in Nodes
    BY <1>1, <1>2, NodesOfTables, Zenon DEF RowOK
<1>8. r \in InTable("decisions") => r \in Nodes /\ Row[r].snapshot \in Nodes
    BY <1>1, <1>2, NodesOfTables, Zenon DEF RowOK
<1>9. r \in InTable("decision_facts") => Row[r].decision \in Nodes /\ Row[r].version \in Nodes
    BY <1>1, <1>2, NodesOfTables, Zenon DEF RowOK
<1> QED
    BY <1>3, <1>4, <1>5, <1>6, <1>7, <1>8, <1>9, EdgeOfRow

-----------------------------------------------------------------------------
(* GraphProjector: rows, events and the graph.                             *)

graphState == <<row, todo, nextId, graphOutbox, node, edge, phase, graphClaimed, loaded, graphFaults>>

\* The events of a transaction: one for each key that it writes, with new ids.
LEMMA EventsOfKeys ==
    ASSUME NEW keys \in Seq(Rows), NEW first \in Nat
    PROVE  /\ OutboxEvents(first, keys) \subseteq Nat \X Rows
           /\ \A e \in OutboxEvents(first, keys) :
                 first <= e[1] /\ e[1] < first + Len(keys) /\ \E i \in DOMAIN keys : e[2] = keys[i]
           /\ \A i \in DOMAIN keys : \E e \in OutboxEvents(first, keys) : e[2] = keys[i]
<1>1. ASSUME NEW i \in DOMAIN keys
      PROVE  /\ keys[i] \in Rows
             /\ first + i - 1 \in Nat
             /\ first <= first + i - 1 /\ first + i - 1 < first + Len(keys)
    OBVIOUS
<1>2. \A e \in OutboxEvents(first, keys) : \E i \in DOMAIN keys : e = <<first + i - 1, keys[i]>>
    BY Zenon DEF OutboxEvents
<1>3. \A i \in DOMAIN keys : <<first + i - 1, keys[i]>> \in OutboxEvents(first, keys)
    BY Zenon DEF OutboxEvents
<1>4. \A a, b : <<a, b>>[1] = a /\ <<a, b>>[2] = b
    OBVIOUS
<1>5. OutboxEvents(first, keys) \subseteq Nat \X Rows
    BY <1>1, <1>2
<1>6. ASSUME NEW e \in OutboxEvents(first, keys)
      PROVE  first <= e[1] /\ e[1] < first + Len(keys) /\ \E i \in DOMAIN keys : e[2] = keys[i]
  <2>1. PICK i \in DOMAIN keys : e = <<first + i - 1, keys[i]>>
    BY <1>2, Zenon
  <2>2. e[1] = first + i - 1 /\ e[2] = keys[i]
    BY <2>1
  <2> QED
    BY <1>1, <2>2, Zenon
<1> QED
    BY <1>3, <1>4, <1>5, <1>6, Zenon

\* References are rows.
LEMMA ReferencesAreNodes ==
    ASSUME NEW r \in Rows
    PROVE  /\ References(r) \subseteq Nodes
           /\ \A e \in Edges(r) : e[1] \in References(r) \cup {r} /\ e[3] \in References(r) \cup {r}
<1> DEFINE Ends == UNION {{e[1], e[3]} : e \in Edges(r)}
<1>1. \A e \in Edges(r) : e[1] \in Ends /\ e[3] \in Ends
    OBVIOUS
<1>2. ASSUME NEW k \in Ends PROVE k \in Nodes
  <2>1. PICK e \in Edges(r) : k \in {e[1], e[3]}
    OBVIOUS
  <2>2. e[1] \in Nodes /\ e[3] \in Nodes
    BY EdgeEnds, Zenon
  <2> QED
    BY <2>1, <2>2, Zenon
<1>3. References(r) = Ends \ {r}
    BY Zenon DEF References
<1> QED
    BY <1>1, <1>2, <1>3, Zenon

LEMMA GraphInitInv == GraphInit => GraphInv
<1> SUFFICES ASSUME GraphInit PROVE GraphInv
    OBVIOUS
<1>1. /\ Existing \in Seq(Rows) /\ Len(Existing) \in Nat
      /\ \A i \in DOMAIN Existing : Existing[i] \in Rows
    BY ProjectorAssumption
<1>2. /\ graphOutbox \subseteq Nat \X Rows
      /\ \A e \in graphOutbox : e[1] < Len(Existing) + 1 /\ \E i \in DOMAIN Existing : e[2] = Existing[i]
      /\ \A i \in DOMAIN Existing : \E e \in graphOutbox : e[2] = Existing[i]
    BY <1>1, EventsOfKeys DEF GraphInit
<1>3. row \in [Rows -> States]
    BY DEF GraphInit, States
<1>4. \A r \in Rows : row[r] # "absent" <=> \E i \in DOMAIN Existing : Existing[i] = r
    BY DEF GraphInit
<1>5. GraphTypeOK
  <2>1. node \in [Nodes -> States \cup {"placeholder"}]
    BY DEF GraphInit, States
  <2>2. graphClaimed \in [Projectors -> SUBSET (Nat \X Rows)]
    BY Zenon DEF GraphInit
  <2>3. phase \in [Projectors -> {"idle", "claimed", "loaded", "applied"}]
    BY Zenon DEF GraphInit
  <2>4. DOMAIN loaded = Projectors /\ edge = {} /\ todo = Txns
    BY Zenon DEF GraphInit
  <2>5. nextId \in Nat /\ graphFaults \in Nat
    BY <1>1, ProjectorAssumption DEF GraphInit
  <2> QED
    BY <1>2, <1>3, <2>1, <2>2, <2>3, <2>4, <2>5, Zenon DEF GraphTypeOK
<1>6. RowsOK
  <2>1. ASSUME NEW r \in Rows, row[r] # "absent", NEW k \in References(r) PROVE row[k] # "absent"
    <3>1. PICK i \in DOMAIN Existing : Existing[i] = r
        BY <1>4, <2>1, Zenon
    <3>2. \E j \in DOMAIN Existing : Existing[j] = k
        BY <3>1, ProjectorAssumption, Zenon
    <3> QED
        BY <1>1, <1>4, <3>2, Zenon
  <2>2. ASSUME NEW e \in graphOutbox PROVE row[e[2]] # "absent" /\ e[1] < nextId
    <3>1. row[e[2]] # "absent"
        BY <1>1, <1>2, <1>4, Zenon
    <3> QED
        BY <1>2, <3>1, Zenon DEF GraphInit
  <2> QED
    BY <2>1, <2>2, Zenon DEF RowsOK
<1>7. GraphSound
  <2>1. edge = {} /\ \A r \in Nodes : node[r] = "absent"
    BY Zenon DEF GraphInit
  <2> QED
    BY <2>1 DEF GraphSound
<1>8. NothingMissed
  <2>1. ASSUME NEW r \in Rows, row[r] # "absent" PROVE HasEvent(r)
    <3>1. PICK i \in DOMAIN Existing : Existing[i] = r
        BY <1>4, <2>1, Zenon
    <3>2. \E e \in graphOutbox : e[2] = Existing[i]
        BY <1>2, Zenon
    <3> QED
        BY <3>1, <3>2, Zenon DEF HasEvent
  <2> QED
    BY <2>1, Zenon DEF NothingMissed
<1>9. ASSUME NEW p \in Projectors PROVE ProjectorOK(p)
  <2>1. phase[p] = "idle" /\ \A q \in Projectors : graphClaimed[q] = {}
    BY Zenon DEF GraphInit
  <2> QED
    BY <2>1 DEF ProjectorOK
<1> QED
    BY <1>5, <1>6, <1>7, <1>8, <1>9, Zenon DEF GraphInv

LEMMA GraphStutter ==
    ASSUME GraphInv, UNCHANGED graphState
    PROVE  GraphInv'
<1>1. GraphTypeOK'
    BY Zenon DEF GraphInv, GraphTypeOK, graphState
<1>2. RowsOK'
    BY Zenon DEF GraphInv, RowsOK, graphState
<1>3. GraphSound' /\ NothingMissed'
    BY Zenon DEF GraphInv, GraphSound, NothingMissed, HasEvent, Projected, graphState
<1>4. ASSUME NEW p \in Projectors PROVE ProjectorOK(p)'
    BY Zenon DEF GraphInv, ProjectorOK, Held, Projected, graphState
<1> QED
    BY <1>1, <1>2, <1>3, <1>4, Zenon DEF GraphInv


\* What a row becomes: written rows are stored or closed, no row goes away and
\* none is opened again.
LEMMA CommitRows ==
    ASSUME GraphInv, NEW t \in Txns, CommitTransaction(t)
    PROVE  /\ Transactions[t] \in Seq(Rows)
           /\ row' \in [Rows -> States]
           /\ \A r \in Rows : row[r] # "absent" => row'[r] # "absent"
           /\ \A r \in Rows : row[r] = "closed" => row'[r] = "closed"
           /\ \A i \in DOMAIN Transactions[t] : row'[Transactions[t][i]] # "absent"
           /\ \A r \in Rows : row'[r] # row[r] => \E i \in DOMAIN Transactions[t] : Transactions[t][i] = r
           /\ \A i \in DOMAIN Transactions[t] : \A k \in References(Transactions[t][i]) : row'[k] # "absent"
<1> DEFINE keys == Transactions[t]
           written == {keys[i] : i \in DOMAIN keys}
<1>1. keys \in Seq(Rows)
    BY ProjectorAssumption DEF Txns
<1>2. \A i \in DOMAIN keys : keys[i] \in Rows /\ keys[i] \in written
    BY <1>1
<1>3. \A r \in written : \E i \in DOMAIN keys : keys[i] = r
    BY Zenon
<1>4. row \in [Rows -> States]
    BY Zenon DEF GraphInv, GraphTypeOK
<1>5. /\ row' = [r \in Rows |-> IF r \notin written THEN row[r]
                                ELSE IF row[r] = "absent" THEN "stored" ELSE "closed"]
      /\ \A r \in written : \A k \in References(r) : row[k] # "absent" \/ k \in written
    BY Zenon DEF CommitTransaction
<1> HIDE DEF keys, written
<1>6. \A r \in Rows : row'[r] = IF r \notin written THEN row[r]
                                ELSE IF row[r] = "absent" THEN "stored" ELSE "closed"
    BY <1>5, Zenon
<1>7. row' \in [Rows -> States]
    BY <1>4, <1>5 DEF States
<1>8. \A r \in Rows : /\ row[r] # "absent" => row'[r] # "absent"
                      /\ row[r] = "closed" => row'[r] = "closed"
                      /\ r \in written => row'[r] # "absent"
                      /\ row'[r] # row[r] => r \in written
    BY <1>6
<1>9. ASSUME NEW i \in DOMAIN keys, NEW k \in References(keys[i]) PROVE row'[k] # "absent"
  <2>1. k \in Rows
    BY <1>2, ReferencesAreNodes, NodesAreRows, Zenon
  <2> QED
    BY <1>2, <1>5, <1>8, <2>1, Zenon
<1>10. \A i \in DOMAIN keys : row'[keys[i]] # "absent"
    BY <1>2, <1>8, Zenon
<1>11. \A r \in Rows : row'[r] # row[r] => \E i \in DOMAIN keys : keys[i] = r
    BY <1>3, <1>8, Zenon
<1> QED
    BY <1>1, <1>7, <1>8, <1>9, <1>10, <1>11, Zenon DEF keys

\* The outbox gets an event for each row that is written.
LEMMA CommitEvents ==
    ASSUME GraphInv, NEW t \in Txns, CommitTransaction(t)
    PROVE  /\ graphOutbox' \subseteq Nat \X Rows /\ graphOutbox \subseteq graphOutbox'
           /\ nextId' \in Nat
           /\ \A e \in graphOutbox' : row'[e[2]] # "absent" /\ e[1] < nextId'
           /\ \A e \in graphOutbox' \ graphOutbox : e[1] >= nextId
           /\ \A r \in Rows : row'[r] # row[r] => \E e \in graphOutbox' : e[2] = r /\ e[1] >= nextId
<1> DEFINE keys == Transactions[t]
           new == OutboxEvents(nextId, keys)
<1>1. /\ keys \in Seq(Rows) /\ Len(keys) \in Nat
      /\ \A r \in Rows : row[r] # "absent" => row'[r] # "absent"
      /\ \A i \in DOMAIN keys : row'[keys[i]] # "absent"
      /\ \A r \in Rows : row'[r] # row[r] => \E i \in DOMAIN keys : keys[i] = r
    BY CommitRows
<1>2. graphOutbox' = graphOutbox \cup new /\ nextId' = nextId + Len(keys)
    BY Zenon DEF CommitTransaction, OutboxTrigger
<1>3. /\ nextId \in Nat /\ graphOutbox \subseteq Nat \X Rows
      /\ \A e \in graphOutbox : row[e[2]] # "absent" /\ e[1] < nextId
    BY Zenon DEF GraphInv, GraphTypeOK, RowsOK
<1> HIDE DEF keys
<1>4. /\ new \subseteq Nat \X Rows
      /\ \A e \in new : nextId <= e[1] /\ e[1] < nextId + Len(keys) /\ \E i \in DOMAIN keys : e[2] = keys[i]
      /\ \A i \in DOMAIN keys : \E e \in new : e[2] = keys[i]
    BY <1>1, <1>3, EventsOfKeys, Zenon
<1> HIDE DEF new
<1>5. \A e \in graphOutbox : e[1] \in Nat /\ e[2] \in Rows
    BY <1>3
<1>6. \A e \in new : e[1] \in Nat /\ e[1] >= nextId
    BY <1>3, <1>4
<1>7. ASSUME NEW e \in graphOutbox' PROVE row'[e[2]] # "absent" /\ e[1] < nextId'
  <2>1. CASE e \in graphOutbox
    <3>1. row'[e[2]] # "absent"
        BY <1>1, <1>3, <1>5, <2>1, Zenon
    <3> QED
        BY <1>1, <1>2, <1>3, <1>5, <2>1, <3>1
  <2>2. CASE e \in new
    <3>1. PICK i \in DOMAIN keys : e[2] = keys[i]
        BY <1>4, <2>2, Zenon
    <3> QED
        BY <1>1, <1>2, <1>4, <2>2, <3>1, Zenon
  <2> QED
    BY <1>2, <2>1, <2>2, Zenon
<1>8. nextId' \in Nat
    BY <1>1, <1>2, <1>3
<1>9. ASSUME NEW r \in Rows, row'[r] # row[r] PROVE \E e \in graphOutbox' : e[2] = r /\ e[1] >= nextId
  <2>1. PICK i \in DOMAIN keys : keys[i] = r
    BY <1>1, <1>9, Zenon
  <2>2. PICK e \in new : e[2] = r
    BY <1>4, <2>1, Zenon
  <2> QED
    BY <1>2, <1>6, <2>2, Zenon
<1> QED
    BY <1>2, <1>3, <1>4, <1>6, <1>7, <1>8, <1>9, Zenon

LEMMA CommitInv ==
    ASSUME GraphInv, NEW t \in Txns, CommitTransaction(t)
    PROVE  GraphInv'
<1>0. GraphTypeOK /\ RowsOK /\ GraphSound /\ NothingMissed /\ \A p \in Projectors : ProjectorOK(p)
    BY Zenon DEF GraphInv
<1>1. /\ UNCHANGED <<node, edge, phase, graphClaimed, loaded, graphFaults>>
      /\ todo' \subseteq todo
    BY Zenon DEF CommitTransaction, graphVars, projectorVars
<1>2. /\ row' \in [Rows -> States]
      /\ \A r \in Rows : row[r] # "absent" => row'[r] # "absent"
      /\ \A r \in Rows : row[r] = "closed" => row'[r] = "closed"
      /\ \A r \in Rows : row'[r] # row[r] => \E i \in DOMAIN Transactions[t] : Transactions[t][i] = r
      /\ \A i \in DOMAIN Transactions[t] : \A k \in References(Transactions[t][i]) : row'[k] # "absent"
    BY CommitRows, Zenon
<1>3. /\ graphOutbox' \subseteq Nat \X Rows /\ graphOutbox \subseteq graphOutbox'
      /\ nextId' \in Nat
      /\ \A e \in graphOutbox' : row'[e[2]] # "absent" /\ e[1] < nextId'
      /\ \A r \in Rows : row'[r] # row[r] => \E e \in graphOutbox' : e[2] = r
    BY CommitEvents, Zenon
<1>4. GraphTypeOK'
    BY <1>0, <1>1, <1>2, <1>3, Zenon DEF GraphTypeOK
<1>5. RowsOK'
  <2>1. ASSUME NEW r \in Rows, row'[r] # "absent", NEW k \in References(r) PROVE row'[k] # "absent"
    <3>1. CASE row'[r] = row[r]
      <4>1. k \in Rows /\ row[k] # "absent"
        BY <1>0, <2>1, <3>1, ReferencesAreNodes, NodesAreRows, Zenon DEF RowsOK
      <4> QED
        BY <1>2, <4>1, Zenon
    <3>2. CASE row'[r] # row[r]
        BY <1>2, <2>1, <3>2, Zenon
    <3> QED
        BY <3>1, <3>2, Zenon
  <2> QED
    BY <1>3, <2>1, Zenon DEF RowsOK
<1>6. GraphSound'
  <2>1. \A r \in Nodes : r \in Rows
    BY NodesAreRows, Zenon
  <2> QED
    BY <1>0, <1>1, <1>2, <2>1, Zenon DEF GraphSound
<1>7. NothingMissed'
  <2>1. ASSUME NEW r \in Rows, row'[r] # "absent", ~HasEvent(r)' PROVE Projected(r)'
    <3>1. row'[r] = row[r] /\ ~HasEvent(r)
        BY <1>3, <2>1, Zenon DEF HasEvent
    <3>2. Projected(r)
        BY <1>0, <2>1, <3>1, Zenon DEF NothingMissed
    <3> QED
        BY <1>1, <3>2, Zenon DEF Projected
  <2> QED
    BY <2>1, Zenon DEF NothingMissed
<1>8. ASSUME NEW p \in Projectors PROVE ProjectorOK(p)'
  <2>1. ProjectorOK(p)
    BY <1>0, Zenon
  <2>2. Held(p)' = Held(p) /\ \A r : Projected(r)' <=> Projected(r)
    BY <1>1, Zenon DEF Held, Projected
  <2>3. Held(p) \subseteq Rows
    BY <1>0 DEF GraphTypeOK, Held
  <2> QED
    BY <1>1, <1>2, <1>3, <2>1, <2>2, <2>3, Zenon DEF ProjectorOK
<1> QED
    BY <1>4, <1>5, <1>6, <1>7, <1>8, Zenon DEF GraphInv


LEMMA ClaimInv ==
    ASSUME GraphInv, NEW p \in Projectors, Claim(p)
    PROVE  GraphInv'
<1>0. GraphTypeOK /\ RowsOK /\ GraphSound /\ NothingMissed /\ \A q \in Projectors : ProjectorOK(q)
    BY Zenon DEF GraphInv
<1>1. /\ UNCHANGED <<row, todo, nextId, graphOutbox, node, edge, loaded, graphFaults>>
      /\ phase' = [phase EXCEPT ![p] = "claimed"]
      /\ graphClaimed' = [graphClaimed EXCEPT ![p] = OldestEvents(Pending)]
    BY Zenon DEF Claim, pgVars, graphVars
<1>2. /\ OldestEvents(Pending) \subseteq graphOutbox
      /\ \A q \in Projectors : OldestEvents(Pending) \cap graphClaimed[q] = {}
    BY Zenon DEF OldestEvents, Pending
<1>3. /\ graphClaimed' \in [Projectors -> SUBSET (Nat \X Rows)]
      /\ phase' \in [Projectors -> {"idle", "claimed", "loaded", "applied"}]
      /\ graphClaimed'[p] = OldestEvents(Pending) /\ phase'[p] = "claimed"
      /\ \A q \in Projectors \ {p} : graphClaimed'[q] = graphClaimed[q] /\ phase'[q] = phase[q]
    BY <1>0, <1>1, <1>2, Zenon DEF GraphTypeOK
<1>4. GraphTypeOK'
    BY <1>0, <1>1, <1>3, Zenon DEF GraphTypeOK
<1>5. RowsOK' /\ GraphSound' /\ NothingMissed'
    BY <1>0, <1>1, Zenon DEF RowsOK, GraphSound, NothingMissed, HasEvent, Projected
<1>6. ProjectorOK(p)'
    BY <1>1, <1>2, <1>3 DEF ProjectorOK
<1>7. ASSUME NEW q \in Projectors, q # p PROVE ProjectorOK(q)'
  <2>1. ProjectorOK(q) /\ q \in Projectors \ {p}
    BY <1>0, <1>7, Zenon
  <2>2. Held(q)' = Held(q) /\ \A r : Projected(r)' <=> Projected(r)
    BY <1>1, <1>3, <2>1, Zenon DEF Held, Projected
  <2>3. ASSUME NEW u \in Projectors \ {q} PROVE graphClaimed'[q] \cap graphClaimed'[u] = {}
    <3>1. CASE u = p
        BY <1>2, <1>3, <2>1, <3>1
    <3>2. CASE u # p
        BY <1>3, <2>1, <3>2, Zenon DEF ProjectorOK
    <3> QED
        BY <3>1, <3>2, Zenon
  <2> QED
    BY <1>1, <1>3, <2>1, <2>2, <2>3, ZenonT(40) DEF ProjectorOK
<1> QED
    BY <1>4, <1>5, <1>6, <1>7, Zenon DEF GraphInv

LEMMA LoadInv ==
    ASSUME GraphInv, NEW p \in Projectors, Load(p)
    PROVE  GraphInv'
<1>0. GraphTypeOK /\ RowsOK /\ GraphSound /\ NothingMissed /\ \A q \in Projectors : ProjectorOK(q)
    BY Zenon DEF GraphInv
<1>1. /\ UNCHANGED <<row, todo, nextId, graphOutbox, node, edge, graphClaimed, graphFaults>>
      /\ phase' = [phase EXCEPT ![p] = "loaded"]
      /\ loaded' = [loaded EXCEPT ![p] = [r \in Held(p) |-> row[r]]]
    BY Zenon DEF Load, Held, pgVars, graphVars
<1>2. /\ phase' \in [Projectors -> {"idle", "claimed", "loaded", "applied"}]
      /\ DOMAIN loaded' = Projectors
      /\ loaded'[p] = [r \in Held(p) |-> row[r]] /\ phase'[p] = "loaded"
      /\ \A q \in Projectors \ {p} : loaded'[q] = loaded[q] /\ phase'[q] = phase[q]
    BY <1>0, <1>1, Zenon DEF GraphTypeOK
<1>3. GraphTypeOK'
    BY <1>0, <1>1, <1>2, Zenon DEF GraphTypeOK
<1>4. RowsOK' /\ GraphSound' /\ NothingMissed'
    BY <1>0, <1>1, Zenon DEF RowsOK, GraphSound, NothingMissed, HasEvent, Projected
<1>5. \A q \in Projectors : Held(q)' = Held(q) /\ \A r : Projected(r)' <=> Projected(r)
    BY <1>1, Zenon DEF Held, Projected
<1>6. ProjectorOK(p)'
  <2>1. ASSUME NEW r \in Held(p) PROVE row[r] \in {"stored", "closed"}
    <3>1. PICK e \in graphClaimed[p] : e[2] = r
        BY Zenon DEF Held
    <3>2. row[r] # "absent" /\ r \in Rows
      <4>1. e \in graphOutbox /\ graphOutbox \subseteq Nat \X Rows
        BY <1>0, <3>1, Zenon DEF ProjectorOK, GraphTypeOK
      <4>2. e[2] \in Rows
        BY <4>1
      <4> QED
        BY <1>0, <3>1, <4>1, <4>2, Zenon DEF RowsOK
    <3> QED
        BY <1>0, <3>2 DEF GraphTypeOK, States
  <2>2. loaded'[p] \in [Held(p) -> {"stored", "closed"}] /\ \A r \in Held(p) : loaded'[p][r] = row[r]
    BY <1>2, <2>1, Zenon
  <2>3. ProjectorOK(p)
    BY <1>0, Zenon
  <2>4. phase'[p] # "applied"
    BY <1>2
  <2>5. /\ loaded'[p] \in [Held(p)' -> {"stored", "closed"}]
        /\ \A r \in Held(p)' : loaded'[p][r] = "closed" => row'[r] = "closed"
    BY <1>1, <1>5, <2>2, Zenon
  <2> QED
    BY <1>1, <2>3, <2>4, <2>5, Zenon DEF ProjectorOK
<1>7. ASSUME NEW q \in Projectors, q # p PROVE ProjectorOK(q)'
  <2>1. ProjectorOK(q) /\ q \in Projectors \ {p}
    BY <1>0, <1>7, Zenon
  <2>2. /\ UNCHANGED <<row, graphOutbox, graphClaimed>> /\ Held(q)' = Held(q)
        /\ loaded'[q] = loaded[q] /\ phase'[q] = phase[q] /\ \A r : Projected(r)' <=> Projected(r)
    BY <1>1, <1>2, <1>5, <2>1, Zenon
  <2> QED
    BY <2>1, <2>2, Zenon DEF ProjectorOK
<1> QED
    BY <1>3, <1>4, <1>6, <1>7, Zenon DEF GraphInv


\* What MERGE leaves: loaded rows as they were read, the others as they are or as
\* placeholders, and more relationships.
LEMMA ApplyGraph ==
    ASSUME GraphInv, NEW p \in Projectors, ApplyRows(p)
    PROVE  /\ node' \in [Nodes -> States \cup {"placeholder"}]
           /\ edge \subseteq edge' /\ edge' \subseteq UNION {Edges(r) : r \in Rows}
           /\ \A r \in Held(p) : Edges(r) \subseteq edge'
           /\ \A e \in edge' : e \in edge \/ \E r \in Held(p) : e \in Edges(r)
           /\ \A r \in Nodes : r \in Held(p) => node'[r] = loaded[p][r]
           /\ \A r \in Nodes \ Held(p) :
                 \/ node'[r] = node[r]
                 \/ /\ node[r] = "absent" /\ node'[r] = "placeholder"
                    /\ \E k \in Held(p) : r \in References(k) \cup {k}
           /\ \A k \in Held(p) : \A e \in Edges(k) : node'[e[1]] # "absent" /\ node'[e[3]] # "absent"
<1> DEFINE new == UNION {Edges(r) : r \in Held(p)}
           ends == UNION {{e[1], e[3]} : e \in new}
<1>1. phase[p] = "loaded" /\ Merge(loaded[p])
    BY Zenon DEF ApplyRows
<1>2. loaded[p] \in [Held(p) -> {"stored", "closed"}] /\ DOMAIN loaded[p] = Held(p)
    BY <1>1, Zenon DEF GraphInv, ProjectorOK
<1>3. /\ node' = [r \in Nodes |-> IF r \in Held(p) THEN loaded[p][r]
                                  ELSE IF r \in ends /\ node[r] = "absent" THEN "placeholder" ELSE node[r]]
      /\ edge' = edge \cup new
    BY <1>1, <1>2, Zenon DEF Merge
<1>4. /\ Held(p) \subseteq Rows
      /\ node \in [Nodes -> States \cup {"placeholder"}] /\ edge \subseteq UNION {Edges(r) : r \in Rows}
  <2>1. /\ graphClaimed[p] \subseteq Nat \X Rows
        /\ node \in [Nodes -> States \cup {"placeholder"}] /\ edge \subseteq UNION {Edges(r) : r \in Rows}
    BY Zenon DEF GraphInv, GraphTypeOK
  <2> QED
    BY <2>1 DEF Held
<1>5. \A e \in new : \E r \in Held(p) : e \in Edges(r)
    BY Zenon
<1>6. \A r \in Held(p) : \A e \in Edges(r) : e \in new /\ e[1] \in ends /\ e[3] \in ends
  <2>1. \A r \in Held(p) : \A e \in Edges(r) : e \in new
    BY Zenon
  <2>2. \A e \in new : e[1] \in ends /\ e[3] \in ends
    <3> HIDE DEF new
    <3> QED
        OBVIOUS
  <2> QED
    BY <2>1, <2>2, Zenon
<1>7. ASSUME NEW r \in ends PROVE \E k \in Held(p) : r \in References(k) \cup {k}
  <2>1. PICK e \in new : r \in {e[1], e[3]}
    BY Zenon
  <2>2. PICK k \in Held(p) : e \in Edges(k)
    BY <2>1, <1>5, Zenon
  <2>3. e[1] \in References(k) \cup {k} /\ e[3] \in References(k) \cup {k}
    BY <1>4, <2>2, ReferencesAreNodes, Zenon
  <2> QED
    BY <2>1, <2>3, Zenon
<1> HIDE DEF new, ends
<1>8. node' \in [Nodes -> States \cup {"placeholder"}]
  <2>1. \A r \in Nodes : /\ r \in Held(p) => loaded[p][r] \in States
                         /\ node[r] \in States \cup {"placeholder"}
    BY <1>2, <1>4 DEF States
  <2> QED
    BY <1>3, <2>1, Zenon
<1>9. \A r \in Nodes : node'[r] = IF r \in Held(p) THEN loaded[p][r]
                                  ELSE IF r \in ends /\ node[r] = "absent" THEN "placeholder" ELSE node[r]
    BY <1>3, Zenon
<1>10. \A r \in Nodes : r \in ends => node'[r] # "absent"
    BY <1>2, <1>9
<1>11. ASSUME NEW k \in Held(p), NEW e \in Edges(k) PROVE node'[e[1]] # "absent" /\ node'[e[3]] # "absent"
  <2>1. e[1] \in Nodes /\ e[3] \in Nodes
    BY <1>4, EdgeEnds, Zenon
  <2> QED
    BY <1>6, <1>10, <2>1, Zenon
<1>12. edge' \subseteq UNION {Edges(r) : r \in Rows}
    BY <1>3, <1>4, <1>5, Zenon
<1>13. \A r \in Nodes : r \in Held(p) => node'[r] = loaded[p][r]
    BY <1>9, Zenon
<1>14. ASSUME NEW r \in Nodes \ Held(p)
       PROVE  \/ node'[r] = node[r]
              \/ /\ node[r] = "absent" /\ node'[r] = "placeholder"
                 /\ \E k \in Held(p) : r \in References(k) \cup {k}
    BY <1>7, <1>9, Zenon
<1> QED
    BY <1>3, <1>5, <1>6, <1>8, <1>11, <1>12, <1>13, <1>14, Zenon

\* Rows that are projected stay so.
LEMMA ApplyKeepsProjected ==
    ASSUME GraphInv, NEW p \in Projectors, ApplyRows(p), NEW r \in Rows
    PROVE  /\ Projected(r) => Projected(r)'
           /\ r \in Held(p) => Projected(r)'
<1>1. /\ edge \subseteq edge'
      /\ \A k \in Held(p) : Edges(k) \subseteq edge'
      /\ \A k \in Nodes : k \in Held(p) => node'[k] = loaded[p][k]
      /\ \A k \in Nodes \ Held(p) : node'[k] = node[k] \/ node[k] = "absent"
    BY ApplyGraph, Zenon
<1>2. \A k \in Held(p) : loaded[p][k] \notin {"absent", "placeholder"}
  <2>1. loaded[p] \in [Held(p) -> {"stored", "closed"}]
    BY Zenon DEF ApplyRows, GraphInv, ProjectorOK
  <2> QED
    BY <2>1
<1> QED
    BY <1>1, <1>2, Zenon DEF Projected

LEMMA ApplyInv ==
    ASSUME GraphInv, NEW p \in Projectors, ApplyRows(p)
    PROVE  GraphInv'
<1>0. GraphTypeOK /\ RowsOK /\ GraphSound /\ NothingMissed /\ \A q \in Projectors : ProjectorOK(q)
    BY Zenon DEF GraphInv
<1>1. /\ UNCHANGED <<row, todo, nextId, graphOutbox, graphClaimed, loaded, graphFaults>>
      /\ phase[p] = "loaded" /\ phase' = [phase EXCEPT ![p] = "applied"]
    BY Zenon DEF ApplyRows, pgVars
<1>2. /\ phase' \in [Projectors -> {"idle", "claimed", "loaded", "applied"}]
      /\ phase'[p] = "applied"
      /\ \A q \in Projectors \ {p} : phase'[q] = phase[q]
    BY <1>0, <1>1, Zenon DEF GraphTypeOK
<1>3. GraphTypeOK'
    BY <1>0, <1>1, <1>2, ApplyGraph, Zenon DEF GraphTypeOK
<1>4. RowsOK'
    BY <1>0, <1>1, Zenon DEF RowsOK
<1>5. \A q \in Projectors : Held(q)' = Held(q)
    BY <1>1, Zenon DEF Held
<1>6. \A q \in Projectors : Held(q) \subseteq Rows
  <2>1. \A q \in Projectors : graphClaimed[q] \subseteq Nat \X Rows
    BY <1>0, Zenon DEF GraphTypeOK
  <2> QED
    BY <2>1 DEF Held
<1>7. \A r \in Held(p) : row[r] # "absent" /\ \A k \in References(r) : row[k] # "absent"
  <2>1. \A r \in Held(p) : row[r] # "absent"
    BY <1>0, Zenon DEF Held, ProjectorOK, RowsOK
  <2> QED
    BY <1>0, <1>6, <2>1, Zenon DEF RowsOK
<1>8. GraphSound'
  <2>1. ASSUME NEW e \in edge' PROVE \E r \in Rows : row[r] # "absent" /\ e \in Edges(r)
    BY <1>0, <1>6, <1>7, ApplyGraph, ZenonT(40) DEF GraphSound
  <2>2. ASSUME NEW r \in Nodes PROVE node[r] # "absent" => node'[r] # "absent"
    <3>1. r \in Held(p) => node'[r] \in {"stored", "closed"}
      <4>1. loaded[p] \in [Held(p) -> {"stored", "closed"}]
        BY <1>0, <1>1, Zenon DEF ProjectorOK
      <4> QED
        BY <4>1, ApplyGraph, Zenon
    <3>2. r \notin Held(p) => node'[r] = node[r] \/ node[r] = "absent"
        BY ApplyGraph, Zenon
    <3> QED
        BY <3>1, <3>2
  <2>3. ASSUME NEW e \in edge' PROVE node'[e[1]] # "absent" /\ node'[e[3]] # "absent"
    <3>1. CASE e \in edge
      <4>1. PICK r \in Rows : e \in Edges(r)
        BY <1>0, <3>1, Zenon DEF GraphSound
      <4>2. e[1] \in Nodes /\ e[3] \in Nodes
        BY <4>1, EdgeEnds, Zenon
      <4> QED
        BY <1>0, <2>2, <3>1, <4>2, Zenon DEF GraphSound
    <3>2. CASE \E r \in Held(p) : e \in Edges(r)
        BY <3>2, ApplyGraph, Zenon
    <3> QED
        BY <3>1, <3>2, ApplyGraph, Zenon
  <2>4. ASSUME NEW r \in Nodes
        PROVE  (node'[r] # "absent" => row[r] # "absent") /\ (node'[r] = "closed" => row[r] = "closed")
    <3>1. CASE r \in Held(p)
      <4>1. loaded[p][r] = "closed" => row[r] = "closed"
        BY <1>0, <1>1, <3>1, Zenon DEF ProjectorOK
      <4> QED
        BY <1>7, <3>1, <4>1, ApplyGraph, Zenon
    <3>2. CASE node'[r] = node[r]
        BY <1>0, <3>2, Zenon DEF GraphSound
    <3>3. CASE node'[r] = "placeholder" /\ \E k \in Held(p) : r \in References(k) \cup {k}
        BY <1>7, <3>3
    <3> QED
        BY <3>1, <3>2, <3>3, ApplyGraph, Zenon
  <2> QED
    BY <1>1, <2>1, <2>3, <2>4, Zenon DEF GraphSound
<1>9. NothingMissed'
    BY <1>0, <1>1, ApplyKeepsProjected, Zenon DEF NothingMissed, HasEvent
<1>10. ASSUME NEW q \in Projectors PROVE ProjectorOK(q)'
  <2>1. ProjectorOK(q)
    BY <1>0, Zenon
  <2>2. phase'[q] \in {"loaded", "applied"} => phase[q] \in {"loaded", "applied"}
    BY <1>1, <1>2, Zenon
  <2>3. ASSUME phase'[q] = "applied", NEW r \in Held(q) PROVE Projected(r)'
    <3>1. r \in Rows
        BY <1>6, Zenon
    <3>2. CASE q = p
        BY <3>1, <3>2, ApplyKeepsProjected, Zenon
    <3>3. CASE q # p
      <4>1. Projected(r)
        BY <1>2, <2>1, <2>3, <3>3, Zenon DEF ProjectorOK
      <4> QED
        BY <3>1, <4>1, ApplyKeepsProjected, Zenon
    <3> QED
        BY <3>2, <3>3, Zenon
  <2> QED
    BY <1>1, <1>5, <2>1, <2>2, <2>3, Zenon DEF ProjectorOK
<1> QED
    BY <1>3, <1>4, <1>8, <1>9, <1>10, Zenon DEF GraphInv


\* A projector that gives up its events, without more being deleted than it holds.
LEMMA ReleaseInv ==
    ASSUME GraphInv, NEW p \in Projectors, Release(p), UNCHANGED <<row, todo, nextId, node, edge>>,
           graphFaults' \in Nat,
           graphOutbox' = graphOutbox \/ (phase[p] = "applied" /\ graphOutbox' = graphOutbox \ graphClaimed[p])
    PROVE  GraphInv'
<1>0. GraphTypeOK /\ RowsOK /\ GraphSound /\ NothingMissed /\ \A q \in Projectors : ProjectorOK(q)
    BY Zenon DEF GraphInv
<1>1. /\ phase' = [phase EXCEPT ![p] = "idle"]
      /\ loaded' = [loaded EXCEPT ![p] = NoRows]
      /\ graphClaimed' = [graphClaimed EXCEPT ![p] = {}]
    BY Zenon DEF Release
<1>2. /\ phase' \in [Projectors -> {"idle", "claimed", "loaded", "applied"}]
      /\ DOMAIN loaded' = Projectors
      /\ graphClaimed' \in [Projectors -> SUBSET (Nat \X Rows)]
      /\ phase'[p] = "idle" /\ graphClaimed'[p] = {}
      /\ \A q \in Projectors \ {p} :
            loaded'[q] = loaded[q] /\ phase'[q] = phase[q] /\ graphClaimed'[q] = graphClaimed[q]
    BY <1>0, <1>1, Zenon DEF GraphTypeOK
<1>3. graphOutbox' \subseteq graphOutbox /\ \A e \in graphOutbox \ graphOutbox' : phase[p] = "applied" /\ e \in graphClaimed[p]
    BY Zenon
<1>4. GraphTypeOK'
    BY <1>0, <1>2, <1>3, Zenon DEF GraphTypeOK
<1>5. RowsOK' /\ GraphSound'
    BY <1>0, <1>3, Zenon DEF RowsOK, GraphSound
<1>6. \A r : Projected(r)' <=> Projected(r)
    BY Zenon DEF Projected
<1>7. NothingMissed'
  <2>1. ASSUME NEW r \in Rows, row[r] # "absent", ~HasEvent(r)' PROVE Projected(r)
    <3>1. CASE HasEvent(r)
      <4>1. PICK e \in graphOutbox : e[2] = r
        BY <3>1, Zenon DEF HasEvent
      <4>2. phase[p] = "applied" /\ e \in graphClaimed[p]
        BY <1>3, <2>1, <4>1, Zenon DEF HasEvent
      <4>3. r \in Held(p)
        BY <4>1, <4>2, Zenon DEF Held
      <4> QED
        BY <1>0, <4>2, <4>3, Zenon DEF ProjectorOK
    <3>2. CASE ~HasEvent(r)
        BY <1>0, <2>1, <3>2, Zenon DEF NothingMissed
    <3> QED
        BY <3>1, <3>2, Zenon
  <2> QED
    BY <1>6, <2>1, Zenon DEF NothingMissed
<1>8. ProjectorOK(p)'
    BY <1>2 DEF ProjectorOK
<1>9. ASSUME NEW q \in Projectors, q # p PROVE ProjectorOK(q)'
  <2>1. ProjectorOK(q) /\ q \in Projectors \ {p}
    BY <1>0, <1>9, Zenon
  <2>2. /\ loaded'[q] = loaded[q] /\ phase'[q] = phase[q] /\ graphClaimed'[q] = graphClaimed[q]
        /\ Held(q)' = Held(q)
    BY <1>2, <2>1, Zenon DEF Held
  <2>3. graphClaimed[q] \subseteq graphOutbox'
    BY <1>3, <1>9, <2>1, Zenon DEF ProjectorOK
  <2>4. \A u \in Projectors : graphClaimed'[u] \subseteq graphClaimed[u]
    BY <1>2, Zenon
  <2>5. \A u \in Projectors \ {q} : graphClaimed'[q] \cap graphClaimed'[u] = {}
    BY <2>1, <2>2, <2>4, Zenon DEF ProjectorOK
  <2> QED
    BY <1>6, <2>1, <2>2, <2>3, <2>5, Zenon DEF ProjectorOK
<1> QED
    BY <1>4, <1>5, <1>7, <1>8, <1>9, Zenon DEF GraphInv

LEMMA GraphNextInv == GraphInv /\ [GraphNext]_projectionVars => GraphInv'
<1> SUFFICES ASSUME GraphInv, [GraphNext]_projectionVars PROVE GraphInv'
    OBVIOUS
<1>1. ASSUME NEW p \in Projectors, Delete(p) PROVE GraphInv'
  <2>1. /\ Release(p) /\ UNCHANGED <<row, todo, nextId, node, edge>> /\ phase[p] = "applied"
        /\ graphOutbox' = graphOutbox \ graphClaimed[p] /\ graphFaults' = graphFaults
    BY <1>1, Zenon DEF Delete, pgVars, graphVars
  <2>2. graphFaults' \in Nat
    BY <2>1, Zenon DEF GraphInv, GraphTypeOK
  <2> QED
    BY <2>1, <2>2, ReleaseInv, Zenon
<1>2. ASSUME NEW p \in Projectors, ProjectorFails(p) PROVE GraphInv'
  <2>1. /\ Release(p) /\ UNCHANGED <<row, todo, nextId, node, edge>> /\ graphOutbox' = graphOutbox
    BY <1>2, Zenon DEF ProjectorFails, pgVars, graphVars
  <2>2. graphFaults' \in Nat
    BY <1>2 DEF ProjectorFails, GraphInv, GraphTypeOK
  <2> QED
    BY <2>1, <2>2, ReleaseInv, Zenon
<1>3. ASSUME NEW p \in Projectors, NoEvents(p) PROVE UNCHANGED graphState
    BY <1>3, Zenon DEF NoEvents, projectionVars, pgVars, graphVars, projectorVars, graphState
<1>4. ASSUME ReaderNext PROVE UNCHANGED graphState
    BY <1>4, Zenon DEF ReaderNext, Ask, RequireNode, ReadGraph, ReadSuccessors, Respond,
                       pgVars, graphVars, projectorVars, graphState
<1>5. ASSUME UNCHANGED projectionVars PROVE UNCHANGED graphState
    BY <1>5, Zenon DEF projectionVars, pgVars, graphVars, projectorVars, graphState
<1> QED
    BY <1>1, <1>2, <1>3, <1>4, <1>5, GraphStutter, CommitInv, ClaimInv, LoadInv, ApplyInv, Zenon
    DEF GraphNext, ProjectorNext

LEMMA GraphInvariance == GraphSpec => []GraphInv
BY GraphInitInv, GraphNextInv, PTL DEF GraphSpec

\* However many projectors run and whatever fails, the graph asserts nothing that
\* PostgreSQL does not have, and a row without a pending event is projected.
THEOREM GraphAlwaysSound == GraphSpec => [](GraphSound /\ NothingMissed)
<1>1. GraphInv => GraphSound /\ NothingMissed
    BY Zenon DEF GraphInv
<1> QED
    BY <1>1, GraphInvariance, PTL

-----------------------------------------------------------------------------
(* GraphProjector: a single projector.                                     *)

LEMMA ExactCommit ==
    ASSUME GraphInv, NEW p \in Projectors, QuietMeansExact, ProjectorExact(p),
           NEW t \in Txns, CommitTransaction(t)
    PROVE  QuietMeansExact' /\ ProjectorExact(p)'
<1>1. UNCHANGED <<node, phase, graphClaimed, loaded>>
    BY Zenon DEF CommitTransaction, graphVars, projectorVars
<1>2. /\ graphOutbox \subseteq graphOutbox'
      /\ \A r \in Rows : row'[r] # row[r] => \E e \in graphOutbox' : e[2] = r /\ e[1] >= nextId
    BY CommitEvents, Zenon
<1>3. /\ graphClaimed[p] \subseteq graphOutbox /\ graphOutbox \subseteq Nat \X Rows /\ nextId \in Nat
      /\ \A e \in graphOutbox : e[1] < nextId
    BY Zenon DEF GraphInv, GraphTypeOK, RowsOK, ProjectorOK
<1>4. Held(p)' = Held(p) /\ Held(p) \subseteq Rows
  <2>1. Held(p)' = Held(p)
    BY <1>1, Zenon DEF Held
  <2> QED
    BY <1>3, <2>1 DEF Held
<1>5. QuietMeansExact'
  <2>1. ASSUME NEW r \in Nodes, ~HasEvent(r)' PROVE node'[r] = row'[r]
    <3>1. r \in Rows /\ row'[r] = row[r] /\ ~HasEvent(r)
        BY <1>2, <2>1, NodesAreRows, Zenon DEF HasEvent
    <3> QED
        BY <1>1, <3>1, Zenon DEF QuietMeansExact
  <2> QED
    BY <2>1, Zenon DEF QuietMeansExact
<1>6. ASSUME phase[p] \in {"loaded", "applied"}, NEW r \in Held(p)
      PROVE  loaded[p][r] = row'[r] \/ \E e \in graphOutbox' \ graphClaimed[p] : e[2] = r
  <2>1. CASE row'[r] = row[r]
    BY <1>2, <1>6, <2>1, Zenon DEF ProjectorExact
  <2>2. CASE row'[r] # row[r]
    <3>1. PICK e \in graphOutbox' : e[2] = r /\ e[1] >= nextId
        BY <1>2, <1>4, <2>2, Zenon
    <3>2. e \notin graphClaimed[p]
        BY <1>3, <3>1
    <3> QED
        BY <3>1, <3>2, Zenon
  <2> QED
    BY <2>1, <2>2, Zenon
<1> QED
    BY <1>1, <1>4, <1>5, <1>6, Zenon DEF ProjectorExact

LEMMA ExactApply ==
    ASSUME GraphInv, NEW p \in Projectors, QuietMeansExact, ProjectorExact(p), ApplyRows(p)
    PROVE  QuietMeansExact' /\ ProjectorExact(p)'
<1>1. /\ UNCHANGED <<row, graphOutbox, graphClaimed, loaded>> /\ phase[p] = "loaded"
    BY Zenon DEF ApplyRows, pgVars
<1>2. /\ \A r \in Nodes : r \in Held(p) => node'[r] = loaded[p][r]
      /\ \A r \in Nodes \ Held(p) :
            \/ node'[r] = node[r]
            \/ node[r] = "absent" /\ \E k \in Held(p) : r \in References(k) \cup {k}
    BY ApplyGraph, Zenon
<1>3. Held(p)' = Held(p) /\ \A r : HasEvent(r)' <=> HasEvent(r)
    BY <1>1, Zenon DEF Held, HasEvent
<1>4. \A k \in Held(p) : HasEvent(k) /\ k \in Rows /\ row[k] # "absent"
  <2>1. ASSUME NEW k \in Held(p) PROVE HasEvent(k) /\ k \in Rows /\ row[k] # "absent"
    <3>1. PICK e \in graphClaimed[p] : e[2] = k
        BY Zenon DEF Held
    <3>2. e \in graphOutbox /\ graphOutbox \subseteq Nat \X Rows
        BY <3>1, Zenon DEF GraphInv, GraphTypeOK, ProjectorOK
    <3>3. k \in Rows
        BY <3>1, <3>2
    <3>4. row[k] # "absent"
        BY <3>1, <3>2, Zenon DEF GraphInv, RowsOK
    <3> QED
        BY <3>1, <3>2, <3>3, <3>4, Zenon DEF HasEvent
  <2> QED
    BY <2>1, Zenon
<1>5. ASSUME NEW r \in Nodes, ~HasEvent(r) PROVE node'[r] = row[r]
  <2>1. r \notin Held(p) /\ r \in Rows /\ node[r] = row[r]
    BY <1>4, <1>5, NodesAreRows, Zenon DEF QuietMeansExact
  <2>2. \A k \in Held(p) : r \in References(k) \cup {k} => row[r] # "absent"
    BY <1>4, Zenon DEF GraphInv, RowsOK
  <2> QED
    BY <1>2, <2>1, <2>2, Zenon
<1> QED
    BY <1>1, <1>2, <1>3, <1>5, Zenon DEF QuietMeansExact, ProjectorExact

LEMMA ExactDelete ==
    ASSUME GraphInv, NEW p \in Projectors, QuietMeansExact, ProjectorExact(p), Delete(p)
    PROVE  QuietMeansExact' /\ ProjectorExact(p)'
<1>1. /\ UNCHANGED <<row, node>> /\ graphOutbox' = graphOutbox \ graphClaimed[p] /\ phase[p] = "applied"
      /\ phase' = [phase EXCEPT ![p] = "idle"]
    BY Zenon DEF Delete, Release, pgVars, graphVars
<1>2. ASSUME NEW r \in Nodes, ~HasEvent(r)' PROVE node[r] = row[r]
  <2>1. \A e \in graphOutbox \ graphClaimed[p] : e[2] # r
    BY <1>1, <1>2, Zenon DEF HasEvent
  <2>2. CASE ~HasEvent(r)
    BY <2>2, Zenon DEF QuietMeansExact
  <2>3. CASE r \in Held(p)
    BY <1>1, <2>1, <2>3, Zenon DEF ProjectorExact
  <2> QED
    BY <2>1, <2>2, <2>3, Zenon DEF HasEvent, Held
<1>3. phase'[p] \notin {"loaded", "applied"}
  <2>1. phase'[p] = "idle"
    BY <1>1, Zenon DEF GraphInv, GraphTypeOK
  <2> QED
    BY <2>1
<1> QED
    BY <1>1, <1>2, <1>3, Zenon DEF QuietMeansExact, ProjectorExact

LEMMA ExactRead ==
    ASSUME GraphInv, NEW p \in Projectors, QuietMeansExact, ProjectorExact(p),
           Claim(p) \/ Load(p) \/ ProjectorFails(p) \/ UNCHANGED graphState
    PROVE  QuietMeansExact' /\ ProjectorExact(p)'
<1>1. UNCHANGED <<row, node, graphOutbox>>
    BY Zenon DEF Claim, Load, ProjectorFails, pgVars, graphVars, graphState
<1>2. QuietMeansExact'
    BY <1>1, Zenon DEF QuietMeansExact, HasEvent
<1>3. phase \in [Projectors -> {"idle", "claimed", "loaded", "applied"}] /\ DOMAIN loaded = Projectors
    BY Zenon DEF GraphInv, GraphTypeOK
<1>4. CASE Claim(p)
  <2>1. phase'[p] = "claimed"
    BY <1>3, <1>4, Zenon DEF Claim
  <2> QED
    BY <1>2, <2>1 DEF ProjectorExact
<1>5. CASE Load(p)
  <2>1. phase'[p] = "loaded" /\ loaded'[p] = [r \in Held(p) |-> row[r]] /\ Held(p)' = Held(p)
    BY <1>3, <1>5, Zenon DEF Load, Held
  <2>2. \A r \in Held(p)' : loaded'[p][r] = row'[r]
    BY <1>1, <2>1, Zenon
  <2>3. phase'[p] # "applied"
    BY <2>1
  <2> QED
    BY <1>2, <2>2, <2>3, Zenon DEF ProjectorExact
<1>6. CASE ProjectorFails(p)
  <2>1. phase'[p] = "idle"
    BY <1>3, <1>6, Zenon DEF ProjectorFails, Release
  <2> QED
    BY <1>2, <2>1 DEF ProjectorExact
<1>7. CASE UNCHANGED graphState
    BY <1>2, <1>7, Zenon DEF ProjectorExact, Held, graphState
<1> QED
    BY <1>4, <1>5, <1>6, <1>7, Zenon

\* With one projector, whatever fails and whatever writers commit meanwhile, a
\* row without a pending event is in the graph with its current contents.  (Two
\* projectors do not keep this: see AlwaysCurrent.)
THEOREM QuietGraphExact ==
    ASSUME NEW p, Projectors = {p}
    PROVE  GraphSpec => []QuietMeansExact
<1> DEFINE Exact == QuietMeansExact /\ ProjectorExact(p)
<1>1. GraphInit => Exact
  <2> SUFFICES ASSUME GraphInit PROVE QuietMeansExact /\ ProjectorExact(p)
    OBVIOUS
  <2>1. GraphInv
    BY GraphInitInv
  <2>2. QuietMeansExact
    <3>1. \A r \in Nodes : node[r] = "absent" /\ r \in Rows
        BY NodesAreRows, Zenon DEF GraphInit
    <3>2. \A r \in Rows : row[r] # "absent" => HasEvent(r)
      <4> SUFFICES ASSUME NEW r \in Rows, row[r] # "absent", ~HasEvent(r) PROVE FALSE
        BY Zenon
      <4>1. PICK i \in DOMAIN Existing : Existing[i] = r
        BY Zenon DEF GraphInit
      <4>2. Existing \in Seq(Rows) /\ 1 \in Nat
        BY ProjectorAssumption
      <4>3. \A j \in DOMAIN Existing : \E e \in OutboxEvents(1, Existing) : e[2] = Existing[j]
        BY <4>2, EventsOfKeys, Zenon
      <4> QED
        BY <4>1, <4>3, Zenon DEF GraphInit, HasEvent
    <3> QED
        BY <3>1, <3>2, Zenon DEF QuietMeansExact
  <2>3. phase[p] = "idle"
    BY Zenon DEF GraphInit
  <2> QED
    BY <2>2, <2>3 DEF ProjectorExact
<1>2. GraphInv /\ Exact /\ [GraphNext]_projectionVars => Exact'
  <2> SUFFICES ASSUME GraphInv, QuietMeansExact, ProjectorExact(p), [GraphNext]_projectionVars
               PROVE  QuietMeansExact' /\ ProjectorExact(p)'
    OBVIOUS
  <2>1. ASSUME NoEvents(p) \/ ReaderNext \/ UNCHANGED projectionVars PROVE UNCHANGED graphState
    BY <2>1, Zenon DEF NoEvents, ReaderNext, Ask, RequireNode, ReadGraph, ReadSuccessors, Respond,
                       projectionVars, pgVars, graphVars, projectorVars, graphState
  <2>2. p \in Projectors /\ \A q \in Projectors : q = p
    BY Zenon
  <2> QED
    BY <2>1, <2>2, ExactCommit, ExactApply, ExactDelete, ExactRead, Zenon DEF GraphNext, ProjectorNext
<1>3. Exact => QuietMeansExact
    BY Zenon
<1> HIDE DEF Exact
<1> QED
    BY <1>1, <1>2, <1>3, GraphInvariance, PTL DEF GraphSpec

-----------------------------------------------------------------------------
(* GraphProjector: what the traversals find.                               *)

\* A relationship as a row of a traversal sees it.
EdgesFollowed ==
    \A e \in edge : e[1] \in From(e[2], e[3]) /\ e[3] \in To(e[1], e[2])

\* The versions and decisions of each question, in terms of relationships.
FoundForVersion ==
    \A v, d : d \in FoundDecisions("version", v) <=>
        /\ d # NULL
        /\ \/ d \in From("RELIED_ON", v)
           \/ \E n \in From("INCLUDED", v) : d \in From("BASED_ON", n)

FoundForSource ==
    \A s, v : v \in FoundVersions("source", s) <=>
        \/ v \in From("ASSERTED_BY", s)
        \/ \E x \in From("FROM_SOURCE", s) : v \in To(x, "SUPPORTS")

FoundForEvidence ==
    \A x, v : v \in FoundVersions("evidence", x) <=> v \in To(x, "SUPPORTS") \/ v \in To(x, "CONTRADICTS")

FoundThrough(kind) ==
    \A k, d : d \in FoundDecisions(kind, k) <=>
        d # NULL /\ \E v \in FoundVersions(kind, k) : d \in From("RELIED_ON", v)

FoundForDecision ==
    \A d, v : v \in FoundVersions("decision", d) <=>
        /\ v \in To(d, "RELIED_ON")
        /\ To(v, "ASSERTED_BY") # {}
        /\ \E f \in To(v, "VERSION_OF") : To(f, "OF_ENTITY") # {}

FoundMeaning ==
    /\ FoundForVersion /\ FoundForSource /\ FoundForEvidence /\ FoundForDecision
    /\ FoundThrough("source") /\ FoundThrough("evidence")
    /\ \A k : FoundVersions("version", k) = {k} /\ FoundDecisions("decision", k) = {}

LEMMA TupleParts == \A a, b, c : <<a, b, c>>[1] = a /\ <<a, b, c>>[2] = b /\ <<a, b, c>>[3] = c
OBVIOUS

LEMMA ForVersion == FoundForVersion
<1> SUFFICES ASSUME NEW v, NEW d
             PROVE  d \in FoundDecisions("version", v) <=>
                        /\ d # NULL
                        /\ \/ d \in From("RELIED_ON", v)
                           \/ \E n \in From("INCLUDED", v) : d \in From("BASED_ON", n)
    BY Zenon DEF FoundForVersion
<1> DEFINE relied == From("RELIED_ON", v)
           context == UNION {From("BASED_ON", n) : n \in From("INCLUDED", v)}
           found == {<<v, "relied_on", x>> : x \in relied} \cup {<<v, "in_context", x>> : x \in context \ relied}
<1>1. FoundDecisions("version", v) = {r[3] : r \in found} \ {NULL}
    BY DEF FoundDecisions, Traverse, GroupDecisions, ImpactOfVersion
<1>2. d \in context <=> \E n \in From("INCLUDED", v) : d \in From("BASED_ON", n)
    BY Zenon
<1> HIDE DEF relied, context
<1>3. d \in {r[3] : r \in found} <=> d \in relied \/ d \in context
  <2>1. /\ d \in relied => <<v, "relied_on", d>> \in found
        /\ d \in context \ relied => <<v, "in_context", d>> \in found
    BY Zenon
  <2>2. <<v, "relied_on", d>>[3] = d /\ <<v, "in_context", d>>[3] = d
    OBVIOUS
  <2>3. ASSUME NEW r \in found PROVE r[3] \in relied \/ r[3] \in context
    <3>1. CASE \E x \in relied : r = <<v, "relied_on", x>>
        BY <3>1
    <3>2. CASE \E x \in context \ relied : r = <<v, "in_context", x>>
        BY <3>2
    <3> QED
        BY <3>1, <3>2, Zenon
  <2> HIDE DEF found
  <2> QED
    BY <2>1, <2>2, <2>3, Zenon
<1> QED
    BY <1>1, <1>2, <1>3, Zenon DEF relied

\* WithDecisions keeps every pair, with its decisions or with none.
LEMMA PairsKept ==
    \A ps :
        /\ \A r \in WithDecisions(ps) : \E q \in ps : r[1] = q[1]
        /\ \A q \in ps : \E r \in WithDecisions(ps) : r[1] = q[1]
        /\ \A d : d # NULL =>
              ((\E r \in WithDecisions(ps) : d = r[3]) <=> \E q \in ps : d \in From("RELIED_ON", q[1]))
<1> TAKE ps
<1> DEFINE ds(v) == IF From("RELIED_ON", v) = {} THEN {NULL} ELSE From("RELIED_ON", v)
<1>1. WithDecisions(ps) = UNION {{<<q[1], q[2], d>> : d \in ds(q[1])} : q \in ps}
    BY Zenon DEF WithDecisions
<1>2. \A v : (\E d : d \in ds(v)) /\ \A d : d # NULL => (d \in ds(v) <=> d \in From("RELIED_ON", v))
    BY Zenon
<1> HIDE DEF ds
<1>3. \A r : r \in WithDecisions(ps) <=> \E q \in ps : \E d \in ds(q[1]) : r = <<q[1], q[2], d>>
    BY <1>1
<1>4. ASSUME NEW q \in ps PROVE \E r \in WithDecisions(ps) : r[1] = q[1]
  <2>1. PICK d : d \in ds(q[1])
    BY <1>2, Zenon
  <2>2. <<q[1], q[2], d>> \in WithDecisions(ps)
    BY <1>3, <2>1, Zenon
  <2> QED
    BY <2>2, TupleParts, Zenon
<1>5. ASSUME NEW r \in WithDecisions(ps)
      PROVE  \E q \in ps : r[1] = q[1] /\ (r[3] # NULL => r[3] \in From("RELIED_ON", q[1]))
  <2>1. PICK q \in ps : \E d \in ds(q[1]) : r = <<q[1], q[2], d>>
    BY <1>3, Zenon
  <2>2. PICK d \in ds(q[1]) : r = <<q[1], q[2], d>>
    BY <2>1, Zenon
  <2>3. r[1] = q[1] /\ r[3] = d
    BY <2>2, TupleParts, Zenon
  <2> QED
    BY <1>2, <2>3, Zenon
<1>6. ASSUME NEW q \in ps, NEW d \in From("RELIED_ON", q[1]), d # NULL
      PROVE  \E r \in WithDecisions(ps) : r[3] = d
  <2>1. <<q[1], q[2], d>> \in WithDecisions(ps)
    BY <1>2, <1>3, <1>6, Zenon
  <2> QED
    BY <2>1, TupleParts, Zenon
<1> QED
    BY <1>4, <1>5, <1>6, Zenon

LEMMA ForSource == FoundForSource
<1> SUFFICES ASSUME NEW s, NEW v
             PROVE  v \in FoundVersions("source", s) <=>
                        \/ v \in From("ASSERTED_BY", s)
                        \/ \E x \in From("FROM_SOURCE", s) : v \in To(x, "SUPPORTS")
    BY Zenon DEF FoundForSource
<1> DEFINE asserted == From("ASSERTED_BY", s)
           supported == UNION {To(x, "SUPPORTS") : x \in From("FROM_SOURCE", s)}
           pairs == {<<w, "asserted_by_source">> : w \in asserted} \cup
                    {<<w, "supported_by_source_evidence">> : w \in supported}
<1>1. FoundVersions("source", s) = {r[1] : r \in WithDecisions(pairs)}
    BY DEF FoundVersions, GroupVersions, Traverse, ImpactOfSource
<1>2. v \in supported <=> \E x \in From("FROM_SOURCE", s) : v \in To(x, "SUPPORTS")
    BY Zenon
<1> HIDE DEF asserted, supported
<1>3. (\E q \in pairs : v = q[1]) <=> v \in asserted \/ v \in supported
  <2>1. /\ v \in asserted => <<v, "asserted_by_source">> \in pairs
        /\ v \in supported => <<v, "supported_by_source_evidence">> \in pairs
    BY Zenon
  <2>2. <<v, "asserted_by_source">>[1] = v /\ <<v, "supported_by_source_evidence">>[1] = v
    OBVIOUS
  <2>3. ASSUME NEW q \in pairs PROVE q[1] \in asserted \/ q[1] \in supported
    OBVIOUS
  <2> HIDE DEF pairs
  <2> QED
    BY <2>1, <2>2, <2>3, Zenon
<1> HIDE DEF pairs
<1>4. v \in {r[1] : r \in WithDecisions(pairs)} <=> \E q \in pairs : v = q[1]
  <2>1. v \in {r[1] : r \in WithDecisions(pairs)} <=> \E r \in WithDecisions(pairs) : v = r[1]
    BY Zenon
  <2>2. /\ \A r \in WithDecisions(pairs) : \E q \in pairs : r[1] = q[1]
        /\ \A q \in pairs : \E r \in WithDecisions(pairs) : r[1] = q[1]
    BY PairsKept, Zenon
  <2> QED
    BY <2>1, <2>2, Zenon
<1>5. v \in FoundVersions("source", s) <=> v \in {r[1] : r \in WithDecisions(pairs)}
    BY <1>1, Zenon
<1> QED
    BY <1>2, <1>3, <1>4, <1>5, Zenon DEF asserted


LEMMA ForEvidence == FoundForEvidence
<1> SUFFICES ASSUME NEW x, NEW v
             PROVE  v \in FoundVersions("evidence", x) <=> v \in To(x, "SUPPORTS") \/ v \in To(x, "CONTRADICTS")
    BY Zenon DEF FoundForEvidence
<1> DEFINE pairs == UNION {{<<w, relation>> : w \in To(x, relation)} : relation \in {"SUPPORTS", "CONTRADICTS"}}
<1>1. FoundVersions("evidence", x) = {r[1] : r \in WithDecisions(pairs)}
    BY DEF FoundVersions, GroupVersions, Traverse, ImpactOfEvidence
<1>2. (\E q \in pairs : v = q[1]) <=> v \in To(x, "SUPPORTS") \/ v \in To(x, "CONTRADICTS")
  <2>1. \A relation \in {"SUPPORTS", "CONTRADICTS"} : v \in To(x, relation) => <<v, relation>> \in pairs
    BY Zenon
  <2>2. \A relation : <<v, relation>>[1] = v
    OBVIOUS
  <2>3. ASSUME NEW q \in pairs PROVE q[1] \in To(x, "SUPPORTS") \/ q[1] \in To(x, "CONTRADICTS")
    <3>1. PICK relation \in {"SUPPORTS", "CONTRADICTS"} : q \in {<<w, relation>> : w \in To(x, relation)}
        BY Zenon
    <3>2. q[1] \in To(x, relation)
        BY <3>1
    <3> QED
        BY <3>1, <3>2, Zenon
  <2> HIDE DEF pairs
  <2> QED
    BY <2>1, <2>2, <2>3, Zenon
<1> HIDE DEF pairs
<1>3. v \in {r[1] : r \in WithDecisions(pairs)} <=> \E r \in WithDecisions(pairs) : v = r[1]
    BY Zenon
<1>4. v \in FoundVersions("evidence", x) <=> v \in {r[1] : r \in WithDecisions(pairs)}
    BY <1>1, Zenon
<1>5. /\ \A r \in WithDecisions(pairs) : \E q \in pairs : r[1] = q[1]
      /\ \A q \in pairs : \E r \in WithDecisions(pairs) : r[1] = q[1]
    BY PairsKept, Zenon
<1> QED
    BY <1>2, <1>3, <1>4, <1>5, Zenon

\* The decisions found for a source or for evidence rely on the versions found.
LEMMA ThroughVersions == FoundThrough("source") /\ FoundThrough("evidence")
<1>1. ASSUME NEW kind \in {"source", "evidence"}, NEW k, NEW pairs, Traverse(kind, k) = WithDecisions(pairs), NEW d
      PROVE  d \in FoundDecisions(kind, k) <=>
                d # NULL /\ \E v \in FoundVersions(kind, k) : d \in From("RELIED_ON", v)
  <2>1. /\ FoundDecisions(kind, k) = {r[3] : r \in WithDecisions(pairs)} \ {NULL}
        /\ FoundVersions(kind, k) = {r[1] : r \in WithDecisions(pairs)}
    BY <1>1 DEF FoundDecisions, FoundVersions, GroupDecisions, GroupVersions
  <2>2. d \in FoundDecisions(kind, k) <=> d # NULL /\ \E r \in WithDecisions(pairs) : d = r[3]
    BY <2>1, Zenon
  <2>3. \A v : v \in FoundVersions(kind, k) <=> \E r \in WithDecisions(pairs) : v = r[1]
    BY <2>1, Zenon
  <2>4. /\ \A r \in WithDecisions(pairs) : \E q \in pairs : r[1] = q[1]
        /\ \A q \in pairs : \E r \in WithDecisions(pairs) : r[1] = q[1]
    BY PairsKept, Zenon
  <2>5. d # NULL => ((\E r \in WithDecisions(pairs) : d = r[3]) <=> \E q \in pairs : d \in From("RELIED_ON", q[1]))
    BY PairsKept, Zenon
  <2>6. (\E q \in pairs : d \in From("RELIED_ON", q[1])) <=> \E v \in FoundVersions(kind, k) : d \in From("RELIED_ON", v)
    <3>1. ASSUME NEW q \in pairs, d \in From("RELIED_ON", q[1])
          PROVE  \E v \in FoundVersions(kind, k) : d \in From("RELIED_ON", v)
      <4>1. PICK r \in WithDecisions(pairs) : r[1] = q[1]
        BY <2>4, Zenon
      <4>2. q[1] \in FoundVersions(kind, k)
        BY <2>3, <4>1, Zenon
      <4> QED
        BY <3>1, <4>2, Zenon
    <3>2. ASSUME NEW v \in FoundVersions(kind, k), d \in From("RELIED_ON", v)
          PROVE  \E q \in pairs : d \in From("RELIED_ON", q[1])
      <4>1. PICK r \in WithDecisions(pairs) : v = r[1]
        BY <2>3, Zenon
      <4>2. PICK q \in pairs : r[1] = q[1]
        BY <2>4, Zenon
      <4>3. v = q[1]
        BY <4>1, <4>2, Zenon
      <4> QED
        BY <3>2, <4>3, Zenon
    <3> QED
      BY <3>1, <3>2, Zenon
  <2> QED
    BY <2>2, <2>5, <2>6, Zenon
<1>2. \A k : \E pairs : Traverse("source", k) = WithDecisions(pairs)
    BY DEF Traverse, ImpactOfSource
<1>3. \A k : \E pairs : Traverse("evidence", k) = WithDecisions(pairs)
    BY DEF Traverse, ImpactOfEvidence
<1> QED
    BY <1>1, <1>2, <1>3, Zenon DEF FoundThrough

LEMMA ForDecision == FoundForDecision
<1> SUFFICES ASSUME NEW d, NEW v
             PROVE  v \in FoundVersions("decision", d) <=>
                        /\ v \in To(d, "RELIED_ON")
                        /\ To(v, "ASSERTED_BY") # {}
                        /\ \E f \in To(v, "VERSION_OF") : To(f, "OF_ENTITY") # {}
    BY Zenon DEF FoundForDecision
<1> DEFINE entities(w) == UNION {To(f, "OF_ENTITY") : f \in To(w, "VERSION_OF")}
           steps(w) == {LineageStep(w, s, e) : s \in To(w, "ASSERTED_BY"), e \in entities(w)}
<1>1. FoundVersions("decision", d) = {r[1] : r \in Lineage(d)}
    BY DEF FoundVersions, GroupVersions, Traverse
<1>2. Lineage(d) = UNION {steps(w) : w \in To(d, "RELIED_ON")}
    BY DEF Lineage
<1>3. \A w, s, e : LineageStep(w, s, e)[1] = w
    BY DEF LineageStep
<1>4. \A w : entities(w) # {} <=> \E f \in To(w, "VERSION_OF") : To(f, "OF_ENTITY") # {}
    BY Zenon
<1> HIDE DEF entities
<1>5. \A w : \A r \in steps(w) : r[1] = w /\ To(w, "ASSERTED_BY") # {} /\ entities(w) # {}
    BY <1>3
<1>6. \A w : To(w, "ASSERTED_BY") # {} /\ entities(w) # {} => \E r \in steps(w) : TRUE
    OBVIOUS
<1> HIDE DEF steps
<1>7. v \in FoundVersions("decision", d) <=> \E w \in To(d, "RELIED_ON") : \E r \in steps(w) : v = r[1]
    BY <1>1, <1>2, Zenon
<1> QED
    BY <1>4, <1>5, <1>6, <1>7, Zenon

LEMMA TraversalsFind == FoundMeaning
<1>1. \A k : FoundVersions("version", k) = {k} /\ FoundDecisions("decision", k) = {}
    BY DEF FoundVersions, FoundDecisions, GroupVersions, GroupDecisions
<1> QED
    BY <1>1, ForVersion, ForSource, ForEvidence, ForDecision, ThroughVersions, Zenon DEF FoundMeaning

LEMMA TraversalsFindNext == FoundMeaning'
BY TraversalsFind, PTL

-----------------------------------------------------------------------------
(* GraphProjector: what the rows of PostgreSQL assert.                     *)

\* The relationships of all stored rows: the graph once everything is projected.
Asserted == UNION {Edges(r) : r \in {x \in Rows : row[x] # "absent"}}

LEMMA AssertedByRow == \A e : e \in Asserted <=> \E r \in Rows : row[r] # "absent" /\ e \in Edges(r)
BY Zenon DEF Asserted

\* Relationships are triples.
LEMMA EdgeIsTriple ==
    ASSUME NEW r \in Rows, NEW e \in Edges(r)
    PROVE  e = <<e[1], e[2], e[3]>>
<1>1. \E a, b, c : e = <<a, b, c>>
    BY EdgeOfRow, Zenon
<1> QED
    BY <1>1

\* A step of a traversal follows one relationship.
LEMMA StepsAreEdges ==
    ASSUME GraphInv
    PROVE  \A a, type, b : /\ a \in From(type, b) <=> <<a, type, b>> \in edge
                           /\ b \in To(a, type) <=> <<a, type, b>> \in edge
<1>1. ASSUME NEW e \in edge PROVE e = <<e[1], e[2], e[3]>>
  <2>1. PICK r \in Rows : e \in Edges(r)
    BY Zenon DEF GraphInv, GraphTypeOK
  <2> QED
    BY <2>1, EdgeIsTriple, Zenon
<1> TAKE a, type, b
<1>2. <<a, type, b>> \in edge => a \in From(type, b) /\ b \in To(a, type)
  <2>1. <<a, type, b>>[1] = a /\ <<a, type, b>>[2] = type /\ <<a, type, b>>[3] = b
    BY TupleParts, Zenon
  <2> QED
    BY <2>1, Zenon DEF From, To
<1>3. ASSUME a \in From(type, b) PROVE <<a, type, b>> \in edge
  <2>1. PICK e \in edge : e[2] = type /\ e[3] = b /\ e[1] = a
    BY <1>3, Zenon DEF From
  <2> QED
    BY <1>1, <2>1, Zenon
<1>4. ASSUME b \in To(a, type) PROVE <<a, type, b>> \in edge
  <2>1. PICK e \in edge : e[2] = type /\ e[1] = a /\ e[3] = b
    BY <1>4, Zenon DEF To
  <2> QED
    BY <1>1, <2>1, Zenon
<1> QED
    BY <1>2, <1>3, <1>4, Zenon

\* The graph is part of what is asserted, and all of it when no event is pending.
LEMMA GraphAndRows ==
    ASSUME GraphInv
    PROVE  /\ edge \subseteq Asserted
           /\ graphOutbox = {} => /\ edge = Asserted
                                  /\ \A r \in Nodes : row[r] # "absent" => node[r] # "absent"
<1>1. edge \subseteq Asserted
    BY AssertedByRow, Zenon DEF GraphInv, GraphSound
<1>2. ASSUME graphOutbox = {}, NEW r \in Rows, row[r] # "absent" PROVE Projected(r)
    BY <1>2, Zenon DEF GraphInv, NothingMissed, HasEvent
<1>3. graphOutbox = {} => Asserted \subseteq edge
    BY <1>2, AssertedByRow, Zenon DEF Projected
<1>4. graphOutbox = {} => \A r \in Nodes : row[r] # "absent" => node[r] # "absent"
    BY <1>2, NodesAreRows, Zenon DEF Projected
<1> QED
    BY <1>1, <1>3, <1>4, Zenon

\* The ends of what is asserted are stored: foreign keys.
LEMMA AssertedEnds ==
    ASSUME GraphInv, NEW a, NEW type, NEW b, <<a, type, b>> \in Asserted
    PROVE  row[a] # "absent" /\ row[b] # "absent"
<1>1. PICK r \in Rows : row[r] # "absent" /\ <<a, type, b>> \in Edges(r)
    BY AssertedByRow, Zenon
<1>2. a \in References(r) \cup {r} /\ b \in References(r) \cup {r}
    BY <1>1, ReferencesAreNodes, TupleParts, Zenon
<1> QED
    BY <1>1, <1>2, Zenon DEF GraphInv, RowsOK

LEMMA TupleEqual ==
    \A a, b, c, x, y, z : <<a, b, c>> = <<x, y, z>> => a = x /\ b = y /\ c = z
OBVIOUS

\* The row behind a relationship of each type.
LEMMA RowBehind ==
    ASSUME NEW r \in Rows, NEW a, NEW type, NEW b, <<a, type, b>> \in Edges(r)
    PROVE  \/ r \in InTable("facts") /\ type = "OF_ENTITY" /\ a = r /\ b = Row[r].entity
           \/ r \in InTable("fact_versions") /\ type = "VERSION_OF" /\ a = r /\ b = Row[r].fact
           \/ r \in InTable("fact_versions") /\ type = "ASSERTED_BY" /\ a = r /\ b = Row[r].source
           \/ /\ r \in InTable("fact_versions") /\ type = "SUPERSEDES"
              /\ a = r /\ b = Row[r].supersedes /\ b # NULL
           \/ r \in InTable("evidence") /\ type = "FROM_SOURCE" /\ a = r /\ b = Row[r].source
           \/ /\ r \in InTable("fact_version_evidence") /\ type \in {"SUPPORTS", "CONTRADICTS"}
              /\ a = Row[r].evidence /\ type = Row[r].relation /\ b = Row[r].version
           \/ /\ r \in InTable("context_snapshot_facts") /\ type = "INCLUDED"
              /\ a = Row[r].snapshot /\ b = Row[r].version
           \/ r \in InTable("decisions") /\ type = "BASED_ON" /\ a = r /\ b = Row[r].snapshot
           \/ /\ r \in InTable("decision_facts") /\ type = "RELIED_ON"
              /\ a = Row[r].decision /\ b = Row[r].version
<1>1. r \in InTable("fact_version_evidence") => Row[r].relation \in {"SUPPORTS", "CONTRADICTS"}
    BY ProjectorAssumption, Zenon DEF RowOK, InTable
<1> QED
    BY <1>1, EdgeOfRow

\* The stored rows that assert a relationship of each type.
LEMMA AssertedRelied ==
    \A a, b : <<a, "RELIED_ON", b>> \in Asserted <=>
        \E r \in StoredIn("decision_facts") : Row[r].decision = a /\ Row[r].version = b
<1> TAKE a, b
<1>1. <<a, "RELIED_ON", b>> \in Asserted <=> \E r \in Rows : row[r] # "absent" /\ <<a, "RELIED_ON", b>> \in Edges(r)
    BY AssertedByRow, Zenon
<1>2. ASSUME NEW r \in Rows, <<a, "RELIED_ON", b>> \in Edges(r)
      PROVE  r \in InTable("decision_facts") /\ Row[r].decision = a /\ Row[r].version = b
    BY <1>2, RowBehind
<1>3. \A r \in InTable("decision_facts") : <<Row[r].decision, "RELIED_ON", Row[r].version>> \in Edges(r)
    BY EdgesByTable DEF InTable
<1>4. \A r : r \in StoredIn("decision_facts") <=> r \in InTable("decision_facts") /\ row[r] # "absent"
    BY Zenon DEF StoredIn
<1>5. InTable("decision_facts") \subseteq Rows
    BY Zenon DEF InTable
<1>6. ASSUME NEW r \in StoredIn("decision_facts"), Row[r].decision = a, Row[r].version = b
      PROVE  <<a, "RELIED_ON", b>> \in Asserted
    BY <1>1, <1>3, <1>4, <1>5, <1>6, Zenon
<1>7. ASSUME <<a, "RELIED_ON", b>> \in Asserted
      PROVE  \E r \in StoredIn("decision_facts") : Row[r].decision = a /\ Row[r].version = b
    BY <1>1, <1>2, <1>4, <1>7, Zenon
<1> QED
    BY <1>6, <1>7, Zenon

LEMMA AssertedIncluded ==
    \A a, b : <<a, "INCLUDED", b>> \in Asserted <=>
        \E r \in StoredIn("context_snapshot_facts") : Row[r].snapshot = a /\ Row[r].version = b
<1> TAKE a, b
<1>1. <<a, "INCLUDED", b>> \in Asserted <=> \E r \in Rows : row[r] # "absent" /\ <<a, "INCLUDED", b>> \in Edges(r)
    BY AssertedByRow, Zenon
<1>2. ASSUME NEW r \in Rows, <<a, "INCLUDED", b>> \in Edges(r)
      PROVE  r \in InTable("context_snapshot_facts") /\ Row[r].snapshot = a /\ Row[r].version = b
    BY <1>2, RowBehind
<1>3. \A r \in InTable("context_snapshot_facts") : <<Row[r].snapshot, "INCLUDED", Row[r].version>> \in Edges(r)
    BY EdgesByTable DEF InTable
<1>4. \A r : r \in StoredIn("context_snapshot_facts") <=> r \in InTable("context_snapshot_facts") /\ row[r] # "absent"
    BY Zenon DEF StoredIn
<1>5. InTable("context_snapshot_facts") \subseteq Rows
    BY Zenon DEF InTable
<1>6. ASSUME NEW r \in StoredIn("context_snapshot_facts"), Row[r].snapshot = a, Row[r].version = b
      PROVE  <<a, "INCLUDED", b>> \in Asserted
    BY <1>1, <1>3, <1>4, <1>5, <1>6, Zenon
<1>7. ASSUME <<a, "INCLUDED", b>> \in Asserted
      PROVE  \E r \in StoredIn("context_snapshot_facts") : Row[r].snapshot = a /\ Row[r].version = b
    BY <1>1, <1>2, <1>4, <1>7, Zenon
<1> QED
    BY <1>6, <1>7, Zenon

LEMMA AssertedLink ==
    \A a, b : \A type \in {"SUPPORTS", "CONTRADICTS"} : <<a, type, b>> \in Asserted <=>
        \E r \in StoredIn("fact_version_evidence") : Row[r].evidence = a /\ Row[r].relation = type /\ Row[r].version = b
<1> TAKE a, b
<1> TAKE type \in {"SUPPORTS", "CONTRADICTS"}
<1>1. <<a, type, b>> \in Asserted <=> \E r \in Rows : row[r] # "absent" /\ <<a, type, b>> \in Edges(r)
    BY AssertedByRow, Zenon
<1>2. ASSUME NEW r \in Rows, <<a, type, b>> \in Edges(r)
      PROVE  r \in InTable("fact_version_evidence") /\ Row[r].evidence = a /\ Row[r].relation = type /\ Row[r].version = b
    BY <1>2, RowBehind
<1>3. \A r \in InTable("fact_version_evidence") : <<Row[r].evidence, Row[r].relation, Row[r].version>> \in Edges(r)
    BY EdgesByTable DEF InTable
<1>4. \A r : r \in StoredIn("fact_version_evidence") <=> r \in InTable("fact_version_evidence") /\ row[r] # "absent"
    BY Zenon DEF StoredIn
<1>5. InTable("fact_version_evidence") \subseteq Rows
    BY Zenon DEF InTable
<1>6. ASSUME NEW r \in StoredIn("fact_version_evidence"), Row[r].evidence = a /\ Row[r].relation = type, Row[r].version = b
      PROVE  <<a, type, b>> \in Asserted
    BY <1>1, <1>3, <1>4, <1>5, <1>6, Zenon
<1>7. ASSUME <<a, type, b>> \in Asserted
      PROVE  \E r \in StoredIn("fact_version_evidence") : Row[r].evidence = a /\ Row[r].relation = type /\ Row[r].version = b
    BY <1>1, <1>2, <1>4, <1>7, Zenon
<1> QED
    BY <1>6, <1>7, Zenon

LEMMA AssertedBased ==
    \A a, b : <<a, "BASED_ON", b>> \in Asserted <=> a \in StoredIn("decisions") /\ Row[a].snapshot = b
<1> TAKE a, b
<1>1. <<a, "BASED_ON", b>> \in Asserted <=> \E r \in Rows : row[r] # "absent" /\ <<a, "BASED_ON", b>> \in Edges(r)
    BY AssertedByRow, Zenon
<1>2. ASSUME NEW r \in Rows, <<a, "BASED_ON", b>> \in Edges(r)
      PROVE  r \in InTable("decisions") /\ a = r /\ b = Row[r].snapshot
    BY <1>2, RowBehind
<1>3. \A r \in InTable("decisions") : <<r, "BASED_ON", Row[r].snapshot>> \in Edges(r)
    BY EdgesByTable DEF InTable
<1>4. \A r : r \in StoredIn("decisions") <=> r \in InTable("decisions") /\ row[r] # "absent"
    BY Zenon DEF StoredIn
<1>5. InTable("decisions") \subseteq Rows
    BY Zenon DEF InTable
<1> QED
    BY <1>1, <1>2, <1>3, <1>4, <1>5, Zenon

LEMMA AssertedSource ==
    \A a, b : <<a, "ASSERTED_BY", b>> \in Asserted <=> a \in StoredIn("fact_versions") /\ Row[a].source = b
<1> TAKE a, b
<1>1. <<a, "ASSERTED_BY", b>> \in Asserted <=> \E r \in Rows : row[r] # "absent" /\ <<a, "ASSERTED_BY", b>> \in Edges(r)
    BY AssertedByRow, Zenon
<1>2. ASSUME NEW r \in Rows, <<a, "ASSERTED_BY", b>> \in Edges(r)
      PROVE  r \in InTable("fact_versions") /\ a = r /\ b = Row[r].source
    BY <1>2, RowBehind
<1>3. \A r \in InTable("fact_versions") : <<r, "ASSERTED_BY", Row[r].source>> \in Edges(r)
    BY EdgesByTable DEF InTable
<1>4. \A r : r \in StoredIn("fact_versions") <=> r \in InTable("fact_versions") /\ row[r] # "absent"
    BY Zenon DEF StoredIn
<1>5. InTable("fact_versions") \subseteq Rows
    BY Zenon DEF InTable
<1> QED
    BY <1>1, <1>2, <1>3, <1>4, <1>5, Zenon

LEMMA AssertedFact ==
    \A a, b : <<a, "VERSION_OF", b>> \in Asserted <=> a \in StoredIn("fact_versions") /\ Row[a].fact = b
<1> TAKE a, b
<1>1. <<a, "VERSION_OF", b>> \in Asserted <=> \E r \in Rows : row[r] # "absent" /\ <<a, "VERSION_OF", b>> \in Edges(r)
    BY AssertedByRow, Zenon
<1>2. ASSUME NEW r \in Rows, <<a, "VERSION_OF", b>> \in Edges(r)
      PROVE  r \in InTable("fact_versions") /\ a = r /\ b = Row[r].fact
    BY <1>2, RowBehind
<1>3. \A r \in InTable("fact_versions") : <<r, "VERSION_OF", Row[r].fact>> \in Edges(r)
    BY EdgesByTable DEF InTable
<1>4. \A r : r \in StoredIn("fact_versions") <=> r \in InTable("fact_versions") /\ row[r] # "absent"
    BY Zenon DEF StoredIn
<1>5. InTable("fact_versions") \subseteq Rows
    BY Zenon DEF InTable
<1> QED
    BY <1>1, <1>2, <1>3, <1>4, <1>5, Zenon

LEMMA AssertedEntity ==
    \A a, b : <<a, "OF_ENTITY", b>> \in Asserted <=> a \in StoredIn("facts") /\ Row[a].entity = b
<1> TAKE a, b
<1>1. <<a, "OF_ENTITY", b>> \in Asserted <=> \E r \in Rows : row[r] # "absent" /\ <<a, "OF_ENTITY", b>> \in Edges(r)
    BY AssertedByRow, Zenon
<1>2. ASSUME NEW r \in Rows, <<a, "OF_ENTITY", b>> \in Edges(r)
      PROVE  r \in InTable("facts") /\ a = r /\ b = Row[r].entity
    BY <1>2, RowBehind
<1>3. \A r \in InTable("facts") : <<r, "OF_ENTITY", Row[r].entity>> \in Edges(r)
    BY EdgesByTable DEF InTable
<1>4. \A r : r \in StoredIn("facts") <=> r \in InTable("facts") /\ row[r] # "absent"
    BY Zenon DEF StoredIn
<1>5. InTable("facts") \subseteq Rows
    BY Zenon DEF InTable
<1> QED
    BY <1>1, <1>2, <1>3, <1>4, <1>5, Zenon

LEMMA AssertedOrigin ==
    \A a, b : <<a, "FROM_SOURCE", b>> \in Asserted <=> a \in StoredIn("evidence") /\ Row[a].source = b
<1> TAKE a, b
<1>1. <<a, "FROM_SOURCE", b>> \in Asserted <=> \E r \in Rows : row[r] # "absent" /\ <<a, "FROM_SOURCE", b>> \in Edges(r)
    BY AssertedByRow, Zenon
<1>2. ASSUME NEW r \in Rows, <<a, "FROM_SOURCE", b>> \in Edges(r)
      PROVE  r \in InTable("evidence") /\ a = r /\ b = Row[r].source
    BY <1>2, RowBehind
<1>3. \A r \in InTable("evidence") : <<r, "FROM_SOURCE", Row[r].source>> \in Edges(r)
    BY EdgesByTable DEF InTable
<1>4. \A r : r \in StoredIn("evidence") <=> r \in InTable("evidence") /\ row[r] # "absent"
    BY Zenon DEF StoredIn
<1>5. InTable("evidence") \subseteq Rows
    BY Zenon DEF InTable
<1> QED
    BY <1>1, <1>2, <1>3, <1>4, <1>5, Zenon

LEMMA AssertedSupersedes ==
    \A a, b : <<a, "SUPERSEDES", b>> \in Asserted <=> a \in StoredIn("fact_versions") /\ Row[a].supersedes = b /\ b # NULL
<1> TAKE a, b
<1>1. <<a, "SUPERSEDES", b>> \in Asserted <=> \E r \in Rows : row[r] # "absent" /\ <<a, "SUPERSEDES", b>> \in Edges(r)
    BY AssertedByRow, Zenon
<1>2. ASSUME NEW r \in Rows, <<a, "SUPERSEDES", b>> \in Edges(r)
      PROVE  r \in InTable("fact_versions") /\ a = r /\ b = Row[r].supersedes /\ b # NULL
    BY <1>2, RowBehind
<1>3. \A r \in InTable("fact_versions") : Row[r].supersedes # NULL => <<r, "SUPERSEDES", Row[r].supersedes>> \in Edges(r)
    BY EdgesByTable DEF InTable
<1>4. \A r : r \in StoredIn("fact_versions") <=> r \in InTable("fact_versions") /\ row[r] # "absent"
    BY Zenon DEF StoredIn
<1>5. InTable("fact_versions") \subseteq Rows
    BY Zenon DEF InTable
<1> QED
    BY <1>1, <1>2, <1>3, <1>4, <1>5, Zenon

\* What is affected, in terms of what is asserted.
AffectedMeaning ==
    /\ \A s, v : v \in AffectedVersions("source", s) <=>
          \/ <<v, "ASSERTED_BY", s>> \in Asserted
          \/ \E x : <<x, "FROM_SOURCE", s>> \in Asserted /\ <<x, "SUPPORTS", v>> \in Asserted
    /\ \A x, v : v \in AffectedVersions("evidence", x) <=>
          <<x, "SUPPORTS", v>> \in Asserted \/ <<x, "CONTRADICTS", v>> \in Asserted
    /\ \A d, v : v \in AffectedVersions("decision", d) <=> <<d, "RELIED_ON", v>> \in Asserted
    /\ \A v, d : d \in AffectedDecisions("version", v) <=>
          \/ <<d, "RELIED_ON", v>> \in Asserted
          \/ \E n : <<n, "INCLUDED", v>> \in Asserted /\ <<d, "BASED_ON", n>> \in Asserted
    /\ \A kind \in {"source", "evidence"} : \A k, d :
          d \in AffectedDecisions(kind, k) <=>
              \E v \in AffectedVersions(kind, k) : <<d, "RELIED_ON", v>> \in Asserted
    /\ \A k : AffectedVersions("version", k) = {k} /\ AffectedDecisions("decision", k) = {}

LEMMA ReliedOnMeans == \A d, v : v \in ReliedOn(d) <=> <<d, "RELIED_ON", v>> \in Asserted
<1> TAKE d, v
<1>1. v \in ReliedOn(d) <=> \E r \in StoredIn("decision_facts") : Row[r].decision = d /\ Row[r].version = v
    BY Zenon DEF ReliedOn
<1> QED
    BY <1>1, AssertedRelied, Zenon

LEMMA LinkedMeans ==
    \A x, v : /\ v \in Linked(x, {"SUPPORTS"}) <=> <<x, "SUPPORTS", v>> \in Asserted
              /\ v \in Linked(x, {"SUPPORTS", "CONTRADICTS"}) <=>
                    <<x, "SUPPORTS", v>> \in Asserted \/ <<x, "CONTRADICTS", v>> \in Asserted
<1> TAKE x, v
<1>1. \A relations : v \in Linked(x, relations) <=>
         \E r \in StoredIn("fact_version_evidence") :
             Row[r].evidence = x /\ Row[r].relation \in relations /\ Row[r].version = v
    BY Zenon DEF Linked
<1>2. /\ v \in Linked(x, {"SUPPORTS"}) <=>
            \E r \in StoredIn("fact_version_evidence") :
                Row[r].evidence = x /\ Row[r].relation = "SUPPORTS" /\ Row[r].version = v
      /\ v \in Linked(x, {"CONTRADICTS"}) <=>
            \E r \in StoredIn("fact_version_evidence") :
                Row[r].evidence = x /\ Row[r].relation = "CONTRADICTS" /\ Row[r].version = v
    BY <1>1
<1>3. /\ v \in Linked(x, {"SUPPORTS"}) <=> <<x, "SUPPORTS", v>> \in Asserted
      /\ v \in Linked(x, {"CONTRADICTS"}) <=> <<x, "CONTRADICTS", v>> \in Asserted
    BY <1>2, AssertedLink
<1>4. v \in Linked(x, {"SUPPORTS", "CONTRADICTS"}) <=>
         v \in Linked(x, {"SUPPORTS"}) \/ v \in Linked(x, {"CONTRADICTS"})
    BY <1>1
<1> QED
    BY <1>3, <1>4, Zenon

LEMMA StoredDecision ==
    ASSUME GraphInv, NEW d, NEW v, <<d, "RELIED_ON", v>> \in Asserted
    PROVE  d \in StoredIn("decisions")
<1>1. row[d] # "absent"
    BY AssertedEnds, Zenon
<1>2. PICK r \in StoredIn("decision_facts") : Row[r].decision = d
    BY AssertedRelied, Zenon
<1>3. d \in InTable("decisions")
    BY <1>2, ProjectorAssumption, Zenon DEF RowOK, StoredIn, InTable
<1> QED
    BY <1>1, <1>3, Zenon DEF StoredIn

LEMMA AffectedMeans ==
    ASSUME GraphInv
    PROVE  AffectedMeaning
<1>1. ASSUME NEW s, NEW v
      PROVE  v \in AffectedVersions("source", s) <=>
                 \/ <<v, "ASSERTED_BY", s>> \in Asserted
                 \/ \E x : <<x, "FROM_SOURCE", s>> \in Asserted /\ <<x, "SUPPORTS", v>> \in Asserted
  <2>1. AffectedVersions("source", s) =
            {w \in StoredIn("fact_versions") : Row[w].source = s} \cup
            UNION {Linked(x, {"SUPPORTS"}) : x \in {y \in StoredIn("evidence") : Row[y].source = s}}
    BY DEF AffectedVersions
  <2>2. \A x : v \in Linked(x, {"SUPPORTS"}) <=> <<x, "SUPPORTS", v>> \in Asserted
    BY LinkedMeans, Zenon
  <2>3. /\ <<v, "ASSERTED_BY", s>> \in Asserted <=> v \in StoredIn("fact_versions") /\ Row[v].source = s
        /\ \A x : <<x, "FROM_SOURCE", s>> \in Asserted <=> x \in StoredIn("evidence") /\ Row[x].source = s
    BY AssertedSource, AssertedOrigin, Zenon
  <2> QED
    BY <2>1, <2>2, <2>3, Zenon
<1>2. ASSUME NEW x, NEW v
      PROVE  v \in AffectedVersions("evidence", x) <=>
                 <<x, "SUPPORTS", v>> \in Asserted \/ <<x, "CONTRADICTS", v>> \in Asserted
  <2>1. AffectedVersions("evidence", x) = Linked(x, {"SUPPORTS", "CONTRADICTS"})
    BY DEF AffectedVersions
  <2> QED
    BY <2>1, LinkedMeans, Zenon
<1>3. \A d : AffectedVersions("decision", d) = ReliedOn(d)
    BY DEF AffectedVersions
<1>4. ASSUME NEW v, NEW d
      PROVE  d \in AffectedDecisions("version", v) <=>
                 \/ <<d, "RELIED_ON", v>> \in Asserted
                 \/ \E n : <<n, "INCLUDED", v>> \in Asserted /\ <<d, "BASED_ON", n>> \in Asserted
  <2>1. AffectedDecisions("version", v) = {x \in StoredIn("decisions") : v \in ReliedOn(x) \cup InContext(x)}
    BY DEF AffectedDecisions
  <2>2. v \in InContext(d) <=>
           \E r \in StoredIn("context_snapshot_facts") : Row[r].snapshot = Row[d].snapshot /\ Row[r].version = v
    BY Zenon DEF InContext
  <2>3. v \in InContext(d) <=> <<Row[d].snapshot, "INCLUDED", v>> \in Asserted
    BY <2>2, AssertedIncluded, ZenonT(40)
  <2>4. \A n : <<d, "BASED_ON", n>> \in Asserted <=> d \in StoredIn("decisions") /\ Row[d].snapshot = n
    BY AssertedBased, Zenon
  <2> QED
    BY <2>1, <2>3, <2>4, ReliedOnMeans, StoredDecision, Zenon
<1>5. ASSUME NEW kind \in {"source", "evidence"}, NEW k, NEW d
      PROVE  d \in AffectedDecisions(kind, k) <=>
                 \E v \in AffectedVersions(kind, k) : <<d, "RELIED_ON", v>> \in Asserted
  <2>1. AffectedDecisions(kind, k) =
            {x \in StoredIn("decisions") : ReliedOn(x) \cap AffectedVersions(kind, k) # {}}
    BY DEF AffectedDecisions
  <2>2. d \in AffectedDecisions(kind, k) <=>
            d \in StoredIn("decisions") /\ \E v \in AffectedVersions(kind, k) : v \in ReliedOn(d)
    BY <2>1, Zenon
  <2> QED
    BY <2>2, ReliedOnMeans, StoredDecision, Zenon
<1>6. \A k : AffectedVersions("version", k) = {k} /\ AffectedDecisions("decision", k) = {}
    BY DEF AffectedVersions, AffectedDecisions
<1>7. \A d, v : v \in AffectedVersions("decision", d) <=> <<d, "RELIED_ON", v>> \in Asserted
    BY <1>3, ReliedOnMeans, Zenon
<1>8. \A s, v : v \in AffectedVersions("source", s) <=>
          \/ <<v, "ASSERTED_BY", s>> \in Asserted
          \/ \E x : <<x, "FROM_SOURCE", s>> \in Asserted /\ <<x, "SUPPORTS", v>> \in Asserted
    BY <1>1, Zenon
<1>9. \A x, v : v \in AffectedVersions("evidence", x) <=>
          <<x, "SUPPORTS", v>> \in Asserted \/ <<x, "CONTRADICTS", v>> \in Asserted
    BY <1>2, Zenon
<1>10. \A v, d : d \in AffectedDecisions("version", v) <=>
          \/ <<d, "RELIED_ON", v>> \in Asserted
          \/ \E n : <<n, "INCLUDED", v>> \in Asserted /\ <<d, "BASED_ON", n>> \in Asserted
    BY <1>4, Zenon
<1>11. \A kind \in {"source", "evidence"} : \A k, d :
          d \in AffectedDecisions(kind, k) <=>
              \E v \in AffectedVersions(kind, k) : <<d, "RELIED_ON", v>> \in Asserted
    BY <1>5, Zenon
<1> QED
    BY <1>6, <1>7, <1>8, <1>9, <1>10, <1>11, Zenon DEF AffectedMeaning

-----------------------------------------------------------------------------
(* GraphProjector: a question as reachability over a set of relationships, *)
(* put to the graph or to what the rows assert.                            *)

ReachesVersion(E, kind, k, v) ==
    \/ kind = "version" /\ v = k
    \/ /\ kind = "source"
       /\ \/ <<v, "ASSERTED_BY", k>> \in E
          \/ \E x : <<x, "FROM_SOURCE", k>> \in E /\ <<x, "SUPPORTS", v>> \in E
    \/ kind = "evidence" /\ (<<k, "SUPPORTS", v>> \in E \/ <<k, "CONTRADICTS", v>> \in E)
    \/ /\ kind = "decision"
       /\ <<k, "RELIED_ON", v>> \in E
       /\ \E s : <<v, "ASSERTED_BY", s>> \in E
       /\ \E f, n : <<v, "VERSION_OF", f>> \in E /\ <<f, "OF_ENTITY", n>> \in E

ReachesDecision(E, kind, k, d) ==
    \/ /\ kind = "version"
       /\ \/ <<d, "RELIED_ON", k>> \in E
          \/ \E n : <<n, "INCLUDED", k>> \in E /\ <<d, "BASED_ON", n>> \in E
    \/ /\ kind \in {"source", "evidence"}
       /\ \E v : ReachesVersion(E, kind, k, v) /\ <<d, "RELIED_ON", v>> \in E

\* With more relationships more is reached.
LEMMA ReachMonotone ==
    ASSUME NEW E, NEW F, E \subseteq F, NEW kind, NEW k, NEW x
    PROVE  /\ ReachesVersion(E, kind, k, x) => ReachesVersion(F, kind, k, x)
           /\ ReachesDecision(E, kind, k, x) => ReachesDecision(F, kind, k, x)
<1>1. \A v : ReachesVersion(E, kind, k, v) => ReachesVersion(F, kind, k, v)
    BY Zenon DEF ReachesVersion
<1> QED
    BY <1>1, Zenon DEF ReachesDecision

\* The answers of the graph, and those of PostgreSQL, are what is reached.
FoundIsReached ==
    \A kind \in QueryKinds : \A k, x :
        /\ x \in FoundVersions(kind, k) <=> ReachesVersion(edge, kind, k, x)
        /\ x \in FoundDecisions(kind, k) <=> ReachesDecision(edge, kind, k, x)

AffectedIsReached ==
    \A kind \in QueryKinds : \A k, x :
        /\ x \in AffectedVersions(kind, k) <=> ReachesVersion(Asserted, kind, k, x)
        /\ x \in AffectedDecisions(kind, k) <=> ReachesDecision(Asserted, kind, k, x)

LEMMA ReachesByKind ==
    \A E, k, x :
        /\ ReachesVersion(E, "version", k, x) <=> x = k
        /\ ReachesVersion(E, "source", k, x) <=>
              \/ <<x, "ASSERTED_BY", k>> \in E
              \/ \E y : <<y, "FROM_SOURCE", k>> \in E /\ <<y, "SUPPORTS", x>> \in E
        /\ ReachesVersion(E, "evidence", k, x) <=>
              <<k, "SUPPORTS", x>> \in E \/ <<k, "CONTRADICTS", x>> \in E
        /\ ReachesVersion(E, "decision", k, x) <=>
              /\ <<k, "RELIED_ON", x>> \in E
              /\ \E s : <<x, "ASSERTED_BY", s>> \in E
              /\ \E f, n : <<x, "VERSION_OF", f>> \in E /\ <<f, "OF_ENTITY", n>> \in E
        /\ ReachesDecision(E, "version", k, x) <=>
              \/ <<x, "RELIED_ON", k>> \in E
              \/ \E n : <<n, "INCLUDED", k>> \in E /\ <<x, "BASED_ON", n>> \in E
        /\ ReachesDecision(E, "source", k, x) <=>
              \E v : ReachesVersion(E, "source", k, v) /\ <<x, "RELIED_ON", v>> \in E
        /\ ReachesDecision(E, "evidence", k, x) <=>
              \E v : ReachesVersion(E, "evidence", k, v) /\ <<x, "RELIED_ON", v>> \in E
        /\ ~ReachesDecision(E, "decision", k, x)
<1> TAKE E, k, x
<1>1. /\ ReachesVersion(E, "version", k, x) <=> x = k
      /\ ReachesVersion(E, "source", k, x) <=>
              \/ <<x, "ASSERTED_BY", k>> \in E
              \/ \E y : <<y, "FROM_SOURCE", k>> \in E /\ <<y, "SUPPORTS", x>> \in E
    BY DEF ReachesVersion
<1>2. ReachesVersion(E, "evidence", k, x) <=> <<k, "SUPPORTS", x>> \in E \/ <<k, "CONTRADICTS", x>> \in E
    BY DEF ReachesVersion
<1>3. ReachesVersion(E, "decision", k, x) <=>
          /\ <<k, "RELIED_ON", x>> \in E
          /\ \E s : <<x, "ASSERTED_BY", s>> \in E
          /\ \E f, n : <<x, "VERSION_OF", f>> \in E /\ <<f, "OF_ENTITY", n>> \in E
    BY DEF ReachesVersion
<1>4. /\ ReachesDecision(E, "version", k, x) <=>
              \/ <<x, "RELIED_ON", k>> \in E
              \/ \E n : <<n, "INCLUDED", k>> \in E /\ <<x, "BASED_ON", n>> \in E
      /\ ReachesDecision(E, "source", k, x) <=>
              \E v : ReachesVersion(E, "source", k, v) /\ <<x, "RELIED_ON", v>> \in E
      /\ ReachesDecision(E, "evidence", k, x) <=>
              \E v : ReachesVersion(E, "evidence", k, v) /\ <<x, "RELIED_ON", v>> \in E
      /\ ~ReachesDecision(E, "decision", k, x)
    BY DEF ReachesDecision
<1> QED
    BY <1>1, <1>2, <1>3, <1>4, Zenon

LEMMA ReachThrough ==
    \A kind \in {"source", "evidence"} : \A E, k, x :
        ReachesDecision(E, kind, k, x) <=> \E v : ReachesVersion(E, kind, k, v) /\ <<x, "RELIED_ON", v>> \in E
<1> TAKE kind \in {"source", "evidence"}
<1> TAKE E, k, x
<1>1. kind # "version"
    OBVIOUS
<1> QED
    BY <1>1, Zenon DEF ReachesDecision

\* No relationship ends in NULL.
LEMMA EdgesNotNull ==
    ASSUME GraphInv, NEW a, NEW type, NEW b, <<a, type, b>> \in edge
    PROVE  a # NULL /\ b # NULL
<1>1. PICK r \in Rows : <<a, type, b>> \in Edges(r)
    BY Zenon DEF GraphInv, GraphTypeOK
<1>2. a \in Rows /\ b \in Rows
    BY <1>1, EdgeEnds, TupleParts, NodesAreRows, Zenon
<1> QED
    BY <1>2, ProjectorAssumption, Zenon

LEMMA FoundReached == GraphInv => FoundIsReached
<1> SUFFICES ASSUME GraphInv PROVE FoundIsReached
    OBVIOUS
<1>1. \A a, type, b : a \in From(type, b) <=> <<a, type, b>> \in edge
    BY StepsAreEdges, Zenon
<1>2. \A a, type, b : b \in To(a, type) <=> <<a, type, b>> \in edge
    BY StepsAreEdges, Zenon
<1>3. \A a, type, b : <<a, type, b>> \in edge => a # NULL
    BY EdgesNotNull, Zenon
<1>4. ASSUME NEW k, NEW x
      PROVE  /\ x \in FoundVersions("version", k) <=> ReachesVersion(edge, "version", k, x)
             /\ x \in FoundDecisions("version", k) <=> ReachesDecision(edge, "version", k, x)
  <2>1. FoundVersions("version", k) = {k}
    BY TraversalsFind, Zenon DEF FoundMeaning
  <2>2. x \in FoundDecisions("version", k) <=>
            /\ x # NULL
            /\ \/ x \in From("RELIED_ON", k)
               \/ \E n \in From("INCLUDED", k) : x \in From("BASED_ON", n)
    BY TraversalsFind, Zenon DEF FoundMeaning, FoundForVersion
  <2>3. x \in FoundDecisions("version", k) <=>
            \/ <<x, "RELIED_ON", k>> \in edge
            \/ \E n : <<n, "INCLUDED", k>> \in edge /\ <<x, "BASED_ON", n>> \in edge
    BY <1>1, <1>3, <2>2, Zenon
  <2> QED
    BY <2>1, <2>3, ReachesByKind, Zenon
<1>5. ASSUME NEW k, NEW x
      PROVE  x \in FoundVersions("source", k) <=> ReachesVersion(edge, "source", k, x)
  <2>1. x \in FoundVersions("source", k) <=>
            \/ x \in From("ASSERTED_BY", k)
            \/ \E y \in From("FROM_SOURCE", k) : x \in To(y, "SUPPORTS")
    BY TraversalsFind, Zenon DEF FoundMeaning, FoundForSource
  <2>2. x \in FoundVersions("source", k) <=>
            \/ <<x, "ASSERTED_BY", k>> \in edge
            \/ \E y : <<y, "FROM_SOURCE", k>> \in edge /\ <<y, "SUPPORTS", x>> \in edge
    BY <1>1, <1>2, <2>1, Zenon
  <2> QED
    BY <2>2, ReachesByKind, Zenon
<1>6. ASSUME NEW k, NEW x
      PROVE  x \in FoundVersions("evidence", k) <=> ReachesVersion(edge, "evidence", k, x)
  <2>1. x \in FoundVersions("evidence", k) <=> x \in To(k, "SUPPORTS") \/ x \in To(k, "CONTRADICTS")
    BY TraversalsFind, Zenon DEF FoundMeaning, FoundForEvidence
  <2> QED
    <3>1. x \in FoundVersions("evidence", k) <=> <<k, "SUPPORTS", x>> \in edge \/ <<k, "CONTRADICTS", x>> \in edge
        BY <1>2, <2>1, Zenon
    <3> QED
        BY <3>1, ReachesByKind, Zenon
<1>7. ASSUME NEW kind \in {"source", "evidence"}, NEW k, NEW x
      PROVE  x \in FoundDecisions(kind, k) <=> ReachesDecision(edge, kind, k, x)
  <2>1. x \in FoundDecisions(kind, k) <=>
            x # NULL /\ \E v \in FoundVersions(kind, k) : x \in From("RELIED_ON", v)
    BY TraversalsFind, Zenon DEF FoundMeaning, FoundThrough
  <2>2. x \in FoundDecisions(kind, k) <=>
            \E v : ReachesVersion(edge, kind, k, v) /\ <<x, "RELIED_ON", v>> \in edge
    <3>1. \A v : v \in FoundVersions(kind, k) <=> ReachesVersion(edge, kind, k, v)
        BY <1>5, <1>6, Zenon
    <3>2. \A v : x \in From("RELIED_ON", v) <=> <<x, "RELIED_ON", v>> \in edge
        BY <1>1, Zenon
    <3> QED
        BY <1>3, <2>1, <3>1, <3>2, Zenon
  <2> QED
    BY <2>2, ReachThrough, Zenon
<1>8. ASSUME NEW k, NEW x
      PROVE  /\ x \in FoundVersions("decision", k) <=> ReachesVersion(edge, "decision", k, x)
             /\ x \in FoundDecisions("decision", k) <=> ReachesDecision(edge, "decision", k, x)
  <2>1. x \in FoundVersions("decision", k) <=>
            /\ x \in To(k, "RELIED_ON")
            /\ To(x, "ASSERTED_BY") # {}
            /\ \E f \in To(x, "VERSION_OF") : To(f, "OF_ENTITY") # {}
    BY TraversalsFind, Zenon DEF FoundMeaning, FoundForDecision
  <2>2. FoundDecisions("decision", k) = {}
    BY TraversalsFind, Zenon DEF FoundMeaning
  <2>3. To(x, "ASSERTED_BY") # {} <=> \E s : <<x, "ASSERTED_BY", s>> \in edge
    BY <1>2, Zenon
  <2>4. (\E f \in To(x, "VERSION_OF") : To(f, "OF_ENTITY") # {}) <=>
            \E f, n : <<x, "VERSION_OF", f>> \in edge /\ <<f, "OF_ENTITY", n>> \in edge
    <3>1. \A f : To(f, "OF_ENTITY") # {} <=> \E n : <<f, "OF_ENTITY", n>> \in edge
        BY <1>2, Zenon
    <3> QED
        BY <1>2, <3>1, Zenon
  <2>5. x \in To(k, "RELIED_ON") <=> <<k, "RELIED_ON", x>> \in edge
    BY <1>2, Zenon
  <2>6. x \in FoundVersions("decision", k) <=>
            /\ <<k, "RELIED_ON", x>> \in edge
            /\ \E s : <<x, "ASSERTED_BY", s>> \in edge
            /\ \E f, n : <<x, "VERSION_OF", f>> \in edge /\ <<f, "OF_ENTITY", n>> \in edge
    BY <2>1, <2>3, <2>4, <2>5, Zenon
  <2> QED
    <3>1. x \in FoundVersions("decision", k) <=> ReachesVersion(edge, "decision", k, x)
      <4>1. ReachesVersion(edge, "decision", k, x) <=>
                /\ <<k, "RELIED_ON", x>> \in edge
                /\ \E s : <<x, "ASSERTED_BY", s>> \in edge
                /\ \E f, n : <<x, "VERSION_OF", f>> \in edge /\ <<f, "OF_ENTITY", n>> \in edge
        BY DEF ReachesVersion
      <4> QED
        BY <2>6, <4>1, Zenon
    <3> QED
        BY <2>2, <3>1, ReachesByKind, Zenon
<1> QED
    BY <1>4, <1>5, <1>6, <1>7, <1>8, Zenon DEF FoundIsReached, QueryKinds

\* A version relied on has its source, its fact and its entity.
LEMMA ReliedVersionComplete ==
    ASSUME GraphInv, NEW d, NEW v, <<d, "RELIED_ON", v>> \in Asserted
    PROVE  /\ \E s : <<v, "ASSERTED_BY", s>> \in Asserted
           /\ \E f, n : <<v, "VERSION_OF", f>> \in Asserted /\ <<f, "OF_ENTITY", n>> \in Asserted
<1>1. row[v] # "absent"
    BY AssertedEnds, Zenon
<1>2. PICK r \in StoredIn("decision_facts") : Row[r].version = v
    BY AssertedRelied, Zenon
<1>3. v \in InTable("fact_versions")
    BY <1>2, ProjectorAssumption, Zenon DEF RowOK, StoredIn, InTable
<1>4. v \in StoredIn("fact_versions")
    BY <1>1, <1>3, Zenon DEF StoredIn
<1>5. <<v, "ASSERTED_BY", Row[v].source>> \in Asserted
    BY <1>4, AssertedSource, Zenon
<1>6. <<v, "VERSION_OF", Row[v].fact>> \in Asserted
    BY <1>4, AssertedFact, Zenon
<1>7. row[Row[v].fact] # "absent"
    BY <1>6, AssertedEnds, Zenon
<1>8. Row[v].fact \in InTable("facts")
    BY <1>3, ProjectorAssumption, Zenon DEF RowOK, InTable
<1>9. <<Row[v].fact, "OF_ENTITY", Row[Row[v].fact].entity>> \in Asserted
  <2>1. Row[v].fact \in StoredIn("facts")
    BY <1>7, <1>8, Zenon DEF StoredIn
  <2> QED
    BY <2>1, AssertedEntity
<1> QED
    BY <1>5, <1>6, <1>9, Zenon

LEMMA AffectedReached == GraphInv => AffectedIsReached
<1> SUFFICES ASSUME GraphInv PROVE AffectedIsReached
    OBVIOUS
<1>0. AffectedMeaning
    BY AffectedMeans, Zenon
<1>4. ASSUME NEW k, NEW x
      PROVE  /\ x \in AffectedVersions("version", k) <=> ReachesVersion(Asserted, "version", k, x)
             /\ x \in AffectedDecisions("version", k) <=> ReachesDecision(Asserted, "version", k, x)
  <2>1. AffectedVersions("version", k) = {k}
    BY <1>0, Zenon DEF AffectedMeaning
  <2>2. x \in AffectedDecisions("version", k) <=>
          \/ <<x, "RELIED_ON", k>> \in Asserted
          \/ \E n : <<n, "INCLUDED", k>> \in Asserted /\ <<x, "BASED_ON", n>> \in Asserted
    BY <1>0, Zenon DEF AffectedMeaning
  <2> QED
    BY <2>1, <2>2, ReachesByKind, Zenon
<1>5. ASSUME NEW k, NEW x
      PROVE  x \in AffectedVersions("source", k) <=> ReachesVersion(Asserted, "source", k, x)
  <2>1. x \in AffectedVersions("source", k) <=>
          \/ <<x, "ASSERTED_BY", k>> \in Asserted
          \/ \E y : <<y, "FROM_SOURCE", k>> \in Asserted /\ <<y, "SUPPORTS", x>> \in Asserted
    BY <1>0, Zenon DEF AffectedMeaning
  <2> QED
    BY <2>1, ReachesByKind, Zenon
<1>6. ASSUME NEW k, NEW x
      PROVE  x \in AffectedVersions("evidence", k) <=> ReachesVersion(Asserted, "evidence", k, x)
  <2>1. x \in AffectedVersions("evidence", k) <=>
          <<k, "SUPPORTS", x>> \in Asserted \/ <<k, "CONTRADICTS", x>> \in Asserted
    BY <1>0, Zenon DEF AffectedMeaning
  <2> QED
    BY <2>1, ReachesByKind, Zenon
<1>7. ASSUME NEW kind \in {"source", "evidence"}, NEW k, NEW x
      PROVE  x \in AffectedDecisions(kind, k) <=> ReachesDecision(Asserted, kind, k, x)
  <2>1. x \in AffectedDecisions(kind, k) <=>
              \E v \in AffectedVersions(kind, k) : <<x, "RELIED_ON", v>> \in Asserted
    BY <1>0, Zenon DEF AffectedMeaning
  <2>2. x \in AffectedDecisions(kind, k) <=>
              \E v : ReachesVersion(Asserted, kind, k, v) /\ <<x, "RELIED_ON", v>> \in Asserted
    <3>1. \A v : v \in AffectedVersions(kind, k) <=> ReachesVersion(Asserted, kind, k, v)
        BY <1>5, <1>6, Zenon
    <3> QED
        BY <2>1, <3>1, Zenon
  <2> QED
    BY <2>2, ReachThrough, Zenon
<1>8. ASSUME NEW k, NEW x
      PROVE  /\ x \in AffectedVersions("decision", k) <=> ReachesVersion(Asserted, "decision", k, x)
             /\ x \in AffectedDecisions("decision", k) <=> ReachesDecision(Asserted, "decision", k, x)
  <2>1. x \in AffectedVersions("decision", k) <=> <<k, "RELIED_ON", x>> \in Asserted
    BY <1>0, Zenon DEF AffectedMeaning
  <2>2. AffectedDecisions("decision", k) = {}
    BY <1>0, Zenon DEF AffectedMeaning
  <2>3. <<k, "RELIED_ON", x>> \in Asserted =>
            /\ \E s : <<x, "ASSERTED_BY", s>> \in Asserted
            /\ \E f, n : <<x, "VERSION_OF", f>> \in Asserted /\ <<f, "OF_ENTITY", n>> \in Asserted
    BY ReliedVersionComplete, Zenon
  <2> QED
    BY <2>1, <2>2, <2>3, ReachesByKind, Zenon
<1> QED
    BY <1>4, <1>5, <1>6, <1>7, <1>8, Zenon DEF AffectedIsReached, QueryKinds

-----------------------------------------------------------------------------
(* GraphProjector: successors.                                             *)

\* A set of versions that holds the successors of v and of its members.
HoldsSuccessors(E, v, C) == \A u \in C \cup {v} : \A a : <<a, "SUPERSEDES", u>> \in E => a \in C

ReachesSuccessor(E, v, w) ==
    /\ w \in InTable("fact_versions")
    /\ \A C \in SUBSET InTable("fact_versions") : HoldsSuccessors(E, v, C) => w \in C

LEMMA SuccessorMonotone ==
    ASSUME NEW E, NEW F, E \subseteq F, NEW v, NEW w, ReachesSuccessor(E, v, w)
    PROVE  ReachesSuccessor(F, v, w)
<1>1. \A C : HoldsSuccessors(F, v, C) => HoldsSuccessors(E, v, C)
    BY Zenon DEF HoldsSuccessors
<1> QED
    BY <1>1, Zenon DEF ReachesSuccessor

SuccessorsReached == \A v, w : w \in SupersededBy(v) <=> ReachesSuccessor(edge, v, w)

LEMMA SupersededReached == GraphInv => SuccessorsReached
<1> SUFFICES ASSUME GraphInv, NEW v, NEW w
             PROVE  w \in SupersededBy(v) <=> ReachesSuccessor(edge, v, w)
    BY Zenon DEF SuccessorsReached
<1>1. \A a, u : a \in From("SUPERSEDES", u) <=> <<a, "SUPERSEDES", u>> \in edge
    BY StepsAreEdges, Zenon
<1>2. \A C : HoldsSuccessors(edge, v, C) <=> \A u \in C \cup {v} : From("SUPERSEDES", u) \subseteq C
    BY <1>1, Zenon DEF HoldsSuccessors
<1> QED
    BY <1>2, Zenon DEF ReachesSuccessor, SupersededBy

\* A set of natural numbers that is not empty has a least element.
LEMMA Least ==
    ASSUME NEW T, T \subseteq Nat, T # {}
    PROVE  \E x \in T : \A y \in T : x <= y
<1>1. PICK R : R = OpToRel(<, Nat)
    OBVIOUS
<1>2. IsWellFoundedOn(R, Nat)
    BY <1>1, NatLessThanWellFounded
<1>3. \A x, y \in Nat : x < y => <<x, y>> \in R
    BY <1>1 DEF OpToRel
<1>4. PICK x \in T : \A y \in T : ~ (<<y, x>> \in R)
    BY <1>2, WFMin, Zenon
<1>5. ASSUME NEW y \in T PROVE x <= y
  <2>1. x \in Nat /\ y \in Nat
    OBVIOUS
  <2>2. ~ (y < x)
    BY <2>1, <1>3, <1>4, Zenon
  <2> QED
    BY <2>1, <2>2
<1> QED
    BY <1>5

\* What supersedes a version is the next version of its fact.
LEMMA NextVersion ==
    \A a, u : <<a, "SUPERSEDES", u>> \in Asserted =>
        /\ a \in StoredIn("fact_versions") /\ u \in InTable("fact_versions")
        /\ Row[a].fact = Row[u].fact
        /\ Row[a].number \in Nat /\ Row[u].number \in Nat /\ Row[a].number = Row[u].number + 1
<1> SUFFICES ASSUME NEW a, NEW u, <<a, "SUPERSEDES", u>> \in Asserted
             PROVE  /\ a \in StoredIn("fact_versions") /\ u \in InTable("fact_versions")
                    /\ Row[a].fact = Row[u].fact
                    /\ Row[a].number \in Nat /\ Row[u].number \in Nat /\ Row[a].number = Row[u].number + 1
    BY Zenon
<1>1. a \in StoredIn("fact_versions") /\ Row[a].supersedes = u /\ u # NULL
    BY AssertedSupersedes, Zenon
<1>2. a \in InTable("fact_versions") /\ a \in Rows /\ Row[a].table = "fact_versions"
    BY <1>1, Zenon DEF StoredIn, InTable
<1>3. RowOK(a)
    BY <1>2, ProjectorAssumption, Zenon
<1>4. /\ Row[a].number \in Nat \ {0}
      /\ u \in InTable("fact_versions") /\ Row[u].fact = Row[a].fact /\ Row[u].number = Row[a].number - 1
    BY <1>1, <1>2, <1>3, Zenon DEF RowOK
<1>5. Row[u].number \in Nat /\ Row[a].number = Row[u].number + 1
    BY <1>4
<1> QED
    BY <1>1, <1>4, <1>5, Zenon

\* The later versions are the successors that the rows assert.
LaterIsReached ==
    \A k \in InTable("fact_versions") : \A w :
        w \in LaterVersions("version", k) <=> ReachesSuccessor(Asserted, k, w)

LEMMA LaterReached == GraphInv => LaterIsReached
<1> SUFFICES ASSUME GraphInv, NEW k \in InTable("fact_versions"), NEW w
             PROVE  w \in LaterVersions("version", k) <=> ReachesSuccessor(Asserted, k, w)
    BY Zenon DEF LaterIsReached
<1>1. \A v : v \in LaterVersions("version", k) <=>
         v \in StoredIn("fact_versions") /\ Row[v].fact = Row[k].fact /\ Row[v].number > Row[k].number
    BY DEF LaterVersions
<1>2. \A v \in InTable("fact_versions") :
         /\ Row[v].number \in Nat \ {0}
         /\ Row[v].number # 1 => /\ Row[v].supersedes \in InTable("fact_versions")
                                 /\ Row[Row[v].supersedes].fact = Row[v].fact
                                 /\ Row[Row[v].supersedes].number = Row[v].number - 1
    BY ProjectorAssumption, Zenon DEF RowOK, InTable
<1>3. ASSUME NEW C \in SUBSET InTable("fact_versions"), HoldsSuccessors(Asserted, k, C),
             w \in LaterVersions("version", k)
      PROVE  w \in C
  <2> DEFINE missing == {v \in LaterVersions("version", k) : v \notin C}
             numbers == {Row[v].number : v \in missing}
  <2>1. SUFFICES ASSUME w \notin C PROVE FALSE
    OBVIOUS
  <2>2. LaterVersions("version", k) \subseteq InTable("fact_versions")
    BY <1>1, Zenon DEF StoredIn
  <2>3. numbers \subseteq Nat /\ numbers # {}
    <3>1. ASSUME NEW v \in missing PROVE Row[v].number \in Nat
        BY <1>2, <2>2, Zenon
    <3>2. Row[w].number \in numbers
        BY <1>3, <2>1, Zenon
    <3> QED
        BY <3>1, <3>2, Zenon
  <2>4. PICK m \in numbers : \A n \in numbers : m <= n
    BY <2>3, Least, Zenon
  <2>5. PICK v \in missing : m = Row[v].number
    BY Zenon
  <2>6. /\ v \in InTable("fact_versions") /\ v \in StoredIn("fact_versions")
        /\ Row[v].fact = Row[k].fact /\ Row[v].number > Row[k].number /\ v \notin C
    BY <1>1, <2>2, Zenon
  <2> DEFINE u == Row[v].supersedes
  <2>7. Row[k].number \in Nat \ {0} /\ Row[v].number \in Nat \ {0}
    BY <1>2, <2>6, Zenon
  <2>8. Row[v].number # 1
    BY <2>6, <2>7
  <2>9. u \in InTable("fact_versions") /\ Row[u].fact = Row[k].fact /\ Row[u].number = Row[v].number - 1
    BY <1>2, <2>6, <2>8, Zenon
  <2>10. u # NULL
    BY <2>9, ProjectorAssumption, Zenon DEF InTable
  <2>11. <<v, "SUPERSEDES", u>> \in Asserted
    BY <2>6, <2>10, AssertedSupersedes, Zenon
  <2>12. u \in C \cup {k}
    <3>1. CASE Row[u].number = Row[k].number
        BY <2>9, <3>1, ProjectorAssumption, Zenon
    <3>2. CASE Row[u].number # Row[k].number
      <4>1. Row[u].number > Row[k].number
        BY <2>6, <2>7, <2>9, <3>2
      <4>2. u \in StoredIn("fact_versions")
        BY <2>9, <2>11, AssertedEnds, Zenon DEF StoredIn
      <4>3. u \in LaterVersions("version", k)
        BY <1>1, <2>9, <4>1, <4>2, Zenon
      <4>4. ~ (m <= Row[u].number)
        BY <2>5, <2>7, <2>9
      <4>5. u \notin missing
        BY <2>4, <4>4, Zenon
      <4> QED
        BY <4>3, <4>5, Zenon
    <3> QED
        BY <3>1, <3>2, Zenon
  <2>13. v \in C
    BY <1>3, <2>11, <2>12, Zenon DEF HoldsSuccessors
  <2> QED
    BY <2>6, <2>13, Zenon
<1>4. HoldsSuccessors(Asserted, k, LaterVersions("version", k))
  <2>1. ASSUME NEW u \in LaterVersions("version", k) \cup {k}, NEW a, <<a, "SUPERSEDES", u>> \in Asserted
        PROVE  a \in LaterVersions("version", k)
    <3>1. /\ a \in StoredIn("fact_versions") /\ u \in InTable("fact_versions")
          /\ Row[a].fact = Row[u].fact
          /\ Row[a].number \in Nat /\ Row[u].number \in Nat /\ Row[a].number = Row[u].number + 1
        BY <2>1, NextVersion, Zenon
    <3>2. Row[u].fact = Row[k].fact /\ (u = k \/ Row[u].number > Row[k].number)
        BY <1>1, Zenon
    <3>3. Row[k].number \in Nat
        BY <1>2, Zenon
    <3>4. Row[a].number > Row[k].number
        BY <3>1, <3>2, <3>3
    <3> QED
        BY <1>1, <3>1, <3>2, <3>4, Zenon
  <2> QED
    BY <2>1, Zenon DEF HoldsSuccessors
<1>5. LaterVersions("version", k) \in SUBSET InTable("fact_versions")
    BY <1>1, Zenon DEF StoredIn
<1> QED
    BY <1>3, <1>4, <1>5, Zenon DEF ReachesSuccessor

-----------------------------------------------------------------------------
(* GraphProjector: the reader.                                             *)

AnswersReached == FoundIsReached /\ AffectedIsReached /\ SuccessorsReached /\ LaterIsReached

LEMMA Reached == GraphInv => AnswersReached
BY FoundReached, AffectedReached, SupersededReached, LaterReached, Zenon DEF AnswersReached

LEMMA ReachedNext == GraphInv' => AnswersReached'
BY Reached, PTL

\* Rows, relationships and nodes are never removed.
Grows ==
    /\ edge \subseteq edge'
    /\ \A r \in Rows : row[r] # "absent" => row'[r] # "absent"
    /\ \A r \in Nodes : node[r] # "absent" => node'[r] # "absent"

\* Then no answer loses anything.
LEMMA AnswersGrow ==
    ASSUME GraphInv, GraphInv', Grows
    PROVE  /\ \A kind \in QueryKinds : \A k :
                /\ FoundVersions(kind, k) \subseteq FoundVersions(kind, k)'
                /\ FoundDecisions(kind, k) \subseteq FoundDecisions(kind, k)'
                /\ AffectedVersions(kind, k) \subseteq AffectedVersions(kind, k)'
                /\ AffectedDecisions(kind, k) \subseteq AffectedDecisions(kind, k)'
           /\ \A k : SupersededBy(k) \subseteq SupersededBy(k)'
           /\ \A kind \in QueryKinds : \A k \in InTable(AskedTable(kind)) :
                LaterVersions(kind, k) \subseteq LaterVersions(kind, k)'
<1>1. AnswersReached /\ AnswersReached'
    BY Reached, ReachedNext, Zenon
<1>2. edge \subseteq edge'
    BY Zenon DEF Grows
<1>3. Asserted \subseteq Asserted'
    BY Zenon DEF Grows, Asserted
<1>4. ASSUME NEW kind \in QueryKinds, NEW k, NEW x
      PROVE  /\ x \in FoundVersions(kind, k) => x \in FoundVersions(kind, k)'
             /\ x \in FoundDecisions(kind, k) => x \in FoundDecisions(kind, k)'
    BY <1>1, <1>2, ReachMonotone, Zenon DEF AnswersReached, FoundIsReached
<1>5. ASSUME NEW kind \in QueryKinds, NEW k, NEW x
      PROVE  /\ x \in AffectedVersions(kind, k) => x \in AffectedVersions(kind, k)'
             /\ x \in AffectedDecisions(kind, k) => x \in AffectedDecisions(kind, k)'
    BY <1>1, <1>3, ReachMonotone, Zenon DEF AnswersReached, AffectedIsReached
<1>6. ASSUME NEW k, NEW x, x \in SupersededBy(k) PROVE x \in SupersededBy(k)'
    BY <1>1, <1>2, <1>6, SuccessorMonotone, Zenon DEF AnswersReached, SuccessorsReached
<1>7. ASSUME NEW k \in InTable("fact_versions"), NEW x, x \in LaterVersions("version", k)
      PROVE  x \in LaterVersions("version", k)'
    BY <1>1, <1>3, <1>7, SuccessorMonotone, Zenon DEF AnswersReached, LaterIsReached
<1>8. AskedTable("version") = "fact_versions"
    BY DEF AskedTable
<1>9. \A kind \in QueryKinds : kind # "version" => \A k : LaterVersions(kind, k) = {}
    BY Zenon DEF LaterVersions
<1>10. ASSUME NEW kind \in QueryKinds, NEW k \in InTable(AskedTable(kind)), NEW x, x \in LaterVersions(kind, k)
       PROVE  x \in LaterVersions(kind, k)'
  <2>1. kind = "version"
    BY <1>9, <1>10, Zenon
  <2> QED
    BY <1>7, <1>8, <1>10, <2>1, Zenon
<1> QED
    BY <1>4, <1>5, <1>6, <1>10, Zenon

\* A request, by its phase.
LEMMA RequestTyped ==
    \A x \in {NoRequest} \cup Question \cup Answer :
        /\ x.phase # "idle" => x.kind \in QueryKinds /\ x.key \in Nodes
        /\ x.phase \in {"asked", "found", "notfound"} => x \in Question
        /\ x.phase \in {"impact", "answered"} => x \in Answer
        /\ x.phase \in {"idle", "asked", "found", "notfound", "impact", "answered"}
        /\ x.phase = "idle" => x = NoRequest
<1>1. NoRequest.phase = "idle"
    BY DEF NoRequest
<1>2. ASSUME NEW x \in Question
      PROVE  x.kind \in QueryKinds /\ x.key \in Nodes /\ x.phase \in {"asked", "found", "notfound"}
    BY Zenon DEF Question
<1>3. ASSUME NEW x \in Answer
      PROVE  x.kind \in QueryKinds /\ x.key \in Nodes /\ x.phase \in {"impact", "answered"}
    BY Zenon DEF Answer
<1> QED
    BY <1>1, <1>2, <1>3

\* A request stays so while the graph and the rows grow.
LEMMA RequestKept ==
    ASSUME GraphInv, GraphInv', Grows, NEW x, RequestOK(x)
    PROVE  RequestOK(x)'
<1>1. x \in {NoRequest} \cup Question \cup Answer
    BY Zenon DEF RequestOK
<1>2. x.phase # "idle" => /\ x.kind \in QueryKinds /\ x.key \in Nodes /\ x.key \in Rows
                          /\ x.key \in InTable(AskedTable(x.kind))
    BY <1>1, RequestTyped, NodesAreRows, Zenon DEF RequestOK
<1>3. /\ x.phase \in {"asked", "found"} => x.phase # "idle"
      /\ x.phase \in {"impact", "answered"} => x.phase # "idle"
    OBVIOUS
<1>4. x.phase # "idle" =>
          /\ row'[x.key] # "absent"
          /\ x.kind # "version" => x.later = {}
    BY <1>2, Zenon DEF Grows, RequestOK
<1>5. x.phase \in {"asked", "found"} /\ ~x.pending =>
          /\ node'[x.key] # "absent"
          /\ x.versions \subseteq FoundVersions(x.kind, x.key)'
          /\ x.decisions \subseteq FoundDecisions(x.kind, x.key)'
  <2> SUFFICES ASSUME x.phase \in {"asked", "found"}, ~x.pending
               PROVE  /\ node'[x.key] # "absent"
                      /\ x.versions \subseteq FoundVersions(x.kind, x.key)'
                      /\ x.decisions \subseteq FoundDecisions(x.kind, x.key)'
    OBVIOUS
  <2>1. /\ node[x.key] # "absent"
        /\ x.versions \subseteq FoundVersions(x.kind, x.key)
        /\ x.decisions \subseteq FoundDecisions(x.kind, x.key)
    BY Zenon DEF RequestOK
  <2>2. /\ FoundVersions(x.kind, x.key) \subseteq FoundVersions(x.kind, x.key)'
        /\ FoundDecisions(x.kind, x.key) \subseteq FoundDecisions(x.kind, x.key)'
    BY <1>2, <1>3, AnswersGrow, Zenon
  <2> QED
    BY <1>2, <1>3, <2>1, <2>2, Zenon DEF Grows
<1>6. x.phase \in {"asked", "found", "impact"} /\ ~x.pending => x.later \subseteq SupersededBy(x.key)'
  <2>1. SupersededBy(x.key) \subseteq SupersededBy(x.key)'
    BY AnswersGrow, Zenon
  <2> QED
    BY <2>1, Zenon DEF RequestOK
<1>7. x.phase \in {"impact", "answered"} =>
          /\ ~x.pending /\ ~x.cut => x.versions \subseteq x.gotVersions /\ x.decisions \subseteq x.gotDecisions
          /\ x.gotVersions \subseteq AffectedVersions(x.kind, x.key)'
          /\ x.gotDecisions \subseteq AffectedDecisions(x.kind, x.key)'
          /\ x.gotLater \subseteq LaterVersions(x.kind, x.key)'
  <2> SUFFICES ASSUME x.phase \in {"impact", "answered"}
               PROVE  /\ ~x.pending /\ ~x.cut => x.versions \subseteq x.gotVersions /\ x.decisions \subseteq x.gotDecisions
                      /\ x.gotVersions \subseteq AffectedVersions(x.kind, x.key)'
                      /\ x.gotDecisions \subseteq AffectedDecisions(x.kind, x.key)'
                      /\ x.gotLater \subseteq LaterVersions(x.kind, x.key)'
    OBVIOUS
  <2>1. /\ ~x.pending /\ ~x.cut => x.versions \subseteq x.gotVersions /\ x.decisions \subseteq x.gotDecisions
        /\ x.gotVersions \subseteq AffectedVersions(x.kind, x.key)
        /\ x.gotDecisions \subseteq AffectedDecisions(x.kind, x.key)
        /\ x.gotLater \subseteq LaterVersions(x.kind, x.key)
    BY Zenon DEF RequestOK
  <2>2. /\ AffectedVersions(x.kind, x.key) \subseteq AffectedVersions(x.kind, x.key)'
        /\ AffectedDecisions(x.kind, x.key) \subseteq AffectedDecisions(x.kind, x.key)'
        /\ LaterVersions(x.kind, x.key) \subseteq LaterVersions(x.kind, x.key)'
    BY <1>2, <1>3, AnswersGrow, Zenon
  <2> QED
    BY <2>1, <2>2, Zenon
<1>8. /\ x.phase = "notfound" => x.pending
      /\ x.phase = "impact" => x.kind = "version"
      /\ x.phase = "answered" /\ ~x.pending => x.later \subseteq x.gotLater
    BY Zenon DEF RequestOK
<1> QED
    BY <1>1, <1>2, <1>4, <1>5, <1>6, <1>7, <1>8, Zenon DEF RequestOK

\* Every step lets the graph and the rows grow.
LEMMA StepsGrow ==
    ASSUME GraphInv, [GraphNext]_projectionVars
    PROVE  Grows
<1>1. ASSUME NEW t \in Txns, CommitTransaction(t) PROVE Grows
  <2>1. \A r \in Rows : row[r] # "absent" => row'[r] # "absent"
    BY <1>1 DEF CommitTransaction
  <2>2. edge' = edge /\ node' = node
    BY <1>1, Zenon DEF CommitTransaction, graphVars
  <2> QED
    BY <2>1, <2>2, Zenon DEF Grows
<1>2. ASSUME NEW p \in Projectors, ApplyRows(p) PROVE Grows
  <2>1. row' = row /\ edge \subseteq edge' /\ \A r \in Nodes \ DOMAIN loaded[p] : node[r] # "absent" => node'[r] # "absent"
    BY <1>2 DEF ApplyRows, Merge, pgVars
  <2>2. \A r \in Nodes \cap DOMAIN loaded[p] : node'[r] = loaded[p][r]
    BY <1>2, Zenon DEF ApplyRows, Merge
  <2>3. \A r \in DOMAIN loaded[p] : loaded[p][r] \in {"stored", "closed"}
    BY <1>2 DEF GraphInv, ProjectorOK, ApplyRows
  <2>4. \A r \in Nodes \cap DOMAIN loaded[p] : node'[r] # "absent"
    BY <2>2, <2>3
  <2> QED
    BY <2>1, <2>4, Zenon DEF Grows
<1>3. ASSUME UNCHANGED <<row, node, edge>> PROVE Grows
    BY <1>3, Zenon DEF Grows
<1>4. ASSUME NEW p \in Projectors, Claim(p) \/ NoEvents(p) \/ Load(p) \/ Delete(p) \/ ProjectorFails(p)
      PROVE  UNCHANGED <<row, node, edge>>
    BY <1>4, Zenon DEF Claim, NoEvents, Load, Delete, ProjectorFails, projectionVars, pgVars, graphVars
<1>5. ASSUME ReaderNext \/ UNCHANGED projectionVars PROVE UNCHANGED <<row, node, edge>>
    BY <1>5, Zenon DEF ReaderNext, Ask, RequireNode, ReadGraph, ReadSuccessors, Respond, projectionVars,
                       pgVars, graphVars
<1> QED
    BY <1>1, <1>2, <1>3, <1>4, <1>5, Zenon DEF GraphNext, ProjectorNext

\* The questions are about nodes, and the answers name rows.
LEMMA AskedIsNode ==
    ASSUME NEW kind \in QueryKinds
    PROVE  InTable(AskedTable(kind)) \subseteq Nodes
<1>1. AskedTable(kind) \in {"fact_versions", "fact_sources", "evidence", "decisions"}
    BY DEF AskedTable, QueryKinds
<1> QED
    BY <1>1, NodesOfTables, Zenon

LEMMA AffectedAreRows ==
    ASSUME GraphInv, NEW kind \in QueryKinds, NEW k \in Rows
    PROVE  /\ AffectedVersions(kind, k) \subseteq Rows
           /\ AffectedDecisions(kind, k) \subseteq Rows
           /\ LaterVersions(kind, k) \subseteq Rows
<1>1. \A a, type, b : <<a, type, b>> \in Asserted => a \in Rows /\ b \in Rows
  <2> SUFFICES ASSUME NEW a, NEW type, NEW b, <<a, type, b>> \in Asserted PROVE a \in Rows /\ b \in Rows
    BY Zenon
  <2>1. PICK r \in Rows : <<a, type, b>> \in Edges(r)
    BY AssertedByRow, Zenon
  <2> QED
    BY <2>1, EdgeEnds, TupleParts, NodesAreRows, Zenon
<1>2. AffectedIsReached
    BY AffectedReached, Zenon
<1>3. ASSUME NEW x, ReachesVersion(Asserted, kind, k, x) PROVE x \in Rows
    BY <1>1, <1>3, Zenon DEF ReachesVersion
<1>4. ASSUME NEW x, ReachesDecision(Asserted, kind, k, x) PROVE x \in Rows
    BY <1>1, <1>4, Zenon DEF ReachesDecision
<1>5. LaterVersions(kind, k) \subseteq Rows
    BY Zenon DEF LaterVersions, StoredIn, InTable
<1> QED
    BY <1>2, <1>3, <1>4, <1>5, Zenon DEF AffectedIsReached

\* What is found is affected, and all that is affected is found when no event is
\* pending.
LEMMA FoundIsTrue ==
    ASSUME GraphInv, NEW kind \in QueryKinds, NEW k
    PROVE  /\ FoundVersions(kind, k) \subseteq AffectedVersions(kind, k)
           /\ FoundDecisions(kind, k) \subseteq AffectedDecisions(kind, k)
           /\ k \in InTable("fact_versions") => SupersededBy(k) \subseteq LaterVersions("version", k)
<1>1. edge \subseteq Asserted
    BY GraphAndRows, Zenon
<1>2. AnswersReached
    BY Reached, Zenon
<1>3. ASSUME NEW x
      PROVE  /\ x \in FoundVersions(kind, k) => x \in AffectedVersions(kind, k)
             /\ x \in FoundDecisions(kind, k) => x \in AffectedDecisions(kind, k)
    BY <1>1, <1>2, ReachMonotone, Zenon DEF AnswersReached, FoundIsReached, AffectedIsReached
<1>4. ASSUME k \in InTable("fact_versions"), NEW x \in SupersededBy(k) PROVE x \in LaterVersions("version", k)
    BY <1>1, <1>2, <1>4, SuccessorMonotone, Zenon DEF AnswersReached, SuccessorsReached, LaterIsReached
<1> QED
    BY <1>3, <1>4, Zenon

LEMMA FoundIsAll ==
    ASSUME GraphInv, graphOutbox = {}, NEW kind \in QueryKinds, NEW k
    PROVE  /\ AffectedVersions(kind, k) \subseteq FoundVersions(kind, k)
           /\ AffectedDecisions(kind, k) \subseteq FoundDecisions(kind, k)
           /\ k \in InTable("fact_versions") => LaterVersions("version", k) \subseteq SupersededBy(k)
<1>1. edge = Asserted
    BY GraphAndRows, Zenon
<1>2. AnswersReached
    BY Reached, Zenon
<1>3. ASSUME NEW x
      PROVE  /\ x \in AffectedVersions(kind, k) => x \in FoundVersions(kind, k)
             /\ x \in AffectedDecisions(kind, k) => x \in FoundDecisions(kind, k)
    BY <1>1, <1>2, Zenon DEF AnswersReached, FoundIsReached, AffectedIsReached
<1>4. ASSUME k \in InTable("fact_versions"), NEW x \in LaterVersions("version", k) PROVE x \in SupersededBy(k)
    BY <1>1, <1>2, <1>4, Zenon DEF AnswersReached, SuccessorsReached, LaterIsReached
<1> QED
    BY <1>3, <1>4, Zenon

LEMMA IdleRequest == RequestOK(NoRequest)
<1>1. NoRequest.phase = "idle"
    BY DEF NoRequest
<1>2. NoRequest.phase \notin {"asked", "found", "notfound", "impact", "answered"}
    BY <1>1
<1> QED
    BY <1>1, <1>2, Zenon DEF RequestOK

LEMMA AskOK ==
    ASSUME GraphInv, NEW q \in Queries, Ask(q)
    PROVE  RequestOK(reader')
<1> DEFINE kind == q[1]
           k == q[2]
<1>1. kind \in QueryKinds /\ k \in InTable(AskedTable(kind)) /\ row[k] # "absent"
    BY ProjectorAssumption, Zenon DEF Ask
<1>2. k \in Nodes /\ k \in Rows
    BY <1>1, AskedIsNode, NodesAreRows, Zenon
<1> HIDE DEF kind, k
<1>3. PICK y : y = [phase |-> "asked", kind |-> kind, key |-> k, pending |-> AnyPending,
                    versions |-> AffectedVersions(kind, k), decisions |-> AffectedDecisions(kind, k),
                    later |-> LaterVersions(kind, k)]
    BY Zenon
<1>4. reader' = y
    BY <1>3, Zenon DEF Ask, kind, k
<1>5. /\ y.phase = "asked" /\ y.kind = kind /\ y.key = k /\ y.pending = AnyPending
      /\ y.versions = AffectedVersions(kind, k) /\ y.decisions = AffectedDecisions(kind, k)
      /\ y.later = LaterVersions(kind, k)
    BY <1>3, Zenon
<1>6. y \in Question
  <2>1. AnyPending \in BOOLEAN
    BY Zenon DEF AnyPending
  <2> QED
    BY <1>1, <1>2, <1>3, <2>1, AffectedAreRows, Zenon DEF Question
<1>7. kind # "version" => LaterVersions(kind, k) = {}
    BY Zenon DEF LaterVersions
<1>8. ASSUME ~y.pending
      PROVE  /\ node[k] # "absent"
             /\ AffectedVersions(kind, k) \subseteq FoundVersions(kind, k)
             /\ AffectedDecisions(kind, k) \subseteq FoundDecisions(kind, k)
             /\ LaterVersions(kind, k) \subseteq SupersededBy(k)
  <2>1. graphOutbox = {}
    BY <1>5, <1>8, Zenon DEF AnyPending
  <2>2. node[k] # "absent"
    BY <1>1, <1>2, <2>1, GraphAndRows, Zenon
  <2>3. kind = "version" => k \in InTable("fact_versions")
    BY <1>1 DEF AskedTable
  <2> QED
    BY <1>1, <1>7, <2>1, <2>2, <2>3, FoundIsAll, Zenon
<1>9. y.phase # "idle" /\ y.phase \notin {"notfound", "impact", "answered"}
    BY <1>5
<1> QED
    BY <1>1, <1>4, <1>5, <1>6, <1>7, <1>8, <1>9, ZenonT(40) DEF RequestOK

LEMMA RequireOK ==
    ASSUME RequestOK(reader), RequireNode
    PROVE  RequestOK(reader')
<1>1. PICK x : x = reader
    OBVIOUS
<1>2. x.phase = "asked" /\ RequestOK(x)
    BY <1>1, Zenon DEF RequireNode
<1>3. x \in Question
    BY <1>2, RequestTyped, Zenon DEF RequestOK
<1>4. PICK ph : ph = IF node[x.key] = "absent" THEN "notfound" ELSE "found"
    OBVIOUS
<1>5. PICK y : y = [x EXCEPT !.phase = ph]
    OBVIOUS
<1>6. reader' = y
    BY <1>1, <1>4, <1>5, Zenon DEF RequireNode
<1>7. ph \in {"notfound", "found"}
    BY <1>4, Zenon
<1>8. /\ y \in Question
      /\ y.phase = ph /\ y.kind = x.kind /\ y.key = x.key /\ y.pending = x.pending
      /\ y.versions = x.versions /\ y.decisions = x.decisions /\ y.later = x.later
  <2>1. /\ y.phase = ph /\ y.kind = x.kind /\ y.key = x.key /\ y.pending = x.pending
        /\ y.versions = x.versions /\ y.decisions = x.decisions /\ y.later = x.later
    BY <1>3, <1>5 DEF Question
  <2>2. y \in Question
    BY <1>3, <1>5, <1>7, Zenon DEF Question
  <2> QED
    BY <2>1, <2>2, Zenon
<1>9. x.phase # "idle" /\ y.phase # "idle" /\ y.phase \notin {"impact", "answered", "asked"}
    BY <1>2, <1>7, <1>8
<1>10. y.phase = "notfound" => y.pending
  <2>1. ~x.pending => node[x.key] # "absent"
    BY <1>2, Zenon DEF RequestOK
  <2> QED
    BY <1>4, <1>8, <2>1
<1>11. /\ x.key \in InTable(AskedTable(x.kind)) /\ row[x.key] # "absent"
       /\ x.kind # "version" => x.later = {}
       /\ ~x.pending => /\ node[x.key] # "absent"
                        /\ x.versions \subseteq FoundVersions(x.kind, x.key)
                        /\ x.decisions \subseteq FoundDecisions(x.kind, x.key)
                        /\ x.later \subseteq SupersededBy(x.key)
    BY <1>2, <1>9, Zenon DEF RequestOK
<1> QED
    BY <1>6, <1>8, <1>9, <1>10, <1>11, Zenon DEF RequestOK

LEMMA ReadGraphOK ==
    ASSUME GraphInv, RequestOK(reader), ReadGraph
    PROVE  RequestOK(reader')
<1>1. PICK x : x = reader
    OBVIOUS
<1>2. x.phase = "found" /\ RequestOK(x)
    BY <1>1, Zenon DEF ReadGraph
<1>3. x \in Question
    BY <1>2, RequestTyped, Zenon DEF RequestOK
<1>4. PICK ph : ph = IF x.kind = "version" THEN "impact" ELSE "answered"
    OBVIOUS
<1>5. PICK all, cut, rows, y :
        /\ all = Traverse(x.kind, x.key) /\ cut \in BOOLEAN /\ cut = CutOff(all) /\ rows \in Fetched(all)
        /\ y = [phase |-> ph, gotVersions |-> GroupVersions(x.kind, x.key, rows),
                gotDecisions |-> GroupDecisions(x.kind, rows), gotLater |-> {}, cut |-> cut,
                kind |-> x.kind, key |-> x.key, pending |-> x.pending,
                versions |-> x.versions, decisions |-> x.decisions, later |-> x.later]
        /\ reader' = y
  <2>1. CutOff(Traverse(x.kind, x.key)) \in BOOLEAN
    BY DEF CutOff
  <2> QED
    BY <1>1, <1>4, <2>1, Zenon DEF ReadGraph
<1>6. PICK gv, gd : gv = GroupVersions(x.kind, x.key, rows) /\ gd = GroupDecisions(x.kind, rows)
    OBVIOUS
<1>7. ph \in {"impact", "answered"} /\ (ph = "impact" => x.kind = "version") /\ (ph = "answered" => x.kind # "version")
    BY <1>4
<1>8. /\ x.kind \in QueryKinds /\ x.key \in Nodes /\ x.key \in Rows /\ x.pending \in BOOLEAN
      /\ x.versions \in SUBSET Rows /\ x.decisions \in SUBSET Rows /\ x.later \in SUBSET Rows
    BY <1>3, NodesAreRows, Zenon DEF Question
<1>9. /\ gv \subseteq FoundVersions(x.kind, x.key) /\ gd \subseteq FoundDecisions(x.kind, x.key)
      /\ ~cut => gv = FoundVersions(x.kind, x.key) /\ gd = FoundDecisions(x.kind, x.key)
  <2>1. rows \subseteq all /\ (~cut => rows = all)
    BY <1>5, Zenon DEF Fetched
  <2>2. /\ GroupVersions(x.kind, x.key, rows) \subseteq GroupVersions(x.kind, x.key, all)
        /\ GroupDecisions(x.kind, rows) \subseteq GroupDecisions(x.kind, all)
    BY <2>1, Zenon DEF GroupVersions, GroupDecisions
  <2> QED
    BY <1>5, <1>6, <2>1, <2>2, Zenon DEF FoundVersions, FoundDecisions
<1>10. /\ gv \subseteq AffectedVersions(x.kind, x.key) /\ gd \subseteq AffectedDecisions(x.kind, x.key)
       /\ gv \in SUBSET Rows /\ gd \in SUBSET Rows
  <2>1. /\ FoundVersions(x.kind, x.key) \subseteq AffectedVersions(x.kind, x.key)
        /\ FoundDecisions(x.kind, x.key) \subseteq AffectedDecisions(x.kind, x.key)
    BY <1>8, FoundIsTrue, Zenon
  <2>2. AffectedVersions(x.kind, x.key) \subseteq Rows /\ AffectedDecisions(x.kind, x.key) \subseteq Rows
    BY <1>8, AffectedAreRows, Zenon
  <2> QED
    BY <1>9, <2>1, <2>2, Zenon
<1>11. y \in Answer
    BY <1>5, <1>6, <1>7, <1>8, <1>10, Zenon DEF Answer
<1>12. /\ y.phase = ph /\ y.gotVersions = gv /\ y.gotDecisions = gd /\ y.gotLater = {} /\ y.cut = cut
       /\ y.kind = x.kind /\ y.key = x.key /\ y.pending = x.pending
       /\ y.versions = x.versions /\ y.decisions = x.decisions /\ y.later = x.later
    BY <1>5, <1>6, Zenon
<1>13. x.phase # "idle" /\ y.phase # "idle" /\ y.phase \notin {"asked", "found", "notfound"}
    BY <1>2, <1>7, <1>12
<1>14. /\ x.key \in InTable(AskedTable(x.kind)) /\ row[x.key] # "absent"
       /\ x.kind # "version" => x.later = {}
       /\ ~x.pending => /\ x.versions \subseteq FoundVersions(x.kind, x.key)
                        /\ x.decisions \subseteq FoundDecisions(x.kind, x.key)
                        /\ x.later \subseteq SupersededBy(x.key)
    BY <1>2, <1>13, Zenon DEF RequestOK
<1>15. ~y.pending /\ ~y.cut => y.versions \subseteq y.gotVersions /\ y.decisions \subseteq y.gotDecisions
    BY <1>9, <1>12, <1>14, Zenon
<1> QED
    BY <1>5, <1>7, <1>10, <1>11, <1>12, <1>13, <1>14, <1>15, ZenonT(40) DEF RequestOK

LEMMA ReadSuccessorsOK ==
    ASSUME GraphInv, RequestOK(reader), ReadSuccessors
    PROVE  RequestOK(reader')
<1>1. PICK x : x = reader
    OBVIOUS
<1>2. x.phase = "impact" /\ RequestOK(x)
    BY <1>1, Zenon DEF ReadSuccessors
<1>3. x \in Answer
    BY <1>2, RequestTyped, Zenon DEF RequestOK
<1>4. PICK later : later = SupersededBy(x.key)
    OBVIOUS
<1>5. PICK y : y = [x EXCEPT !.gotLater = later, !.phase = "answered"]
    OBVIOUS
<1>6. reader' = y
    BY <1>1, <1>4, <1>5, Zenon DEF ReadSuccessors
<1>7. later \in SUBSET Rows
    BY <1>4, Zenon DEF SupersededBy, InTable
<1>8. /\ y.phase = "answered" /\ y.kind = x.kind /\ y.key = x.key /\ y.pending = x.pending
      /\ y.versions = x.versions /\ y.decisions = x.decisions /\ y.later = x.later
      /\ y.gotVersions = x.gotVersions /\ y.gotDecisions = x.gotDecisions /\ y.gotLater = later
      /\ y.cut = x.cut
    BY <1>3, <1>5 DEF Answer
<1>9. y \in Answer
    BY <1>3, <1>5, <1>7, Zenon DEF Answer
<1>10. x.phase # "idle" /\ y.phase # "idle" /\ y.phase \notin {"asked", "found", "notfound", "impact"}
    BY <1>2, <1>8
<1>11. /\ x.key \in InTable(AskedTable(x.kind)) /\ row[x.key] # "absent" /\ x.kind = "version"
       /\ ~x.pending => x.later \subseteq SupersededBy(x.key)
       /\ ~x.pending /\ ~x.cut => x.versions \subseteq x.gotVersions /\ x.decisions \subseteq x.gotDecisions
       /\ x.gotVersions \subseteq AffectedVersions(x.kind, x.key)
       /\ x.gotDecisions \subseteq AffectedDecisions(x.kind, x.key)
    BY <1>2, <1>10, Zenon DEF RequestOK
<1>12. later \subseteq LaterVersions(x.kind, x.key)
  <2>1. x.key \in InTable("fact_versions") /\ x.kind \in QueryKinds
    BY <1>3, <1>11 DEF AskedTable, Answer
  <2> QED
    BY <1>4, <1>11, <2>1, FoundIsTrue, Zenon
<1> QED
    BY <1>4, <1>6, <1>8, <1>9, <1>10, <1>11, <1>12, ZenonT(40) DEF RequestOK

LEMMA ReaderNextInv == GraphInv /\ ReaderOK /\ [GraphNext]_projectionVars => ReaderOK'
<1> SUFFICES ASSUME GraphInv, ReaderOK, [GraphNext]_projectionVars PROVE ReaderOK'
    OBVIOUS
<1>1. GraphInv' /\ Grows
    BY GraphNextInv, StepsGrow, Zenon
<1>2. RequestOK(reader')
  <2>1. CASE ReaderNext
    <3>1. ASSUME Respond PROVE RequestOK(reader')
        BY <3>1, IdleRequest, Zenon DEF Respond
    <3> QED
        BY <2>1, <3>1, AskOK, RequireOK, ReadGraphOK, ReadSuccessorsOK, Zenon DEF ReaderNext, ReaderOK
  <2>2. CASE reader' = reader
    BY <2>2, Zenon DEF ReaderOK
  <2>3. ReaderNext \/ reader' = reader
    <3>1. ASSUME NEW p \in Projectors, ProjectorNext(p) \/ ProjectorFails(p) PROVE reader' = reader
        BY <3>1, Zenon DEF ProjectorNext, Claim, NoEvents, Load, ApplyRows, Delete, ProjectorFails, projectionVars
    <3>2. ASSUME NEW t \in Txns, CommitTransaction(t) PROVE reader' = reader
        BY <3>2, Zenon DEF CommitTransaction
    <3>3. ASSUME UNCHANGED projectionVars PROVE reader' = reader
        BY <3>3, Zenon DEF projectionVars
    <3> QED
        BY <3>1, <3>2, <3>3, Zenon DEF GraphNext
  <2> QED
    BY <2>1, <2>2, <2>3, Zenon
<1>3. PICK y : y = reader'
    OBVIOUS
<1>4. RequestOK(y)'
    BY <1>1, <1>2, <1>3, RequestKept, Zenon
<1> QED
    BY <1>3, <1>4, Zenon DEF ReaderOK, RequestOK

LEMMA ReaderInvariance == GraphSpec => []ReaderOK
<1>1. GraphInit => ReaderOK
    BY IdleRequest, Zenon DEF GraphInit, ReaderOK
<1> QED
    BY <1>1, ReaderNextInv, GraphInvariance, PTL DEF GraphSpec

\* However the projectors, the writers and the reader interleave, and whatever
\* fails: an answer that reports no pending events is complete as of the moment
\* the events were counted, unless its traversal has more records than the reader
\* fetches (provenance/graph.py, _records).
THEOREM AnswersComplete == GraphSpec => []ZeroPendingMeansComplete
<1>1. ReaderOK => ZeroPendingMeansComplete
  <2>1. Answered => reader.phase \in {"impact", "answered"}
    BY Zenon DEF Answered
  <2> QED
    BY <2>1, Zenon DEF ReaderOK, RequestOK, ZeroPendingMeansComplete, Answered
<1> QED
    BY <1>1, ReaderInvariance, PTL

\* And no answer, complete or not, names what PostgreSQL does not have.
THEOREM AnswersAlwaysTrue == GraphSpec => []AnswersTrue
<1>1. ReaderOK => AnswersTrue
  <2>1. Answered => reader.phase \in {"impact", "answered"}
    BY Zenon DEF Answered
  <2> QED
    BY <2>1, Zenon DEF ReaderOK, RequestOK, AnswersTrue
<1> QED
    BY <1>1, ReaderInvariance, PTL
=============================================================================
