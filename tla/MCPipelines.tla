---------------------------- MODULE MCPipelines ----------------------------
(***************************************************************************)
(* What feeds, runs and serves the projections: EventPipeline,             *)
(* GraphProjector, Workers and Migrations (twice).                         *)
(*                                                                         *)
(* The components share no state, so one run checks them side by side: a   *)
(* behaviour is of the one that part names, and the others stay in their   *)
(* initial states.  Parts = {"events"} checks the first alone.             *)
(***************************************************************************)
EXTENDS EventPipeline, GraphProjector, Workers, TLC

CONSTANT Parts

\* An event that the handler applies and one that it ignores.
MixedKinds == <<"handled", "ignored">>

-----------------------------------------------------------------------------
(* The provenance graph.                                                   *)

Base ==
    [e |-> [table |-> "entities"],
     s |-> [table |-> "fact_sources"],
     f |-> [table |-> "facts", entity |-> "e"],
     v1 |-> [table |-> "fact_versions", fact |-> "f", source |-> "s", supersedes |-> NULL, number |-> 1]]

\* Evidence of another source, against v1 and for v2, and of the same for v2.
Evidence ==
    [y |-> [table |-> "evidence", source |-> "s"],
     l3 |-> [table |-> "fact_version_evidence", evidence |-> "y", version |-> "v2", relation |-> "SUPPORTS"],
     s2 |-> [table |-> "fact_sources"],
     x |-> [table |-> "evidence", source |-> "s2"],
     l1 |-> [table |-> "fact_version_evidence", evidence |-> "x", version |-> "v1", relation |-> "CONTRADICTS"],
     l2 |-> [table |-> "fact_version_evidence", evidence |-> "x", version |-> "v2", relation |-> "SUPPORTS"]]

Superseding ==
    [v2 |-> [table |-> "fact_versions", fact |-> "f", source |-> "s", supersedes |-> "v1", number |-> 2]]

Decided ==
    [n |-> [table |-> "context_snapshots"],
     i |-> [table |-> "context_snapshot_facts", snapshot |-> "n", version |-> "v1"],
     d |-> [table |-> "decisions", snapshot |-> "n"],
     b |-> [table |-> "decision_facts", decision |-> "d", version |-> "v1"]]

\* One version and its successor, two projectors that fail.
ChainRow == Base @@ Superseding
ChainExisting == <<"e", "s">>
ChainTransactions == << <<"f", "v1">>, <<"v1", "v2">> >>
ChainVisible == {"v1"}
ChainQueries == {<<"version", "v1">>}

\* Every table, a decision on v1 and its successor v2; one projector.
FullRow == Base @@ Evidence @@ Superseding @@ Decided
FullExisting == <<"e", "s", "s2", "f", "v1", "x", "y">>
FullTransactions == << <<"l1">>, <<"n", "i">>, <<"d", "b">>, <<"v1", "v2", "l2", "l3">> >>
FullQueries == {<<"version", "v1">>, <<"source", "s">>, <<"source", "s2">>, <<"evidence", "x">>, <<"decision", "d">>}

-----------------------------------------------------------------------------
(* Migrations.                                                             *)

VARIABLES revision, schema, rows, writing, documents, captured, tx, failed

migrationVars == <<revision, schema, rows, writing, documents, captured, tx, failed>>

\* One row of a table that several migrations touch, and every revision.
OneRow == {<<"fact_versions", 1>>}
AnyRevision == 0 .. 13
VectorInstalled == {"vector"}

Schema ==
    INSTANCE Migrations WITH
        Rows <- OneRow, Targets <- AnyRevision, Preinstalled <- VectorInstalled, outbox <- captured

\* Two versions and an entity, written before, during and after 0006 and 0008.
SomeRows == {<<"fact_versions", 1>>, <<"fact_versions", 2>>, <<"entities", 1>>}
SomeTargets == {5, 6, 8, 13}

Backfill ==
    INSTANCE Migrations WITH
        Rows <- SomeRows, Targets <- SomeTargets, Preinstalled <- {}, outbox <- captured

-----------------------------------------------------------------------------
(* The runs side by side.                                                  *)

VARIABLE part

allVars == <<part, vars, projectionVars, processVars, migrationVars>>

PartsInit ==
    /\ part \in Parts
    /\ Init /\ GraphInit /\ ProcessInit
    /\ IF part = "backfill" THEN Backfill!Init ELSE Schema!Init

PartsNext ==
    /\ UNCHANGED part
    /\ \/ part = "events" /\ Next /\ UNCHANGED <<projectionVars, processVars, migrationVars>>
       \/ part = "graph" /\ GraphNext /\ UNCHANGED <<vars, processVars, migrationVars>>
       \/ part = "workers" /\ ProcessNext /\ UNCHANGED <<vars, projectionVars, migrationVars>>
       \/ part = "schema" /\ Schema!Next /\ UNCHANGED <<vars, projectionVars, processVars>>
       \/ part = "backfill" /\ Backfill!Next /\ UNCHANGED <<vars, projectionVars, processVars>>

PartsSpec == PartsInit /\ [][PartsNext]_allVars

Symmetry == Permutations(Relays) \cup Permutations(Projectors) \cup Permutations(Workers)

-----------------------------------------------------------------------------
(* Properties of the migrations, as the component states them; those of the *)
(* other components come with EXTENDS.                                      *)

\* Migrations: a revision names one schema, whatever the way to it.
RevisionNamesSchema == part = "schema" => Schema!RevisionNamesSchema

\* Migrations: no row falls between a new trigger and the copy of old rows.
EveryRowCaptured == part = "backfill" => Backfill!EveryRowCaptured
=============================================================================
