---------------------------- MODULE MCBackground ----------------------------
(***************************************************************************)
(* What background work comes to in the end: EmbeddingQueue, EventPipeline *)
(* and GraphProjector.                                                     *)
(*                                                                         *)
(* One run checks them side by side: a behaviour is of the one that part   *)
(* names, and the others stay in their initial states.                     *)
(* Parts = {"queue"} checks the first alone.                               *)
(***************************************************************************)
EXTENDS EmbeddingQueue, TLC

CONSTANTS Parts, org1, org2, doc1, doc2, w1, w2

\* Two versions, in two organizations.
TwoTexts == <<doc1, doc2>>
TwoOrgs == <<org1, org2>>

OneWorker == {w1}
TwoWorkers == {w1, w2}

-----------------------------------------------------------------------------
(* EventPipeline: an event whose handler succeeds and one whose handler    *)
(* fails for good.                                                         *)

VARIABLES txn, commits, outbox, relayClaimed, unsent, log, offset, owner, mode, done, upto,
          attempt, processed, applied, parked, eventFaults

eventVars == <<txn, commits, outbox, relayClaimed, unsent, log, offset, owner, mode, done, upto,
               attempt, processed, applied, parked, eventFaults>>

MixedKinds == <<"handled", "permanent">>

Event ==
    INSTANCE EventPipeline WITH
        LastEvent <- 2, Kind <- MixedKinds, Relays <- OneWorker, Workers <- TwoWorkers, BatchSize <- 2,
        MaxRecords <- 1, MaxAttempts <- 2, MaxFaults <- 1,
        claimed <- relayClaimed, faults <- eventFaults

-----------------------------------------------------------------------------
(* GraphProjector: one version and its successor.                          *)

VARIABLES row, writes, graphOutbox, nextId, node, edge, graphPhase, graphClaimed, loaded, reader, graphFaults

graphVars ==
    <<row, writes, graphOutbox, nextId, node, edge, graphPhase, graphClaimed, loaded, reader, graphFaults>>

Version(supersedes, number) ==
    [table |-> "fact_versions", fact |-> "f", source |-> "s", supersedes |-> supersedes, number |-> number]

ChainRow ==
    [e |-> [table |-> "entities"], s |-> [table |-> "fact_sources"],
     f |-> [table |-> "facts", entity |-> "e"],
     v1 |-> Version(NULL, 1), v2 |-> Version("v1", 2)]

ChainTransactions == << <<"f", "v1">>, <<"v1", "v2">> >>

Graph ==
    INSTANCE GraphProjector WITH
        Row <- ChainRow, Existing <- <<"e", "s">>, Transactions <- ChainTransactions,
        Projectors <- TwoWorkers, GraphBatch <- 2, GraphFetch <- 2, Visible <- {}, Queries <- {},
        MaxGraphFaults <- 2,
        todo <- writes, phase <- graphPhase

ASSUME BackgroundAssumption == Graph!ProjectorAssumption

-----------------------------------------------------------------------------
(* The runs side by side.                                                  *)

VARIABLE part

everyVar == <<part, vars, eventVars, graphVars>>

InQueue == part = "queue" /\ UNCHANGED <<part, eventVars, graphVars>>
InEvents == part = "events" /\ UNCHANGED <<part, vars, graphVars>>
InGraph == part = "graph" /\ UNCHANGED <<part, vars, eventVars>>

PartsInit ==
    /\ part \in Parts
    /\ Init /\ Event!Init /\ Graph!GraphInit

PartsNext ==
    \/ InQueue /\ Next
    \/ InEvents /\ Event!Next
    \/ InGraph /\ Graph!GraphNext

\* run_forever and _supervise restart what fails, and faults are finitely many;
\* nothing makes a writer commit.
WorkersRun ==
    /\ \A w \in TwoWorkers :
          WF_everyVar(\/ InQueue /\ WorkerNext(w)
                      \/ InEvents /\ Event!WorkerNext(w)
                      \/ InGraph /\ Graph!ProjectorNext(w))
    /\ WF_everyVar(InEvents /\ Event!RelayNext(w1))

\* Time passes.
TimePasses == WF_everyVar(InQueue /\ Tick)

ProgressSpec == PartsInit /\ [][PartsNext]_everyVar /\ WorkersRun /\ TimePasses

-----------------------------------------------------------------------------
(* Properties, as the components state them; EventuallySettled of          *)
(* EmbeddingQueue comes with EXTENDS.                                      *)

\* EventPipeline: every committed event is handled, ignored or dead-lettered.
EventsSettled == Event!EventuallySettled

\* GraphProjector: every stored row is projected in the end.
EventuallyProjected == part = "graph" => Graph!EventuallyProjected
=============================================================================
