---------------------------- MODULE EventPipeline ----------------------------
(***************************************************************************)
(* The domain-event pipeline of one tenant and one topic, so one Kafka     *)
(* partition: writers whose triggers insert into event_outbox (migration   *)
(* 0010), relays (app/workers/event_relay.py), and the processes of one    *)
(* consumer group (app/workers/event_consumers.py, app/events/consumer.py).*)
(*                                                                         *)
(* An event is named by the id of its outbox row, an identity column: ids  *)
(* are handed out when a transaction inserts, in order, whereas            *)
(* transactions commit in any order.                                       *)
(***************************************************************************)
EXTENDS Naturals, Sequences, FiniteSets, Null

CONSTANTS
    LastEvent,    \* bound: ids 1 .. LastEvent
    Kind,         \* what the group's handler makes of each event
    Relays,       \* relay processes
    BatchSize,    \* rows a relay claims at most
    Workers,      \* processes of the consumer group
    MaxRecords,   \* records getmany() returns at most
    MaxAttempts,  \* RetryPolicy.max_attempts
    MaxFaults     \* bound: crashes, lost connections and takeovers

Events == 1 .. LastEvent
Kinds == {"handled", "ignored", "permanent"}

ASSUME PipelineAssumption ==
    /\ LastEvent \in Nat
    /\ Kind \in [Events -> Kinds]
    /\ BatchSize \in Nat \ {0}
    /\ MaxRecords \in Nat \ {0}
    /\ MaxAttempts \in Nat \ {0}
    /\ MaxFaults \in Nat
    /\ NULL \notin Workers

VARIABLES
    txn,        \* the transaction that inserts each event
    commits,    \* history: the events in the order their transactions commit
    outbox,     \* committed rows of event_outbox
    claimed,    \* rows each relay has locked
    unsent,     \* those it has still to publish
    log,        \* the Kafka partition
    offset,     \* committed offset of the consumer group
    owner,      \* the process the partition is assigned to
    mode,       \* what each process of the group does
    done,       \* messages of the log each process is past
    upto,       \* end of the batch getmany() gave it
    attempt,    \* failed attempts at its current message
    processed,  \* committed rows of processed_events, of this group
    applied,    \* how often each event's effect is committed
    parked,     \* events on the dead-letter topic
    faults      \* faults still to come

writerVars == <<txn, commits>>
relayVars == <<claimed, unsent>>
workerVars == <<owner, mode, done, upto, attempt>>
effectVars == <<processed, applied, parked>>
vars == <<writerVars, outbox, relayVars, log, offset, workerVars, effectVars, faults>>

Modes == {"stopped", "polling", "working", "parking"}

Init ==
    /\ txn = [e \in Events |-> "none"]
    /\ commits = <<>>
    /\ outbox = {}
    /\ claimed = [r \in Relays |-> {}]
    /\ unsent = [r \in Relays |-> {}]
    /\ log = <<>>
    /\ offset = 0
    /\ owner = NULL
    /\ mode = [w \in Workers |-> "stopped"]
    /\ done = [w \in Workers |-> 0]
    /\ upto = [w \in Workers |-> 0]
    /\ attempt = [w \in Workers |-> 0]
    /\ processed = {}
    /\ applied = [e \in Events |-> 0]
    /\ parked = {}
    /\ faults = MaxFaults

Fault == faults > 0 /\ faults' = faults - 1

-----------------------------------------------------------------------------
(* Writers.                                                                *)

\* The trigger inserts the outbox row in the writer's transaction.
EmitEvent(e) ==
    /\ txn[e] = "none"
    /\ \A d \in 1 .. e - 1 : txn[d] # "none"
    /\ txn' = [txn EXCEPT ![e] = "open"]
    /\ UNCHANGED <<commits, outbox, relayVars, log, offset, workerVars, effectVars, faults>>

CommitChange(e) ==
    /\ txn[e] = "open"
    /\ txn' = [txn EXCEPT ![e] = "committed"]
    /\ commits' = Append(commits, e)
    /\ outbox' = outbox \cup {e}
    /\ UNCHANGED <<relayVars, log, offset, workerVars, effectVars, faults>>

RollbackChange(e) ==
    /\ txn[e] = "open"
    /\ txn' = [txn EXCEPT ![e] = "rolledback"]
    /\ UNCHANGED <<commits, outbox, relayVars, log, offset, workerVars, effectVars, faults>>

-----------------------------------------------------------------------------
(* EventRelay.run_once, one transaction per batch.                         *)

\* Rows another relay has locked are skipped.
Available == outbox \ UNION {claimed[r] : r \in Relays}

Oldest(rows, n) == {e \in rows : Cardinality({d \in rows : d < e}) < n}

ClaimEvents(r) ==
    /\ claimed[r] = {}
    /\ Available # {}
    /\ claimed' = [claimed EXCEPT ![r] = Oldest(Available, BatchSize)]
    /\ unsent' = [unsent EXCEPT ![r] = Oldest(Available, BatchSize)]
    /\ UNCHANGED <<writerVars, outbox, log, offset, workerVars, effectVars, faults>>

\* No rows: run_once returns and the relay sleeps.
RelayIdle(r) ==
    /\ claimed[r] = {}
    /\ Available = {}
    /\ UNCHANGED vars

\* The broker appends the messages of a batch in the order they are sent.
Publish(r) ==
    \E e \in unsent[r] :
        /\ \A d \in unsent[r] : e <= d
        /\ log' = Append(log, e)
        /\ unsent' = [unsent EXCEPT ![r] = @ \ {e}]
        /\ UNCHANGED <<writerVars, outbox, claimed, offset, workerVars, effectVars, faults>>

\* Every message is acknowledged: delete the rows and commit.
DeleteClaimed(r) ==
    /\ claimed[r] # {}
    /\ unsent[r] = {}
    /\ outbox' = outbox \ claimed[r]
    /\ claimed' = [claimed EXCEPT ![r] = {}]
    /\ UNCHANGED <<writerVars, unsent, log, offset, workerVars, effectVars, faults>>

\* Kafka, the commit or the relay fails: the transaction rolls back.  What was
\* appended stays in the log.
RelayFails(r) ==
    /\ claimed[r] # {}
    /\ Fault
    /\ claimed' = [claimed EXCEPT ![r] = {}]
    /\ unsent' = [unsent EXCEPT ![r] = {}]
    /\ UNCHANGED <<writerVars, outbox, log, offset, workerVars, effectVars>>

RelayNext(r) == ClaimEvents(r) \/ RelayIdle(r) \/ Publish(r) \/ DeleteClaimed(r)

-----------------------------------------------------------------------------
(* run_consumer and EventProcessor.process.                                *)

Current(w) == log[done[w] + 1]

\* The process is past its current message.
Advance(w) ==
    /\ done' = [done EXCEPT ![w] = @ + 1]
    /\ attempt' = [attempt EXCEPT ![w] = 0]
    /\ mode' = [mode EXCEPT ![w] = "working"]
    /\ UNCHANGED <<owner, upto>>

Stop(w) ==
    /\ mode' = [mode EXCEPT ![w] = "stopped"]
    /\ done' = [done EXCEPT ![w] = 0]
    /\ upto' = [upto EXCEPT ![w] = 0]
    /\ attempt' = [attempt EXCEPT ![w] = 0]
    /\ UNCHANGED owner

\* The process joins the group and is assigned the partition, at the committed
\* offset.  The previous owner may be alive and not know (a takeover).
Join(w) ==
    /\ mode[w] = "stopped"
    /\ IF \A v \in Workers : owner = v => mode[v] = "stopped"
       THEN UNCHANGED faults
       ELSE Fault
    /\ owner' = w
    /\ mode' = [mode EXCEPT ![w] = "polling"]
    /\ done' = [done EXCEPT ![w] = offset]
    /\ upto' = [upto EXCEPT ![w] = offset]
    /\ UNCHANGED <<attempt, writerVars, outbox, relayVars, log, offset, effectVars>>

\* getmany()
Fetch(w) ==
    /\ mode[w] = "polling"
    /\ owner = w
    /\ \E n \in 1 .. MaxRecords :
        /\ done[w] + n <= Len(log)
        /\ upto' = [upto EXCEPT ![w] = done[w] + n]
    /\ mode' = [mode EXCEPT ![w] = "working"]
    /\ UNCHANGED <<owner, done, attempt, writerVars, outbox, relayVars, log, offset,
                   effectVars, faults>>

\* An unassigned process learns so when it polls.
Unassigned(w) ==
    /\ mode[w] = "polling"
    /\ owner # w
    /\ Stop(w)
    /\ UNCHANGED <<writerVars, outbox, relayVars, log, offset, effectVars, faults>>

Working(w) == mode[w] = "working" /\ done[w] < upto[w]

\* A type the handler does not subscribe to.
Ignore(w) ==
    /\ Working(w)
    /\ Kind[Current(w)] = "ignored"
    /\ Advance(w)
    /\ UNCHANGED <<writerVars, outbox, relayVars, log, offset, effectVars, faults>>

\* Faulty variant: the effect is applied without asking processed_events.
ClaimAlways(e) ==
    /\ processed' = processed \cup {e}
    /\ applied' = [applied EXCEPT ![e] = @ + 1]

\* The transaction of _apply, committed: the row of processed_events and the
\* effect, or neither when the row exists.
ClaimAndHandle(e) ==
    /\ processed' = processed \cup {e}
    /\ applied' = [applied EXCEPT ![e] = IF e \in processed THEN @ ELSE @ + 1]

\* HANDLED or DUPLICATE.
Apply(w) ==
    /\ Working(w)
    /\ Kind[Current(w)] = "handled"
    /\ ClaimAndHandle(Current(w))
    /\ Advance(w)
    /\ UNCHANGED <<parked, writerVars, outbox, relayVars, log, offset, faults>>

\* The attempt raises: the effect rolled back or, if the answer to the commit
\* was lost, did not.  The last attempt leads to the dead-letter topic.
AttemptFails(w) ==
    /\ Working(w)
    /\ Kind[Current(w)] = "handled"
    /\ UNCHANGED <<processed, applied>> \/ ClaimAndHandle(Current(w))
    /\ attempt' = [attempt EXCEPT ![w] = @ + 1]
    /\ mode' = [mode EXCEPT ![w] = IF attempt[w] + 1 < MaxAttempts THEN "working" ELSE "parking"]
    /\ UNCHANGED <<parked, owner, done, upto, writerVars, outbox, relayVars, log, offset, faults>>

\* An undecodable message, or a PermanentEventError: no further attempt.
GiveUp(w) ==
    /\ Working(w)
    /\ Kind[Current(w)] = "permanent"
    /\ mode' = [mode EXCEPT ![w] = "parking"]
    /\ UNCHANGED <<owner, done, upto, attempt, writerVars, outbox, relayVars, log, offset,
                   effectVars, faults>>

\* Faulty variant: the dead-letter publish is fire and forget.
DeadLetterLost(w) ==
    /\ mode[w] = "parking"
    /\ Advance(w)
    /\ UNCHANGED <<effectVars, writerVars, outbox, relayVars, log, offset, faults>>

DeadLetter(w) ==
    /\ mode[w] = "parking"
    /\ parked' = parked \cup {Current(w)}
    /\ Advance(w)
    /\ UNCHANGED <<processed, applied, writerVars, outbox, relayVars, log, offset, faults>>

\* Commit one past the last message of the batch.  Kafka refuses the commit of
\* a process that lost the partition; the exception restarts the consumer.
CommitOffset(w) ==
    /\ mode[w] = "working"
    /\ done[w] = upto[w]
    /\ \/ /\ owner = w
          /\ offset' = done[w]
          /\ mode' = [mode EXCEPT ![w] = "polling"]
          /\ UNCHANGED <<owner, done, upto, attempt>>
       \/ owner # w /\ Stop(w) /\ UNCHANGED offset
    /\ UNCHANGED <<writerVars, outbox, relayVars, log, effectVars, faults>>

\* The process crashes, or an exception (a failed dead-letter publish, say)
\* makes _supervise restart the consumer.
WorkerFails(w) ==
    /\ mode[w] # "stopped"
    /\ Fault
    /\ Stop(w)
    /\ UNCHANGED <<writerVars, outbox, relayVars, log, offset, effectVars>>

WorkerNext(w) ==
    \/ Join(w) \/ Fetch(w) \/ Unassigned(w) \/ Ignore(w) \/ Apply(w) \/ AttemptFails(w)
    \/ GiveUp(w) \/ DeadLetter(w) \/ CommitOffset(w)

Next ==
    \/ \E e \in Events : EmitEvent(e) \/ CommitChange(e) \/ RollbackChange(e)
    \/ \E r \in Relays : RelayNext(r) \/ RelayFails(r)
    \/ \E w \in Workers : WorkerNext(w) \/ WorkerFails(w)

Spec == Init /\ [][Next]_vars

-----------------------------------------------------------------------------
(* Properties.                                                             *)

Published == {log[i] : i \in DOMAIN log}

\* The outcome of an event is durable: handled, ignored or dead-lettered.
Settled(e) == e \in processed \/ e \in parked \/ Kind[e] = "ignored"

RelayTypeOK ==
    /\ txn \in [Events -> {"none", "open", "committed", "rolledback"}]
    /\ commits \in Seq(Events)
    /\ outbox \subseteq Events
    /\ claimed \in [Relays -> SUBSET Events]
    /\ unsent \in [Relays -> SUBSET Events]
    /\ log \in Seq(Events)

WorkerTypeOK ==
    /\ offset \in Nat
    /\ owner \in Workers \cup {NULL}
    /\ mode \in [Workers -> Modes]
    /\ done \in [Workers -> Nat]
    /\ upto \in [Workers -> Nat]
    /\ attempt \in [Workers -> 0 .. MaxAttempts]

EffectTypeOK ==
    /\ processed \subseteq Events
    /\ applied \in [Events -> Nat]
    /\ parked \subseteq Events

TypeOK == RelayTypeOK /\ WorkerTypeOK /\ EffectTypeOK /\ faults \in Nat

\* A redelivered event is not counted twice: the effect of an event is committed
\* exactly when its row in processed_events is, whoever handles it how often.
AppliedOnce == \A e \in Events : applied[e] = IF e \in processed THEN 1 ELSE 0

\* No committed event is lost on the way to Kafka: until it is in the log it is
\* in the outbox, whatever fails between publish, delete and commit.
NoneLostByRelay ==
    \A e \in Events : txn[e] = "committed" => e \in outbox \/ e \in Published

\* Only events of committed changes reach Kafka.
OnlyCommittedPublished == \A e \in Published : txn[e] = "committed"

SettledUpTo(n) == \A i \in 1 .. n : Settled(log[i])

\* No message is skipped: everything below the committed offset is settled.
NoneSkipped == SettledUpTo(offset)

\* Two relays never hold the same row.
ClaimsDisjoint ==
    \A r, s \in Relays : r # s => claimed[r] \cap claimed[s] = {}

\* The committed offset never moves backwards, also when a process that lost the
\* partition finishes its batch late.
OffsetAdvances == [][offset' >= offset]_vars

\* The pipeline keeps the promise.
Promise ==
    INSTANCE EventPromise WITH
        recorded <- {e \in Events : txn[e] = "committed"}

KeepsPromise == Promise!PromiseSpec

\* The effect of every committed event is eventually applied, or the event
\* ignored or parked.
EventuallySettled == \A e \in Events : txn[e] = "committed" ~> Settled(e)

-----------------------------------------------------------------------------
(* The inductive invariant of the proofs.                                  *)

\* A relay holds rows of the outbox; what it no longer has to send is in the log.
ClaimsOK ==
    /\ \A e \in outbox : txn[e] = "committed"
    /\ \A r \in Relays :
        /\ claimed[r] \subseteq outbox
        /\ unsent[r] \subseteq claimed[r]
        /\ claimed[r] \ unsent[r] \subseteq Published

\* A process is within its batch, its batch within the log, and everything it is
\* past is settled; the owner is not behind the committed offset.
PositionOK(w) ==
    /\ mode[w] # "stopped" =>
        /\ done[w] <= upto[w]
        /\ upto[w] <= Len(log)
        /\ mode[w] = "polling" => done[w] = upto[w]
        /\ mode[w] = "parking" => done[w] < upto[w]
        /\ mode[w] = "working" => attempt[w] < MaxAttempts
        /\ SettledUpTo(done[w])
        /\ owner = w => offset <= done[w]
    /\ mode[w] = "stopped" \/ done[w] = upto[w] => attempt[w] = 0

PositionsOK == offset <= Len(log) /\ \A w \in Workers : PositionOK(w)

Inv ==
    /\ TypeOK
    /\ AppliedOnce
    /\ NoneLostByRelay
    /\ OnlyCommittedPublished
    /\ NoneSkipped
    /\ ClaimsDisjoint
    /\ ClaimsOK
    /\ PositionsOK

-----------------------------------------------------------------------------
(* What the documentation says and the code does not keep.                 *)

\* EVENTS.md: "With one relay, each tenant's events reach their partition in
\* commit order".
InCommitOrder ==
    \A i, j \in DOMAIN commits : i < j =>
        \A n \in DOMAIN log : log[n] = commits[j] =>
            \E k \in 1 .. n - 1 : log[k] = commits[i]
=============================================================================
