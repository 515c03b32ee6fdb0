---------------------------- MODULE PipelinesProofs ----------------------------
(***************************************************************************)
(* Proofs about the background processes EventPipeline and Workers, for    *)
(* any number of events, relays and consumers, any batch sizes, limits and *)
(* number of faults, and any loop timings.                                 *)
(***************************************************************************)
EXTENDS EventPipeline, Workers, TLAPS

-----------------------------------------------------------------------------
(* The log and the message a process works on.                             *)

\* The broker appends: what is in the log keeps its place.
LEMMA AppendFacts ==
  ASSUME NEW S, NEW s \in Seq(S), NEW x \in S
  PROVE  /\ Append(s, x) \in Seq(S)
         /\ Len(Append(s, x)) = Len(s) + 1
         /\ \A i \in 1 .. Len(s) : Append(s, x)[i] = s[i]
         /\ Append(s, x)[Len(s) + 1] = x
  OBVIOUS

\* publish() adds its message to those in the log, at the end.
LEMMA PublishedGrows ==
  ASSUME log \in Seq(Events), NEW e \in Events, log' = Append(log, e)
  PROVE  Published' = Published \cup {e}
<1>1. /\ Len(log') = Len(log) + 1
      /\ \A i \in 1 .. Len(log) : log'[i] = log[i]
      /\ log'[Len(log) + 1] = e
  BY AppendFacts
<1>2. Len(log) \in Nat /\ DOMAIN log = 1 .. Len(log) /\ log' \in Seq(Events)
  BY AppendFacts
<1>3. DOMAIN log' = 1 .. Len(log')
  BY <1>2
<1>4. ASSUME NEW x \in Published' PROVE x \in Published \cup {e}
  BY <1>1, <1>2, <1>3, <1>4 DEF Published
<1>5. ASSUME NEW x \in Published \cup {e} PROVE x \in Published'
  BY <1>1, <1>2, <1>3, <1>5 DEF Published
<1> QED
  BY <1>4, <1>5, Zenon

\* A process that handles a message handles one of the log, of a committed change.
LEMMA CurrentIsEvent ==
  ASSUME Inv, NEW w \in Workers, mode[w] # "stopped", done[w] < upto[w]
  PROVE  /\ done[w] + 1 \in 1 .. Len(log)
         /\ Current(w) \in Events
         /\ txn[Current(w)] = "committed"
<1>1. done[w] \in Nat /\ upto[w] \in Nat /\ log \in Seq(Events) /\ upto[w] <= Len(log)
  BY Zenon DEF Inv, TypeOK, RelayTypeOK, WorkerTypeOK, PositionsOK, PositionOK
<1>2. done[w] + 1 \in 1 .. Len(log)
  BY <1>1
<1>3. Current(w) \in Published
  BY <1>1, <1>2 DEF Current, Published
<1> QED
  BY <1>1, <1>2, <1>3 DEF Inv, OnlyCommittedPublished, Current

\* A process that goes on to the next message keeps its types.
LEMMA AdvanceType ==
  ASSUME WorkerTypeOK, NEW w \in Workers, Advance(w), offset' = offset
  PROVE  WorkerTypeOK'
<1>1. done' \in [Workers -> Nat]
  BY DEF WorkerTypeOK, Advance
<1>2. attempt' \in [Workers -> 0 .. MaxAttempts]
  BY PipelineAssumption DEF WorkerTypeOK, Advance
<1>3. mode' \in [Workers -> Modes]
  BY Zenon DEF WorkerTypeOK, Advance, Modes
<1> QED
  BY <1>1, <1>2, <1>3, Zenon DEF WorkerTypeOK, Advance

\* So does a process that stops.
LEMMA StopType ==
  ASSUME WorkerTypeOK, NEW w \in Workers, Stop(w), offset' = offset
  PROVE  WorkerTypeOK'
<1>1. done' \in [Workers -> Nat] /\ upto' \in [Workers -> Nat]
  BY Zenon DEF WorkerTypeOK, Stop
<1>2. attempt' \in [Workers -> 0 .. MaxAttempts]
  BY PipelineAssumption DEF WorkerTypeOK, Stop
<1>3. mode' \in [Workers -> Modes]
  BY Zenon DEF WorkerTypeOK, Stop, Modes
<1> QED
  BY <1>1, <1>2, <1>3, Zenon DEF WorkerTypeOK, Stop

-----------------------------------------------------------------------------
(* What each actor leaves alone.                                           *)

\* A consumer process touches neither the writers' nor the relays' state.
LEMMA WorkerFrame ==
  ASSUME NEW w \in Workers, WorkerNext(w) \/ WorkerFails(w)
  PROVE  UNCHANGED <<writerVars, outbox, relayVars, log>>
  BY Zenon DEF WorkerNext, Join, Fetch, Unassigned, Ignore, Apply, AttemptFails, GiveUp, DeadLetter,
         CommitOffset, WorkerFails

\* Writers and relays touch nothing of the consumer group's.
LEMMA RelayFrame ==
  ASSUME \/ \E e \in Events : EmitEvent(e) \/ CommitChange(e) \/ RollbackChange(e)
         \/ \E r \in Relays : RelayNext(r) \/ RelayFails(r)
  PROVE  UNCHANGED <<offset, workerVars, effectVars>>
  BY Zenon DEF EmitEvent, CommitChange, RollbackChange, RelayNext, ClaimEvents, RelayIdle, Publish,
         DeleteClaimed, RelayFails, vars

\* Only Apply, AttemptFails and DeadLetter change an event's outcome.
LEMMA QuietFrame ==
  ASSUME NEW w \in Workers,
         \/ Join(w) \/ Fetch(w) \/ Unassigned(w) \/ Ignore(w) \/ GiveUp(w)
         \/ CommitOffset(w) \/ WorkerFails(w)
  PROVE  UNCHANGED effectVars
  BY Zenon DEF Join, Fetch, Unassigned, Ignore, GiveUp, CommitOffset, WorkerFails

-----------------------------------------------------------------------------
(* Each part of the invariant survives every step.                         *)

\* Every step keeps the types of writers and relays.
LEMMA RelayTypeStep == Inv /\ [Next]_vars => RelayTypeOK'
<1> SUFFICES ASSUME Inv, [Next]_vars PROVE RelayTypeOK'  BY Zenon
<1>h. RelayTypeOK
  BY Zenon DEF Inv, TypeOK
<1>1. ASSUME NEW e \in Events, EmitEvent(e) PROVE RelayTypeOK'
  BY <1>1, <1>h, Zenon DEF EmitEvent, RelayTypeOK, writerVars, relayVars
<1>2. ASSUME NEW e \in Events, CommitChange(e) PROVE RelayTypeOK'
  BY <1>2, <1>h, AppendFacts, Zenon DEF CommitChange, RelayTypeOK, relayVars
<1>3. ASSUME NEW e \in Events, RollbackChange(e) PROVE RelayTypeOK'
  BY <1>3, <1>h, Zenon DEF RollbackChange, RelayTypeOK, writerVars, relayVars
<1>4. ASSUME NEW r \in Relays, ClaimEvents(r) PROVE RelayTypeOK'
  <2>1. Oldest(Available, BatchSize) \in SUBSET Events
    BY <1>h, Zenon DEF Oldest, Available, RelayTypeOK
  <2> QED
    BY <1>4, <1>h, <2>1, Zenon DEF ClaimEvents, RelayTypeOK, writerVars
<1>5. ASSUME NEW r \in Relays, RelayIdle(r) PROVE RelayTypeOK'
  BY <1>5, <1>h, Zenon DEF RelayIdle, RelayTypeOK, vars, writerVars, relayVars
<1>6. ASSUME NEW r \in Relays, Publish(r) PROVE RelayTypeOK'
  BY <1>6, <1>h, AppendFacts DEF Publish, RelayTypeOK, writerVars
<1>7. ASSUME NEW r \in Relays, DeleteClaimed(r) PROVE RelayTypeOK'
  BY <1>7, <1>h, Zenon DEF DeleteClaimed, RelayTypeOK, writerVars, relayVars
<1>8. ASSUME NEW r \in Relays, RelayFails(r) PROVE RelayTypeOK'
  BY <1>8, <1>h, Zenon DEF RelayFails, RelayTypeOK, writerVars, relayVars
<1>9. CASE UNCHANGED <<writerVars, outbox, relayVars, log>>
  BY <1>9, <1>h, Zenon DEF RelayTypeOK, writerVars, relayVars
<1> QED
  BY <1>1, <1>2, <1>3, <1>4, <1>5, <1>6, <1>7, <1>8, <1>9, WorkerFrame, Zenon DEF Next, RelayNext,
     WorkerNext, vars

\* Every step keeps the types of the consumer processes.
LEMMA WorkerTypeStep == Inv /\ [Next]_vars => WorkerTypeOK'
<1> SUFFICES ASSUME Inv, [Next]_vars PROVE WorkerTypeOK'  BY Zenon
<1>h. WorkerTypeOK
  BY Zenon DEF Inv, TypeOK
<1>1. ASSUME NEW w \in Workers, Join(w) PROVE WorkerTypeOK'
  <2>1. mode' \in [Workers -> Modes]
    BY <1>1, <1>h, Zenon DEF Join, WorkerTypeOK, Modes
  <2>2. done' \in [Workers -> Nat] /\ upto' \in [Workers -> Nat]
    BY <1>1, <1>h, Zenon DEF Join, WorkerTypeOK
  <2> QED
    BY <1>1, <1>h, <2>1, <2>2, Zenon DEF Join, WorkerTypeOK
<1>2. ASSUME NEW w \in Workers, Fetch(w) PROVE WorkerTypeOK'
  <2>1. PICK n \in 1 .. MaxRecords : upto' = [upto EXCEPT ![w] = done[w] + n]
    BY <1>2, Zenon DEF Fetch
  <2>2. upto' \in [Workers -> Nat]
    BY <1>h, <2>1 DEF WorkerTypeOK
  <2>3. mode' \in [Workers -> Modes]
    BY <1>2, <1>h, Zenon DEF Fetch, WorkerTypeOK, Modes
  <2> QED
    BY <1>2, <1>h, <2>2, <2>3, Zenon DEF Fetch, WorkerTypeOK
<1>3. ASSUME NEW w \in Workers, Unassigned(w) PROVE WorkerTypeOK'
  BY <1>3, <1>h, StopType, Zenon DEF Unassigned
<1>4. ASSUME NEW w \in Workers, Ignore(w) PROVE WorkerTypeOK'
  BY <1>4, <1>h, AdvanceType, Zenon DEF Ignore
<1>5. ASSUME NEW w \in Workers, Apply(w) PROVE WorkerTypeOK'
  BY <1>5, <1>h, AdvanceType, Zenon DEF Apply
<1>6. ASSUME NEW w \in Workers, AttemptFails(w) PROVE WorkerTypeOK'
  <2>1. attempt[w] < MaxAttempts
    BY <1>6, Zenon DEF AttemptFails, Working, Inv, PositionsOK, PositionOK
  <2>2. attempt' \in [Workers -> 0 .. MaxAttempts]
    BY <1>6, <1>h, <2>1, PipelineAssumption DEF AttemptFails, WorkerTypeOK
  <2>3. mode' \in [Workers -> Modes]
    BY <1>6, <1>h, Zenon DEF AttemptFails, WorkerTypeOK, Modes
  <2> QED
    BY <1>6, <1>h, <2>2, <2>3, Zenon DEF AttemptFails, WorkerTypeOK
<1>7. ASSUME NEW w \in Workers, GiveUp(w) PROVE WorkerTypeOK'
  <2>1. mode' \in [Workers -> Modes]
    BY <1>7, <1>h, Zenon DEF GiveUp, WorkerTypeOK, Modes
  <2> QED
    BY <1>7, <1>h, <2>1, Zenon DEF GiveUp, WorkerTypeOK
<1>8. ASSUME NEW w \in Workers, DeadLetter(w) PROVE WorkerTypeOK'
  BY <1>8, <1>h, AdvanceType, Zenon DEF DeadLetter
<1>9. ASSUME NEW w \in Workers, CommitOffset(w) PROVE WorkerTypeOK'
  <2>1. CASE Stop(w) /\ UNCHANGED offset
    BY <1>h, <2>1, StopType, Zenon
  <2>2. CASE /\ offset' = done[w]
             /\ mode' = [mode EXCEPT ![w] = "polling"]
             /\ UNCHANGED <<owner, done, upto, attempt>>
    BY <1>h, <2>2, Zenon DEF WorkerTypeOK, Modes
  <2> QED
    BY <1>9, <2>1, <2>2, Zenon DEF CommitOffset
<1>10. ASSUME NEW w \in Workers, WorkerFails(w) PROVE WorkerTypeOK'
  BY <1>10, <1>h, StopType, Zenon DEF WorkerFails
<1>11. CASE UNCHANGED <<offset, workerVars>>
  BY <1>11, <1>h, Zenon DEF WorkerTypeOK, workerVars
<1> QED
  BY <1>1, <1>2, <1>3, <1>4, <1>5, <1>6, <1>7, <1>8, <1>9, <1>10, <1>11, RelayFrame,
     Zenon DEF Next, RelayNext, WorkerNext, vars

\* Every step keeps the types of the committed effects.
LEMMA EffectTypeStep == Inv /\ [Next]_vars => EffectTypeOK'
<1> SUFFICES ASSUME Inv, [Next]_vars PROVE EffectTypeOK'  BY Zenon
<1>h. EffectTypeOK
  BY Zenon DEF Inv, TypeOK
<1>1. ASSUME NEW w \in Workers, Apply(w) PROVE EffectTypeOK'
  <2>1. Current(w) \in Events
    BY <1>1, CurrentIsEvent, Zenon DEF Apply, Working
  <2> QED
    BY <1>1, <1>h, <2>1 DEF Apply, ClaimAndHandle, EffectTypeOK
<1>2. ASSUME NEW w \in Workers, AttemptFails(w) PROVE EffectTypeOK'
  <2>1. Current(w) \in Events
    BY <1>2, CurrentIsEvent, Zenon DEF AttemptFails, Working
  <2> QED
    BY <1>2, <1>h, <2>1 DEF AttemptFails, ClaimAndHandle, EffectTypeOK
<1>3. ASSUME NEW w \in Workers, DeadLetter(w) PROVE EffectTypeOK'
  <2>1. Current(w) \in Events
    BY <1>3, CurrentIsEvent, Zenon DEF DeadLetter, Inv, PositionsOK, PositionOK
  <2> QED
    BY <1>3, <1>h, <2>1, Zenon DEF DeadLetter, EffectTypeOK
<1>4. CASE UNCHANGED effectVars
  BY <1>4, <1>h, Zenon DEF EffectTypeOK, effectVars
<1> QED
  BY <1>1, <1>2, <1>3, <1>4, RelayFrame, QuietFrame, Zenon DEF Next, RelayNext, WorkerNext, vars

\* Every step keeps the types.
LEMMA TypeStep == Inv /\ [Next]_vars => TypeOK'
<1> SUFFICES ASSUME Inv, [Next]_vars PROVE TypeOK'  BY Zenon
<1>1. faults \in Nat
  BY Zenon DEF Inv, TypeOK
<1>2. faults' = faults \/ (faults > 0 /\ faults' = faults - 1)
  BY Zenon DEF Next, RelayNext, WorkerNext, vars, Fault, EmitEvent, CommitChange, RollbackChange,
     ClaimEvents, RelayIdle, Publish, DeleteClaimed, RelayFails, Join, Fetch, Unassigned, Ignore,
     Apply, AttemptFails, GiveUp, DeadLetter, CommitOffset, WorkerFails
<1>3. faults' \in Nat
  BY <1>1, <1>2
<1> QED
  BY <1>3, RelayTypeStep, WorkerTypeStep, EffectTypeStep, Zenon DEF TypeOK

\* The effect and the row of processed_events are committed together.
LEMMA AppliedStep == Inv /\ [Next]_vars => AppliedOnce'
<1> SUFFICES ASSUME Inv, [Next]_vars PROVE AppliedOnce'  BY Zenon
<1>h. EffectTypeOK /\ AppliedOnce
  BY Zenon DEF Inv, TypeOK
<1>1. ASSUME NEW w \in Workers, Apply(w) PROVE AppliedOnce'
  <2>1. Current(w) \in Events
    BY <1>1, CurrentIsEvent, Zenon DEF Apply, Working
  <2> QED
    BY <1>1, <1>h, <2>1 DEF Apply, ClaimAndHandle, AppliedOnce, EffectTypeOK
<1>2. ASSUME NEW w \in Workers, AttemptFails(w) PROVE AppliedOnce'
  <2>1. Current(w) \in Events
    BY <1>2, CurrentIsEvent, Zenon DEF AttemptFails, Working
  <2> QED
    BY <1>2, <1>h, <2>1, SMTT(30) DEF AttemptFails, ClaimAndHandle, AppliedOnce, EffectTypeOK
<1>3. ASSUME NEW w \in Workers, DeadLetter(w) PROVE AppliedOnce'
  BY <1>3, <1>h, Zenon DEF DeadLetter, AppliedOnce
<1>4. CASE UNCHANGED effectVars
  BY <1>4, <1>h, Zenon DEF AppliedOnce, effectVars
<1> QED
  BY <1>1, <1>2, <1>3, <1>4, RelayFrame, QuietFrame, Zenon DEF Next, RelayNext, WorkerNext, vars

\* A row is deleted only when its message is in the log.
LEMMA NoneLostStep == Inv /\ [Next]_vars => NoneLostByRelay'
<1> SUFFICES ASSUME Inv, [Next]_vars PROVE NoneLostByRelay'  BY Zenon
<1>h. RelayTypeOK /\ NoneLostByRelay /\ OnlyCommittedPublished /\ ClaimsDisjoint /\ ClaimsOK
  BY Zenon DEF Inv, TypeOK
<1>1. ASSUME NEW e \in Events, EmitEvent(e) PROVE NoneLostByRelay'
  BY <1>1, <1>h, Zenon DEF EmitEvent, NoneLostByRelay, RelayTypeOK, Published, writerVars, relayVars
<1>2. ASSUME NEW e \in Events, CommitChange(e) PROVE NoneLostByRelay'
  BY <1>2, <1>h, Zenon DEF CommitChange, NoneLostByRelay, RelayTypeOK, Published, writerVars,
     relayVars
<1>3. ASSUME NEW e \in Events, RollbackChange(e) PROVE NoneLostByRelay'
  BY <1>3, <1>h, Zenon DEF RollbackChange, NoneLostByRelay, RelayTypeOK, Published, writerVars,
     relayVars
<1>4. ASSUME NEW r \in Relays, ClaimEvents(r) PROVE NoneLostByRelay'
  BY <1>4, <1>h, Zenon DEF ClaimEvents, NoneLostByRelay, RelayTypeOK, Published, writerVars,
     relayVars
<1>5. ASSUME NEW r \in Relays, RelayIdle(r) PROVE NoneLostByRelay'
  BY <1>5, <1>h, Zenon DEF RelayIdle, NoneLostByRelay, Published, vars, writerVars, relayVars
<1>6. ASSUME NEW r \in Relays, Publish(r) PROVE NoneLostByRelay'
  <2>1. PICK x \in unsent[r] :
          /\ log' = Append(log, x)
          /\ unsent' = [unsent EXCEPT ![r] = unsent[r] \ {x}]
          /\ UNCHANGED <<txn, outbox, claimed>>
    BY <1>6, Zenon DEF Publish, writerVars
  <2>2. x \in Events /\ x \in outbox /\ txn[x] = "committed"
    BY <1>h, <2>1, Zenon DEF RelayTypeOK, ClaimsOK
  <2>3. Published' = Published \cup {x}
    BY <1>h, <2>1, <2>2, PublishedGrows, Zenon DEF RelayTypeOK
  <2> QED
    BY <1>h, <2>1, <2>2, <2>3, Zenon DEF RelayTypeOK, NoneLostByRelay
<1>7. ASSUME NEW r \in Relays, DeleteClaimed(r) PROVE NoneLostByRelay'
  <2>1. claimed[r] \subseteq Published /\ Published' = Published
    BY <1>7, <1>h, Zenon DEF DeleteClaimed, ClaimsOK, Published
  <2> QED
    BY <1>7, <1>h, <2>1, Zenon DEF DeleteClaimed, NoneLostByRelay, writerVars
<1>8. ASSUME NEW r \in Relays, RelayFails(r) PROVE NoneLostByRelay'
  BY <1>8, <1>h, Zenon DEF RelayFails, NoneLostByRelay, RelayTypeOK, Published, writerVars,
     relayVars
<1>9. CASE UNCHANGED <<writerVars, outbox, relayVars, log>>
  BY <1>9, <1>h, Zenon DEF NoneLostByRelay, Published, writerVars, relayVars
<1> QED
  BY <1>1, <1>2, <1>3, <1>4, <1>5, <1>6, <1>7, <1>8, <1>9, WorkerFrame, Zenon DEF Next, RelayNext,
     WorkerNext, vars

\* Only rows of the outbox are published, and those are committed.
LEMMA OnlyCommittedStep == Inv /\ [Next]_vars => OnlyCommittedPublished'
<1> SUFFICES ASSUME Inv, [Next]_vars PROVE OnlyCommittedPublished'  BY Zenon
<1>h. RelayTypeOK /\ NoneLostByRelay /\ OnlyCommittedPublished /\ ClaimsDisjoint /\ ClaimsOK
  BY Zenon DEF Inv, TypeOK
<1>1. ASSUME NEW e \in Events, EmitEvent(e) PROVE OnlyCommittedPublished'
  BY <1>1, <1>h DEF EmitEvent, OnlyCommittedPublished, RelayTypeOK, Published, writerVars, relayVars
<1>2. ASSUME NEW e \in Events, CommitChange(e) PROVE OnlyCommittedPublished'
  BY <1>2, <1>h DEF CommitChange, OnlyCommittedPublished, RelayTypeOK, Published, writerVars,
     relayVars
<1>3. ASSUME NEW e \in Events, RollbackChange(e) PROVE OnlyCommittedPublished'
  BY <1>3, <1>h DEF RollbackChange, OnlyCommittedPublished, RelayTypeOK, Published, writerVars,
     relayVars
<1>4. ASSUME NEW r \in Relays, ClaimEvents(r) PROVE OnlyCommittedPublished'
  BY <1>4, <1>h, Zenon DEF ClaimEvents, OnlyCommittedPublished, RelayTypeOK, Published,
     writerVars, relayVars
<1>5. ASSUME NEW r \in Relays, RelayIdle(r) PROVE OnlyCommittedPublished'
  BY <1>5, <1>h, Zenon DEF RelayIdle, OnlyCommittedPublished, Published, vars, writerVars, relayVars
<1>6. ASSUME NEW r \in Relays, Publish(r) PROVE OnlyCommittedPublished'
  <2>1. PICK x \in unsent[r] :
          /\ log' = Append(log, x)
          /\ unsent' = [unsent EXCEPT ![r] = unsent[r] \ {x}]
          /\ UNCHANGED <<txn, outbox, claimed>>
    BY <1>6, Zenon DEF Publish, writerVars
  <2>2. x \in Events /\ x \in outbox /\ txn[x] = "committed"
    BY <1>h, <2>1, Zenon DEF RelayTypeOK, ClaimsOK
  <2>3. Published' = Published \cup {x}
    BY <1>h, <2>1, <2>2, PublishedGrows, Zenon DEF RelayTypeOK
  <2> QED
    BY <1>h, <2>1, <2>2, <2>3, Zenon DEF RelayTypeOK, OnlyCommittedPublished
<1>7. ASSUME NEW r \in Relays, DeleteClaimed(r) PROVE OnlyCommittedPublished'
  BY <1>7, <1>h, Zenon DEF DeleteClaimed, OnlyCommittedPublished, RelayTypeOK, Published,
     writerVars, relayVars
<1>8. ASSUME NEW r \in Relays, RelayFails(r) PROVE OnlyCommittedPublished'
  BY <1>8, <1>h, Zenon DEF RelayFails, OnlyCommittedPublished, RelayTypeOK, Published, writerVars,
     relayVars
<1>9. CASE UNCHANGED <<writerVars, outbox, relayVars, log>>
  BY <1>9, <1>h, Zenon DEF OnlyCommittedPublished, Published, writerVars, relayVars
<1> QED
  BY <1>1, <1>2, <1>3, <1>4, <1>5, <1>6, <1>7, <1>8, <1>9, WorkerFrame, Zenon DEF Next, RelayNext,
     WorkerNext, vars

\* A relay claims only rows that nobody holds.
LEMMA DisjointStep == Inv /\ [Next]_vars => ClaimsDisjoint'
<1> SUFFICES ASSUME Inv, [Next]_vars PROVE ClaimsDisjoint'  BY Zenon
<1>h. RelayTypeOK /\ NoneLostByRelay /\ OnlyCommittedPublished /\ ClaimsDisjoint /\ ClaimsOK
  BY Zenon DEF Inv, TypeOK
<1>1. ASSUME NEW e \in Events, EmitEvent(e) PROVE ClaimsDisjoint'
  BY <1>1, <1>h, Zenon DEF EmitEvent, ClaimsDisjoint, RelayTypeOK, writerVars, relayVars
<1>2. ASSUME NEW e \in Events, CommitChange(e) PROVE ClaimsDisjoint'
  BY <1>2, <1>h, Zenon DEF CommitChange, ClaimsDisjoint, RelayTypeOK, writerVars, relayVars
<1>3. ASSUME NEW e \in Events, RollbackChange(e) PROVE ClaimsDisjoint'
  BY <1>3, <1>h, Zenon DEF RollbackChange, ClaimsDisjoint, RelayTypeOK, writerVars, relayVars
<1>4. ASSUME NEW r \in Relays, ClaimEvents(r) PROVE ClaimsDisjoint'
  BY <1>4, <1>h DEF ClaimEvents, ClaimsDisjoint, RelayTypeOK, Available, Oldest
<1>5. ASSUME NEW r \in Relays, RelayIdle(r) PROVE ClaimsDisjoint'
  BY <1>5, <1>h, Zenon DEF RelayIdle, ClaimsDisjoint, vars, writerVars, relayVars
<1>6. ASSUME NEW r \in Relays, Publish(r) PROVE ClaimsDisjoint'
  BY <1>6, <1>h, Zenon DEF Publish, ClaimsDisjoint, RelayTypeOK, writerVars, relayVars
<1>7. ASSUME NEW r \in Relays, DeleteClaimed(r) PROVE ClaimsDisjoint'
  BY <1>7, <1>h, Zenon DEF DeleteClaimed, ClaimsDisjoint, RelayTypeOK, writerVars, relayVars
<1>8. ASSUME NEW r \in Relays, RelayFails(r) PROVE ClaimsDisjoint'
  BY <1>8, <1>h, Zenon DEF RelayFails, ClaimsDisjoint, RelayTypeOK, writerVars, relayVars
<1>9. CASE UNCHANGED <<writerVars, outbox, relayVars, log>>
  BY <1>9, <1>h, Zenon DEF ClaimsDisjoint, writerVars, relayVars
<1> QED
  BY <1>1, <1>2, <1>3, <1>4, <1>5, <1>6, <1>7, <1>8, <1>9, WorkerFrame, Zenon DEF Next, RelayNext,
     WorkerNext, vars

\* Claimed rows stay in the outbox until their relay deletes them.
LEMMA ClaimsStep == Inv /\ [Next]_vars => ClaimsOK'
<1> SUFFICES ASSUME Inv, [Next]_vars PROVE ClaimsOK'  BY Zenon
<1>h. RelayTypeOK /\ NoneLostByRelay /\ OnlyCommittedPublished /\ ClaimsDisjoint /\ ClaimsOK
  BY Zenon DEF Inv, TypeOK
<1>1. ASSUME NEW e \in Events, EmitEvent(e) PROVE ClaimsOK'
  BY <1>1, <1>h DEF EmitEvent, ClaimsOK, RelayTypeOK, Published, writerVars, relayVars
<1>2. ASSUME NEW e \in Events, CommitChange(e) PROVE ClaimsOK'
  BY <1>2, <1>h DEF CommitChange, ClaimsOK, RelayTypeOK, Published, writerVars, relayVars
<1>3. ASSUME NEW e \in Events, RollbackChange(e) PROVE ClaimsOK'
  BY <1>3, <1>h DEF RollbackChange, ClaimsOK, RelayTypeOK, Published, writerVars, relayVars
<1>4. ASSUME NEW r \in Relays, ClaimEvents(r) PROVE ClaimsOK'
  <2>1. Oldest(Available, BatchSize) \subseteq outbox
    BY Zenon DEF Oldest, Available
  <2>2. Published' = Published /\ UNCHANGED <<txn, outbox>>
    BY <1>4, Zenon DEF ClaimEvents, Published, writerVars
  <2> QED
    BY <1>4, <1>h, <2>1, <2>2, Zenon DEF ClaimEvents, ClaimsOK, RelayTypeOK
<1>5. ASSUME NEW r \in Relays, RelayIdle(r) PROVE ClaimsOK'
  BY <1>5, <1>h DEF RelayIdle, ClaimsOK, Published, vars, writerVars, relayVars
<1>6. ASSUME NEW r \in Relays, Publish(r) PROVE ClaimsOK'
  <2>1. PICK x \in unsent[r] :
          /\ log' = Append(log, x)
          /\ unsent' = [unsent EXCEPT ![r] = unsent[r] \ {x}]
          /\ UNCHANGED <<txn, outbox, claimed>>
    BY <1>6, Zenon DEF Publish, writerVars
  <2>2. x \in Events /\ x \in outbox /\ txn[x] = "committed"
    BY <1>h, <2>1, Zenon DEF RelayTypeOK, ClaimsOK
  <2>3. Published' = Published \cup {x}
    BY <1>h, <2>1, <2>2, PublishedGrows, Zenon DEF RelayTypeOK
  <2> QED
    BY <1>h, <2>1, <2>2, <2>3, Zenon DEF RelayTypeOK, ClaimsOK
<1>7. ASSUME NEW r \in Relays, DeleteClaimed(r) PROVE ClaimsOK'
  <2>1. ASSUME NEW q \in Relays PROVE claimed'[q] \subseteq outbox'
    BY <1>7, <1>h, ZenonT(40) DEF DeleteClaimed, ClaimsOK, ClaimsDisjoint, RelayTypeOK
  <2>2. Published' = Published /\ UNCHANGED <<txn, unsent>>
    BY <1>7, Zenon DEF DeleteClaimed, Published, writerVars
  <2> QED
    BY <1>7, <1>h, <2>1, <2>2, ZenonT(40) DEF DeleteClaimed, ClaimsOK, RelayTypeOK
<1>8. ASSUME NEW r \in Relays, RelayFails(r) PROVE ClaimsOK'
  BY <1>8, <1>h DEF RelayFails, ClaimsOK, RelayTypeOK, Published, writerVars, relayVars
<1>9. CASE UNCHANGED <<writerVars, outbox, relayVars, log>>
  BY <1>9, <1>h, ZenonT(40) DEF ClaimsOK, Published, writerVars, relayVars
<1> QED
  BY <1>1, <1>2, <1>3, <1>4, <1>5, <1>6, <1>7, <1>8, <1>9, WorkerFrame, Zenon DEF Next, RelayNext,
     WorkerNext, vars

\* What is settled stays settled, and the log only grows.
LEMMA SettledStable ==
  ASSUME Inv, [Next]_vars
  PROVE  /\ \A e \in Events : Settled(e) => Settled(e)'
         /\ Len(log) <= Len(log')
         /\ \A i \in 1 .. Len(log) : log'[i] = log[i] /\ log[i] \in Events
<1>1. processed \subseteq processed' /\ parked \subseteq parked'
  BY RelayFrame, QuietFrame, Zenon DEF Next, WorkerNext, vars, effectVars, Apply, AttemptFails,
     DeadLetter,
     ClaimAndHandle
<1>2. RelayTypeOK
  BY Zenon DEF Inv, TypeOK
<1>3. ASSUME log' = log
      PROVE  Len(log) <= Len(log') /\ \A i \in 1 .. Len(log) : log'[i] = log[i]
  BY <1>2, <1>3 DEF RelayTypeOK
<1>4. ASSUME NEW r \in Relays, Publish(r) PROVE \E e \in Events : log' = Append(log, e)
  BY <1>2, <1>4, Zenon DEF Publish, RelayTypeOK
<1>5. log' = log \/ \E e \in Events : log' = Append(log, e)
  BY <1>4, WorkerFrame, Zenon DEF Next, RelayNext, vars, EmitEvent, CommitChange, RollbackChange,
     ClaimEvents, RelayIdle, DeleteClaimed, RelayFails
<1>6. log \in Seq(Events)
  BY <1>2, Zenon DEF RelayTypeOK
<1>7. \A i \in 1 .. Len(log) : log[i] \in Events
  BY <1>6
<1>8. ASSUME NEW e \in Events, log' = Append(log, e)
      PROVE  Len(log) <= Len(log') /\ \A i \in 1 .. Len(log) : log'[i] = log[i]
  BY <1>6, <1>8, AppendFacts
<1>9. Len(log) <= Len(log') /\ \A i \in 1 .. Len(log) : log'[i] = log[i]
  BY <1>3, <1>5, <1>8, Zenon
<1> QED
  BY <1>1, <1>7, <1>9, Zenon DEF Settled

\* What a process is past stays settled.
LEMMA PrefixStable ==
  ASSUME Inv, [Next]_vars, NEW n \in Nat, n <= Len(log), SettledUpTo(n)
  PROVE  SettledUpTo(n)'
<1>1. Len(log) \in Nat
  BY DEF Inv, TypeOK, RelayTypeOK
<1>2. ASSUME NEW i \in 1 .. n PROVE Settled(log[i])'
  <2>1. i \in 1 .. Len(log)
    BY <1>1
  <2>2. log'[i] = log[i] /\ log[i] \in Events
    BY <2>1, SettledStable, Zenon
  <2>3. PICK x \in Events : x = log[i]
    BY <2>2, Zenon
  <2>4. Settled(x)
    BY <2>3, Zenon DEF SettledUpTo
  <2>5. Settled(x)'
    BY <2>4, SettledStable, Zenon
  <2> QED
    BY <2>2, <2>3, <2>5, Zenon
<1> QED
  BY <1>2, Zenon DEF SettledUpTo

\* What PositionOK says of a process that runs.
LEMMA PositionFacts ==
  ASSUME Inv, [Next]_vars, NEW w \in Workers, mode[w] # "stopped"
  PROVE  /\ done[w] \in Nat /\ upto[w] \in Nat /\ Len(log) \in Nat /\ Len(log') \in Nat
         /\ done[w] <= upto[w] /\ upto[w] <= Len(log) /\ Len(log) <= Len(log')
         /\ mode[w] = "polling" => done[w] = upto[w]
         /\ mode[w] = "parking" => done[w] < upto[w]
         /\ mode[w] = "working" => attempt[w] < MaxAttempts
         /\ done[w] = upto[w] => attempt[w] = 0
         /\ owner = w => offset <= done[w]
         /\ \A n : n = done[w] => SettledUpTo(n)'
<1>1. RelayTypeOK /\ WorkerTypeOK /\ RelayTypeOK' /\ PositionOK(w)
  BY TypeStep, Zenon DEF Inv, TypeOK, PositionsOK
<1>2. done[w] \in Nat /\ upto[w] \in Nat /\ Len(log) \in Nat /\ Len(log') \in Nat
  BY <1>1 DEF RelayTypeOK, WorkerTypeOK
<1>3. done[w] <= upto[w] /\ upto[w] <= Len(log) /\ SettledUpTo(done[w])
  BY <1>1, Zenon DEF PositionOK
<1>4. PICK n \in Nat : n = done[w]
  BY <1>2, Zenon
<1>5. n <= Len(log) /\ SettledUpTo(n)
  BY <1>2, <1>3, <1>4
<1>6. SettledUpTo(n)'
  BY <1>5, PrefixStable, Zenon
<1>7. Len(log) <= Len(log')
  BY SettledStable, Zenon
<1> QED
  BY <1>1, <1>2, <1>3, <1>4, <1>6, <1>7, Zenon DEF PositionOK

\* A process that takes no step keeps its position, whatever the others do.
LEMMA OtherPosition ==
  ASSUME Inv, [Next]_vars, NEW q \in Workers,
         mode'[q] = mode[q], done'[q] = done[q], upto'[q] = upto[q], attempt'[q] = attempt[q],
         owner' = q => owner = q /\ offset' = offset
  PROVE  PositionOK(q)'
<1>1. CASE mode[q] = "stopped"
  <2>1. attempt[q] = 0
    BY <1>1, Zenon DEF Inv, PositionsOK, PositionOK
  <2> QED
    BY <1>1, <2>1, Zenon DEF PositionOK
<1>2. CASE mode[q] # "stopped"
  <2>1. PICK n : n = done[q]
    BY Zenon
  <2>2. SettledUpTo(n)' /\ done'[q] = n
    BY <1>2, <2>1, PositionFacts, Zenon
  <2>3. SettledUpTo(done[q])'
    BY <2>2, Zenon
  <2> QED
    BY <1>2, <2>3, PositionFacts DEF PositionOK
<1> QED
  BY <1>1, <1>2, Zenon

\* A process that goes on to the next message has settled the one it leaves.
LEMMA AdvancePosition ==
  ASSUME Inv, [Next]_vars, NEW w \in Workers, mode[w] # "stopped", done[w] < upto[w], Advance(w),
         NEW x \in Events, x = Current(w), Settled(x)', offset' = offset
  PROVE  PositionOK(w)'
<1>1. /\ done'[w] = done[w] + 1 /\ upto'[w] = upto[w] /\ attempt'[w] = 0
      /\ mode'[w] = "working" /\ owner' = owner
  BY Zenon DEF Advance, Inv, TypeOK, WorkerTypeOK
<1>2. PICK n \in Nat : n = done[w]
  BY PositionFacts, SMTT(30)
<1>3. SettledUpTo(n)'
  BY <1>2, PositionFacts, Zenon
<1>4. log'[n + 1] = x
  BY <1>2, CurrentIsEvent, SettledStable, Zenon DEF Current
<1>5. ASSUME NEW i \in 1 .. n + 1 PROVE Settled(log[i])'
  <2>1. CASE i = n + 1
    BY <1>4, <2>1, Zenon
  <2>2. CASE i \in 1 .. n
    BY <1>3, <2>2, Zenon DEF SettledUpTo
  <2> QED
    BY <2>1, <2>2
<1>6. SettledUpTo(n + 1)'
  BY <1>5, Zenon DEF SettledUpTo
<1>7. SettledUpTo(done[w])'
  BY <1>1, <1>2, <1>6, Zenon
<1>8. offset \in Nat
  BY Zenon DEF Inv, TypeOK, WorkerTypeOK
<1> QED
  BY <1>1, <1>7, <1>8, PositionFacts, PipelineAssumption DEF PositionOK

\* A process that stays at its message keeps its position.
LEMMA StayPosition ==
  ASSUME Inv, [Next]_vars, NEW w \in Workers, mode[w] # "stopped",
         done'[w] = done[w], upto'[w] \in Nat, done[w] < upto'[w], upto'[w] <= Len(log),
         \/ mode'[w] = "parking"
         \/ mode'[w] = "working" /\ attempt'[w] < MaxAttempts,
         owner' = owner, offset' = offset
  PROVE  PositionOK(w)'
<1>1. PICK n : n = done[w]
  BY Zenon
<1>2. SettledUpTo(n)' /\ done'[w] = n
  BY <1>1, PositionFacts, Zenon
<1>3. SettledUpTo(done[w])'
  BY <1>2, Zenon
<1> QED
  BY <1>3, PositionFacts DEF PositionOK

\* A process that stops holds no position.
LEMMA StopPosition ==
  ASSUME WorkerTypeOK, NEW w \in Workers, Stop(w)
  PROVE  PositionOK(w)'
  BY Zenon DEF WorkerTypeOK, Stop, PositionOK

\* The process that takes a step keeps its position.
LEMMA OwnPosition ==
  ASSUME Inv, [Next]_vars, NEW w \in Workers, WorkerNext(w) \/ WorkerFails(w)
  PROVE  PositionOK(w)'
<1>h. WorkerTypeOK
  BY Zenon DEF Inv, TypeOK
<1>1. CASE Join(w)
  <2>1. /\ done'[w] = offset /\ upto'[w] = offset /\ mode'[w] = "polling"
        /\ attempt' = attempt /\ offset' = offset /\ offset \in Nat
    BY <1>1, <1>h, Zenon DEF Join, WorkerTypeOK
  <2>2. attempt[w] = 0 /\ offset <= Len(log) /\ SettledUpTo(offset) /\ Len(log) \in Nat
    BY <1>1, SMTT(30) DEF Join, Inv, PositionsOK, PositionOK, NoneSkipped, TypeOK, RelayTypeOK
  <2>3. PICK n \in Nat : n = offset
    BY <2>1, SMTT(30)
  <2>4. SettledUpTo(n)' /\ done'[w] = n
    BY <2>1, <2>2, <2>3, PrefixStable, Zenon
  <2>5. SettledUpTo(done[w])'
    BY <2>4, Zenon
  <2>6. log' = log
    BY <1>1, Zenon DEF Join
  <2> QED
    BY <2>1, <2>2, <2>5, <2>6, SMTT(30) DEF PositionOK
<1>2. CASE Fetch(w)
  <2>1. PICK n \in 1 .. MaxRecords :
          done[w] + n <= Len(log) /\ upto' = [upto EXCEPT ![w] = done[w] + n]
    BY <1>2, Zenon DEF Fetch
  <2>2. /\ done'[w] = done[w] /\ upto'[w] = done[w] + n /\ mode'[w] = "working"
        /\ attempt' = attempt /\ offset' = offset /\ owner' = owner /\ mode[w] = "polling"
    BY <1>2, <1>h, <2>1, Zenon DEF Fetch, WorkerTypeOK
  <2>3. done[w] \in Nat /\ done[w] = upto[w] /\ attempt[w] = 0
    BY <2>2, PositionFacts, SMTT(30)
  <2>4. upto'[w] \in Nat /\ done[w] < upto'[w] /\ upto'[w] <= Len(log) /\ attempt'[w] < MaxAttempts
    BY <2>1, <2>2, <2>3, PipelineAssumption
  <2> QED
    BY <2>2, <2>4, StayPosition, SMTT(30)
<1>3. CASE Unassigned(w) \/ WorkerFails(w)
  BY <1>3, <1>h, StopPosition, Zenon DEF Unassigned, WorkerFails
<1>4. CASE Ignore(w) \/ Apply(w)
  <2>1. mode[w] # "stopped" /\ done[w] < upto[w] /\ Advance(w) /\ offset' = offset
    BY <1>4, Zenon DEF Ignore, Apply, Working
  <2>2. PICK x \in Events : x = Current(w)
    BY <2>1, CurrentIsEvent, Zenon
  <2>3. Settled(x)'
    BY <1>4, <2>2, Zenon DEF Ignore, Apply, ClaimAndHandle, Settled
  <2> QED
    BY <2>1, <2>2, <2>3, AdvancePosition, SMTT(30)
<1>5. CASE DeadLetter(w)
  <2>1. mode[w] # "stopped" /\ done[w] < upto[w] /\ Advance(w) /\ offset' = offset
    BY <1>5, PositionFacts, Zenon DEF DeadLetter
  <2>2. PICK x \in Events : x = Current(w)
    BY <2>1, CurrentIsEvent, Zenon
  <2>3. Settled(x)'
    BY <1>5, <2>2, Zenon DEF DeadLetter, Settled
  <2> QED
    BY <2>1, <2>2, <2>3, AdvancePosition, SMTT(30)
<1>6. CASE AttemptFails(w) \/ GiveUp(w)
  <2>1. /\ done' = done /\ upto' = upto /\ offset' = offset /\ owner' = owner
        /\ mode[w] = "working" /\ done[w] < upto[w]
    BY <1>6, Zenon DEF AttemptFails, GiveUp, Working
  <2>2. mode'[w] = "parking" \/ (mode'[w] = "working" /\ attempt'[w] < MaxAttempts)
    BY <1>6, <1>h, Zenon DEF AttemptFails, GiveUp, WorkerTypeOK
  <2>3. upto[w] \in Nat /\ upto[w] <= Len(log)
    BY <2>1, PositionFacts, Zenon
  <2> QED
    BY <2>1, <2>2, <2>3, StayPosition, SMTT(30)
<1>7. CASE CommitOffset(w)
  <2>1. CASE Stop(w)
    BY <1>h, <2>1, StopPosition, Zenon
  <2>2. CASE /\ offset' = done[w]
             /\ mode' = [mode EXCEPT ![w] = "polling"]
             /\ UNCHANGED <<owner, done, upto, attempt>>
    <3>1. mode[w] = "working" /\ done[w] = upto[w] /\ mode'[w] = "polling" /\ log' = log
      BY <1>7, <1>h, <2>2, Zenon DEF CommitOffset, WorkerTypeOK
    <3>2. PICK n : n = done[w]
      BY Zenon
    <3>3. SettledUpTo(n)' /\ done'[w] = n
      BY <2>2, <3>1, <3>2, PositionFacts, SMTT(30)
    <3>4. SettledUpTo(done[w])'
      BY <3>3, Zenon
    <3> QED
      BY <2>2, <3>1, <3>4, PositionFacts, SMTT(30) DEF PositionOK
  <2> QED
    BY <1>7, <2>1, <2>2, SMTT(30) DEF CommitOffset
<1> QED
  BY <1>1, <1>2, <1>3, <1>4, <1>5, <1>6, <1>7, Zenon DEF WorkerNext

\* Only the owner moves the offset, to the end of a batch it has settled.
LEMMA OffsetStep ==
  ASSUME Inv, [Next]_vars
  PROVE  offset' >= offset /\ offset' <= Len(log') /\ NoneSkipped'
<1>1. offset \in Nat /\ offset <= Len(log) /\ SettledUpTo(offset)
  BY Zenon DEF Inv, TypeOK, WorkerTypeOK, PositionsOK, NoneSkipped
<1>2. Len(log) <= Len(log') /\ Len(log) \in Nat /\ Len(log') \in Nat
  BY SettledStable, TypeStep DEF Inv, TypeOK, RelayTypeOK
<1>3. CASE offset' = offset
  <2>1. PICK n \in Nat : n = offset
    BY <1>1, Zenon
  <2>2. SettledUpTo(n)' /\ offset' = n
    BY <1>1, <1>3, <2>1, PrefixStable, Zenon
  <2>3. NoneSkipped'
    BY <2>2, Zenon DEF NoneSkipped
  <2> QED
    BY <1>1, <1>2, <1>3, <2>3
<1>4. ASSUME NEW w \in Workers, mode[w] = "working", owner = w, offset' = done[w]
      PROVE  offset' >= offset /\ offset' <= Len(log') /\ NoneSkipped'
  <2>1. PICK n : n = done[w]
    BY Zenon
  <2>2. SettledUpTo(n)' /\ offset' = n
    BY <1>4, <2>1, PositionFacts, SMTT(30)
  <2>3. NoneSkipped'
    BY <2>2, Zenon DEF NoneSkipped
  <2> QED
    BY <1>1, <1>4, <2>3, PositionFacts, SMTT(30)
<1>5. ASSUME NEW w \in Workers, WorkerNext(w) \/ WorkerFails(w)
      PROVE  offset' = offset \/ (mode[w] = "working" /\ owner = w /\ offset' = done[w])
  BY <1>5, SMTT(30) DEF WorkerNext, Join, Fetch, Unassigned, Ignore, Apply, AttemptFails, GiveUp,
     DeadLetter,
     CommitOffset, WorkerFails
<1> QED
  BY <1>3, <1>4, <1>5, RelayFrame, Zenon DEF Next, vars

\* Everything a process is past is settled, and stays so.
LEMMA PositionsStep == Inv /\ [Next]_vars => PositionsOK'
<1> SUFFICES ASSUME Inv, [Next]_vars PROVE PositionsOK'  BY Zenon
<1>h. WorkerTypeOK
  BY Zenon DEF Inv, TypeOK
<1>1. ASSUME NEW w \in Workers, WorkerNext(w) \/ WorkerFails(w), NEW q \in Workers
      PROVE  PositionOK(q)'
  <2>1. CASE q = w
    BY <1>1, <2>1, OwnPosition, Zenon
  <2>2. CASE q # w
    <3>1. mode'[q] = mode[q] /\ attempt'[q] = attempt[q]
      BY <1>1, <2>2, <1>h, SMTT(30) DEF WorkerNext, Join, Fetch, Unassigned, Ignore, Apply,
         AttemptFails,
         GiveUp, DeadLetter, CommitOffset, WorkerFails, Advance, Stop, WorkerTypeOK
    <3>2. done'[q] = done[q] /\ upto'[q] = upto[q]
      BY <1>1, <2>2, <1>h, SMTT(30) DEF WorkerNext, Join, Fetch, Unassigned, Ignore, Apply,
         AttemptFails,
         GiveUp, DeadLetter, CommitOffset, WorkerFails, Advance, Stop, WorkerTypeOK
    <3>3. owner' = q => owner = q /\ offset' = offset
      BY <1>1, <2>2, SMTT(30) DEF WorkerNext, Join, Fetch, Unassigned, Ignore, Apply, AttemptFails,
         GiveUp, DeadLetter, CommitOffset, WorkerFails, Advance, Stop
    <3> QED
      BY <3>1, <3>2, <3>3, OtherPosition, SMTT(30)
  <2> QED
    BY <2>1, <2>2, Zenon
<1>2. CASE UNCHANGED <<offset, workerVars>>
  <2>1. ASSUME NEW q \in Workers PROVE PositionOK(q)'
    BY <1>2, OtherPosition, Zenon DEF workerVars
  <2> QED
    BY <2>1, OffsetStep, Zenon DEF PositionsOK
<1>3. ASSUME NEW w \in Workers, WorkerNext(w) \/ WorkerFails(w) PROVE PositionsOK'
  BY <1>1, <1>3, OffsetStep, Zenon DEF PositionsOK
<1> QED
  BY <1>2, <1>3, RelayFrame, Zenon DEF Next, vars

\* The inductive invariant holds of the empty pipeline.
LEMMA InvInit == Init => Inv
<1> SUFFICES ASSUME Init PROVE Inv  BY Zenon
<1>1. TypeOK
  BY PipelineAssumption DEF Init, TypeOK, RelayTypeOK, WorkerTypeOK, EffectTypeOK, Modes
<1>2. AppliedOnce /\ ClaimsDisjoint
  BY Zenon DEF Init, AppliedOnce, ClaimsDisjoint
<1>3. NoneLostByRelay /\ OnlyCommittedPublished /\ ClaimsOK
  BY DEF Init, NoneLostByRelay, OnlyCommittedPublished, ClaimsOK, Published
<1>4. NoneSkipped /\ PositionsOK
  BY DEF Init, NoneSkipped, SettledUpTo, PositionsOK, PositionOK
<1> QED
  BY <1>1, <1>2, <1>3, <1>4, Zenon DEF Inv

\* Every step of a writer, a relay or a consumer preserves the inductive invariant.
LEMMA InvStep == Inv /\ [Next]_vars => Inv'
<1> SUFFICES ASSUME Inv, [Next]_vars PROVE Inv'  BY Zenon
<1>1. NoneSkipped'
  BY OffsetStep, Zenon
<1> QED
  BY <1>1, TypeStep, AppliedStep, NoneLostStep, OnlyCommittedStep, DisjointStep, ClaimsStep,
     PositionsStep, Zenon DEF Inv

-----------------------------------------------------------------------------
(* The theorems.                                                           *)

\* The inductive invariant holds in every state of the pipeline.
THEOREM PipelineInvariance == Spec => []Inv
<1>1. Inv /\ UNCHANGED vars => Inv'
  BY InvStep, Zenon
<1> QED
  BY InvInit, InvStep, PTL DEF Spec

\* The pipeline's variables keep their types; in particular no message is tried
\* more often than RetryPolicy.max_attempts.
THEOREM PipelineTypeCorrect == Spec => []TypeOK
<1>1. Inv => TypeOK
  BY Zenon DEF Inv
<1> QED
  BY <1>1, PipelineInvariance, PTL

\* However often a message is delivered and retried, and by however many
\* processes, its effect is committed at most once, with its row in
\* processed_events.
THEOREM EffectsApplyOnce == Spec => []AppliedOnce
<1>1. Inv => AppliedOnce
  BY Zenon DEF Inv
<1> QED
  BY <1>1, PipelineInvariance, PTL

\* No relay failure between publish, delete and commit loses an event.
THEOREM RelaysLoseNothing == Spec => []NoneLostByRelay
<1>1. Inv => NoneLostByRelay
  BY Zenon DEF Inv
<1> QED
  BY <1>1, PipelineInvariance, PTL

\* No event of a change that did not commit is published.
THEOREM RelaysInventNothing == Spec => []OnlyCommittedPublished
<1>1. Inv => OnlyCommittedPublished
  BY Zenon DEF Inv
<1> QED
  BY <1>1, PipelineInvariance, PTL

\* The committed offset of the group never passes an unsettled message.
THEOREM ConsumersSkipNothing == Spec => []NoneSkipped
<1>1. Inv => NoneSkipped
  BY Zenon DEF Inv
<1> QED
  BY <1>1, PipelineInvariance, PTL

\* The committed offset of the group never moves backwards.
THEOREM OffsetsOnlyAdvance == Spec => OffsetAdvances
<1>1. Inv /\ [Next]_vars => [offset' >= offset]_vars
  BY OffsetStep, Zenon
<1> QED
  BY <1>1, PipelineInvariance, PTL DEF Spec, OffsetAdvances

-----------------------------------------------------------------------------
(* The pipeline implements the promise of docs/EVENTS.md.                  *)

\* One commit records one event; nothing un-commits.
LEMMA RecordedStep ==
  ASSUME Inv, [Next]_vars
  PROVE  LET rec == {e \in Events : txn[e] = "committed"}
         IN  \/ rec' = rec
             \/ /\ \E e \in Events : e \notin rec /\ rec' = rec \cup {e}
                /\ UNCHANGED <<applied, parked>>
<1>1. CASE txn' = txn
  BY <1>1, Zenon
<1>2. ASSUME NEW e \in Events, CommitChange(e)
      PROVE  /\ txn[e] # "committed"
             /\ {d \in Events : txn'[d] = "committed"} = {d \in Events : txn[d] = "committed"} \cup {e}
             /\ UNCHANGED <<applied, parked>>
  BY <1>2, Zenon DEF CommitChange, Inv, TypeOK, RelayTypeOK, effectVars
<1>3. ASSUME NEW e \in Events, EmitEvent(e) \/ RollbackChange(e)
      PROVE  {d \in Events : txn'[d] = "committed"} = {d \in Events : txn[d] = "committed"}
  BY <1>3, Zenon DEF EmitEvent, RollbackChange, Inv, TypeOK, RelayTypeOK
<1>4. ASSUME NEW r \in Relays, RelayNext(r) \/ RelayFails(r) PROVE txn' = txn
  BY <1>4, Zenon DEF RelayNext, RelayFails, ClaimEvents, RelayIdle, Publish, DeleteClaimed, vars,
     writerVars
<1>5. ASSUME NEW w \in Workers, WorkerNext(w) \/ WorkerFails(w) PROVE txn' = txn
  BY <1>5, WorkerFrame, Zenon DEF writerVars
<1>6. CASE UNCHANGED vars
  BY <1>1, <1>6, Zenon DEF vars, writerVars
<1>7. CASE Next
  BY <1>1, <1>2, <1>3, <1>4, <1>5, <1>7, SMTT(30) DEF Next
<1> QED
  BY <1>6, <1>7, Zenon

\* A process changes at most one event's outcome in a step.
LEMMA EffectStep ==
  ASSUME Inv, [Next]_vars
  PROVE  \/ UNCHANGED <<applied, parked>>
         \/ \E e \in Events :
              /\ txn[e] = "committed" /\ txn' = txn
              /\ \/ applied[e] = 0 /\ applied' = [applied EXCEPT ![e] = 1] /\ parked' = parked
                 \/ parked' = parked \cup {e} /\ applied' = applied
<1>h. EffectTypeOK /\ AppliedOnce
  BY Zenon DEF Inv, TypeOK
<1>1. ASSUME NEW w \in Workers, Working(w), ClaimAndHandle(Current(w)), txn' = txn,
             parked' = parked
      PROVE  \/ UNCHANGED <<applied, parked>>
             \/ \E e \in Events :
                  /\ txn[e] = "committed" /\ txn' = txn
                  /\ applied[e] = 0 /\ applied' = [applied EXCEPT ![e] = 1] /\ parked' = parked
  <2>1. Current(w) \in Events /\ txn[Current(w)] = "committed"
    BY <1>1, CurrentIsEvent, SMTT(30) DEF Working
  <2>2. CASE Current(w) \in processed
    BY <1>h, <1>1, <2>1, <2>2, Zenon DEF ClaimAndHandle, EffectTypeOK
  <2>3. CASE Current(w) \notin processed
    <3>1. PICK e \in Events : e = Current(w)
      BY <2>1, Zenon
    <3>2. applied[e] = 0
      BY <1>h, <2>3, <3>1, Zenon DEF AppliedOnce
    <3>3. applied' = [applied EXCEPT ![e] = 1]
      BY <1>1, <2>3, <3>1, <3>2 DEF ClaimAndHandle
    <3> QED
      BY <1>1, <2>1, <3>1, <3>2, <3>3, Zenon
  <2> QED
    BY <2>2, <2>3, Zenon
<1>2. ASSUME NEW w \in Workers, DeadLetter(w)
      PROVE  Current(w) \in Events /\ txn[Current(w)] = "committed"
  BY <1>2, CurrentIsEvent, SMTT(30) DEF DeadLetter, Inv, PositionsOK, PositionOK
<1>3. ASSUME NEW w \in Workers, WorkerNext(w) \/ WorkerFails(w)
      PROVE  \/ UNCHANGED <<applied, parked>>
             \/ \E e \in Events :
                  /\ txn[e] = "committed" /\ txn' = txn
                  /\ \/ applied[e] = 0 /\ applied' = [applied EXCEPT ![e] = 1] /\ parked' = parked
                     \/ parked' = parked \cup {e} /\ applied' = applied
  <2>1. txn' = txn
    BY <1>3, WorkerFrame, Zenon DEF writerVars
  <2>2. CASE Apply(w) \/ AttemptFails(w)
    <3>1. CASE UNCHANGED <<applied, parked>>
      BY <3>1, Zenon
    <3>2. CASE ~ UNCHANGED <<applied, parked>>
      <4>1. Working(w) /\ ClaimAndHandle(Current(w)) /\ parked' = parked
        BY <2>2, <3>2, Zenon DEF Apply, AttemptFails
      <4> QED
        BY <1>1, <2>1, <4>1, Zenon
    <3> QED
      BY <3>1, <3>2, Zenon
  <2>3. CASE DeadLetter(w)
    <3>1. parked' = parked \cup {Current(w)} /\ applied' = applied
      BY <2>3, Zenon DEF DeadLetter
    <3> QED
      BY <1>2, <2>1, <2>3, <3>1, Zenon
  <2>4. CASE UNCHANGED effectVars
    BY <2>4, Zenon DEF effectVars
  <2> QED
    BY <1>3, <2>2, <2>3, <2>4, QuietFrame, Zenon DEF WorkerNext
<1>4. CASE UNCHANGED effectVars
  BY <1>4, Zenon DEF effectVars
<1> QED
  BY <1>3, <1>4, RelayFrame, SMTT(30) DEF Next, vars

\* Seen from the outside, outbox, relays, Kafka and consumer processes amount to
\* recording events, applying each at most once, and parking some.
THEOREM PipelineKeepsPromise == Spec => KeepsPromise
<1>1. Init => Promise!PromiseInit
  BY Zenon DEF Init, Promise!PromiseInit
<1>2. Inv /\ [Next]_vars => [Promise!PromiseNext]_Promise!promiseVars
  <2> SUFFICES ASSUME Inv, [Next]_vars PROVE [Promise!PromiseNext]_Promise!promiseVars  BY Zenon
  <2>1. CASE UNCHANGED <<applied, parked>>
    BY <2>1, RecordedStep, SMTT(30) DEF Promise!PromiseNext, Promise!promiseVars, Promise!Record
  <2>2. CASE ~ UNCHANGED <<applied, parked>>
    BY <2>2, EffectStep, SMTT(30) DEF Promise!PromiseNext, Promise!promiseVars, Promise!ApplyOnce,
       Promise!Park
  <2> QED
    BY <2>1, <2>2, Zenon
<1> QED
  BY <1>1, <1>2, PipelineInvariance, PTL DEF Spec, KeepsPromise, Promise!PromiseSpec

-----------------------------------------------------------------------------
(* Workers: one process and its loops.                                     *)

LEMMA LoopStates ==
    /\ Ended \in LoopType /\ Ended.at = "ended"
    /\ LoopHead \in LoopType /\ LoopHead.at = "head"
    /\ \A t \in 0..IterationMax : [at |-> "iterating", left |-> t] \in LoopType
    /\ \A t \in 0..(Poll + Backoff) : [at |-> "sleeping", left |-> t] \in LoopType
    /\ \A x \in LoopType : /\ x.at \in {"ended", "head", "iterating", "sleeping"}
                           /\ x.at = "iterating" => x.left \in 0..IterationMax
                           /\ x.at = "sleeping" => x.left \in 0..(Poll + Backoff)
BY DEF Ended, LoopHead, LoopType

LEMMA AgesStart == 0 \in 0..MaxAge /\ MaxAge \in 0..MaxAge
BY WorkersAssumption

\* How a process starts satisfies the invariant.
LEMMA ProcessInitInv == ProcessInit => ProcessInv
<1> SUFFICES ASSUME ProcessInit PROVE ProcessInv
    OBVIOUS
<1>0. loop \in [Loops -> LoopType]
    BY LoopStates, Zenon DEF ProcessInit
<1>1. ProcessTypeOK
    BY <1>0, AgesStart, Zenon DEF ProcessInit, ProcessTypeOK
<1>2. StopOK
    BY LoopStates DEF ProcessInit, StopOK
<1> QED
    BY <1>1, <1>2, WorkersAssumption DEF ProcessInit, ProcessInv, StopsInTime, HeartbeatTrue

\* A step of one loop that leaves the stop event and the ages alone.
LEMMA LoopStep ==
    ASSUME ProcessInv, NEW l \in Loops, loop[l].at # "ended",
           NEW s \in LoopType, loop' = [loop EXCEPT ![l] = s],
           s.at = "iterating" => ~stop,
           UNCHANGED <<process, stop, sinceStop>>
    PROVE  /\ loop' \in [Loops -> LoopType]
           /\ StopOK'
           /\ StopsInTime'
<1>1. loop' \in [Loops -> LoopType]
    BY Zenon DEF ProcessInv, ProcessTypeOK
<1>2. \A m \in Loops : loop'[m] = IF m = l THEN s ELSE loop[m]
    BY Zenon DEF ProcessInv, ProcessTypeOK
<1>3. process = "running"
    BY Zenon DEF ProcessInv, StopOK
<1>4. StopOK'
    BY <1>2, <1>3 DEF ProcessInv, StopOK
<1> QED
    BY <1>1, <1>4 DEF ProcessInv, StopsInTime

\* Every step of the process preserves it.
LEMMA ProcessNextInv == ProcessInv /\ [ProcessNext]_processVars => ProcessInv'
<1> SUFFICES ASSUME ProcessInv, [ProcessNext]_processVars PROVE ProcessInv'
    OBVIOUS
<1>0. ProcessTypeOK /\ StopOK /\ StopsInTime /\ HeartbeatTrue
    BY DEF ProcessInv
<1>1. ASSUME NEW ok \in BOOLEAN, StartUp(ok) PROVE ProcessInv'
  <2>0. loop' \in [Loops -> LoopType]
    BY <1>0, <1>1, LoopStates, Zenon DEF ProcessTypeOK, StartUp
  <2>1. ProcessTypeOK'
    BY <1>0, <1>1, <2>0, AgesStart, Zenon DEF ProcessTypeOK, StartUp
  <2>2. StopOK'
    BY <1>0, <1>1, LoopStates DEF ProcessTypeOK, StopOK, StartUp
  <2> QED
    BY <1>0, <1>1, <2>1, <2>2, WorkersAssumption DEF ProcessInv, StopsInTime, HeartbeatTrue, StartUp
<1>2. CASE Signal
  <2>1. ProcessTypeOK'
    BY <1>0, <1>2 DEF ProcessTypeOK, Signal
  <2>2. \A l \in Loops : loop[l].at = "iterating" => sinceStop + loop[l].left <= IterationMax
    BY <1>0, <1>2, LoopStates, WorkersAssumption DEF ProcessTypeOK, StopOK, Signal
  <2>3. StopOK'
    BY <1>0, <1>2, <2>2 DEF StopOK, Signal
  <2> QED
    BY <1>0, <1>2, <2>1, <2>3 DEF ProcessInv, StopsInTime, HeartbeatTrue, Signal
<1>3. ASSUME NEW l \in Loops, Iterate(l) PROVE ProcessInv'
  <2> DEFINE s == IF stop THEN Ended ELSE [at |-> "iterating", left |-> IterationMax]
  <2>1. s \in LoopType /\ (s.at = "iterating" => ~stop)
    BY LoopStates, WorkersAssumption DEF Ended
  <2>2. loop[l].at # "ended" /\ loop' = [loop EXCEPT ![l] = s] /\ UNCHANGED <<process, stop, sinceStop>>
    BY <1>3 DEF Iterate
  <2> HIDE DEF s
  <2>3. loop' \in [Loops -> LoopType] /\ StopOK' /\ StopsInTime'
    BY <2>1, <2>2, LoopStep, Zenon
  <2> QED
    BY <1>0, <1>3, <2>3 DEF ProcessInv, ProcessTypeOK, HeartbeatTrue, Iterate
<1>4. ASSUME NEW l \in Loops, NEW idle \in BOOLEAN, Succeeds(l, idle) PROVE ProcessInv'
  <2> DEFINE s == IF idle THEN [at |-> "sleeping", left |-> Poll] ELSE LoopHead
  <2>1. s \in LoopType /\ (s.at = "iterating" => ~stop)
    BY LoopStates, WorkersAssumption DEF LoopHead
  <2>2. loop[l].at # "ended" /\ loop' = [loop EXCEPT ![l] = s] /\ UNCHANGED <<process, stop, sinceStop>>
    BY <1>4 DEF Succeeds
  <2> HIDE DEF s
  <2>3. loop' \in [Loops -> LoopType] /\ StopOK' /\ StopsInTime'
    BY <2>1, <2>2, LoopStep, Zenon
  <2> QED
    BY <1>0, <1>4, <2>3, WorkersAssumption DEF ProcessInv, ProcessTypeOK, HeartbeatTrue, Succeeds
<1>5. ASSUME NEW l \in Loops, Fails(l) PROVE ProcessInv'
  <2> DEFINE s == [at |-> "sleeping", left |-> Backoff]
  <2>1. s \in LoopType /\ (s.at = "iterating" => ~stop)
    BY LoopStates, WorkersAssumption
  <2>2. loop[l].at # "ended" /\ loop' = [loop EXCEPT ![l] = s] /\ UNCHANGED <<process, stop, sinceStop>>
    BY <1>5 DEF Fails
  <2> HIDE DEF s
  <2>3. loop' \in [Loops -> LoopType] /\ StopOK' /\ StopsInTime'
    BY <2>1, <2>2, LoopStep, Zenon
  <2> QED
    BY <1>0, <1>5, <2>3 DEF ProcessInv, ProcessTypeOK, HeartbeatTrue, Fails
<1>6. ASSUME NEW l \in Loops, Wake(l) PROVE ProcessInv'
  <2>1. LoopHead \in LoopType /\ (LoopHead.at = "iterating" => ~stop)
    BY LoopStates
  <2>2. loop[l].at # "ended" /\ loop' = [loop EXCEPT ![l] = LoopHead] /\ UNCHANGED <<process, stop, sinceStop>>
    BY <1>6 DEF Wake, SleptEnough
  <2>3. loop' \in [Loops -> LoopType] /\ StopOK' /\ StopsInTime'
    BY <2>1, <2>2, LoopStep, Zenon
  <2> QED
    BY <1>0, <1>6, <2>3 DEF ProcessInv, ProcessTypeOK, HeartbeatTrue, Wake
<1>7. CASE Close
    BY <1>0, <1>7 DEF Close, CanClose, ProcessInv, ProcessTypeOK, StopOK, StopsInTime, HeartbeatTrue
<1>8. CASE Restart
  <2>0. loop' \in [Loops -> LoopType]
    BY <1>8, LoopStates, Zenon DEF Restart
  <2>1. ProcessTypeOK'
    BY <1>0, <1>8, <2>0, AgesStart, Zenon DEF Restart, ProcessTypeOK
  <2>2. StopOK'
    BY <1>8, LoopStates DEF Restart, StopOK
  <2> QED
    BY <1>0, <1>8, <2>1, <2>2, WorkersAssumption DEF Restart, ProcessInv, StopsInTime, HeartbeatTrue
<1>9. CASE Tick
  <2>1. ASSUME NEW x \in LoopType
        PROVE  LET y == [x EXCEPT !.left = IF @ > 0 THEN @ - 1 ELSE 0]
               IN  y \in LoopType /\ y.at = x.at /\ (x.at = "iterating" /\ x.left > 0 => y.left = x.left - 1)
    BY <2>1, WorkersAssumption DEF LoopType, Ended, LoopHead
  <2>2. /\ loop' \in [Loops -> LoopType]
        /\ \A l \in Loops : /\ loop'[l].at = loop[l].at
                            /\ loop[l].at = "iterating" => loop'[l].left = loop[l].left - 1
    BY <1>0, <1>9, <2>1, Zenon DEF Tick, ProcessTypeOK
  <2>3. ProcessTypeOK'
    BY <1>0, <1>9, <2>2, WorkersAssumption DEF ProcessTypeOK, Tick, Later
  <2>4. stop /\ process = "running" => sinceStop' = sinceStop + 1 /\ sinceStop' <= IterationMax
    <3> SUFFICES ASSUME stop, process = "running"
                 PROVE  sinceStop' = sinceStop + 1 /\ sinceStop' <= IterationMax
        OBVIOUS
    <3>1. PICK l \in Loops : loop[l].at # "ended"
        BY <1>9 DEF Tick, CanClose
    <3>2. loop[l].at = "iterating"
        BY <1>0, <1>9, <3>1, LoopStates DEF ProcessTypeOK, Tick, SleptEnough
    <3>3. loop[l].left > 0 /\ loop[l].left \in 0..IterationMax /\ sinceStop + loop[l].left <= IterationMax
        BY <1>0, <1>9, <3>2, LoopStates DEF ProcessTypeOK, Tick, StopOK
    <3> QED
        BY <1>0, <1>9, <3>3, WorkersAssumption DEF ProcessTypeOK, Tick, Later
  <2>5. process' = process /\ stop' = stop /\ (~(stop /\ process = "running") => sinceStop' = sinceStop)
    BY <1>9 DEF Tick
  <2>6. StopOK'
    <3>1. ASSUME NEW l \in Loops, process = "running", stop, loop[l].at = "iterating"
          PROVE  sinceStop' + loop'[l].left <= IterationMax
        BY <1>0, <2>2, <2>4, <3>1, LoopStates, WorkersAssumption DEF ProcessTypeOK, StopOK
    <3> QED
        BY <1>0, <2>2, <2>4, <2>5, <3>1 DEF StopOK
  <2> QED
    BY <1>0, <1>9, <2>3, <2>4, <2>5, <2>6 DEF ProcessInv, StopsInTime, HeartbeatTrue, Tick
<1>10. CASE UNCHANGED processVars
    BY <1>0, <1>10 DEF processVars, ProcessInv, ProcessTypeOK, StopOK, StopsInTime, HeartbeatTrue
<1> QED
    BY <1>1, <1>2, <1>3, <1>4, <1>5, <1>6, <1>7, <1>8, <1>9, <1>10, Zenon DEF ProcessNext

\* The inductive invariant of a worker process.
LEMMA ProcessInvariance == ProcessSpec => []ProcessInv
<1> QED
    BY ProcessInitInv, ProcessNextInv, PTL DEF ProcessSpec

\* A worker process that is told to stop is done when the iterations under way
\* are: neither a poll interval nor a pause after an error is waited for, and the
\* age of its heartbeat is the time since an iteration last ended well.
THEOREM WorkersStopInTime == ProcessSpec => [](StopsInTime /\ HeartbeatTrue)
<1>1. ProcessInv => StopsInTime /\ HeartbeatTrue
    BY Zenon DEF ProcessInv
<1> QED
    BY <1>1, ProcessInvariance, PTL
=============================================================================
