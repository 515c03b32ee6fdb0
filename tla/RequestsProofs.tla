--------------------------- MODULE RequestsProofs ---------------------------
(***************************************************************************)
(* Proofs about what guards a request: Idempotency, RateLimits and         *)
(* OAuthStates.                                                            *)
(*                                                                         *)
(* Idempotency: at most one execution per key while none of the events     *)
(* that the module comment admits has ended the protection of the key, and *)
(* true replays.  While its key is protected, the request that holds it is *)
(* alone, and the store has its pending record with what is left of its    *)
(* lease (HoldersOK); and an effect is covered by the request that will    *)
(* record it or by its record (EffectsOK).                                 *)
(*                                                                         *)
(* RateLimits: the requests that a span of one window served are of two    *)
(* windows at most, and within a window they have different places in the  *)
(* count (RecentOK); a refused caller waits out the window (RetryOK).      *)
(*                                                                         *)
(* OAuthStates: what Redis holds for a state is gone once the state was    *)
(* accepted, and before the state is too old (StateOK).                    *)
(***************************************************************************)
EXTENDS Idempotency, RateLimits, OAuthStates, FiniteSetTheorems, TLAPS

-----------------------------------------------------------------------------
(* The inductive invariant.                                                *)

Holding == {"running", "committed", "recording", "releasing"}

\* Work that is committed and not recorded yet.
Unrecorded == {"committed", "recording"}

TypesOK ==
    /\ phase \in [Clients -> Phases]
    /\ answer \in [Clients -> Answers]
    /\ lease \in [Clients -> 0 .. Lock]
    /\ effects \in [Keys -> SUBSET Bodies]
    /\ twice \subseteq Keys /\ excused \subseteq Keys

StoreOK ==
    /\ store \in [Keys -> EntryType \cup {NULL}]
    /\ \A k \in Keys : store[k] # NULL =>
          store[k].left \in 1 .. (IF store[k].value.state = "done" THEN TTL ELSE Lock)

Alone(c) == \A d \in Clients : d # c /\ Key[d] = Key[c] => phase[d] \notin Holding

\* The request that holds a protected key.
HolderOK(c) ==
    /\ Alone(c)
    /\ lease[c] > 0
    /\ store[Key[c]] = Entry(Pending(Body[c]), lease[c])

HoldersOK == \A c \in Clients : phase[c] \in Holding /\ Key[c] \notin excused => HolderOK(c)

IsDone(k) == store[k] # NULL /\ store[k].value.state = "done"

EffectsOK ==
    \A k \in Keys : effects[k] # {} /\ k \notin excused =>
        \/ IsDone(k)
        \/ \E c \in Clients : Key[c] = k /\ phase[c] \in Unrecorded

RecordsTrue ==
    /\ \A k \in Keys : IsDone(k) => store[k].value.body \in effects[k]
    /\ \A c \in Clients : phase[c] \in Unrecorded => Body[c] \in effects[Key[c]]

Inv == TypesOK /\ StoreOK /\ HoldersOK /\ EffectsOK /\ RecordsTrue /\ AtMostOnce /\ ReplaysTrue

-----------------------------------------------------------------------------
(* Keys, bodies and entries.                                               *)

\* A client's request has a key and a body.
LEMMA OfClient == ASSUME NEW c \in Clients PROVE Key[c] \in Keys /\ Body[c] \in Bodies
BY IdempotencyAssumption, Zenon DEF Bodies

\* The two records the middleware writes, and what distinguishes them.
LEMMA Entries ==
    ASSUME NEW b \in Bodies, NEW n \in Nat
    PROVE  /\ Entry(Pending(b), n) \in EntryType /\ Entry(Pending(b), n) # NULL
           /\ Entry(Pending(b), n).value.state = "pending"
           /\ Entry(Pending(b), n).left = n
           /\ Entry(Done(b), n) \in EntryType /\ Entry(Done(b), n) # NULL
           /\ Entry(Done(b), n).value.state = "done" /\ Entry(Done(b), n).value.body = b
           /\ Entry(Done(b), n).left = n
<1>1. Entry(Pending(b), n) \in EntryType /\ Entry(Done(b), n) \in EntryType
  BY Zenon DEF Entry, Pending, Done, EntryType
<1>2. Entry(Pending(b), n) # NULL /\ Entry(Done(b), n) # NULL
  BY <1>1, IdempotencyAssumption, Zenon
<1>. QED BY <1>1, <1>2, Zenon DEF Entry, Pending, Done

\* The record of a protected key is pending while a request holds it.
LEMMA HeldPending ==
    ASSUME Inv, NEW c \in Clients, phase[c] \in Holding, Key[c] \notin excused
    PROVE  /\ store[Key[c]] # NULL /\ ~IsDone(Key[c])
           /\ \A d \in Clients : d # c /\ Key[d] = Key[c] => phase[d] \notin Holding
<1>1. HolderOK(c) /\ lease[c] \in Nat
  BY DEF Inv, HoldersOK, TypesOK
<1>. QED BY <1>1, OfClient, Entries DEF HolderOK, Alone, IsDone

\* A protected key without a record is held by nobody, and nothing was executed
\* under it.
LEMMA FreeKey ==
    ASSUME Inv, NEW c \in Clients, store[Key[c]] = NULL, Key[c] \notin excused
    PROVE  \A d \in Clients : Key[d] = Key[c] => phase[d] \notin Holding
BY HeldPending, Zenon

-----------------------------------------------------------------------------
(* Steps that leave the store alone.                                       *)

\* Nobody takes a key, and committed work is kept until it is recorded, unless
\* its key is excused.
LEMMA QuietStep ==
    ASSUME Inv, UNCHANGED <<store, lease, effects, twice>>, excused \subseteq excused',
           \A d \in Clients : phase'[d] \in Holding => phase[d] \in Holding,
           \A d \in Clients : phase'[d] \in Unrecorded => phase[d] \in Unrecorded,
           \A d \in Clients : phase[d] \in Unrecorded =>
               phase'[d] \in Unrecorded \/ Key[d] \in excused'
    PROVE  HoldersOK' /\ EffectsOK' /\ RecordsTrue' /\ AtMostOnce'
<1>1. HoldersOK'
  BY Zenon DEF Inv, HoldersOK, HolderOK, Alone
<1>2. EffectsOK'
  <2> SUFFICES ASSUME NEW k \in Keys, effects[k] # {}, k \notin excused'
               PROVE  IsDone(k)' \/ \E c \in Clients : Key[c] = k /\ phase'[c] \in Unrecorded
    BY Zenon DEF EffectsOK
  <2>1. CASE IsDone(k)
    BY <2>1, Zenon DEF IsDone
  <2>2. CASE ~IsDone(k)
    <3>1. PICK c \in Clients : Key[c] = k /\ phase[c] \in Unrecorded
      BY <2>2, Zenon DEF Inv, EffectsOK
    <3>. QED BY <3>1, Zenon
  <2>. QED BY <2>1, <2>2, Zenon
<1>3. RecordsTrue'
  BY Zenon DEF Inv, RecordsTrue, IsDone
<1>4. AtMostOnce'
  BY Zenon DEF Inv, AtMostOnce
<1>. QED BY <1>1, <1>2, <1>3, <1>4, Zenon

\* A request takes, at most, a phase of its own.
LEMMA GotoOne ==
    ASSUME TypesOK, NEW c \in Clients, NEW p \in Phases, Goto(c, p)
    PROVE  /\ phase' \in [Clients -> Phases] /\ phase'[c] = p
           /\ \A d \in Clients : d # c => phase'[d] = phase[d]
BY Zenon DEF TypesOK, Goto

\* An answer is given to one client only.
LEMMA ReplyOne ==
    ASSUME TypesOK, NEW c \in Clients, NEW a \in Answers, Reply(c, a)
    PROVE  /\ answer' \in [Clients -> Answers] /\ answer'[c] = a
           /\ \A d \in Clients : d # c => answer'[d] = answer[d]
BY Zenon DEF TypesOK, Reply

\* Effects are never taken back, so what was replayed stays true.
LEMMA ReplaysKept ==
    ASSUME Inv, \A k \in Keys : effects[k] \subseteq effects'[k],
           \A d \in Clients : answer'[d] = "replayed" =>
               answer[d] = "replayed" \/ Body[d] \in effects[Key[d]]
    PROVE  ReplaysTrue'
BY OfClient, Zenon DEF Inv, ReplaysTrue

\* How the sets of phases lie to one another.
LEMMA PhaseSets ==
    /\ Unrecorded \subseteq Holding /\ Holding \subseteq Phases
    /\ {"idle", "checking", "running", "committed", "recording", "releasing"} \subseteq Phases
    /\ "idle" \notin Holding /\ "checking" \notin Holding
    /\ "running" \notin Unrecorded /\ "releasing" \notin Unrecorded
    /\ "running" \in Holding /\ "releasing" \in Holding
    /\ "committed" \in Unrecorded /\ "recording" \in Unrecorded
    /\ {"none", "unavailable", "done", "failed"} \subseteq Answers
    /\ "replayed" \notin {"none", "unavailable", "done", "failed"}
BY Zenon DEF Unrecorded, Holding, Phases, Active, Answers

\* What is said of the records alone holds while they do not change.
LEMMA StoreSame == ASSUME Inv, store' = store PROVE StoreOK'
BY Zenon DEF Inv, StoreOK

-----------------------------------------------------------------------------
(* The steps of a request.                                                 *)

\* Checking, answering, responding, refusing, failing and crashing: the store,
\* the lease and the effects stay.
LEMMA RequestSteps ==
    ASSUME Inv, NEW c \in Clients,
           \/ AnswerExisting(c) \/ Respond(c) \/ RefuseWork(c)
           \/ FailAfterCommit(c) \/ RecordLost(c) \/ Crash(c)
           \/ Unavailable(c) /\ store' = store
           \/ Reserve(c) /\ store' = store
           \/ Release(c) /\ store' = store
    PROVE  Inv'
<1>1. TypesOK /\ Key[c] \in Keys
  BY OfClient, Zenon DEF Inv
<1>2. UNCHANGED <<store, lease, effects, twice>>
  BY Zenon DEF AnswerExisting, Respond, RefuseWork, FailAfterCommit, RecordLost, Crash, Unavailable,
               Reserve, Release, ghosts
<1>3. excused \subseteq excused' /\ excused' \subseteq Keys
  BY <1>1, Zenon DEF AnswerExisting, Respond, RefuseWork, FailAfterCommit, RecordLost, Crash,
                     Unavailable, Reserve, Release, ghosts, Excuse, TypesOK
<1>4. PICK p \in Phases : /\ Goto(c, p)
                          /\ p \in Holding => phase[c] \in Holding
                          /\ p \in Unrecorded => phase[c] \in Unrecorded
                          /\ phase[c] \in Unrecorded => p \in Unrecorded \/ Key[c] \in excused'
  <2>1. CASE AnswerExisting(c) \/ (Unavailable(c) /\ store' = store)
    <3>1. phase[c] \notin Unrecorded /\ Goto(c, "idle")
      BY <2>1, Zenon DEF AnswerExisting, Unavailable, Unrecorded
    <3>. QED BY <3>1, PhaseSets, Zenon
  <2>2. CASE Respond(c)
    <3>1. phase[c] = "committed" /\ Goto(c, "recording")
      BY <2>2, Zenon DEF Respond
    <3>. QED BY <3>1, PhaseSets, Zenon
  <2>3. CASE RefuseWork(c)
    <3>1. phase[c] = "running" /\ Goto(c, "releasing")
      BY <2>3, Zenon DEF RefuseWork
    <3>. QED BY <3>1, PhaseSets, Zenon
  <2>4. CASE FailAfterCommit(c)
    <3>1. phase[c] = "committed" /\ Goto(c, "releasing") /\ Key[c] \in excused'
      BY <2>4, Zenon DEF FailAfterCommit, Excuse
    <3>. QED BY <3>1, PhaseSets, Zenon
  <2>5. CASE RecordLost(c)
    <3>1. Goto(c, "idle") /\ Key[c] \in excused'
      BY <2>5, Zenon DEF RecordLost, Excuse
    <3>. QED BY <3>1, PhaseSets, Zenon
  <2>6. CASE Crash(c)
    <3>1. Goto(c, "idle") /\ (phase[c] \in Unrecorded => Key[c] \in excused')
      BY <2>6, Zenon DEF Crash, Excuse, Unrecorded
    <3>. QED BY <3>1, PhaseSets, Zenon
  <2>7. CASE Reserve(c) /\ store' = store
    <3>1. phase[c] = "idle" /\ Goto(c, "checking")
      BY <2>7, Zenon DEF Reserve
    <3>. QED BY <3>1, PhaseSets, Zenon
  <2>8. CASE Release(c) /\ store' = store
    <3>1. phase[c] = "releasing" /\ Goto(c, "idle")
      BY <2>8, Zenon DEF Release
    <3>. QED BY <3>1, PhaseSets, Zenon
  <2>. QED BY <2>1, <2>2, <2>3, <2>4, <2>5, <2>6, <2>7, <2>8, Zenon
<1>5. /\ phase' \in [Clients -> Phases] /\ phase'[c] = p
      /\ \A d \in Clients : d # c => phase'[d] = phase[d]
  BY <1>1, <1>4, GotoOne, Zenon
<1>6. HoldersOK' /\ EffectsOK' /\ RecordsTrue' /\ AtMostOnce'
  BY <1>2, <1>3, <1>4, <1>5, QuietStep, Zenon
<1>7. answer' = answer \/ \E a \in Answers : Reply(c, a) /\ (a = "replayed" => Body[c] \in effects[Key[c]])
  <2>1. CASE AnswerExisting(c)
    <3> DEFINE a == AnswerTo(c, Get(store, Key[c]))
    <3>1. a \in Answers
      BY Zenon DEF AnswerTo, Answers
    <3>2. a = "replayed" => Body[c] \in effects[Key[c]]
      <4> SUFFICES ASSUME a = "replayed" PROVE Body[c] \in effects[Key[c]]
        BY Zenon
      <4>1. /\ Get(store, Key[c]) # NULL
            /\ Get(store, Key[c]).body = Body[c] /\ Get(store, Key[c]).state = "done"
        BY Zenon DEF AnswerTo
      <4>2. store[Key[c]] # NULL /\ Get(store, Key[c]) = store[Key[c]].value
        BY <4>1, Zenon DEF Get
      <4>. QED BY <1>1, <4>1, <4>2, Zenon DEF Inv, RecordsTrue, IsDone
    <3>3. Reply(c, a)
      BY <2>1, Zenon DEF AnswerExisting
    <3>. QED BY <3>1, <3>2, <3>3, Zenon
  <2>2. CASE ~AnswerExisting(c)
    BY <2>2, PhaseSets, Zenon DEF Respond, RefuseWork, FailAfterCommit, RecordLost, Crash, Unavailable,
                                  Reserve, Release
  <2>. QED BY <2>1, <2>2, Zenon
<1>8. /\ answer' \in [Clients -> Answers]
      /\ \A d \in Clients : answer'[d] = "replayed" => answer[d] = "replayed" \/ Body[d] \in effects[Key[d]]
  <2>1. CASE answer' = answer
    BY <1>1, <2>1, Zenon DEF TypesOK
  <2>2. CASE answer' # answer
    <3>1. PICK a \in Answers : Reply(c, a) /\ (a = "replayed" => Body[c] \in effects[Key[c]])
      BY <1>7, <2>2, Zenon
    <3>. QED BY <1>1, <3>1, ReplyOne, Zenon
  <2>. QED BY <2>1, <2>2, Zenon
<1>9. ReplaysTrue'
  BY <1>2, <1>8, ReplaysKept, Zenon
<1>10. TypesOK'
  BY <1>1, <1>2, <1>3, <1>5, <1>8, Zenon DEF TypesOK
<1>. QED BY <1>2, <1>6, <1>9, <1>10, StoreSame, Zenon DEF Inv

\* A free key gets the pending record of the request, whether or not the request
\* learns of it.
LEMMA ReserveSteps ==
    ASSUME Inv, NEW c \in Clients, Reserve(c) \/ Unavailable(c), store' # store
    PROVE  Inv'
<1> DEFINE k == Key[c]
           new == Entry(Pending(Body[c]), Lock)
<1>1. /\ TypesOK /\ k \in Keys /\ Body[c] \in Bodies /\ Lock \in Nat \ {0}
      /\ store \in [Keys -> EntryType \cup {NULL}]
  BY OfClient, IdempotencyAssumption, Zenon DEF Inv, StoreOK
<1>2. new \in EntryType /\ new # NULL /\ new.value.state = "pending" /\ new.left = Lock
  BY <1>1, Entries, Zenon
<1>3. store[k] = NULL /\ store' = [store EXCEPT ![k] = new]
  BY Zenon DEF Reserve, Unavailable, Reserved, SetIfAbsent, SetKey
<1> HIDE DEF new
<1>4. store'[k] = new /\ \A j \in Keys : j # k => store'[j] = store[j]
  BY <1>1, <1>3, Zenon
<1>5. UNCHANGED <<effects, twice, excused>>
  BY Zenon DEF Reserve, Unavailable, ghosts
<1>6. k \notin excused => \A d \in Clients : Key[d] = k => phase[d] \notin Holding
  BY <1>3, FreeKey, Zenon
<1>7. /\ phase[c] \notin Unrecorded
      /\ \/ Goto(c, "running") /\ lease' = [lease EXCEPT ![c] = Lock]
         \/ Goto(c, "idle") /\ UNCHANGED lease
  BY Zenon DEF Reserve, Unavailable, Unrecorded
<1>8. /\ phase' \in [Clients -> Phases] /\ phase'[c] \in {"running", "idle"}
      /\ \A d \in Clients : d # c => phase'[d] = phase[d]
  BY <1>1, <1>7, GotoOne, PhaseSets, Zenon
<1>9. /\ lease' \in [Clients -> 0 .. Lock]
      /\ \A d \in Clients : d # c => lease'[d] = lease[d]
      /\ phase'[c] \in Holding => lease'[c] = Lock
  <2>1. CASE Goto(c, "running") /\ lease' = [lease EXCEPT ![c] = Lock]
    <3>1. Lock \in 0 .. Lock
      BY <1>1
    <3>. QED BY <1>1, <2>1, <3>1, Zenon DEF TypesOK
  <2>2. CASE Goto(c, "idle") /\ UNCHANGED lease
    <3>1. phase'[c] = "idle"
      BY <1>1, <2>2, GotoOne, PhaseSets, Zenon
    <3>. QED BY <1>1, <2>2, <3>1, PhaseSets, Zenon DEF TypesOK
  <2>. QED BY <1>7, <2>1, <2>2, Zenon
<1>10. /\ answer' \in [Clients -> Answers]
       /\ \A d \in Clients : answer'[d] = "replayed" => answer[d] = "replayed"
  <2>1. PICK a \in {"none", "unavailable"} : Reply(c, a)
    BY Zenon DEF Reserve, Unavailable
  <2>. QED BY <1>1, <2>1, ReplyOne, PhaseSets, Zenon
<1>11. StoreOK'
  <2>1. store' \in [Keys -> EntryType \cup {NULL}]
    BY <1>1, <1>2, <1>3, Zenon
  <2>2. new.left \in 1 .. (IF new.value.state = "done" THEN TTL ELSE Lock)
    BY <1>1, <1>2
  <2>. QED BY <1>4, <2>1, <2>2, Zenon DEF Inv, StoreOK
<1>12. HoldersOK'
  <2> SUFFICES ASSUME NEW d \in Clients, phase'[d] \in Holding, Key[d] \notin excused
               PROVE  HolderOK(d)'
    BY <1>5, Zenon DEF HoldersOK
  <2>1. CASE d = c
    <3>1. Alone(c)'
      BY <1>6, <1>8, <2>1, Zenon DEF Alone
    <3>2. lease'[c] = Lock /\ lease'[c] > 0
      BY <1>1, <1>9, <2>1
    <3>. QED BY <1>4, <2>1, <3>1, <3>2, Zenon DEF HolderOK, new
  <2>2. CASE d # c
    <3>1. phase[d] \in Holding /\ HolderOK(d)
      BY <1>8, <2>2, Zenon DEF Inv, HoldersOK
    <3>2. Key[d] # k /\ Key[d] \in Keys
      BY <1>6, <3>1, OfClient, Zenon
    <3>3. Alone(d)'
      BY <1>8, <3>1, <3>2, Zenon DEF HolderOK, Alone
    <3>. QED BY <1>4, <1>9, <2>2, <3>1, <3>2, <3>3, Zenon DEF HolderOK
  <2>. QED BY <2>1, <2>2, Zenon
<1>13. EffectsOK'
  <2> SUFFICES ASSUME NEW j \in Keys, effects[j] # {}, j \notin excused
               PROVE  IsDone(j)' \/ \E d \in Clients : Key[d] = j /\ phase'[d] \in Unrecorded
    BY <1>5, Zenon DEF EffectsOK
  <2>1. CASE IsDone(j)
    BY <1>3, <1>4, <2>1, Zenon DEF IsDone
  <2>2. CASE ~IsDone(j)
    <3>1. PICK d \in Clients : Key[d] = j /\ phase[d] \in Unrecorded
      BY <2>2, Zenon DEF Inv, EffectsOK
    <3>. QED BY <1>7, <1>8, <3>1, Zenon
  <2>. QED BY <2>1, <2>2, Zenon
<1>14. RecordsTrue'
  <2>1. ~IsDone(k)'
    BY <1>2, <1>4, Zenon DEF IsDone
  <2>2. phase'[c] \notin Unrecorded
    BY <1>8, PhaseSets, Zenon
  <2>. QED BY <1>4, <1>5, <1>8, <2>1, <2>2, Zenon DEF Inv, RecordsTrue, IsDone
<1>15. AtMostOnce'
  BY <1>5, Zenon DEF Inv, AtMostOnce
<1>16. ReplaysTrue'
  BY <1>5, <1>10, ReplaysKept, Zenon
<1>17. TypesOK'
  BY <1>1, <1>5, <1>8, <1>9, <1>10, Zenon DEF TypesOK
<1>. QED BY <1>11, <1>12, <1>13, <1>14, <1>15, <1>16, <1>17, Zenon DEF Inv

\* The request that holds a key ends, and leaves its record or nothing.
LEMMA EndSteps ==
    ASSUME Inv, NEW c \in Clients, StoreRecord(c) \/ (Release(c) /\ store' # store)
    PROVE  Inv'
<1> DEFINE k == Key[c]
           new == IF phase[c] = "recording" THEN Entry(Done(Body[c]), TTL) ELSE NULL
<1>1. /\ TypesOK /\ k \in Keys /\ Body[c] \in Bodies /\ TTL \in Nat \ {0}
      /\ store \in [Keys -> EntryType \cup {NULL}]
  BY OfClient, IdempotencyAssumption, Zenon DEF Inv, StoreOK
<1>2. /\ phase[c] \in {"recording", "releasing"} /\ Goto(c, "idle")
      /\ store' = [store EXCEPT ![k] = new]
      /\ UNCHANGED <<answer, lease, effects, twice, excused>>
  BY Zenon DEF StoreRecord, Release, SetKey, Delete, ghosts
<1>3. /\ Entry(Done(Body[c]), TTL) \in EntryType /\ Entry(Done(Body[c]), TTL) # NULL
      /\ Entry(Done(Body[c]), TTL).value.state = "done"
      /\ Entry(Done(Body[c]), TTL).value.body = Body[c]
      /\ Entry(Done(Body[c]), TTL).left \in 1 .. TTL
  BY <1>1, Entries
<1>4. store'[k] = new /\ \A j \in Keys : j # k => store'[j] = store[j]
  BY <1>1, <1>2, Zenon
<1>5. /\ phase' \in [Clients -> Phases] /\ phase'[c] = "idle"
      /\ \A d \in Clients : d # c => phase'[d] = phase[d]
  BY <1>1, <1>2, GotoOne, PhaseSets, Zenon
<1>6. phase[c] \in Holding /\ phase'[c] \notin Holding /\ phase'[c] \notin Unrecorded
  BY <1>2, <1>5, PhaseSets, Zenon
<1>7. k \notin excused => /\ ~IsDone(k)
                          /\ \A d \in Clients : d # c /\ Key[d] = k => phase[d] \notin Holding
  BY <1>6, HeldPending, Zenon
<1>8. StoreOK'
  <2>1. new \in EntryType \cup {NULL}
    BY <1>3, Zenon
  <2>2. store' \in [Keys -> EntryType \cup {NULL}]
    BY <1>1, <1>2, <2>1, Zenon
  <2>3. new # NULL => new.left \in 1 .. (IF new.value.state = "done" THEN TTL ELSE Lock)
    BY <1>3, Zenon
  <2>. QED BY <1>4, <2>2, <2>3, Zenon DEF Inv, StoreOK
<1>9. HoldersOK'
  <2> SUFFICES ASSUME NEW d \in Clients, phase'[d] \in Holding, Key[d] \notin excused
               PROVE  HolderOK(d)'
    BY <1>2, Zenon DEF HoldersOK
  <2>1. d # c /\ phase[d] \in Holding /\ HolderOK(d)
    BY <1>5, <1>6, Zenon DEF Inv, HoldersOK
  <2>2. Key[d] # k /\ Key[d] \in Keys
    BY <1>7, <2>1, OfClient, Zenon
  <2>3. Alone(d)'
    BY <1>5, <1>6, <2>1, Zenon DEF HolderOK, Alone
  <2>. QED BY <1>2, <1>4, <2>1, <2>2, <2>3, Zenon DEF HolderOK
<1>10. EffectsOK'
  <2> SUFFICES ASSUME NEW j \in Keys, effects[j] # {}, j \notin excused
               PROVE  IsDone(j)' \/ \E d \in Clients : Key[d] = j /\ phase'[d] \in Unrecorded
    BY <1>2, Zenon DEF EffectsOK
  <2>1. CASE j = k /\ phase[c] = "recording"
    BY <1>3, <1>4, <2>1, Zenon DEF IsDone
  <2>2. CASE j = k /\ phase[c] # "recording"
    <3>1. PICK d \in Clients : Key[d] = k /\ phase[d] \in Unrecorded
      BY <1>7, <2>2, Zenon DEF Inv, EffectsOK
    <3>2. d # c
      BY <1>2, <2>2, <3>1, PhaseSets, Zenon
    <3>. QED BY <1>5, <2>2, <3>1, <3>2, Zenon
  <2>3. CASE j # k
    <3>1. CASE IsDone(j)
      BY <1>4, <2>3, <3>1, Zenon DEF IsDone
    <3>2. CASE ~IsDone(j)
      <4>1. PICK d \in Clients : Key[d] = j /\ phase[d] \in Unrecorded
        BY <3>2, Zenon DEF Inv, EffectsOK
      <4>. QED BY <1>5, <2>3, <4>1, Zenon
    <3>. QED BY <3>1, <3>2, Zenon
  <2>. QED BY <2>1, <2>2, <2>3, Zenon
<1>11. RecordsTrue'
  <2>1. IsDone(k)' => store'[k].value.body \in effects[k]
    <3>1. IsDone(k)' => phase[c] = "recording" /\ store'[k] = Entry(Done(Body[c]), TTL)
      BY <1>4, Zenon DEF IsDone
    <3>2. phase[c] = "recording" => Body[c] \in effects[k]
      BY PhaseSets, Zenon DEF Inv, RecordsTrue
    <3>. QED BY <1>3, <3>1, <3>2, Zenon
  <2>. QED BY <1>2, <1>4, <1>5, <1>6, <2>1, Zenon DEF Inv, RecordsTrue, IsDone
<1>12. AtMostOnce' /\ ReplaysTrue' /\ TypesOK'
  BY <1>1, <1>2, <1>5, Zenon DEF Inv, AtMostOnce, ReplaysTrue, TypesOK
<1>. QED BY <1>8, <1>9, <1>10, <1>11, <1>12, Zenon DEF Inv

\* Under a protected key this is the first execution.
LEMMA CommitStep == ASSUME Inv, NEW c \in Clients, CommitWork(c) PROVE Inv'
<1> DEFINE k == Key[c]
<1>1. TypesOK /\ k \in Keys /\ Body[c] \in Bodies
  BY OfClient, Zenon DEF Inv
<1>2. /\ phase[c] = "running" /\ Goto(c, "committed") /\ UNCHANGED <<store, answer, lease, excused>>
      /\ effects' = [effects EXCEPT ![k] = @ \cup {Body[c]}]
      /\ twice' = IF effects[k] # {} THEN twice \cup {k} ELSE twice
  BY Zenon DEF CommitWork
<1>3. /\ phase' \in [Clients -> Phases] /\ phase'[c] = "committed"
      /\ \A d \in Clients : d # c => phase'[d] = phase[d]
  BY <1>1, <1>2, GotoOne, PhaseSets, Zenon
<1>4. /\ effects' \in [Keys -> SUBSET Bodies]
      /\ effects'[k] = effects[k] \cup {Body[c]}
      /\ \A j \in Keys : j # k => effects'[j] = effects[j]
  BY <1>1, <1>2, Zenon DEF TypesOK
<1>5. phase[c] \in Holding
  BY <1>2, PhaseSets, Zenon
<1>6. HoldersOK'
  BY <1>2, <1>3, <1>5, PhaseSets, Zenon DEF Inv, HoldersOK, HolderOK, Alone
<1>7. EffectsOK'
  <2> SUFFICES ASSUME NEW j \in Keys, effects'[j] # {}, j \notin excused
               PROVE  IsDone(j)' \/ \E d \in Clients : Key[d] = j /\ phase'[d] \in Unrecorded
    BY <1>2, Zenon DEF EffectsOK
  <2>1. CASE j = k
    BY <1>3, <2>1, PhaseSets, Zenon
  <2>2. CASE j # k
    <3>1. CASE IsDone(j)
      BY <1>2, <3>1, Zenon DEF IsDone
    <3>2. CASE ~IsDone(j)
      <4>1. PICK d \in Clients : Key[d] = j /\ phase[d] \in Unrecorded
        BY <1>4, <2>2, <3>2, Zenon DEF Inv, EffectsOK
      <4>. QED BY <1>3, <2>2, <4>1, Zenon
    <3>. QED BY <3>1, <3>2, Zenon
  <2>. QED BY <2>1, <2>2, Zenon
<1>8. \A j \in Keys : effects[j] \subseteq effects'[j]
  BY <1>4, Zenon
<1>9. RecordsTrue'
  <2>1. \A j \in Keys : IsDone(j)' => store'[j].value.body \in effects'[j]
    BY <1>2, <1>8, Zenon DEF Inv, RecordsTrue, IsDone
  <2>2. \A d \in Clients : phase'[d] \in Unrecorded => Body[d] \in effects'[Key[d]]
    <3> SUFFICES ASSUME NEW d \in Clients, phase'[d] \in Unrecorded
                 PROVE  Body[d] \in effects'[Key[d]]
      BY Zenon
    <3>1. CASE d = c
      BY <1>4, <3>1, Zenon
    <3>2. CASE d # c
      BY <1>3, <1>8, <3>2, OfClient, Zenon DEF Inv, RecordsTrue
    <3>. QED BY <3>1, <3>2, Zenon
  <2>. QED BY <2>1, <2>2, Zenon DEF RecordsTrue
<1>10. effects[k] # {} => k \in excused
  <2> SUFFICES ASSUME effects[k] # {}, k \notin excused PROVE FALSE
    BY Zenon
  <2>1. /\ ~IsDone(k)
        /\ \A d \in Clients : d # c /\ Key[d] = k => phase[d] \notin Holding
    BY <1>5, HeldPending, Zenon
  <2>2. PICK d \in Clients : Key[d] = k /\ phase[d] \in Unrecorded
    BY <1>1, <2>1, Zenon DEF Inv, EffectsOK
  <2>3. d # c
    BY <1>2, <2>2, PhaseSets, Zenon
  <2>. QED BY <2>1, <2>2, <2>3, PhaseSets, Zenon
<1>11. AtMostOnce' /\ twice' \subseteq Keys
  BY <1>1, <1>2, <1>10, Zenon DEF Inv, AtMostOnce, TypesOK
<1>12. ReplaysTrue'
  BY <1>2, <1>8, ReplaysKept, Zenon
<1>13. TypesOK'
  BY <1>1, <1>2, <1>3, <1>4, <1>11, Zenon DEF TypesOK
<1>. QED BY <1>2, <1>6, <1>7, <1>9, <1>11, <1>12, <1>13, StoreSame, Zenon DEF Inv

\* Time: a record loses a unit of its time, as the lease of its request does;
\* whoever is left without either is excused.
LEMMA TickStep == ASSUME Inv, Tick PROVE Inv'
<1>1. /\ TypesOK /\ StoreOK /\ UNCHANGED <<phase, answer, effects, twice>>
      /\ store' = Elapse(store) /\ store \in [Keys -> EntryType \cup {NULL}]
  BY Zenon DEF Inv, Tick, StoreOK
<1>2. \A c \in Clients : /\ lease[c] \in 0 .. Lock
                         /\ lease'[c] = IF lease[c] = 0 THEN 0 ELSE lease[c] - 1
  BY <1>1, Zenon DEF Tick, TypesOK
<1>3. /\ excused \subseteq excused' /\ excused' \subseteq Keys
      /\ \A c \in Clients : phase[c] # "idle" /\ lease[c] = 1 => Key[c] \in excused'
      /\ \A k \in Keys : store[k] # NULL /\ store'[k] = NULL /\ store[k].value.state = "done" => k \in excused'
  BY <1>1, OfClient, ZenonT(40) DEF Tick, TypesOK
<1>4. ASSUME NEW k \in Keys
      PROVE  /\ store'[k] # NULL =>
                   /\ store[k] # NULL /\ store[k].left > 1
                   /\ store'[k] = Entry(store[k].value, store[k].left - 1)
             /\ store[k] # NULL /\ store[k].left > 1 => store'[k] # NULL
  <2>1. store'[k] = IF store[k] = NULL \/ store[k].left <= 1
                    THEN NULL ELSE [store[k] EXCEPT !.left = @ - 1]
    BY <1>1, Zenon DEF Elapse
  <2>2. CASE store[k] = NULL
    BY <2>1, <2>2, Zenon
  <2>3. CASE store[k] # NULL
    <3>1. store[k] \in EntryType /\ store[k].left \in Nat
      BY <1>1, <2>3, Zenon DEF EntryType
    <3>2. [store[k] EXCEPT !.left = @ - 1] = Entry(store[k].value, store[k].left - 1)
      BY <3>1 DEF EntryType, Entry
    <3>3. store[k].left > 1 => Entry(store[k].value, store[k].left - 1) \in EntryType
      BY <3>1 DEF EntryType, Entry
    <3>4. store[k].left > 1 => Entry(store[k].value, store[k].left - 1) # NULL
      BY <3>3, IdempotencyAssumption, Zenon
    <3>. QED BY <2>1, <2>3, <3>1, <3>2, <3>4
  <2>. QED BY <2>2, <2>3, Zenon
<1>5. StoreOK'
  <2>1. ASSUME NEW k \in Keys, store'[k] # NULL
        PROVE  /\ store'[k] \in EntryType
               /\ store'[k].left \in 1 .. (IF store'[k].value.state = "done" THEN TTL ELSE Lock)
    <3>1. store[k] \in EntryType /\ store[k].left > 1 /\ store'[k] = Entry(store[k].value, store[k].left - 1)
      BY <1>1, <1>4, <2>1, Zenon
    <3>2. store[k].left \in 1 .. (IF store[k].value.state = "done" THEN TTL ELSE Lock)
      BY <1>1, <1>4, <2>1, Zenon DEF StoreOK
    <3>. QED BY <3>1, <3>2, IdempotencyAssumption DEF EntryType, Entry
  <2>2. store' \in [Keys -> EntryType \cup {NULL}]
    <3>1. store' = [k \in Keys |-> store'[k]]
      BY <1>1, Zenon DEF Elapse
    <3>. QED BY <2>1, <3>1, Zenon
  <2>. QED BY <2>1, <2>2, Zenon DEF StoreOK
<1>6. HoldersOK'
  <2> SUFFICES ASSUME NEW c \in Clients, phase[c] \in Holding, Key[c] \notin excused'
               PROVE  HolderOK(c)'
    BY <1>1, Zenon DEF HoldersOK
  <2>1. HolderOK(c) /\ phase[c] # "idle"
    BY <1>3, PhaseSets, Zenon DEF Inv, HoldersOK
  <2>2. lease[c] \in Nat /\ lease[c] > 1 /\ lease'[c] = lease[c] - 1
    BY <1>2, <1>3, <2>1 DEF HolderOK
  <2>3. store[Key[c]] # NULL /\ store[Key[c]].left = lease[c] /\ store[Key[c]].value = Pending(Body[c])
    <3>1. store[Key[c]] = Entry(Pending(Body[c]), lease[c])
      BY <2>1, Zenon DEF HolderOK
    <3>2. store[Key[c]].left = lease[c] /\ store[Key[c]].value = Pending(Body[c])
      BY <3>1 DEF Entry
    <3>3. store[Key[c]] # NULL
      BY <1>3, HeldPending, Zenon
    <3>. QED BY <3>2, <3>3, Zenon
  <2>4. store'[Key[c]] = Entry(Pending(Body[c]), lease'[c])
    BY <1>4, <2>2, <2>3, OfClient, Zenon
  <2>5. lease'[c] > 0
    BY <2>2
  <2>. QED BY <1>1, <2>1, <2>4, <2>5, Zenon DEF HolderOK, Alone
<1>7. \A k \in Keys : store'[k] # NULL => store[k] # NULL /\ store'[k].value = store[k].value
  <2>1. \A v, t : Entry(v, t).value = v
    BY Zenon DEF Entry
  <2>. QED BY <1>4, <2>1, Zenon
<1>8. EffectsOK'
  <2> SUFFICES ASSUME NEW k \in Keys, effects[k] # {}, k \notin excused', ~IsDone(k)'
               PROVE  \E c \in Clients : Key[c] = k /\ phase[c] \in Unrecorded
    BY <1>1, Zenon DEF EffectsOK
  <2>1. ~IsDone(k)
    BY <1>3, <1>7, Zenon DEF IsDone
  <2>. QED BY <1>3, <2>1, Zenon DEF Inv, EffectsOK
<1>9. RecordsTrue'
  BY <1>1, <1>7, Zenon DEF Inv, RecordsTrue, IsDone
<1>10. AtMostOnce' /\ ReplaysTrue'
  BY <1>1, <1>3, Zenon DEF Inv, AtMostOnce, ReplaysTrue
<1>11. lease' \in [Clients -> 0 .. Lock]
  <2>1. \A c \in Clients : (IF lease[c] = 0 THEN 0 ELSE lease[c] - 1) \in 0 .. Lock
    BY <1>2, IdempotencyAssumption
  <2>. QED BY <2>1, Zenon DEF Tick
<1>12. TypesOK'
  BY <1>1, <1>3, <1>11, Zenon DEF TypesOK
<1>. QED BY <1>5, <1>6, <1>8, <1>9, <1>10, <1>12, Zenon DEF Inv

-----------------------------------------------------------------------------
(* Theorems.                                                               *)

\* The invariant holds in every reachable state.
LEMMA Invariant == Spec => []Inv
<1>1. ASSUME Init PROVE Inv
  <2>1. TypesOK
    BY <1>1, IdempotencyAssumption DEF Init, TypesOK, Phases, Active, Answers
  <2>2. StoreOK
    BY <1>1, Zenon DEF Init, StoreOK
  <2>3. HoldersOK /\ EffectsOK /\ RecordsTrue
    BY <1>1, PhaseSets, Zenon DEF Init, HoldersOK, EffectsOK, RecordsTrue, IsDone
  <2>4. AtMostOnce
    BY <1>1, Zenon DEF Init, AtMostOnce
  <2>5. ReplaysTrue
    BY <1>1, Zenon DEF Init, ReplaysTrue
  <2>. QED BY <2>1, <2>2, <2>3, <2>4, <2>5, Zenon DEF Inv
<1>2. ASSUME Inv, [Next]_vars PROVE Inv'
  <2>1. CASE UNCHANGED vars
    <3>1. TypesOK' /\ StoreOK' /\ AtMostOnce' /\ ReplaysTrue'
      BY <1>2, <2>1, Zenon DEF Inv, vars, TypesOK, StoreOK, AtMostOnce, ReplaysTrue
    <3>2. HoldersOK' /\ EffectsOK' /\ RecordsTrue'
      BY <1>2, <2>1, QuietStep, Zenon DEF vars
    <3>. QED BY <3>1, <3>2, Zenon DEF Inv
  <2>2. CASE Tick
    BY <1>2, <2>2, TickStep, Zenon
  <2>3. ASSUME NEW c \in Clients, Step(c) PROVE Inv'
    BY <1>2, <2>3, RequestSteps, ReserveSteps, EndSteps, CommitStep, Zenon DEF Step
  <2>. QED BY <1>2, <2>1, <2>2, <2>3, Zenon DEF Next
<1>. QED BY <1>1, <1>2, PTL DEF Spec

\* The state of the middleware has its types, and no pending record outlives
\* the lock.
THEOREM IdempotencyTyped == Spec => []TypeOK
<1>1. Inv => TypeOK
  <2> SUFFICES ASSUME Inv PROVE TypeOK
    BY Zenon
  <2>1. \A k \in Keys : store[k] # NULL => store[k].value.body \in Bodies
    BY Zenon DEF Inv, StoreOK, EntryType
  <2>. QED BY <2>1, Zenon DEF Inv, TypesOK, StoreOK, TypeOK
<1>. QED BY <1>1, Invariant, PTL

\* Retries never lead to a second execution under a protected key
\* (app/cache/idempotency.py).
THEOREM ExecutedAtMostOnce == Spec => []AtMostOnce
<1>1. Inv => AtMostOnce
  BY Zenon DEF Inv
<1>. QED BY <1>1, Invariant, PTL

\* Two requests never execute at once under a protected key.
THEOREM ExecutionsAlone == Spec => []OneExecution
<1>1. Inv => OneExecution
  <2> SUFFICES ASSUME Inv, NEW c \in Clients, NEW d \in Clients, c # d, Key[c] = Key[d],
                      phase[c] \in Active, phase[d] \in Active, Key[c] \notin excused
               PROVE  FALSE
    BY Zenon DEF OneExecution
  <2>1. phase[c] \in Holding /\ phase[d] \in Holding
    BY Zenon DEF Active, Holding
  <2>. QED BY <2>1, HeldPending, Zenon
<1>. QED BY <1>1, Invariant, PTL

\* What is replayed was executed, for this very request, protected or not.
THEOREM ReplayedTruly == Spec => []ReplaysTrue
<1>1. Inv => ReplaysTrue
  BY Zenon DEF Inv
<1>. QED BY <1>1, Invariant, PTL

-----------------------------------------------------------------------------
(* RateLimits.                                                             *)

\* A caller's counter is one of the keys, and its limit a number.
LEMMA OfCaller == ASSUME NEW c \in Callers PROVE Subject(c) \in RateKeys /\ LimitOf(c) \in Nat
<1>1. Subject(c) \in RateKeys
    BY Zenon DEF Callers, Subject, RateKeys
<1>2. LimitOf(c) \in Nat
    BY RateAssumption, Zenon DEF LimitOf
<1> QED
    BY <1>1, <1>2, Zenon

\* NULL is not a counter.
LEMMA CounterNotNull == NULL \notin CounterType
BY RateAssumption DEF CounterType

\* The requests of one window are no more than the limit.
LEMMA OneWindow ==
    ASSUME NEW S \in SUBSET RequestType, NEW limit \in Nat, \A r \in S : r.count <= limit,
           \A r, s \in S : r.count = s.count => r = s
    PROVE  IsFiniteSet(S) /\ Cardinality(S) \in Nat /\ Cardinality(S) <= limit
<1> DEFINE f == [r \in S |-> r.count]
<1>1. \A r \in S : r.count \in 1 .. limit
    BY DEF RequestType
<1>2. f \in Injection(S, 1 .. limit)
    BY <1>1, Zenon DEF Injection, IsInjective
<1>3. IsFiniteSet(1 .. limit) /\ Cardinality(1 .. limit) = limit
  <2>1. IsFiniteSet(1 .. limit) /\ Cardinality(1 .. limit) = IF 1 > limit THEN 0 ELSE limit - 1 + 1
    BY FS_Interval
  <2> QED
    BY <2>1
<1> HIDE DEF f
<1>4. IsFiniteSet(S) /\ Cardinality(S) <= limit
    BY <1>2, <1>3, FS_Injection
<1> QED
    BY <1>4, FS_CardinalityType, Zenon

\* Two windows' requests are no more than twice the limit.
LEMMA TwoWindows ==
    ASSUME RateInv, NEW c \in Callers PROVE Served(c) <= 2 * LimitOf(c)
<1> DEFINE now == {r \in recent[c] : InWindow(c, r)}
           before == {r \in recent[c] : ~InWindow(c, r)}
<1>1. recent[c] \subseteq RequestType /\ LimitOf(c) \in Nat /\ RecentOK(c)
    BY OfCaller, Zenon DEF RateInv
<1>2. IsFiniteSet(now) /\ Cardinality(now) \in Nat /\ Cardinality(now) <= LimitOf(c)
  <2>1. now \in SUBSET RequestType /\ \A r \in now : r.count <= LimitOf(c)
    BY <1>1, Zenon DEF RecentOK
  <2>2. \A r, s \in now : r.count = s.count => r = s
    BY <1>1, Zenon DEF RecentOK
  <2> HIDE DEF now
  <2> QED
    BY <1>1, <2>1, <2>2, OneWindow, Zenon
<1>3. IsFiniteSet(before) /\ Cardinality(before) \in Nat /\ Cardinality(before) <= LimitOf(c)
  <2>1. before \in SUBSET RequestType /\ \A r \in before : r.count <= LimitOf(c)
    BY <1>1, Zenon DEF RecentOK
  <2>2. \A r, s \in before : r.count = s.count => r = s
    BY <1>1, Zenon DEF RecentOK
  <2> HIDE DEF before
  <2> QED
    BY <1>1, <2>1, <2>2, OneWindow, Zenon
<1>4. recent[c] = now \cup before /\ now \cap before = {}
    BY Zenon
<1> HIDE DEF now, before
<1>5. Cardinality(recent[c]) = Cardinality(now) + Cardinality(before)
  <2>1. Cardinality(now \cup before) = Cardinality(now) + Cardinality(before) - Cardinality({})
    BY <1>2, <1>3, <1>4, FS_Union, Zenon
  <2>2. Cardinality({}) = 0
    BY FS_EmptySet, Zenon
  <2> QED
    BY <1>2, <1>3, <1>4, <2>1, <2>2
<1> QED
    BY <1>1, <1>2, <1>3, <1>5 DEF Served

\* One more hit in a caller's window.
LEMMA CountedStep ==
    ASSUME RateInv, NEW c \in Callers
    PROVE  /\ DOMAIN Counted(c) = RateKeys
           /\ \A k \in RateKeys : k # Subject(c) => Counted(c)[k] = counters[k]
           /\ Counted(c)[Subject(c)] \in CounterType
           /\ counters[Subject(c)] = NULL =>
                 Counted(c)[Subject(c)].value = 1 /\ Counted(c)[Subject(c)].left = Window
           /\ counters[Subject(c)] # NULL =>
                 /\ Counted(c)[Subject(c)].value = counters[Subject(c)].value + 1
                 /\ Counted(c)[Subject(c)].left = counters[Subject(c)].left
<1>1. PICK k \in RateKeys : k = Subject(c)
    BY OfCaller, Zenon
<1>2. CASE counters[k] = NULL
  <2>1. Counted(c) = [counters EXCEPT ![k] = [value |-> 1, left |-> Window]]
    BY <1>1, <1>2, Zenon DEF Counted, Increment, SetKey, Entry
  <2>2. [value |-> 1, left |-> Window] \in CounterType
    BY RateAssumption DEF CounterType
  <2> QED
    BY <1>1, <1>2, <2>1, <2>2 DEF RateInv
<1>3. CASE counters[k] # NULL
  <2>1. counters[k] \in CounterType
    BY <1>3, Zenon DEF RateInv
  <2>2. Counted(c) = [counters EXCEPT ![k] = [counters[k] EXCEPT !.value = counters[k].value + 1]]
    BY <1>1, <1>3, Zenon DEF Counted, Increment
  <2>3. Counted(c)[k] = [counters[k] EXCEPT !.value = counters[k].value + 1]
    BY <2>2, Zenon DEF RateInv
  <2>4. /\ Counted(c)[k] \in CounterType /\ Counted(c)[k].value = counters[k].value + 1
        /\ Counted(c)[k].left = counters[k].left
    BY <2>1, <2>3 DEF CounterType
  <2> QED
    BY <1>1, <1>3, <2>2, <2>4, Zenon DEF RateInv
<1> QED
    BY <1>2, <1>3, Zenon

\* A hit counts in the window that the counter stands for.
LEMMA RateHitStep ==
    ASSUME RateInv, NEW c \in Callers, NEW fault \in Faults, Hit(c, fault) PROVE RateInv'
<1> DEFINE entry == Counted(c)[Subject(c)]
           new == JustServed(entry.value)
<1>1. /\ counters' = IF fault = "down" THEN counters ELSE Counted(c)
      /\ recent' = IF fault = "none" /\ Allowed(entry.value, LimitOf(c))
                   THEN [recent EXCEPT ![c] = recent[c] \cup {new}] ELSE recent
    BY Zenon DEF Hit
<1>2. entry \in CounterType /\ entry.value \in Nat \ {0} /\ entry.left \in 1 .. Window
    BY CountedStep, Zenon DEF CounterType
<1>3. new \in RequestType /\ new.count = entry.value /\ new.age = 0
    BY <1>2, RateAssumption DEF RequestType, JustServed
<1>4. recent' \in [Callers -> SUBSET RequestType]
    BY <1>1, <1>3, Zenon DEF RateInv
<1>5. /\ DOMAIN counters' = RateKeys
      /\ \A k \in RateKeys : counters'[k] \in CounterType \cup {NULL}
    BY <1>1, CountedStep, Zenon DEF RateInv
<1>6. ASSUME NEW d \in Callers PROVE RecentOK(d)'
  <2>1. /\ recent[d] \subseteq RequestType /\ RecentOK(d) /\ LimitOf(d) \in Nat
        /\ Subject(d) \in RateKeys /\ counters[Subject(d)] \in CounterType \cup {NULL}
    BY OfCaller, Zenon DEF RateInv
  <2>2. CASE fault = "down" \/ Subject(d) # Subject(c)
    <3>1. counters'[Subject(d)] = counters[Subject(d)]
        BY <1>1, <2>1, <2>2, CountedStep, Zenon
    <3>2. recent'[d] = recent[d]
        BY <1>1, <2>2, Zenon DEF RateInv
    <3>3. PICK b : b = Began(d) /\ b = Began(d)'
        BY <3>1, Zenon DEF Began
    <3> QED
        BY <2>1, <3>1, <3>2, <3>3, ZenonT(40) DEF RecentOK, InWindow
  <2>3. CASE fault # "down" /\ Subject(d) = Subject(c)
    <3>1. counters'[Subject(d)] = entry /\ entry # NULL
        BY <1>1, <1>2, <2>3, CounterNotNull, Zenon
    <3>2. Began(d)' = Window - entry.left
        BY <3>1, Zenon DEF Began
    <3>3. \/ recent'[d] = recent[d]
          \/ d = c /\ recent'[d] = recent[d] \cup {new} /\ Allowed(entry.value, LimitOf(d))
      <4> HIDE DEF entry, new
      <4>1. CASE d = c
        BY <1>1, <4>1, Zenon DEF RateInv
      <4>2. CASE d # c
        BY <1>1, <4>2, Zenon DEF RateInv
      <4> QED
        BY <4>1, <4>2, Zenon
    <3>4. /\ \A r \in recent[d] : r.age <= Window - entry.left =>
                r.count < entry.value /\ InWindow(d, r) /\ counters[Subject(d)] # NULL
          /\ \A r \in recent[d] : ~(r.age <= Window - entry.left) =>
                \/ counters[Subject(d)] # NULL /\ ~InWindow(d, r)
                \/ counters[Subject(d)] = NULL
      <4>1. CASE counters[Subject(d)] = NULL
        <5>1. entry.left = Window
            BY <2>3, <4>1, CountedStep, Zenon
        <5>2. \A r \in recent[d] : r.age > 0 /\ r.age \in Nat
            BY <2>1, <4>1 DEF RecentOK, RequestType
        <5> QED
            BY <4>1, <5>1, <5>2, RateAssumption
      <4>2. CASE counters[Subject(d)] # NULL
        <5>1. /\ entry.value = counters[Subject(d)].value + 1 /\ counters[Subject(d)].value \in Nat
              /\ entry.left = counters[Subject(d)].left
            BY <2>1, <2>3, <4>2, CountedStep, Zenon DEF CounterType
        <5>2. \A r \in recent[d] : r.count \in Nat /\ (InWindow(d, r) <=> r.age <= Window - entry.left)
            BY <2>1, <4>2, <5>1, Zenon DEF InWindow, Began, RequestType
        <5>3. \A r \in recent[d] : InWindow(d, r) => r.count <= counters[Subject(d)].value
            BY <2>1, <4>2, Zenon DEF RecentOK
        <5> QED
            BY <4>2, <5>1, <5>2, <5>3
      <4> QED
        BY <4>1, <4>2, Zenon
    <3>5. ASSUME NEW r \in recent[d], NEW s \in recent[d], r.count = s.count,
                 r.age <= Window - entry.left <=> s.age <= Window - entry.left
          PROVE  r = s
      <4>1. CASE counters[Subject(d)] # NULL
        BY <2>1, <3>4, <3>5, <4>1, Zenon DEF RecentOK
      <4>2. CASE counters[Subject(d)] = NULL
        <5>1. InWindow(d, r) /\ InWindow(d, s)
            BY <2>1, <4>2, RateAssumption DEF InWindow, Began, RequestType
        <5> QED
            BY <2>1, <3>5, <5>1, Zenon DEF RecentOK
      <4> QED
        BY <4>1, <4>2, Zenon
    <3>6. \A r \in recent'[d] : r \in recent[d] \/ r = new
        BY <3>3, Zenon
    <3>7. ASSUME NEW r \in recent'[d] PROVE r.count <= LimitOf(d)
        BY <1>3, <2>1, <3>3, Zenon DEF RecentOK, Allowed
    <3>8. ASSUME NEW r \in recent'[d], r.age <= Window - entry.left PROVE r.count <= entry.value
      <4>1. CASE r = new
        BY <1>2, <1>3, <4>1
      <4>2. CASE r \in recent[d]
        BY <1>2, <2>1, <3>4, <3>8, <4>2 DEF RequestType
      <4> QED
        BY <3>6, <4>1, <4>2, Zenon
    <3>9. ASSUME NEW r \in recent'[d], NEW s \in recent'[d], r.count = s.count,
                 r.age <= Window - entry.left <=> s.age <= Window - entry.left
          PROVE  r = s
      <4>1. new.age <= Window - entry.left
        BY <1>2, <1>3, RateAssumption
      <4>2. ASSUME NEW t \in recent[d], t.age <= Window - entry.left PROVE t.count # new.count
        BY <1>2, <1>3, <2>1, <3>4, <4>2 DEF RequestType
      <4> QED
        BY <3>5, <3>6, <3>9, <4>1, <4>2, Zenon
    <3> HIDE DEF entry, new
    <3> QED
        BY <3>1, <3>2, <3>7, <3>8, <3>9, Zenon DEF RecentOK, InWindow
  <2> QED
    BY <2>2, <2>3, Zenon
<1> QED
    BY <1>4, <1>5, <1>6, Zenon DEF RateInv

\* One tick later a request is one tick older, or older than the window.
LEMMA OlderBy ==
    ASSUME NEW S \in SUBSET RequestType
    PROVE  /\ Older(S) \subseteq RequestType
           /\ \A r \in Older(S) : \E s \in S : r = [s EXCEPT !.age = s.age + 1]
                                            /\ r.count = s.count /\ r.age = s.age + 1
<1> SUFFICES ASSUME NEW r \in Older(S)
             PROVE  /\ r \in RequestType
                    /\ \E s \in S : r = [s EXCEPT !.age = s.age + 1]
                                     /\ r.count = s.count /\ r.age = s.age + 1
    BY Zenon
<1>1. PICK s \in S : s.age + 1 < Window /\ r = [s EXCEPT !.age = s.age + 1]
    BY Zenon DEF Older
<1>2. s \in RequestType /\ Window \in Nat
    BY RateAssumption, Zenon
<1>3. r \in RequestType /\ r.count = s.count /\ r.age = s.age + 1
    BY <1>1, <1>2 DEF RequestType
<1> QED
    BY <1>1, <1>3, Zenon

\* Time passes: the windows of the requests served stay apart.
LEMMA RateTickStep == ASSUME RateInv, RateTick PROVE RateInv'
<1>1. /\ DOMAIN counters' = RateKeys
      /\ \A k \in RateKeys : counters'[k] =
            IF counters[k] = NULL \/ counters[k].left <= 1 THEN NULL
            ELSE [counters[k] EXCEPT !.left = counters[k].left - 1]
      /\ recent' = [c \in Callers |-> Older(recent[c])]
    BY Zenon DEF RateTick, Elapse, RateInv
<1>2. ASSUME NEW k \in RateKeys, counters'[k] # NULL
      PROVE  /\ counters[k] \in CounterType /\ counters[k] # NULL /\ counters'[k] \in CounterType
             /\ counters'[k].value = counters[k].value /\ counters'[k].left = counters[k].left - 1
  <2>1. /\ counters[k] \in CounterType /\ counters[k] # NULL /\ ~(counters[k].left <= 1)
        /\ counters'[k] = [counters[k] EXCEPT !.left = counters[k].left - 1]
    BY <1>1, <1>2, Zenon DEF RateInv
  <2> QED
    BY <2>1, RateAssumption DEF CounterType
<1>3. recent' \in [Callers -> SUBSET RequestType]
    BY <1>1, OlderBy, Zenon DEF RateInv
<1>4. ASSUME NEW c \in Callers PROVE RecentOK(c)'
  <2>1. /\ recent[c] \in SUBSET RequestType /\ RecentOK(c) /\ LimitOf(c) \in Nat /\ Window \in Nat
        /\ Subject(c) \in RateKeys /\ counters[Subject(c)] \in CounterType \cup {NULL}
    BY OfCaller, RateAssumption, Zenon DEF RateInv
  <2>2. recent'[c] = Older(recent[c])
    BY <1>1, Zenon
  <2>3. ASSUME NEW r \in recent'[c]
        PROVE  \E s \in recent[c] :
                  /\ r = [s EXCEPT !.age = s.age + 1] /\ r.count = s.count
                  /\ r.age = s.age + 1 /\ (InWindow(c, r)' <=> InWindow(c, s))
    <3>1. PICK s \in recent[c] : r = [s EXCEPT !.age = s.age + 1] /\ r.count = s.count
                                 /\ r.age = s.age + 1
        BY <2>1, <2>2, OlderBy
    <3>2. s.age \in 0 .. (Window - 1) /\ r.age \in 0 .. (Window - 1)
        BY <1>3, <2>1 DEF RequestType
    <3>3. PICK b, e : b = Began(c) /\ e = Began(c)'
        BY Zenon
    <3>4. s.age + 1 <= e <=> s.age <= b
      <4>1. CASE counters'[Subject(c)] # NULL
        <5>1. /\ counters[Subject(c)].left \in 1 .. Window /\ counters[Subject(c)] # NULL
              /\ counters'[Subject(c)].left = counters[Subject(c)].left - 1
            BY <1>2, <2>1, <4>1, Zenon DEF CounterType
        <5>2. b = Window - counters[Subject(c)].left /\ e = Window - counters'[Subject(c)].left
            BY <3>3, <4>1, <5>1, Zenon DEF Began
        <5> QED
            BY <2>1, <3>2, <5>1, <5>2
      <4>2. CASE counters'[Subject(c)] = NULL
        <5>1. e = Window
            BY <3>3, <4>2, Zenon DEF Began
        <5>2. CASE counters[Subject(c)] = NULL
          <6>1. b = Window
            BY <3>3, <5>2, Zenon DEF Began
          <6> QED
            BY <2>1, <3>2, <5>1, <6>1
        <5>3. CASE counters[Subject(c)] # NULL
          <6>1. counters[Subject(c)].left \in 1 .. Window
            BY <2>1, <5>3, Zenon DEF CounterType
          <6>2. counters[Subject(c)].left <= 1
            <7>1. SUFFICES ASSUME ~(counters[Subject(c)].left <= 1) PROVE FALSE
                BY Zenon
            <7>2. counters'[Subject(c)] = [counters[Subject(c)] EXCEPT !.left = counters[Subject(c)].left - 1]
                BY <1>1, <2>1, <5>3, <7>1, Zenon
            <7>3. counters'[Subject(c)] \in CounterType
                BY <2>1, <5>3, <6>1, <7>1, <7>2 DEF CounterType
            <7> QED
                BY <4>2, <7>3, CounterNotNull, Zenon
          <6>3. b = Window - counters[Subject(c)].left
            BY <3>3, <5>3, Zenon DEF Began
          <6> QED
            BY <2>1, <3>1, <3>2, <5>1, <6>1, <6>2, <6>3
        <5> QED
            BY <5>2, <5>3, Zenon
      <4> QED
        BY <4>1, <4>2, Zenon
    <3> QED
        BY <3>1, <3>3, <3>4, Zenon DEF InWindow
  <2>4. \A r \in recent'[c] : r.count <= LimitOf(c)
    BY <2>1, <2>3, Zenon DEF RecentOK
  <2>5. ASSUME NEW r \in recent'[c] PROVE r.age > 0
    <3>1. PICK s \in recent[c] : r.age = s.age + 1
        BY <2>3, Zenon
    <3>2. s.age \in Nat
        BY <2>1 DEF RequestType
    <3> QED
        BY <3>1, <3>2
  <2>6. ASSUME counters'[Subject(c)] # NULL, NEW r \in recent'[c], InWindow(c, r)'
        PROVE  r.count <= counters'[Subject(c)].value
    BY <1>2, <2>1, <2>3, <2>6, Zenon DEF RecentOK
  <2>7. ASSUME NEW r \in recent'[c], NEW s \in recent'[c],
               InWindow(c, r)' <=> InWindow(c, s)', r.count = s.count
        PROVE  r = s
    <3>1. PICK t \in recent[c] : /\ r = [t EXCEPT !.age = t.age + 1] /\ r.count = t.count
                                 /\ InWindow(c, r)' <=> InWindow(c, t)
        BY <2>3, Zenon
    <3>2. PICK u \in recent[c] : /\ s = [u EXCEPT !.age = u.age + 1] /\ s.count = u.count
                                 /\ InWindow(c, s)' <=> InWindow(c, u)
        BY <2>3, Zenon
    <3>3. t = u
        BY <2>1, <2>7, <3>1, <3>2, Zenon DEF RecentOK
    <3> QED
        BY <3>1, <3>2, <3>3, Zenon
  <2> QED
    BY <2>4, <2>5, <2>6, <2>7, Zenon DEF RecentOK
<1>5. \A k \in RateKeys : counters'[k] \in CounterType \cup {NULL}
    BY <1>2, Zenon
<1> QED
    BY <1>1, <1>3, <1>4, <1>5, Zenon DEF RateInv

\* Every step keeps the invariant of the rate limits.
LEMMA RateInvariance == RateSpec => []RateInv
<1>1. RateInit => RateInv
  <2> SUFFICES ASSUME RateInit PROVE RateInv
    BY Zenon
  <2>1. DOMAIN counters = RateKeys /\ \A k \in RateKeys : counters[k] = NULL
    BY Zenon DEF RateInit
  <2>2. recent \in [Callers -> SUBSET RequestType] /\ \A c \in Callers : recent[c] = {}
    BY Zenon DEF RateInit
  <2>3. \A c \in Callers : RecentOK(c)
    BY <2>2, Zenon DEF RecentOK
  <2> QED
    BY <2>1, <2>2, <2>3, Zenon DEF RateInv
<1>2. RateInv /\ [RateNext]_rateVars => RateInv'
  <2> SUFFICES ASSUME RateInv, [RateNext]_rateVars PROVE RateInv'
    BY Zenon
  <2>1. ASSUME UNCHANGED rateVars PROVE RateInv'
    BY <2>1, ZenonT(40) DEF rateVars, RateInv, RecentOK, InWindow, Began
  <2>2. ASSUME NEW p \in Principals, NEW fault \in Faults, GetPrincipal(p, fault) PROVE RateInv'
    BY <2>1, <2>2, RateHitStep, Zenon DEF GetPrincipal, EnforceRateLimit, Callers
  <2>3. ASSUME NEW c \in TokenClients, NEW fault \in Faults, Token(c, fault) PROVE RateInv'
    BY <2>1, <2>3, RateHitStep, Zenon DEF Token, Callers
  <2> QED
    BY <2>1, <2>2, <2>3, RateTickStep, Zenon DEF RateNext
<1> QED
    BY <1>1, <1>2, PTL DEF RateSpec

\* Any span of one window serves a caller at most twice its limit of counted
\* requests, for every limit and window and however hits, lost answers and
\* expiries interleave.
THEOREM ServedAtMostTwice == RateSpec => []AtMostTwice
<1>1. RateInv => AtMostTwice
    BY TwoWindows, Zenon DEF AtMostTwice
<1> QED
    BY <1>1, RateInvariance, PTL

\* Retry-After is the time left in whole seconds, rounded up.
LEMMA RetryAfterRoundsUp ==
    ASSUME NEW left \in Nat \ {0}
    PROVE  /\ RetryAfter(left) * Second \in Nat
           /\ left <= RetryAfter(left) * Second
           /\ RetryAfter(left) * Second < left + Second
<1> DEFINE n == (left + Second - 1) \div Second
<1>1. Second \in Nat \ {0}
    BY RateAssumption
<1>2. n \in Nat /\ left <= n * Second /\ n * Second < left + Second
  <2>1. n \in Int /\ left + Second - 1 = Second * n + ((left + Second - 1) % Second)
        /\ (left + Second - 1) % Second \in 0 .. (Second - 1)
    BY <1>1
  <2> QED
    BY <1>1, <2>1
<1> HIDE DEF n
<1>3. n >= 1
    BY <1>1, <1>2
<1>4. \A x \in {1, n} : n >= x
    BY <1>2, <1>3
<1>5. \A x \in {1, n} : (\A y \in {1, n} : x >= y) => x = n
    BY <1>2, <1>3
<1>6. Max({1, n}) = n
    BY <1>4, <1>5, Zenon DEF Max
<1>7. RetryAfter(left) = n
    BY <1>6, Zenon DEF RetryAfter, n
<1> QED
    BY <1>1, <1>2, <1>7

\* A hit neither ends nor prolongs a window, and a refusal is given the time left
\* in the window that refuses.
LEMMA RetryHitStep ==
    ASSUME RateInv, RetryInv, NEW c \in Callers, NEW fault \in Faults, Hit(c, fault) PROVE RetryInv'
<1> DEFINE entry == Counted(c)[Subject(c)]
           refused == fault = "none" /\ ~Allowed(entry.value, LimitOf(c))
<1>1. /\ counters' = IF fault = "down" THEN counters ELSE Counted(c)
      /\ retry' = IF refused THEN [retry EXCEPT ![c] = RetryAfter(entry.left) * Second] ELSE retry
    BY Zenon DEF Hit
<1>2. entry \in CounterType /\ entry \in [value : Nat \ {0}, left : 1 .. Window]
    BY CountedStep, Zenon DEF CounterType
<1>3. entry # NULL /\ entry.left \in Nat \ {0}
  <2>1. entry.left \in 1 .. Window /\ entry \in [value : Nat, left : Nat]
    BY <1>2, RateAssumption
  <2> QED
    BY <2>1, RateAssumption
<1>4. DOMAIN retry' = Callers
    BY <1>1, Zenon DEF RetryInv
<1>5. ASSUME NEW d \in Callers PROVE RetryOK(d)'
  <2>1. RetryOK(d) /\ DOMAIN retry = Callers /\ Subject(d) \in RateKeys
    BY OfCaller, Zenon DEF RetryInv
  <2>2. CASE refused /\ d = c
    <3>1. counters'[Subject(d)] = entry /\ retry'[d] = RetryAfter(entry.left) * Second
        BY <1>1, <2>1, <2>2, Zenon
    <3>2. /\ RetryAfter(entry.left) * Second \in Nat
          /\ entry.left <= RetryAfter(entry.left) * Second
          /\ RetryAfter(entry.left) * Second < entry.left + Second
        BY <1>3, RetryAfterRoundsUp, Zenon
    <3> QED
        BY <1>3, <3>1, <3>2, Zenon DEF RetryOK
  <2>3. CASE ~(refused /\ d = c)
    <3>1. retry'[d] = retry[d]
        BY <1>1, <2>1, <2>3, Zenon
    <3>2. counters[Subject(d)] # NULL =>
              /\ counters'[Subject(d)] # NULL
              /\ counters'[Subject(d)].left = counters[Subject(d)].left
        BY <1>1, <1>3, <2>1, CountedStep, Zenon
    <3> QED
        BY <2>1, <3>1, <3>2, Zenon DEF RetryOK
  <2> QED
    BY <2>2, <2>3, Zenon
<1> QED
    BY <1>4, <1>5, Zenon DEF RetryInv

\* Time takes as much from the wait as from the window.
LEMMA RetryTickStep == ASSUME RateInv, RetryInv, RateTick PROVE RetryInv'
<1>1. /\ DOMAIN retry' = Callers
      /\ \A c \in Callers : retry'[c] =
            IF retry[c] = NULL \/ counters'[Subject(c)] = NULL THEN NULL
            ELSE IF retry[c] = 0 THEN 0 ELSE retry[c] - 1
    BY Zenon DEF RateTick
<1>2. \A k \in RateKeys : counters'[k] =
          IF counters[k] = NULL \/ counters[k].left <= 1 THEN NULL
          ELSE [counters[k] EXCEPT !.left = counters[k].left - 1]
    BY Zenon DEF RateTick, Elapse, RateInv
<1>3. ASSUME NEW c \in Callers, retry'[c] # NULL PROVE RetryOK(c)'
  <2>1. /\ retry[c] # NULL /\ counters'[Subject(c)] # NULL /\ Subject(c) \in RateKeys
        /\ retry'[c] = IF retry[c] = 0 THEN 0 ELSE retry[c] - 1
    BY <1>1, <1>3, OfCaller, Zenon
  <2>2. /\ retry[c] \in Nat /\ counters[Subject(c)] \in CounterType
        /\ counters[Subject(c)].left <= retry[c]
        /\ retry[c] < counters[Subject(c)].left + Second
    BY <2>1, Zenon DEF RetryInv, RetryOK, RateInv
  <2>3. counters'[Subject(c)] = [counters[Subject(c)] EXCEPT !.left = counters[Subject(c)].left - 1]
    BY <1>2, <2>1, Zenon
  <2>4. /\ counters[Subject(c)].left \in Nat \ {0}
        /\ counters'[Subject(c)].left = counters[Subject(c)].left - 1
    BY <2>2, <2>3, RateAssumption DEF CounterType
  <2>5. /\ retry'[c] \in Nat /\ counters'[Subject(c)].left <= retry'[c]
        /\ retry'[c] < counters'[Subject(c)].left + Second
    BY <2>1, <2>2, <2>4, RateAssumption
  <2> QED
    BY <2>1, <2>5, Zenon DEF RetryOK
<1> QED
    BY <1>1, <1>3, Zenon DEF RetryInv, RetryOK

\* Who waits as long as Retry-After says finds the window over, and waits less
\* than a second longer: for every limit, window and interleaving of hits.
THEOREM RetryAfterAlwaysSuffices == RateSpec => []RetryAfterSuffices
<1>1. RateInit => RetryInv
    BY Zenon DEF RateInit, RetryInv, RetryOK
<1>2. RateInv /\ RetryInv /\ [RateNext]_rateVars => RetryInv'
  <2> SUFFICES ASSUME RateInv, RetryInv, [RateNext]_rateVars PROVE RetryInv'
    BY Zenon
  <2>1. ASSUME UNCHANGED rateVars PROVE RetryInv'
    BY <2>1, Zenon DEF rateVars, RetryInv, RetryOK
  <2>2. ASSUME NEW p \in Principals, NEW fault \in Faults, GetPrincipal(p, fault) PROVE RetryInv'
    BY <2>1, <2>2, RetryHitStep, Zenon DEF GetPrincipal, EnforceRateLimit, Callers
  <2>3. ASSUME NEW c \in TokenClients, NEW fault \in Faults, Token(c, fault) PROVE RetryInv'
    BY <2>1, <2>3, RetryHitStep, Zenon DEF Token, Callers
  <2> QED
    BY <2>1, <2>2, <2>3, RetryTickStep, Zenon DEF RateNext
<1>3. ASSUME RateInv, RetryInv PROVE RetryAfterSuffices
  <2> SUFFICES ASSUME NEW c \in Callers, retry[c] # NULL
               PROVE  /\ retry[c] >= counters[Subject(c)].left
                      /\ retry[c] < counters[Subject(c)].left + Second
    BY Zenon DEF RetryAfterSuffices
  <2>1. /\ retry[c] \in Nat /\ counters[Subject(c)] \in CounterType
        /\ counters[Subject(c)].left <= retry[c]
        /\ retry[c] < counters[Subject(c)].left + Second
    BY <1>3, OfCaller, Zenon DEF RetryInv, RetryOK, RateInv
  <2> QED
    BY <2>1 DEF CounterType
<1> QED
    BY <1>1, <1>2, <1>3, RateInvariance, PTL DEF RateSpec

-----------------------------------------------------------------------------
(* OAuthStates.                                                            *)

\* A step about one state.
LEMMA OneStateStep ==
    ASSUME StatesInv, NEW s \in States,
           DOMAIN states' = States, DOMAIN issued' = States, DOMAIN accepted' = States,
           UNCHANGED age, StateOK(s)',
           \A t \in States \ {s} : /\ states'[t] = states[t] /\ issued'[t] = issued[t]
                                  /\ accepted'[t] = accepted[t]
    PROVE  StatesInv'
<1>1. ASSUME NEW t \in States PROVE StateOK(t)'
  <2>1. CASE t = s
    BY <2>1, Zenon
  <2>2. CASE t # s
    <3>1. /\ states'[t] = states[t] /\ issued'[t] = issued[t] /\ accepted'[t] = accepted[t]
          /\ age'[t] = age[t] /\ StateOK(t)
        BY <2>2, Zenon DEF StatesInv
    <3> QED
        BY <3>1, Zenon DEF StateOK
  <2> QED
    BY <2>1, <2>2, Zenon
<1> QED
    BY <1>1, Zenon DEF StatesInv

\* issue: the state is fresh.
LEMMA IssueStep ==
    ASSUME StatesInv, NEW s \in States, NEW payload \in Payloads, NEW fault \in Faults,
           Issue(s, payload, fault)
    PROVE  StatesInv'
<1> DEFINE new == [value |-> payload, left |-> StateTTL]
<1>1. /\ issued[s] = NULL /\ states[s] = NULL /\ accepted[s] = <<>> /\ age[s] = 0
      /\ UNCHANGED <<age, accepted>>
    BY Zenon DEF StatesInv, StateOK, Issue
<1>2. /\ new \in [value : Payloads, left : 1 .. StateTTL] /\ new.value = payload
      /\ new.left = StateTTL
    BY StatesAssumption
<1>3. /\ states' = IF fault = "down" THEN states ELSE [states EXCEPT ![s] = new]
      /\ issued' = [issued EXCEPT ![s] = IF fault = "none" THEN payload ELSE "lost"]
    BY Zenon DEF Issue, SetKey, Entry
<1> HIDE DEF new
<1>4. /\ DOMAIN states' = States /\ DOMAIN issued' = States /\ DOMAIN accepted' = States
      /\ \A t \in States \ {s} : /\ states'[t] = states[t] /\ issued'[t] = issued[t]
                                 /\ accepted'[t] = accepted[t]
    BY <1>1, <1>3, Zenon DEF StatesInv
<1>5. /\ states'[s] = IF fault = "down" THEN NULL ELSE new
      /\ issued'[s] = IF fault = "none" THEN payload ELSE "lost"
    BY <1>1, <1>3, Zenon DEF StatesInv
<1>6. StateOK(s)'
  <2>1. issued'[s] \in Payloads \cup {"lost", NULL} /\ issued'[s] # NULL
        /\ (issued'[s] \in Payloads => issued'[s] = payload)
    BY <1>5, StatesAssumption, Zenon
  <2>2. age'[s] = 0 /\ accepted'[s] = <<>>
    BY <1>1, Zenon
  <2>3. StateTTL \in Nat
    BY StatesAssumption, Zenon
  <2>4. states'[s] # NULL => states'[s] = new
    BY <1>5, Zenon
  <2>5. states'[s] # NULL => age'[s] + states'[s].left <= StateTTL
    BY <1>2, <2>2, <2>3, <2>4
  <2> QED
    BY <1>2, <2>1, <2>2, <2>4, <2>5, Zenon DEF StateOK
<1> QED
    BY <1>1, <1>4, <1>6, OneStateStep, Zenon

\* consume: GETDEL leaves nothing for a second callback.
LEMMA ConsumeStep ==
    ASSUME StatesInv, NEW s \in States, NEW fault \in Faults, Consume(s, fault) PROVE StatesInv'
<1>1. issued[s] \in Payloads /\ UNCHANGED <<issued, age>> /\ StateOK(s)
    BY Zenon DEF Consume, StatesInv
<1>2. issued[s] # NULL
    BY <1>1, StatesAssumption, Zenon
<1>3. CASE fault = "none" /\ Get(states, s) # NULL
  <2>1. states[s] # NULL /\ Get(states, s) = issued[s] /\ accepted[s] = <<>>
    BY <1>1, <1>3, Zenon DEF Get, StateOK
  <2>2. /\ states' = [states EXCEPT ![s] = NULL]
        /\ accepted' = [accepted EXCEPT ![s] = Append(<<>>, issued[s])]
    BY <1>3, <2>1, Zenon DEF Consume, Delete
  <2>3. Append(<<>>, issued[s]) = <<issued[s]>>
    OBVIOUS
  <2>4. /\ DOMAIN states' = States /\ DOMAIN issued' = States /\ DOMAIN accepted' = States
        /\ \A t \in States \ {s} : /\ states'[t] = states[t] /\ issued'[t] = issued[t]
                                   /\ accepted'[t] = accepted[t]
        /\ states'[s] = NULL /\ accepted'[s] = <<issued[s]>>
    BY <1>1, <2>2, <2>3, Zenon DEF StatesInv
  <2>5. StateOK(s)'
    BY <1>1, <1>2, <2>4, Zenon DEF StateOK
  <2> QED
    BY <1>1, <2>4, <2>5, OneStateStep, Zenon
<1>4. CASE ~(fault = "none" /\ Get(states, s) # NULL)
  <2>1. accepted' = accepted /\ states' = IF fault = "down" THEN states ELSE [states EXCEPT ![s] = NULL]
    BY <1>4, Zenon DEF Consume, Delete
  <2>2. /\ DOMAIN states' = States /\ DOMAIN issued' = States /\ DOMAIN accepted' = States
        /\ \A t \in States \ {s} : /\ states'[t] = states[t] /\ issued'[t] = issued[t]
                                   /\ accepted'[t] = accepted[t]
        /\ states'[s] = NULL \/ states'[s] = states[s]
    BY <1>1, <2>1, Zenon DEF StatesInv
  <2>3. StateOK(s)'
    BY <1>1, <1>2, <2>1, <2>2, Zenon DEF StateOK
  <2> QED
    BY <1>1, <2>2, <2>3, OneStateStep, Zenon
<1> QED
    BY <1>3, <1>4, Zenon

\* Time passes for Redis and for the age of a state alike.
LEMMA StatesTickStep == ASSUME StatesInv, StatesTick PROVE StatesInv'
<1>1. /\ DOMAIN states' = States
      /\ \A s \in States : states'[s] =
            IF states[s] = NULL \/ states[s].left <= 1 THEN NULL
            ELSE [states[s] EXCEPT !.left = states[s].left - 1]
      /\ age' = [s \in States |-> IF issued[s] # NULL /\ age[s] < StateTTL THEN age[s] + 1 ELSE age[s]]
      /\ UNCHANGED <<issued, accepted>>
    BY Zenon DEF StatesTick, Elapse, StatesInv
<1>2. StateTTL \in Nat /\ \A s \in States : age[s] \in 0 .. StateTTL
    BY StatesAssumption, Zenon DEF StatesInv
<1>3. age' \in [States -> 0 .. StateTTL]
    BY <1>1, <1>2
<1>4. ASSUME NEW s \in States PROVE StateOK(s)'
  <2>1. StateOK(s) /\ issued'[s] = issued[s] /\ accepted'[s] = accepted[s]
    BY <1>1, Zenon DEF StatesInv
  <2>2. age'[s] = IF issued[s] # NULL /\ age[s] < StateTTL THEN age[s] + 1 ELSE age[s]
    BY <1>1, Zenon
  <2>3. ASSUME states'[s] # NULL
        PROVE  /\ states[s] # NULL
               /\ states'[s] \in [value : Payloads, left : 1 .. StateTTL]
               /\ age'[s] + states'[s].left <= StateTTL
               /\ states'[s].value = states[s].value
    <3>1. /\ states[s] # NULL /\ ~(states[s].left <= 1)
          /\ states'[s] = [states[s] EXCEPT !.left = states[s].left - 1]
        BY <1>1, <2>3, Zenon
    <3>2. /\ states[s] \in [value : Payloads, left : 1 .. StateTTL]
          /\ age[s] + states[s].left <= StateTTL
        BY <2>1, <3>1, Zenon DEF StateOK
    <3> QED
        BY <1>2, <2>2, <3>1, <3>2
  <2>4. states[s] = NULL => states'[s] = NULL
    BY <1>1, Zenon
  <2> QED
    BY <2>1, <2>2, <2>3, <2>4, Zenon DEF StateOK
<1> QED
    BY <1>1, <1>3, <1>4, Zenon DEF StatesInv

\* Every step keeps the invariant of the states.
LEMMA StatesInvariance == StatesSpec => []StatesInv
<1>1. StatesInit => StatesInv
  <2> SUFFICES ASSUME StatesInit PROVE StatesInv
    BY Zenon
  <2>1. age \in [States -> 0 .. StateTTL]
    BY StatesAssumption DEF StatesInit
  <2>2. \A s \in States : StateOK(s)
    BY Zenon DEF StatesInit, StateOK
  <2> QED
    BY <2>1, <2>2, Zenon DEF StatesInit, StatesInv
<1>2. StatesInv /\ [StatesNext]_stateVars => StatesInv'
  <2> SUFFICES ASSUME StatesInv, [StatesNext]_stateVars PROVE StatesInv'
    BY Zenon
  <2>1. CASE UNCHANGED stateVars
    <3>1. UNCHANGED <<states, issued, age, accepted>>
        BY <2>1, Zenon DEF stateVars
    <3> QED
        BY <3>1, Zenon DEF StatesInv, StateOK
  <2> QED
    BY <2>1, IssueStep, ConsumeStep, StatesTickStep, Zenon DEF StatesNext
<1> QED
    BY <1>1, <1>2, PTL DEF StatesSpec

\* Of all the callbacks with a state at most one is accepted, and with the
\* payload the state was issued for.
THEOREM StateAcceptedOnce == StatesSpec => []AcceptedOnce
<1>1. StatesInv => AcceptedOnce
    BY Zenon DEF StatesInv, StateOK, AcceptedOnce
<1> QED
    BY <1>1, StatesInvariance, PTL

\* No callback is accepted once the state has reached its time to live.
THEOREM StateAcceptedInTime == StatesSpec => AcceptedInTime
<1>1. StatesInv /\ [StatesNext]_stateVars =>
          [\A s \in States : accepted'[s] # accepted[s] => age[s] < StateTTL]_stateVars
  <2> SUFFICES ASSUME StatesInv, StatesNext, NEW s \in States, accepted'[s] # accepted[s]
               PROVE  age[s] < StateTTL
    BY Zenon
  <2>1. PICK t \in States : \E fault \in Faults : Consume(t, fault)
    BY Zenon DEF StatesNext, Issue, StatesTick
  <2>2. t = s /\ Get(states, t) # NULL
    BY <2>1, Zenon DEF Consume, StatesInv
  <2>3. states[s] # NULL /\ StateOK(s)
    BY <2>2, Zenon DEF Get, StatesInv
  <2>4. /\ states[s] \in [value : Payloads, left : 1 .. StateTTL]
        /\ age[s] + states[s].left <= StateTTL /\ age[s] \in 0 .. StateTTL
    BY <2>3, Zenon DEF StateOK, StatesInv
  <2> QED
    BY <2>4, StatesAssumption
<1> QED
    BY <1>1, StatesInvariance, PTL DEF StatesSpec, AcceptedInTime
=============================================================================
