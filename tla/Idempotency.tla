----------------------------- MODULE Idempotency -----------------------------
(***************************************************************************)
(* IdempotencyMiddleware (app/cache/idempotency.py): POST requests of      *)
(* clients that send an Idempotency-Key, retry after any answer or none,   *)
(* and may reuse a key for another request.                                *)
(*                                                                         *)
(* A key stands for the digest of the caller and the header; a body for    *)
(* the fingerprint of the request and for the response it leads to.        *)
(* Requests without a valid key or caller pass through and are left out:   *)
(* they touch nothing here.  A call of the store may fail before or after  *)
(* it took effect.                                                         *)
(***************************************************************************)
EXTENDS KeyValueStore

CONSTANTS
    Clients,
    Keys,
    Key,    \* the key each client sends
    Body,   \* the request it sends with it
    Lock,   \* idempotency_lock_seconds
    TTL     \* idempotency_ttl_seconds

Bodies == {Body[c] : c \in Clients}

EntryType == [value : [state : {"pending", "done"}, body : Bodies], left : Nat]

ASSUME IdempotencyAssumption ==
    /\ Key \in [Clients -> Keys]
    /\ DOMAIN Body = Clients
    /\ {Lock, TTL} \subseteq Nat \ {0}
    /\ NULL \notin EntryType

VARIABLES
    store,    \* Redis: the record of each key
    phase,    \* what the request of each client does next
    answer,   \* the answer to its last request
    lease,    \* what is left of lock_seconds since it reserved the key
    effects,  \* the bodies that were executed and committed under each key
    twice,    \* keys under which two executions committed
    excused   \* keys whose protection ended in a way the module comment admits

vars == <<store, phase, answer, lease, effects, twice, excused>>
ghosts == <<effects, twice, excused>>

Active == {"running", "committed"}
Phases == Active \cup {"idle", "checking", "recording", "releasing"}
Answers == {"none", "unavailable", "reused", "in_use", "done", "failed", "replayed"}

Pending(b) == [state |-> "pending", body |-> b]
Done(b) == [state |-> "done", body |-> b]

Init ==
    /\ store = [k \in Keys |-> NULL]
    /\ phase = [c \in Clients |-> "idle"]
    /\ answer = [c \in Clients |-> "none"]
    /\ lease = [c \in Clients |-> 0]
    /\ effects = [k \in Keys |-> {}]
    /\ twice = {}
    /\ excused = {}

Goto(c, p) == phase' = [phase EXCEPT ![c] = p]

Reply(c, a) == answer' = [answer EXCEPT ![c] = a]

Excuse(c) == excused' = excused \cup {Key[c]}

-----------------------------------------------------------------------------
(* __call__ and _answer_existing.                                          *)

\* SET NX with the lock's time to live.
Reserved(c) == SetIfAbsent(store, Key[c], Pending(Body[c]), Lock)

Reserve(c) ==
    /\ phase[c] = "idle"
    /\ store' = Reserved(c)
    /\ IF store' # store
       THEN Goto(c, "running") /\ lease' = [lease EXCEPT ![c] = Lock]
       ELSE Goto(c, "checking") /\ UNCHANGED lease
    /\ Reply(c, "none")
    /\ UNCHANGED ghosts

\* 503: no answer from the store, whether or not it reserved the key.
Unavailable(c) ==
    /\ phase[c] \in {"idle", "checking"}
    /\ \/ phase[c] = "idle" /\ store' = Reserved(c)
       \/ UNCHANGED store
    /\ Goto(c, "idle")
    /\ Reply(c, "unavailable")
    /\ UNCHANGED <<lease, ghosts>>

\* 422 for another request, 409 while it runs or was just released, or a replay.
AnswerTo(c, record) ==
    IF record = NULL THEN "in_use"
    ELSE IF record.body # Body[c] THEN "reused"
    ELSE IF record.state = "done" THEN "replayed" ELSE "in_use"

AnswerExisting(c) ==
    /\ phase[c] = "checking"
    /\ Reply(c, AnswerTo(c, Get(store, Key[c])))
    /\ Goto(c, "idle")
    /\ UNCHANGED <<store, lease, ghosts>>

-----------------------------------------------------------------------------
(* _execute and _release.                                                  *)

\* The endpoint commits what the request asks for.
CommitWork(c) ==
    /\ phase[c] = "running"
    /\ effects' = [effects EXCEPT ![Key[c]] = @ \cup {Body[c]}]
    /\ twice' = IF effects[Key[c]] # {} THEN twice \cup {Key[c]} ELSE twice
    /\ Goto(c, "committed")
    /\ UNCHANGED <<store, answer, lease, excused>>

\* A 2xx is on its way to the client; the record comes after it.
Respond(c) ==
    /\ phase[c] = "committed"
    /\ Reply(c, "done")
    /\ Goto(c, "recording")
    /\ UNCHANGED <<store, lease, ghosts>>

\* The endpoint refuses: nothing is committed and the key is released.
RefuseWork(c) ==
    /\ phase[c] = "running"
    /\ Reply(c, "failed")
    /\ Goto(c, "releasing")
    /\ UNCHANGED <<store, lease, ghosts>>

\* An error, a cancellation or a response over the limit after the commit.
FailAfterCommit(c) ==
    /\ phase[c] = "committed"
    /\ Reply(c, "failed")
    /\ Goto(c, "releasing")
    /\ Excuse(c)
    /\ UNCHANGED <<store, lease, effects, twice>>

\* Faulty variant: the reservation is released after a success too.
RecordReleases(c) ==
    /\ phase[c] = "recording"
    /\ store' = Delete(store, Key[c])
    /\ Goto(c, "idle")
    /\ UNCHANGED <<answer, lease, ghosts>>

\* The done record replaces whatever the key holds.
StoreRecord(c) ==
    /\ phase[c] = "recording"
    /\ store' = SetKey(store, Key[c], Done(Body[c]), TTL)
    /\ Goto(c, "idle")
    /\ UNCHANGED <<answer, lease, ghosts>>

\* The work is done and answered; only the replay record is lost.
RecordLost(c) ==
    /\ phase[c] = "recording"
    /\ Goto(c, "idle")
    /\ Excuse(c)
    /\ UNCHANGED <<store, answer, lease, effects, twice>>

\* The key is deleted, or stays until its time is over.
Release(c) ==
    /\ phase[c] = "releasing"
    /\ store' \in {Delete(store, Key[c]), store}
    /\ Goto(c, "idle")
    /\ UNCHANGED <<answer, lease, ghosts>>

\* The process ends under a request.  Only work that was committed matters.
Crash(c) ==
    /\ phase[c] # "idle"
    /\ Goto(c, "idle")
    /\ Reply(c, "none")
    /\ IF phase[c] \in {"committed", "recording"} THEN Excuse(c) ELSE UNCHANGED excused
    /\ UNCHANGED <<store, lease, effects, twice>>

\* Time passes.  A lock that ends under its request, and a record that reached
\* its age, end the protection of the key.
Tick ==
    /\ store' = Elapse(store)
    /\ lease' = [c \in Clients |-> IF lease[c] = 0 THEN 0 ELSE lease[c] - 1]
    /\ excused' = excused
            \cup {Key[c] : c \in {d \in Clients : phase[d] # "idle" /\ lease[d] = 1}}
            \cup {k \in Keys : /\ store[k] # NULL /\ store'[k] = NULL
                               /\ store[k].value.state = "done"}
    /\ UNCHANGED <<phase, answer, effects, twice>>

Step(c) ==
    \/ Reserve(c) \/ Unavailable(c) \/ AnswerExisting(c)
    \/ CommitWork(c) \/ Respond(c) \/ RefuseWork(c) \/ FailAfterCommit(c)
    \/ StoreRecord(c) \/ RecordLost(c) \/ Release(c) \/ Crash(c)

Next == Tick \/ \E c \in Clients : Step(c)

Spec == Init /\ [][Next]_vars

-----------------------------------------------------------------------------
(* Properties.                                                             *)

\* The state has its types; a pending record never outlives the lock.
TypeOK ==
    /\ phase \in [Clients -> Phases]
    /\ answer \in [Clients -> Answers]
    /\ lease \in [Clients -> 0 .. Lock]
    /\ effects \in [Keys -> SUBSET Bodies]
    /\ twice \cup excused \subseteq Keys
    /\ \A k \in Keys :
          store[k] # NULL =>
              /\ store[k].value.body \in Bodies
              /\ store[k].left \in 1 .. (IF store[k].value.state = "done" THEN TTL ELSE Lock)

\* At most one execution per key: two executions commit under one key only after
\* a lock or a record ran out, a record was lost, or committed work was not
\* answered with a success; never because of how retries interleave with
\* _execute, _release and each other.
AtMostOnce == twice \subseteq excused

\* While no protection has ended, at most one request per key executes.
OneExecution ==
    \A c, d \in Clients :
        c # d /\ Key[c] = Key[d] /\ phase[c] \in Active /\ phase[d] \in Active
            => Key[c] \in excused

\* A replayed answer is the answer of an execution of this very request that
\* committed under this key.
ReplaysTrue == \A c \in Clients : answer[c] = "replayed" => Body[c] \in effects[Key[c]]

-----------------------------------------------------------------------------
(* What the documentation says and the code does not keep.                 *)

\* docs/REDIS.md: "at-most-once execution **per key while the reservation
\* holds**": of two requests that execute under one key, one has outlived its
\* lock.
ReservationHolds ==
    \A c, d \in Clients :
        c # d /\ Key[c] = Key[d] /\ phase[c] \in Active /\ phase[d] \in Active
            => lease[c] = 0 \/ lease[d] = 0
=============================================================================
