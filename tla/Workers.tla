------------------------------- MODULE Workers -------------------------------
(***************************************************************************)
(* The life of a worker process: the embedding worker, the graph projector *)
(* and the event relay run one loop (run_forever), the event consumers run *)
(* one for each handler (_supervise).  Loops share the stop event that the *)
(* signal handlers set, the heartbeat file that the health check of the    *)
(* container reads, and the connections that _main closes at the end.      *)
(*                                                                         *)
(* What an iteration does is modelled elsewhere (EmbeddingQueue,           *)
(* GraphProjector, EventPipeline); here it works, finds nothing or fails.  *)
(* asyncio runs what is due before time goes on.                           *)
(***************************************************************************)
EXTENDS Naturals

CONSTANTS
    Loops,         \* the loops of the process
    Poll,          \* ticks that an idle loop sleeps
    Backoff,       \* ticks that a loop sleeps after an error
    IterationMax,  \* bound: ticks that an iteration takes
    MaxAge         \* bound: ticks that are told apart

ASSUME WorkersAssumption ==
    /\ Poll \in Nat /\ Backoff \in Nat /\ IterationMax \in Nat
    /\ MaxAge \in Nat /\ MaxAge > IterationMax

VARIABLES
    process,       \* "starting", "running" or "closed"
    stop,          \* the stop event
    loop,          \* each loop: where it is, and the ticks it may stay there
    heartbeat,     \* ticks since the file was touched (up to MaxAge)
    sinceSuccess,  \* ghost: ticks since an iteration ended well, or the start
    sinceStop      \* ghost: ticks since the stop event was set

processVars == <<process, stop, loop, heartbeat, sinceSuccess, sinceStop>>

Ended == [at |-> "ended", left |-> 0]

\* At the head of the loop.
LoopHead == [at |-> "head", left |-> 0]

ProcessInit ==
    /\ process = "starting"
    /\ stop = FALSE
    /\ loop = [l \in Loops |-> Ended]
    /\ heartbeat = MaxAge /\ sinceSuccess = MaxAge /\ sinceStop = 0

\* _main: schema or topics are set up, signal handlers installed, the
\* heartbeat is touched and the loops start; if the set-up fails, what has
\* been opened is closed again.
StartUp(ok) ==
    /\ process = "starting"
    /\ process' = IF ok THEN "running" ELSE "closed"
    /\ stop' = FALSE
    /\ loop' = IF ok THEN [l \in Loops |-> LoopHead] ELSE loop
    /\ heartbeat' = IF ok THEN 0 ELSE heartbeat
    /\ sinceSuccess' = IF ok THEN 0 ELSE sinceSuccess
    /\ sinceStop' = 0

\* SIGINT or SIGTERM.
Signal ==
    /\ process = "running" /\ ~stop
    /\ stop' = TRUE
    /\ UNCHANGED <<process, loop, heartbeat, sinceSuccess, sinceStop>>

\* while not stop.is_set().
Iterate(l) ==
    /\ loop[l].at = "head"
    /\ loop' = [loop EXCEPT ![l] = IF stop THEN Ended ELSE [at |-> "iterating", left |-> IterationMax]]
    /\ UNCHANGED <<process, stop, heartbeat, sinceSuccess, sinceStop>>

\* An iteration ends well; if it found nothing to do, the loop sleeps.
Succeeds(l, idle) ==
    /\ loop[l].at = "iterating"
    /\ loop' = [loop EXCEPT ![l] = IF idle THEN [at |-> "sleeping", left |-> Poll] ELSE LoopHead]
    /\ heartbeat' = 0
    /\ sinceSuccess' = 0
    /\ UNCHANGED <<process, stop, sinceStop>>

\* An error is logged, and the loop goes on after a pause.
Fails(l) ==
    /\ loop[l].at = "iterating"
    /\ loop' = [loop EXCEPT ![l] = [at |-> "sleeping", left |-> Backoff]]
    /\ UNCHANGED <<process, stop, heartbeat, sinceSuccess, sinceStop>>

\* Faulty variant: a sleep that the stop event does not interrupt.
SleptAllOfIt(l) == loop[l].at = "sleeping" /\ loop[l].left = 0

\* sleep_unless_stopped is over.
SleptEnough(l) == loop[l].at = "sleeping" /\ (loop[l].left = 0 \/ stop)

Wake(l) ==
    /\ SleptEnough(l)
    /\ loop' = [loop EXCEPT ![l] = LoopHead]
    /\ UNCHANGED <<process, stop, heartbeat, sinceSuccess, sinceStop>>

CanClose == process = "running" /\ \A l \in Loops : loop[l].at = "ended"

\* gather returns, and _main closes what it opened.
Close ==
    /\ CanClose
    /\ process' = "closed"
    /\ UNCHANGED <<stop, loop, heartbeat, sinceSuccess, sinceStop>>

\* The container is started again.
Restart ==
    /\ process = "closed"
    /\ process' = "starting"
    /\ stop' = FALSE
    /\ loop' = [l \in Loops |-> Ended]
    /\ sinceStop' = 0
    /\ UNCHANGED <<heartbeat, sinceSuccess>>

Later(t) == IF t < MaxAge THEN t + 1 ELSE t

Tick ==
    /\ ~CanClose
    /\ \A l \in Loops : /\ loop[l].at # "head" /\ ~SleptEnough(l)
                        /\ loop[l].at = "iterating" => loop[l].left > 0
    /\ loop' = [l \in Loops |-> [loop[l] EXCEPT !.left = IF @ > 0 THEN @ - 1 ELSE 0]]
    /\ heartbeat' = Later(heartbeat)
    /\ sinceSuccess' = Later(sinceSuccess)
    /\ sinceStop' = IF stop /\ process = "running" THEN Later(sinceStop) ELSE sinceStop
    /\ UNCHANGED <<process, stop>>

ProcessNext ==
    \/ \E ok \in BOOLEAN : StartUp(ok)
    \/ Signal
    \/ \E l \in Loops : Iterate(l) \/ Fails(l) \/ Wake(l) \/ \E idle \in BOOLEAN : Succeeds(l, idle)
    \/ Close
    \/ Restart
    \/ Tick

ProcessSpec == ProcessInit /\ [][ProcessNext]_processVars

-----------------------------------------------------------------------------
(* Properties.                                                             *)

LoopType ==
    {Ended, LoopHead} \cup [at : {"iterating"}, left : 0..IterationMax]
                      \cup [at : {"sleeping"}, left : 0..(Poll + Backoff)]

ProcessTypeOK ==
    /\ process \in {"starting", "running", "closed"}
    /\ stop \in BOOLEAN
    /\ loop \in [Loops -> LoopType]
    /\ heartbeat \in 0..MaxAge /\ sinceSuccess \in 0..MaxAge /\ sinceStop \in 0..MaxAge

\* A worker that is told to stop has closed its connections as soon as the
\* iterations under way are over: it waits neither for a poll interval nor
\* for the pause after an error.
StopsInTime == sinceStop <= IterationMax

\* The age of the heartbeat is the time since an iteration last ended well:
\* idle workers stay healthy, and failing ones do not look it.
HeartbeatTrue == heartbeat = sinceSuccess

-----------------------------------------------------------------------------
(* The inductive invariant of the proofs.                                  *)

\* Loops are at work only while the process runs; a stop event is new, or the
\* iterations that were under way use up the rest of their time.
StopOK ==
    /\ process # "running" => \A l \in Loops : loop[l].at = "ended"
    /\ ~stop => sinceStop = 0
    /\ process = "running" /\ stop =>
          \A l \in Loops : loop[l].at = "iterating" => sinceStop + loop[l].left <= IterationMax

ProcessInv == ProcessTypeOK /\ StopOK /\ StopsInTime /\ HeartbeatTrue
=============================================================================
