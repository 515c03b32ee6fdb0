---------------------------- MODULE MCForeground ----------------------------
(***************************************************************************)
(* What requests may rely on in the end: Decisions over FactLedger,        *)
(* Contradictions and RetrievalCache.                                      *)
(*                                                                         *)
(* One run checks them side by side: a behaviour is of the one that part   *)
(* names, and the others stay in their initial states.                     *)
(* Parts = {"decisions"} checks the first alone.                           *)
(***************************************************************************)
EXTENDS Decisions

CONSTANTS Parts, s1, s2, f1, f2, f3, q1

Command(source, value, from) ==
    [source |-> source, value |-> value, valid_from |-> from, valid_until |-> NULL,
     observed_at |-> from, trust |-> 1, evidence_ids |-> {}]

\* Two open claims, the second of which ends the first.
MCCommands == {Command("crm", "a", 0), Command("docs", "b", 1)}

NoEvidence == {}

\* An outcome that JSONB keeps.
RoundTrip == [kept |-> "kept"]

-----------------------------------------------------------------------------
(* Contradictions: two conflicts that two reviews store in either order.   *)

VARIABLES current, table, review, closing, duplicate

reviewVars == <<current, table, review, closing, duplicate>>

TwoSlots == {s1, s2}
ThreeFacts == {f1, f2, f3}
ThreeFactFindings == {<<f1, f2>>, <<f1, f3>>}

Review ==
    INSTANCE Contradictions WITH
        Facts <- ThreeFacts, MaxVersions <- 1, MaxFindings <- 2, Findings <- ThreeFactFindings,
        Reviews <- TwoSlots, People <- {}

\* A review sifts its findings without touching the database; here it does so
\* before anyone else goes on, which changes nothing that others could see.
Sifting(s) == Review!ReviewAt(s, "sifting")
SiftsFirst == \A s \in TwoSlots : Sifting(s) => \E t \in TwoSlots : Sifting(t) /\ review'[t] # review[t]

-----------------------------------------------------------------------------
(* RetrievalCache: a request that writes, and a search.                    *)

VARIABLES committed, owed, deliveries, cacheStore, announced, epoch, searchPhase, search

cacheVars == <<committed, owed, deliveries, cacheStore, announced, epoch, searchPhase, search>>

Cache ==
    INSTANCE RetrievalCache WITH
        Writes <- {1}, Direct <- {}, Questions <- {q1}, Readers <- {s1},
        EntryTTL <- 2, GenerationTTL <- 3, MaxDeliveries <- 1, MaxGeneration <- 2

-----------------------------------------------------------------------------
(* The runs side by side.                                                  *)

VARIABLE part

everyVar == <<part, allVars, reviewVars, cacheVars>>

InDecisions == part = "decisions" /\ UNCHANGED <<part, reviewVars, cacheVars>>
InReviews == part = "reviews" /\ UNCHANGED <<part, allVars, cacheVars>>
InCache == part = "cache" /\ UNCHANGED <<part, allVars, reviewVars>>

PartsInit == part \in Parts /\ DecisionsInit /\ Review!ReviewsInit /\ Cache!CacheInit

PartsNext ==
    \/ InDecisions /\ DecisionsNext
    \/ InReviews /\ Review!ReviewsNext /\ SiftsFirst
    \/ InCache /\ Cache!CacheNext

\* PostgreSQL grants a free row lock to a waiter, and a handler that is not cut
\* off runs to its end; nothing makes a request arrive or the clock move.
HandlersRun == \A r \in Requests : WF_everyVar(InDecisions /\ HandlerStep(r))

\* PostgreSQL serves those who wait for the transaction that inserted a pair
\* in turn; a model call ends (the provider has a timeout).
WaitersServed == \A s \in TwoSlots : SF_everyVar(InReviews /\ Review!ReviewSteps(s) /\ SiftsFirst)

\* PostgreSQL ends one of the transactions of a deadlock (deadlock_timeout).
DeadlocksBroken == WF_everyVar(InReviews /\ (\E s \in TwoSlots : Review!BreakDeadlock(s)) /\ SiftsFirst)

\* Time passes for the keys of Redis.
TimePasses == WF_everyVar(InCache /\ Cache!CacheTick)

\* A search that began goes on.
SearchesGoOn == WF_everyVar(InCache /\ Cache!SearchStep(s1))

ProgressSpec ==
    /\ PartsInit /\ [][PartsNext]_everyVar
    /\ HandlersRun /\ WaitersServed /\ DeadlocksBroken /\ TimePasses /\ SearchesGoOn

-----------------------------------------------------------------------------
(* Properties, as the components state them; RequestsEnd of FactLedger,    *)
(* ImpactsComplete and RevokedStaysOut of Decisions come with EXTENDS.     *)

\* Contradictions: every review ends, although reviews wait for each other.
ReviewsEnd == Review!ReviewsEnd

\* RetrievalCache: every committed write shows in answers in the end.
EventuallyFresh == Cache!EventuallyFresh
=============================================================================
