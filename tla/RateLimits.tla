----------------------------- MODULE RateLimits -----------------------------
(***************************************************************************)
(* Fixed-window rate limits (app/cache/rate_limit.py) as the API applies   *)
(* them: to authenticated requests (get_principal) and to the exchange of  *)
(* client credentials (the token endpoint).  Every API process increments  *)
(* the same counter in Redis.  A request is let through when its increment *)
(* does not reach Redis ("down"), or does and the answer is lost ("lost"). *)
(*                                                                         *)
(* Time is in ticks, several to a second.  A counter that Redis reports    *)
(* lives for some ticks more; Retry-After is in whole seconds.             *)
(***************************************************************************)
EXTENDS KeyValueStore, FiniteSets, FiniteSetsExt

CONSTANTS
    Principals,    \* [user, agent]: agent is NULL for a person
    TokenClients,       \* client ids that ask for tokens
    RequestLimit,  \* rate_limit_requests_per_minute; 0 disables it
    TokenLimit,    \* rate_limit_token_requests_per_minute; 0 disables it
    Window,        \* the window, in ticks
    Second,        \* ticks to a second
    MaxCount       \* bound: hits that one window counts

ASSUME RateAssumption ==
    /\ RequestLimit \in Nat /\ TokenLimit \in Nat
    /\ Window \in Nat \ {0} /\ Second \in Nat \ {0}
    /\ MaxCount \in Nat /\ MaxCount > RequestLimit /\ MaxCount > TokenLimit
    /\ NULL \notin [value : Nat, left : Nat]

Callers == Principals \cup TokenClients

VARIABLES
    counters,    \* Redis
    recent,   \* ghost: the requests of each caller that were counted and
              \* served, by their place in the count and their age in ticks
    retry     \* ghost: the time until which each caller has been refused,
              \* while the window that refused it lasts, or NULL

rateVars == <<counters, recent, retry>>

Subject(c) ==
    IF c \in TokenClients THEN <<"oauth-client", c>>
    ELSE IF c.agent # NULL THEN <<"agent", c.agent>>
    ELSE <<"user", c.user>>

RateKeys ==
    {<<"oauth-client", c>> : c \in TokenClients} \cup {<<"user", p.user>> : p \in Principals}
        \cup {<<"agent", p.agent>> : p \in Principals}

LimitOf(c) == IF c \in TokenClients THEN TokenLimit ELSE RequestLimit

RateInit ==
    /\ counters = [k \in RateKeys |-> NULL]
    /\ recent = [c \in Callers |-> {}]
    /\ retry = [c \in Callers |-> NULL]

\* How many of the caller's requests the last Window ticks have served.
Served(c) == Cardinality(recent[c])

\* A request that is counted and served now.
JustServed(count) == [count |-> count, age |-> 0]

\* The requests of less than Window ticks ago, one tick later.
Older(requests) ==
    {[r EXCEPT !.age = @ + 1] : r \in {s \in requests : s.age + 1 < Window}}

\* max(1, ceil(ttl_ms / 1000)).
RetryAfter(left) == Max({1, (left + Second - 1) \div Second})

\* Faulty variant: one request more than the limit is allowed.
AllowedOneMore(count, limit) == count <= limit + 1

Allowed(count, limit) == count <= limit

\* The counter after one more hit.
Counted(c) == Increment(counters, Subject(c), Window)

\* hit: one increment, and the decision; without Redis, nothing is refused.
Hit(c, fault) ==
    LET entry == Counted(c)[Subject(c)]
        allowed == Allowed(entry.value, LimitOf(c))
    IN /\ entry.value <= MaxCount
       /\ counters' = IF fault = "down" THEN counters ELSE Counted(c)
       /\ recent' = IF fault = "none" /\ allowed
                    THEN [recent EXCEPT ![c] = @ \cup {JustServed(entry.value)}] ELSE recent
       /\ retry' = IF fault = "none" /\ ~allowed
                   THEN [retry EXCEPT ![c] = RetryAfter(entry.left) * Second] ELSE retry

\* enforce_rate_limit; a limit of 0 disables it.
EnforceRateLimit(c, fault) == IF LimitOf(c) > 0 THEN Hit(c, fault) ELSE UNCHANGED rateVars

\* An authenticated request.
GetPrincipal(p, fault) == EnforceRateLimit(p, fault)

\* A request for a token, whether or not the client exists.
Token(c, fault) == IF TokenLimit > 0 THEN Hit(c, fault) ELSE UNCHANGED rateVars

\* Time passes: windows end, and with them what they refused.
RateTick ==
    /\ counters' = Elapse(counters)
    /\ recent' = [c \in Callers |-> Older(recent[c])]
    /\ retry' = [c \in Callers |->
          IF retry[c] = NULL \/ counters'[Subject(c)] = NULL THEN NULL
          ELSE IF retry[c] = 0 THEN 0 ELSE retry[c] - 1]

RateNext ==
    \/ \E p \in Principals, fault \in Faults : GetPrincipal(p, fault)
    \/ \E c \in TokenClients, fault \in Faults : Token(c, fault)
    \/ RateTick

RateSpec == RateInit /\ [][RateNext]_rateVars

-----------------------------------------------------------------------------
(* Properties.                                                             *)

RateTypeOK ==
    /\ \A k \in RateKeys : counters[k] # NULL => counters[k].value \in 1..MaxCount /\ counters[k].left \in 1..Window
    /\ \A c \in Callers : retry[c] # NULL => retry[c] \in 0..(Window + Second)

\* "Fixed windows allow up to twice the limit across a window boundary"
\* (rate_limit.py), and no more: however processes interleave their hits, any
\* Window ticks see at most twice the limit of counted requests served.
AtMostTwice ==
    \A c \in Callers : LimitOf(c) > 0 => Served(c) <= 2 * LimitOf(c)

\* Who waits as long as Retry-After says finds the window over, and is not
\* made to wait a whole second longer than that.
RetryAfterSuffices ==
    \A c \in Callers : retry[c] # NULL =>
        LET left == counters[Subject(c)].left
        IN retry[c] >= left /\ retry[c] < left + Second

-----------------------------------------------------------------------------
(* The inductive invariant of the proofs.                                  *)

CounterType == [value : Nat \ {0}, left : 1 .. Window]

RequestType == [count : Nat \ {0}, age : 0 .. (Window - 1)]

\* How long ago the caller's window began; no window that is over began less
\* than Window ticks ago.
Began(c) == IF counters[Subject(c)] = NULL THEN Window ELSE Window - counters[Subject(c)].left

InWindow(c, r) == r.age <= Began(c)

\* The requests served are of two windows at most, the present one and the one
\* before it, and the places in the count of one window differ.
RecentOK(c) ==
    /\ \A r \in recent[c] : r.count <= LimitOf(c)
    /\ counters[Subject(c)] = NULL => \A r \in recent[c] : r.age > 0
    /\ counters[Subject(c)] # NULL =>
          \A r \in recent[c] : InWindow(c, r) => r.count <= counters[Subject(c)].value
    /\ \A r, s \in recent[c] :
          (InWindow(c, r) <=> InWindow(c, s)) /\ r.count = s.count => r = s

RateInv ==
    /\ DOMAIN counters = RateKeys
    /\ \A k \in RateKeys : counters[k] \in CounterType \cup {NULL}
    /\ recent \in [Callers -> SUBSET RequestType]
    /\ \A c \in Callers : RecentOK(c)

\* A refusal lasts as long as the window that refused, rounded up to seconds.
RetryOK(c) ==
    retry[c] # NULL =>
        /\ counters[Subject(c)] # NULL
        /\ retry[c] \in Nat
        /\ counters[Subject(c)].left <= retry[c]
        /\ retry[c] < counters[Subject(c)].left + Second

RetryInv == DOMAIN retry = Callers /\ \A c \in Callers : RetryOK(c)
=============================================================================
