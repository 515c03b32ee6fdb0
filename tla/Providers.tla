----------------------------- MODULE Providers ------------------------------
(***************************************************************************)
(* The OpenAI clients: ai/providers.py (chat completions, one deadline for *)
(* the whole call) and providers/embeddings.py (embeddings, no deadline).  *)
(* One call: posts until an answer settles it, sleeping between attempts.  *)
(*                                                                         *)
(* Time is counted down in ticks.  The service, outside the code, answers  *)
(* or fails whenever it likes.                                             *)
(***************************************************************************)
EXTENDS Null, Naturals, Sequences, FiniteSets, Functions

CONSTANTS
    ClientRetries,    \* max_retries of the client
    BaseDelay,     \* base_delay_seconds, in ticks
    MaxDelay,      \* max_delay_seconds, in ticks
    Timeout,       \* llm_timeout_seconds, in ticks
    MaxBatch,      \* max_batch_size of the embedding client
    HttpStatuses,      \* HTTP statuses the service answers with
    RetryAfters,   \* values of the Retry-After header, in ticks, NULL if absent
    MaxElapsed     \* bound: ticks a call is timed for

\* A call of either client.
CallType ==
    [kind : {"chat", "embeddings"}, size : Nat, structured : BOOLEAN, step : {"posting", "sleeping", "done"}]

RetryableStatus == {408, 409, 429, 500, 502, 503, 504}
RetryableError == {"Timeout", "RateLimited", "Unavailable"}

\* What the service answers to one attempt.
ServiceAnswer ==
    [status : Nat \cup {NULL}, error : RetryableError \cup {"Authentication", "Request", NULL}]

ASSUME ProvidersAssumption ==
    /\ {ClientRetries, MaxDelay, MaxBatch} \subseteq Nat
    /\ {BaseDelay, Timeout} \subseteq Nat \ {0}
    /\ MaxElapsed \in Nat /\ MaxElapsed > Timeout
    /\ \A n \in 0 .. ClientRetries : BaseDelay * 2^n \in Nat
    /\ HttpStatuses \subseteq Nat /\ RetryAfters \subseteq Nat \cup {NULL}
    /\ NULL \notin CallType \cup Nat

VARIABLES
    call,      \* the call being made, or NULL before it
    deadline,  \* asyncio.timeout: ticks until the deadline of a chat call, or NULL
    delay,     \* ticks left to sleep
    problem,   \* last: the error of the last attempt
    outcome,   \* what the call returned or raised, or NULL
    answers,   \* ghost: the answers the service has given to this call
    owed,      \* ghost: ticks the last Retry-After still asks to wait
    elapsed    \* ghost: ticks since the call started

providerVars == <<call, deadline, delay, problem, outcome, answers, owed, elapsed>>

\* The body of a chat completion, as far as _parse tells bodies apart.  Reading it
\* may raise an error: the lookups of one that has parts missing do, and so does
\* message.get() when the message is null.
ChatBodies ==
    [raises : {NULL, "KeyError", "AttributeError"}, refusal : BOOLEAN, content : BOOLEAN, calls : BOOLEAN, cut : BOOLEAN]

\* The body of an embeddings answer: items in any order, one per text, each
\* with the index of the text it embeds; or one item short.
EmbeddingBodies(n) ==
    LET items == [1..n -> [index : 1..n, sized : BOOLEAN]]
    IN {b \in items : Cardinality({b[i].index : i \in 1..n}) = n}
           \cup {[i \in 1..(n - 1) |-> [index |-> i, sized |-> TRUE]]}

Bodies == IF call.kind = "chat" THEN ChatBodies ELSE EmbeddingBodies(call.size)

Error(e) == [error |-> e, result |-> NULL]
Result(r) == [error |-> NULL, result |-> r]

-----------------------------------------------------------------------------
(* Reading one answer.                                                     *)

ErrorFor(status) ==
    IF status \in {401, 403} THEN "Authentication"
    ELSE IF status = 429 THEN "RateLimited"
    ELSE IF status \in RetryableStatus THEN "Unavailable"
    ELSE "Request"

\* _parse: its except clause does not name AttributeError.
ParseChat(body) ==
    IF body.raises = "KeyError" THEN Error("Malformed")
    ELSE IF body.raises = "AttributeError" THEN Error("AttributeError")
    ELSE IF body.refusal THEN Error("Refused")
    ELSE IF ~body.calls /\ ~body.content THEN Error("Malformed")
    ELSE IF body.cut /\ call.structured THEN Error("Malformed")
    ELSE Result([attempts |-> Len(answers) + 1, body |-> body])

\* sorted(body["data"], key=index).
SortedByIndex(body) ==
    [i \in DOMAIN body |->
        CHOOSE a \in Range(body) : Cardinality({b \in Range(body) : b.index <= a.index}) = i]

\* The items in order, then the number and the size of the vectors.
ParseEmbeddings(body) ==
    LET items == SortedByIndex(body)
    IN IF Len(items) # call.size \/ \E i \in DOMAIN items : ~items[i].sized
       THEN Error("Malformed")
       ELSE Result([attempts |-> Len(answers) + 1, vectors |-> [i \in DOMAIN items |-> items[i].index]])

AtMost(n, limit) == IF n < limit THEN n ELSE limit

\* _delay: Retry-After as far as MaxDelay, otherwise a backoff with jitter.
Delays(attempt, retryAfter) ==
    IF retryAfter # NULL THEN {AtMost(retryAfter, MaxDelay)}
    ELSE LET backoff == BaseDelay * 2^attempt
         IN {AtMost(d, MaxDelay) : d \in (backoff \div 2) .. backoff}

-----------------------------------------------------------------------------
ProviderInit ==
    /\ call = NULL /\ outcome = NULL /\ problem = NULL
    /\ deadline = NULL /\ delay = 0 /\ owed = 0 /\ elapsed = 0
    /\ answers = <<>>

\* A call of either client; one that is settled without a request has its outcome.
Start(kind, size, structured, settled) ==
    /\ call # NULL => call.step = "done"
    /\ call' = [kind |-> kind, size |-> size, structured |-> structured,
                step |-> IF settled = NULL THEN "posting" ELSE "done"]
    /\ deadline' = IF kind = "chat" THEN Timeout ELSE NULL
    /\ outcome' = settled
    /\ problem' = NULL /\ answers' = <<>>
    /\ delay' = 0 /\ owed' = 0 /\ elapsed' = 0

Generate(size, structured) ==
    Start("chat", size, structured, IF size = 0 THEN Error("Request") ELSE NULL)

Embed(size) ==
    Start("embeddings", size, FALSE,
          IF size = 0 THEN Result([attempts |-> 0, vectors |-> <<>>])
          ELSE IF size > MaxBatch THEN Error("Request") ELSE NULL)

Posting == call # NULL /\ call.step = "posting"
Sleeping == call # NULL /\ call.step = "sleeping"

\* The call returns or raises.
Settle(o) ==
    /\ outcome' = o
    /\ call' = [call EXCEPT !.step = "done"]
    /\ UNCHANGED delay

\* The end of an attempt that may be repeated: sleep, or raise the last error.
Retry(e, retryAfter) ==
    LET attempt == Len(answers)
    IN /\ problem' = e
       /\ owed' = IF retryAfter = NULL THEN 0 ELSE retryAfter
       /\ IF attempt < ClientRetries
          THEN /\ delay' \in Delays(attempt, retryAfter)
               /\ call' = [call EXCEPT !.step = "sleeping"]
               /\ UNCHANGED outcome
          ELSE Settle(Error(e))

\* httpx raises: a transport timeout or a transport error.
TransportFailure(e) ==
    /\ Posting
    /\ answers' = Append(answers, [status |-> NULL, error |-> e])
    /\ Retry(e, NULL)
    /\ UNCHANGED <<deadline, elapsed>>

\* 200: the body is parsed, and settles the call.
Answer(body) ==
    /\ Posting
    /\ answers' = Append(answers, [status |-> 200, error |-> NULL])
    /\ Settle(IF call.kind = "chat" THEN ParseChat(body) ELSE ParseEmbeddings(body))
    /\ UNCHANGED <<deadline, problem, owed, elapsed>>

\* Another status: raised at once, or worth another attempt.
Reject(status, retryAfter) ==
    /\ Posting
    /\ answers' = Append(answers, [status |-> status, error |-> ErrorFor(status)])
    /\ IF ErrorFor(status) \in RetryableError
       THEN Retry(ErrorFor(status), retryAfter)
       ELSE Settle(Error(ErrorFor(status))) /\ UNCHANGED <<problem, owed>>
    /\ UNCHANGED <<deadline, elapsed>>

\* Faulty variant: every attempt gets a deadline of its own.
WakeRenewed ==
    /\ Sleeping
    /\ delay = 0
    /\ call' = [call EXCEPT !.step = "posting"]
    /\ deadline' = IF call.kind = "chat" THEN Timeout ELSE NULL
    /\ UNCHANGED <<delay, problem, outcome, answers, owed, elapsed>>

\* The sleep is over: the next attempt.
Wake ==
    /\ Sleeping
    /\ delay = 0
    /\ call' = [call EXCEPT !.step = "posting"]
    /\ UNCHANGED <<deadline, delay, problem, outcome, answers, owed, elapsed>>

\* asyncio.timeout cancels the attempt or the sleep.
Deadline ==
    /\ Posting \/ Sleeping
    /\ deadline = 0
    /\ Settle(Error("Timeout"))
    /\ UNCHANGED <<deadline, problem, answers, owed, elapsed>>

\* Timers that are due are served before time goes on.
ProviderTick ==
    /\ Posting \/ (Sleeping /\ delay > 0)
    /\ deadline # 0
    /\ deadline' = IF deadline = NULL THEN NULL ELSE deadline - 1
    /\ delay' = IF delay = 0 THEN 0 ELSE delay - 1
    /\ owed' = IF owed = 0 THEN 0 ELSE owed - 1
    /\ elapsed' = AtMost(elapsed + 1, MaxElapsed)
    /\ UNCHANGED <<call, problem, outcome, answers>>

Service ==
    \/ Posting /\ \E body \in Bodies : Answer(body)
    \/ \E status \in HttpStatuses \ {200}, retryAfter \in RetryAfters : Reject(status, retryAfter)
    \/ \E e \in {"Timeout", "Unavailable"} : TransportFailure(e)

ProviderNext ==
    \/ \E structured \in BOOLEAN, size \in 0..1 : Generate(size, structured)
    \/ \E size \in 0..(MaxBatch + 1) : Embed(size)
    \/ Service
    \/ Wake
    \/ Deadline
    \/ ProviderTick

ProviderSpec == ProviderInit /\ [][ProviderNext]_providerVars

-----------------------------------------------------------------------------
(* Properties.                                                             *)

ProviderTypeOK ==
    /\ call \in {NULL} \cup CallType
    /\ call # NULL => deadline \in IF call.kind = "chat" THEN 0 .. Timeout ELSE {NULL}
    /\ delay \in 0 .. MaxDelay /\ owed \in Nat /\ elapsed \in 0 .. MaxElapsed
    /\ problem \in RetryableError \cup {NULL}
    /\ answers \in Seq(ServiceAnswer)

\* One deadline for the whole chat call, its retries and sleeps included.
Timely == call # NULL /\ call.kind = "chat" => elapsed <= Timeout

\* An answer that another attempt may change.
MayChange(a) == a.status \in RetryableStatus \cup {NULL} /\ a.error \in RetryableError

\* A call is repeated only after an answer that another attempt may change:
\* never after bad credentials, a bad request or a completion.
RetriesAllowed ==
    \A i \in 1 .. Len(answers) : i < Len(answers) => MayChange(answers[i])

\* Failures are never turned into answers: a result comes from the last answer
\* of the service, a complete and unrefused one, and gives each text the
\* vector made for it; an error names the last problem, or the deadline.
OutcomeTrue ==
    outcome # NULL /\ answers # <<>> =>
        LET r == outcome.result
            last == answers[Len(answers)]
        IN IF outcome.error = NULL
           THEN /\ last.status = 200 /\ r.attempts = Len(answers)
                /\ call.kind = "chat" =>
                      /\ r.body.raises = NULL /\ ~r.body.refusal /\ (r.body.calls \/ r.body.content)
                      /\ ~(call.structured /\ r.body.cut)
                /\ call.kind = "embeddings" => r.vectors = [i \in 1..call.size |-> i]
           ELSE \/ outcome.error = last.error
                \/ outcome.error \in {"Malformed", "Refused", "AttributeError"} /\ last.status = 200
                \/ outcome.error = "Timeout" /\ deadline = 0

\* The number of attempts is bounded: max_retries after the first.
AttemptsBounded == Len(answers) <= ClientRetries + 1

\* The inductive invariant: what a chat call has used of its time is what its
\* deadline has lost, and a call that is not settled has met only answers that
\* another attempt may change, and has an attempt left.
ProviderInv ==
    /\ ProviderTypeOK
    /\ call # NULL /\ call.kind = "chat" => elapsed + deadline = Timeout
    /\ AttemptsBounded
    /\ RetriesAllowed
    /\ Posting \/ Sleeping =>
        /\ Len(answers) <= ClientRetries
        /\ \A i \in 1 .. Len(answers) : MayChange(answers[i])

-----------------------------------------------------------------------------
(* What the documentation says and the code does not keep.                 *)

\* ai/providers.py: "every error path raises GenerationError".
FailuresTyped == outcome # NULL => outcome.error # "AttributeError"

\* Retry-After is honoured: no attempt is made before the time it asks for.
RetryAfterHonoured == [][Wake => owed = 0]_providerVars
=============================================================================
