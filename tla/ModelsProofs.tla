---------------------------- MODULE ModelsProofs ----------------------------
(***************************************************************************)
(* Proofs about the work on language models: the clients of the providers, *)
(* grounded answers and investigations, for any number of requests and     *)
(* runs and any sizes and limits.                                          *)
(*                                                                         *)
(* Providers.  The time of a call is what is left of its deadline          *)
(* (ProviderInv), and each answer but the last allowed another attempt.    *)
(*                                                                         *)
(* Answers.  A prompt stays what was rendered while the database changes,  *)
(* and what the loop over the labels has accepted is in it (RequestOK).    *)
(*                                                                         *)
(* Investigations.  The ledger of a run is what its tools have shown       *)
(* (RunOK), and the calls that wait are the ones without an answer.        *)
(***************************************************************************)
EXTENDS Providers, Answers, Investigations, TLAPS

-----------------------------------------------------------------------------
(* The clients of the providers.                                           *)

\* The limits of the clients are numbers.
LEMMA ProviderLimits ==
    /\ ClientRetries \in Nat /\ MaxDelay \in Nat /\ MaxBatch \in Nat /\ BaseDelay \in Nat
    /\ Timeout \in Nat /\ MaxElapsed \in Nat /\ MaxElapsed > Timeout
    /\ NULL \notin Nat /\ NULL \notin CallType
    /\ \A n \in 0 .. ClientRetries : BaseDelay * 2^n \in Nat
BY ProvidersAssumption, Zenon

\* _delay: no sleep is longer than max_delay_seconds, whatever Retry-After says.
LEMMA DelaysBounded ==
    ASSUME NEW n \in 0 .. ClientRetries, NEW after \in RetryAfters \cup {NULL}
    PROVE  Delays(n, after) \subseteq 0 .. MaxDelay
<1>1. CASE after # NULL
  <2>1. after \in Nat /\ MaxDelay \in Nat
    BY <1>1, ProvidersAssumption, Zenon
  <2> QED BY <1>1, <2>1 DEF Delays, AtMost
<1>2. CASE after = NULL
  <2>1. PICK b \in Nat : b = BaseDelay * 2^n
    BY ProviderLimits, Zenon
  <2>2. Delays(n, after) = {AtMost(d, MaxDelay) : d \in (b \div 2) .. b}
    BY <1>2, <2>1, Zenon DEF Delays
  <2>3. ASSUME NEW d \in (b \div 2) .. b PROVE AtMost(d, MaxDelay) \in 0 .. MaxDelay
    <3>1. d \in Int /\ 0 <= d
      BY <2>1
    <3> QED BY <3>1, ProviderLimits DEF AtMost
  <2> QED BY <2>2, <2>3, Zenon
<1> QED BY <1>1, <1>2, Zenon

\* The answers grow by one that may be retried or that settles the call.
LEMMA OneAnswerMore ==
    ASSUME ProviderInv, Posting, NEW a \in ServiceAnswer, answers' = Append(answers, a)
    PROVE  /\ answers' \in Seq(ServiceAnswer)
           /\ Len(answers') = Len(answers) + 1 /\ Len(answers) \in Nat
           /\ AttemptsBounded' /\ RetriesAllowed'
           /\ MayChange(a) => \A i \in 1 .. Len(answers') : MayChange(answers'[i])
<1>1. answers \in Seq(ServiceAnswer) /\ Len(answers) <= ClientRetries
  BY Zenon DEF ProviderInv, ProviderTypeOK, Posting
<1>2. \A i \in 1 .. Len(answers) : MayChange(answers[i])
  BY Zenon DEF ProviderInv, Posting
<1>3. /\ answers' \in Seq(ServiceAnswer) /\ Len(answers) \in Nat
      /\ Len(answers') = Len(answers) + 1
      /\ answers'[Len(answers) + 1] = a
      /\ \A i \in 1 .. Len(answers) : answers'[i] = answers[i]
  BY <1>1
<1>4. \A i \in 1 .. Len(answers') : i < Len(answers') => i \in 1 .. Len(answers)
  BY <1>3
<1>5. \A i \in 1 .. Len(answers') : i \in 1 .. Len(answers) \/ i = Len(answers) + 1
  BY <1>3
<1>6. RetriesAllowed'
  BY <1>2, <1>3, <1>4, Zenon DEF RetriesAllowed
<1>7. AttemptsBounded'
  BY <1>1, <1>3, ProviderLimits DEF AttemptsBounded
<1> QED BY <1>2, <1>3, <1>5, <1>6, <1>7, Zenon

\* A step of a call keeps its kind.
LEMMA CallStep ==
    ASSUME ProviderTypeOK, call # NULL, NEW s \in {"posting", "sleeping", "done"},
           call' = [call EXCEPT !.step = s]
    PROVE  call' \in CallType /\ call'.kind = call.kind /\ call'.step = s /\ call' # NULL
<1>1. call \in CallType
  BY Zenon DEF ProviderTypeOK
<1>2. call' \in CallType /\ call'.kind = call.kind /\ call'.step = s
  BY <1>1, Zenon DEF CallType
<1> QED BY <1>2, ProviderLimits, Zenon

\* What Retry and Settle do to the call and its sleep.
LEMMA RetryStep ==
    ASSUME ProviderInv, Posting, NEW e, NEW after \in RetryAfters \cup {NULL}, Retry(e, after)
    PROVE  /\ delay' \in 0 .. MaxDelay /\ owed' \in Nat /\ problem' = e
           /\ call' \in CallType /\ call' # NULL /\ call'.kind = call.kind
           /\ call'.step # "done" => Len(answers) + 1 <= ClientRetries
<1>1. ProviderTypeOK /\ call # NULL
  BY Zenon DEF ProviderInv, Posting
<1>2. Len(answers) \in Nat /\ Len(answers) <= ClientRetries
  BY DEF ProviderInv, ProviderTypeOK, Posting
<1>3. owed' \in Nat /\ problem' = e
  <2>1. after = NULL \/ after \in Nat
    BY ProvidersAssumption, Zenon
  <2>2. owed' = (IF after = NULL THEN 0 ELSE after) /\ problem' = e
    BY Zenon DEF Retry
  <2>3. 0 \in Nat
    BY Zenon
  <2> QED BY <2>1, <2>2, <2>3, Zenon
<1>4. CASE Len(answers) < ClientRetries
  <2>1. delay' \in Delays(Len(answers), after) /\ call' = [call EXCEPT !.step = "sleeping"]
    BY <1>4, Zenon DEF Retry
  <2>2. Len(answers) \in 0 .. ClientRetries /\ Len(answers) + 1 <= ClientRetries
    BY <1>2, <1>4, ProviderLimits
  <2>3. delay' \in 0 .. MaxDelay
    BY <2>1, <2>2, DelaysBounded, Zenon
  <2> QED BY <1>1, <1>3, <2>1, <2>2, <2>3, CallStep, Zenon
<1>5. CASE ~(Len(answers) < ClientRetries)
  <2>1. delay' = delay /\ call' = [call EXCEPT !.step = "done"]
    BY <1>5, Zenon DEF Retry, Settle
  <2>2. delay' \in 0 .. MaxDelay
    BY <1>1, <2>1, Zenon DEF ProviderTypeOK
  <2> QED BY <1>1, <1>3, <2>1, <2>2, CallStep, Zenon
<1> QED BY <1>4, <1>5, Zenon

\* The call goes on with the same deadline and the same time used.
LEMMA SameTime ==
    ASSUME ProviderInv, call # NULL, call' # NULL, call'.kind = call.kind,
           UNCHANGED <<deadline, elapsed>>
    PROVE  /\ deadline' \in IF call'.kind = "chat" THEN 0 .. Timeout ELSE {NULL}
           /\ elapsed' \in 0 .. MaxElapsed
           /\ call'.kind = "chat" => elapsed' + deadline' = Timeout
BY Zenon DEF ProviderInv, ProviderTypeOK

\* Retry keeps the invariant, after an answer that another attempt may change.
LEMMA RetryKeeps ==
    ASSUME ProviderInv, Posting, NEW a \in ServiceAnswer, answers' = Append(answers, a),
           MayChange(a), NEW after \in RetryAfters \cup {NULL}, Retry(a.error, after),
           UNCHANGED <<deadline, elapsed>>
    PROVE  ProviderInv'
<1>1. call # NULL
  BY Zenon DEF Posting
<1>2. /\ delay' \in 0 .. MaxDelay /\ owed' \in Nat /\ problem' = a.error
      /\ call' \in CallType /\ call' # NULL /\ call'.kind = call.kind
      /\ call'.step # "done" => Len(answers) + 1 <= ClientRetries
  BY RetryStep, Zenon
<1>3. problem' \in RetryableError
  BY <1>2, Zenon DEF MayChange
<1>4. /\ deadline' \in IF call'.kind = "chat" THEN 0 .. Timeout ELSE {NULL}
      /\ elapsed' \in 0 .. MaxElapsed
      /\ call'.kind = "chat" => elapsed' + deadline' = Timeout
  BY <1>1, <1>2, SameTime, Zenon
<1>5. /\ answers' \in Seq(ServiceAnswer)
      /\ Len(answers') = Len(answers) + 1
      /\ AttemptsBounded' /\ RetriesAllowed'
      /\ \A i \in 1 .. Len(answers') : MayChange(answers'[i])
  BY OneAnswerMore, Zenon
<1>6. (Posting \/ Sleeping)' => Len(answers') <= ClientRetries
  <2>1. (Posting \/ Sleeping)' => call'.step # "done"
    BY Zenon DEF Posting, Sleeping
  <2> QED BY <2>1, <1>2, <1>5, Zenon
<1>7. ProviderTypeOK'
  BY <1>2, <1>3, <1>4, <1>5, Zenon DEF ProviderTypeOK
<1> QED BY <1>4, <1>5, <1>6, <1>7, Zenon DEF ProviderInv

\* A settled call keeps the invariant, whatever its outcome.
LEMMA SettleKeeps ==
    ASSUME ProviderInv, Posting \/ Sleeping, NEW o, Settle(o),
           UNCHANGED <<deadline, problem, owed, elapsed>>,
           answers' \in Seq(ServiceAnswer), AttemptsBounded', RetriesAllowed'
    PROVE  ProviderInv'
<1>1. ProviderTypeOK /\ call # NULL
  BY Zenon DEF ProviderInv, Posting, Sleeping
<1>2. call' = [call EXCEPT !.step = "done"] /\ delay' = delay
  BY Zenon DEF Settle
<1>3. call' \in CallType /\ call'.kind = call.kind /\ call'.step = "done" /\ call' # NULL
  BY <1>1, <1>2, CallStep, Zenon
<1>4. /\ deadline' \in IF call'.kind = "chat" THEN 0 .. Timeout ELSE {NULL}
      /\ elapsed' \in 0 .. MaxElapsed
      /\ call'.kind = "chat" => elapsed' + deadline' = Timeout
  BY <1>1, <1>3, SameTime, Zenon
<1>5. ~(Posting \/ Sleeping)'
  BY <1>3, Zenon DEF Posting, Sleeping
<1>6. ProviderTypeOK'
  BY <1>1, <1>2, <1>3, <1>4, Zenon DEF ProviderTypeOK
<1> QED BY <1>3, <1>4, <1>5, <1>6, Zenon DEF ProviderInv

-----------------------------------------------------------------------------
(* The actions.                                                            *)

LEMMA ProviderInitOK == ProviderInit => ProviderInv
<1> SUFFICES ASSUME ProviderInit PROVE ProviderInv
  BY Zenon
<1>1. answers \in Seq(ServiceAnswer) /\ Len(answers) = 0
  BY DEF ProviderInit
<1>2. AttemptsBounded /\ RetriesAllowed
  BY <1>1, ProviderLimits DEF AttemptsBounded, RetriesAllowed
<1>3. delay \in 0 .. MaxDelay /\ owed \in Nat /\ elapsed \in 0 .. MaxElapsed
  BY ProviderLimits DEF ProviderInit
<1> QED BY <1>1, <1>2, <1>3, Zenon DEF ProviderInit, ProviderInv, ProviderTypeOK, Posting, Sleeping

\* A new call begins with its whole time and no answer.
LEMMA StartKeeps ==
    ASSUME NEW kind \in {"chat", "embeddings"}, NEW size \in Nat, NEW structured \in BOOLEAN,
           NEW settled, Start(kind, size, structured, settled)
    PROVE  ProviderInv'
<1>1. call' = [kind |-> kind, size |-> size, structured |-> structured,
               step |-> IF settled = NULL THEN "posting" ELSE "done"]
  BY Zenon DEF Start
<1>2. call' \in CallType /\ call'.kind = kind
  BY <1>1, Zenon DEF CallType
<1>3. answers' = <<>> /\ answers' \in Seq(ServiceAnswer) /\ Len(answers') = 0
  BY DEF Start
<1>4. AttemptsBounded' /\ RetriesAllowed'
  BY <1>3, ProviderLimits DEF AttemptsBounded, RetriesAllowed
<1>5. /\ delay' \in 0 .. MaxDelay /\ owed' \in Nat /\ elapsed' \in 0 .. MaxElapsed /\ elapsed' = 0
      /\ Timeout \in 0 .. Timeout /\ elapsed' + Timeout = Timeout /\ 0 <= ClientRetries
  BY ProviderLimits DEF Start
<1>6. deadline' = (IF kind = "chat" THEN Timeout ELSE NULL) /\ problem' = NULL
  BY Zenon DEF Start
<1>7. call'.kind = "chat" => (elapsed + deadline = Timeout)'
  BY <1>2, <1>5, <1>6, Zenon
<1>8. ProviderTypeOK'
  BY <1>2, <1>3, <1>5, <1>6, Zenon DEF ProviderTypeOK
<1>9. Len(answers') <= ClientRetries /\ \A i \in 1 .. Len(answers') : MayChange(answers'[i])
  BY <1>3, ProviderLimits
<1> QED BY <1>4, <1>7, <1>8, <1>9, Zenon DEF ProviderInv

LEMMA GenerateKeeps ==
    ASSUME NEW size \in 0 .. 1, NEW structured \in BOOLEAN, Generate(size, structured)
    PROVE  ProviderInv'
<1>1. size \in Nat
  OBVIOUS
<1> QED BY <1>1, StartKeeps, Zenon DEF Generate

LEMMA EmbedKeeps ==
    ASSUME NEW size \in 0 .. (MaxBatch + 1), Embed(size)
    PROVE  ProviderInv'
<1>1. size \in Nat
  BY ProviderLimits
<1>2. FALSE \in BOOLEAN
  BY Zenon
<1> QED BY <1>1, <1>2, StartKeeps, Zenon DEF Embed

LEMMA TransportFailureKeeps ==
    ASSUME ProviderInv, NEW e \in {"Timeout", "Unavailable"}, TransportFailure(e)
    PROVE  ProviderInv'
<1>1. PICK a : a = [status |-> NULL, error |-> e]
  BY Zenon
<1>2. a.status = NULL /\ a.error = e /\ a \in ServiceAnswer
  BY <1>1, Zenon DEF ServiceAnswer, RetryableError
<1>3. MayChange(a)
  BY <1>2, Zenon DEF MayChange, RetryableError
<1>4. answers' = Append(answers, a) /\ Retry(a.error, NULL) /\ Posting /\ UNCHANGED <<deadline, elapsed>>
  BY <1>1, <1>2, Zenon DEF TransportFailure
<1> QED BY <1>2, <1>3, <1>4, RetryKeeps, Zenon

LEMMA AnswerKeeps ==
    ASSUME ProviderInv, NEW body, Answer(body)
    PROVE  ProviderInv'
<1>0. PICK ok \in Nat : ok = 200
  OBVIOUS
<1>1. PICK a : a = [status |-> ok, error |-> NULL]
  BY Zenon
<1>2. a \in ServiceAnswer
  BY <1>1, Zenon DEF ServiceAnswer
<1>3. answers' = Append(answers, a) /\ Posting /\ UNCHANGED <<deadline, problem, owed, elapsed>>
  BY <1>0, <1>1, Zenon DEF Answer
<1>4. answers' \in Seq(ServiceAnswer) /\ AttemptsBounded' /\ RetriesAllowed'
  BY <1>2, <1>3, OneAnswerMore, Zenon
<1>5. Settle(IF call.kind = "chat" THEN ParseChat(body) ELSE ParseEmbeddings(body))
  BY Zenon DEF Answer
<1> QED BY <1>3, <1>4, <1>5, SettleKeeps, Zenon

\* A status whose error may be retried is one of those worth another attempt.
LEMMA RetryableStatuses ==
    ASSUME NEW status \in Nat
    PROVE  /\ ErrorFor(status) \in RetryableError \cup {"Authentication", "Request"}
           /\ ErrorFor(status) \in RetryableError => status \in RetryableStatus
BY DEF ErrorFor, RetryableError, RetryableStatus

LEMMA RejectKeeps ==
    ASSUME ProviderInv, NEW status \in HttpStatuses, NEW after \in RetryAfters, Reject(status, after)
    PROVE  ProviderInv'
<1>1. PICK a : a = [status |-> status, error |-> ErrorFor(status)]
  BY Zenon
<1>2. status \in Nat
  BY ProvidersAssumption, Zenon
<1>3. a.status = status /\ a.error = ErrorFor(status) /\ a \in ServiceAnswer
  BY <1>1, <1>2, RetryableStatuses, Zenon DEF ServiceAnswer
<1>4. answers' = Append(answers, a) /\ Posting /\ UNCHANGED <<deadline, elapsed>>
  BY <1>1, Zenon DEF Reject
<1>5. CASE ErrorFor(status) \in RetryableError
  <2>1. MayChange(a)
    BY <1>2, <1>3, <1>5, RetryableStatuses, Zenon DEF MayChange
  <2>2. Retry(a.error, after)
    BY <1>3, <1>5, Zenon DEF Reject
  <2> QED BY <1>3, <1>4, <2>1, <2>2, RetryKeeps, Zenon
<1>6. CASE ErrorFor(status) \notin RetryableError
  <2>1. answers' \in Seq(ServiceAnswer) /\ AttemptsBounded' /\ RetriesAllowed'
    BY <1>3, <1>4, OneAnswerMore, Zenon
  <2>2. Settle(Error(ErrorFor(status))) /\ UNCHANGED <<problem, owed>>
    BY <1>6, Zenon DEF Reject
  <2> QED BY <1>4, <2>1, <2>2, SettleKeeps, Zenon
<1> QED BY <1>5, <1>6, Zenon

LEMMA DeadlineKeeps == ProviderInv /\ Deadline => ProviderInv'
<1> SUFFICES ASSUME ProviderInv, Deadline PROVE ProviderInv'
  BY Zenon
<1>1. answers' = answers
  BY Zenon DEF Deadline
<1>2. answers' \in Seq(ServiceAnswer) /\ AttemptsBounded' /\ RetriesAllowed'
  BY <1>1, Zenon DEF ProviderInv, ProviderTypeOK, AttemptsBounded, RetriesAllowed
<1> QED BY <1>2, SettleKeeps, Zenon DEF Deadline

LEMMA WakeKeeps == ProviderInv /\ Wake => ProviderInv'
<1> SUFFICES ASSUME ProviderInv, Wake PROVE ProviderInv'
  BY Zenon
<1>1. /\ ProviderTypeOK /\ call # NULL /\ (Posting \/ Sleeping)
      /\ call' = [call EXCEPT !.step = "posting"]
      /\ UNCHANGED <<deadline, delay, problem, outcome, answers, owed, elapsed>>
  BY Zenon DEF ProviderInv, Wake, Sleeping
<1>2. call' \in CallType /\ call'.kind = call.kind /\ call' # NULL
  BY <1>1, CallStep, Zenon
<1>3. /\ deadline' \in IF call'.kind = "chat" THEN 0 .. Timeout ELSE {NULL}
      /\ elapsed' \in 0 .. MaxElapsed
      /\ call'.kind = "chat" => elapsed' + deadline' = Timeout
  BY <1>1, <1>2, SameTime, Zenon
<1>4. AttemptsBounded' /\ RetriesAllowed'
  BY <1>1, Zenon DEF ProviderInv, AttemptsBounded, RetriesAllowed
<1>5. Len(answers') <= ClientRetries /\ \A i \in 1 .. Len(answers') : MayChange(answers'[i])
  BY <1>1, Zenon DEF ProviderInv
<1>6. ProviderTypeOK'
  BY <1>1, <1>2, <1>3, Zenon DEF ProviderTypeOK
<1> QED BY <1>3, <1>4, <1>5, <1>6, Zenon DEF ProviderInv

\* What a chat call uses of its time, its deadline loses.
LEMMA ProviderTickKeeps == ProviderInv /\ ProviderTick => ProviderInv'
<1> SUFFICES ASSUME ProviderInv, ProviderTick PROVE ProviderInv'
  BY Zenon
<1>1. /\ ProviderTypeOK /\ call # NULL /\ (Posting \/ Sleeping) /\ deadline # 0
      /\ UNCHANGED <<call, problem, outcome, answers>>
  BY Zenon DEF ProviderInv, ProviderTick, Posting, Sleeping
<1>2. delay' \in 0 .. MaxDelay /\ owed' \in Nat
  <2>1. delay \in 0 .. MaxDelay /\ owed \in Nat
    BY <1>1, Zenon DEF ProviderTypeOK
  <2>2. delay' = (IF delay = 0 THEN 0 ELSE delay - 1) /\ owed' = (IF owed = 0 THEN 0 ELSE owed - 1)
    BY Zenon DEF ProviderTick
  <2> QED BY <2>1, <2>2, ProviderLimits
<1>3. elapsed \in 0 .. MaxElapsed /\ elapsed' = AtMost(elapsed + 1, MaxElapsed)
  BY <1>1, Zenon DEF ProviderTypeOK, ProviderTick
<1>4. elapsed' \in 0 .. MaxElapsed
  BY <1>3, ProviderLimits DEF AtMost
<1>5. CASE call.kind = "chat"
  <2>1. deadline \in 0 .. Timeout /\ elapsed + deadline = Timeout
    BY <1>1, <1>5, Zenon DEF ProviderInv, ProviderTypeOK
  <2>2. deadline # NULL
    BY <2>1, ProviderLimits
  <2>3. deadline' = deadline - 1
    BY <2>2, Zenon DEF ProviderTick
  <2>4. deadline' \in 0 .. Timeout /\ elapsed' + deadline' = Timeout
    BY <1>1, <1>3, <2>1, <2>3, ProviderLimits DEF AtMost
  <2> QED BY <1>1, <1>2, <1>4, <1>5, <2>4, Zenon
      DEF ProviderInv, ProviderTypeOK, AttemptsBounded, RetriesAllowed, Posting, Sleeping
<1>6. CASE call.kind # "chat"
  <2>1. deadline = NULL
    BY <1>1, <1>6, Zenon DEF ProviderTypeOK
  <2>2. deadline' = NULL
    BY <2>1, Zenon DEF ProviderTick
  <2> QED BY <1>1, <1>2, <1>4, <1>6, <2>2, Zenon
      DEF ProviderInv, ProviderTypeOK, AttemptsBounded, RetriesAllowed, Posting, Sleeping
<1> QED BY <1>5, <1>6, Zenon

\* Every step of the clients keeps the invariant.
THEOREM ProviderInvariance == ProviderSpec => []ProviderInv
<1>1. ProviderInv /\ [ProviderNext]_providerVars => ProviderInv'
  <2> SUFFICES ASSUME ProviderInv, [ProviderNext]_providerVars PROVE ProviderInv'
    BY Zenon
  <2>1. CASE \E structured \in BOOLEAN, size \in 0 .. 1 : Generate(size, structured)
    BY <2>1, GenerateKeeps, Zenon
  <2>2. CASE \E size \in 0 .. (MaxBatch + 1) : Embed(size)
    BY <2>2, EmbedKeeps, Zenon
  <2>3. CASE Service
    <3>1. CASE Posting /\ \E body \in Bodies : Answer(body)
      BY <3>1, AnswerKeeps, Zenon
    <3>2. CASE \E status \in HttpStatuses \ {200}, after \in RetryAfters : Reject(status, after)
      BY <3>2, RejectKeeps, Zenon
    <3>3. CASE \E e \in {"Timeout", "Unavailable"} : TransportFailure(e)
      BY <3>3, TransportFailureKeeps, Zenon
    <3> QED BY <2>3, <3>1, <3>2, <3>3, Zenon DEF Service
  <2>4. CASE Wake
    BY <2>4, WakeKeeps, Zenon
  <2>5. CASE Deadline
    BY <2>5, DeadlineKeeps, Zenon
  <2>6. CASE ProviderTick
    BY <2>6, ProviderTickKeeps, Zenon
  <2>7. CASE UNCHANGED providerVars
    BY <2>7, Zenon DEF providerVars, ProviderInv, ProviderTypeOK, AttemptsBounded, RetriesAllowed,
      Posting, Sleeping
  <2> QED BY <2>1, <2>2, <2>3, <2>4, <2>5, <2>6, <2>7, Zenon DEF ProviderNext
<1> QED BY <1>1, ProviderInitOK, PTL DEF ProviderSpec

\* One deadline covers a chat call (providers.py, asyncio.timeout around
\* _generate): whatever the service answers and however long the delays
\* between attempts are, no call is timed beyond it.
THEOREM ChatCallsTimely == ProviderSpec => []Timely
<1>1. ProviderInv => Timely
  <2> SUFFICES ASSUME ProviderInv, call # NULL, call.kind = "chat" PROVE elapsed <= Timeout
    BY Zenon DEF Timely
  <2>1. deadline \in 0 .. Timeout /\ elapsed \in 0 .. MaxElapsed /\ elapsed + deadline = Timeout
    BY Zenon DEF ProviderInv, ProviderTypeOK
  <2> QED BY <2>1, ProviderLimits
<1> QED BY <1>1, ProviderInvariance, PTL

\* A call is repeated only after an answer that another attempt may change,
\* and at most max_retries times (_generate and embed: the loop over attempts).
THEOREM RetriesJustified == ProviderSpec => [](RetriesAllowed /\ AttemptsBounded)
<1>1. ProviderInv => RetriesAllowed /\ AttemptsBounded
  BY Zenon DEF ProviderInv
<1> QED BY <1>1, ProviderInvariance, PTL

-----------------------------------------------------------------------------
(* Grounded answers.                                                       *)

\* Facts are packed under the places they have in the prompt.
LEMMA PackedFacts ==
    ASSUME NEW p \in Seq(Searchable)
    PROVE  /\ PackFacts(p) \in Seq(PackedFact)
           /\ \A c \in Range(PackFacts(p)) :
                c.label.upper /\ c.label.n \in DOMAIN p /\ c.version = p[c.label.n]
<1>1. Len(p) \in Nat /\ DOMAIN p = 1 .. Len(p) /\ \A i \in 1 .. Len(p) : p[i] \in Searchable
  OBVIOUS
<1>2. ASSUME NEW i \in 1 .. Len(p)
      PROVE  [label |-> [n |-> i, upper |-> TRUE], version |-> p[i]] \in PackedFact
  BY <1>1 DEF PackedFact
<1>3. PackFacts(p) \in [1 .. Len(p) -> PackedFact]
  BY <1>2, Zenon DEF PackFacts
<1>4. PackFacts(p) \in Seq(PackedFact)
  BY <1>1, <1>3
<1>5. ASSUME NEW c \in Range(PackFacts(p))
      PROVE  c.label.upper /\ c.label.n \in DOMAIN p /\ c.version = p[c.label.n]
  <2>1. PICK i \in DOMAIN PackFacts(p) : c = PackFacts(p)[i]
    BY Zenon DEF Range
  <2>2. DOMAIN PackFacts(p) = 1 .. Len(p)
    BY <1>3, Zenon
  <2>3. c = [label |-> [n |-> i, upper |-> TRUE], version |-> p[i]]
    BY <2>1, <2>2, Zenon DEF PackFacts
  <2> QED BY <1>1, <2>2, <2>3, Zenon
<1> QED BY <1>4, <1>5, Zenon

\* The prompt shows the versions that retrieval returned, in that order.
LEMMA RenderedAsPacked ==
    ASSUME NEW p \in Seq(Searchable)
    PROVE  RenderFacts(PackFacts(p)) = p
<1>1. Len(p) \in Nat /\ DOMAIN p = 1 .. Len(p)
  OBVIOUS
<1>2. DOMAIN PackFacts(p) = 1 .. Len(p) /\ PackFacts(p) \in Seq(PackedFact)
  BY PackedFacts, Zenon DEF PackFacts
<1>3. Len(PackFacts(p)) = Len(p)
  BY <1>1, <1>2
<1>4. \A i \in 1 .. Len(p) : PackFacts(p)[i].version = p[i]
  BY Zenon DEF PackFacts
<1>5. RenderFacts(PackFacts(p)) = [i \in 1 .. Len(p) |-> p[i]]
  BY <1>3, <1>4, Zenon DEF RenderFacts
<1>6. p = [i \in DOMAIN p |-> p[i]]
  BY <1>1
<1> QED BY <1>1, <1>5, <1>6, Zenon

\* A fact that is cited for the first time is added to the list.
LEMMA CitedOnce ==
    ASSUME NEW s \in Seq(PackedFact), IsInjective(s), NEW f \in PackedFact, f \notin Range(s)
    PROVE  /\ Append(s, f) \in Seq(PackedFact)
           /\ IsInjective(Append(s, f))
           /\ Range(Append(s, f)) = Range(s) \cup {f}
<1>1. /\ Append(s, f) \in Seq(PackedFact) /\ Len(s) \in Nat
      /\ DOMAIN s = 1 .. Len(s) /\ DOMAIN Append(s, f) = 1 .. (Len(s) + 1)
      /\ Append(s, f)[Len(s) + 1] = f
      /\ \A i \in 1 .. Len(s) : Append(s, f)[i] = s[i]
  OBVIOUS
<1>2. \A i \in 1 .. (Len(s) + 1) : i \in 1 .. Len(s) \/ i = Len(s) + 1
  BY <1>1
<1>3. Len(s) + 1 \in 1 .. (Len(s) + 1) /\ \A i \in 1 .. Len(s) : i \in 1 .. (Len(s) + 1)
  BY <1>1
<1>4. \A i \in 1 .. Len(s) : s[i] # f
  BY <1>1, Zenon DEF Range
<1>5. IsInjective(Append(s, f))
  BY <1>1, <1>2, <1>4, Zenon DEF IsInjective
<1>6. Range(Append(s, f)) = Range(s) \cup {f}
  <2>1. ASSUME NEW x \in Range(Append(s, f)) PROVE x \in Range(s) \cup {f}
    BY <1>1, <1>2, Zenon DEF Range
  <2>2. ASSUME NEW x \in Range(s) \cup {f} PROVE x \in Range(Append(s, f))
    BY <1>1, <1>3, Zenon DEF Range
  <2> QED BY <2>1, <2>2, Zenon
<1> QED BY <1>1, <1>5, <1>6, Zenon

\* What a list of nothing is.
LEMMA EmptySeq ==
    ASSUME NEW S
    PROVE  <<>> \in Seq(S) /\ Len(<<>>) = 0 /\ Range(<<>>) = {} /\ IsInjective(<<>>)
<1>1. <<>> \in Seq(S) /\ Len(<<>>) = 0 /\ DOMAIN <<>> = {}
  OBVIOUS
<1> QED BY <1>1, Zenon DEF Range, IsInjective

-----------------------------------------------------------------------------
(* The actions.                                                            *)

\* A request that goes on as x, with p in its prompt.
LEMMA ProceedKeeps ==
    ASSUME AnswersInv, NEW r \in Requests, NEW x \in RequestType, NEW p \in Seq(Searchable),
           request' = [request EXCEPT ![r] = x], prompted' = [prompted EXCEPT ![r] = p],
           visible' = visible, RequestOK(x, p)
    PROVE  AnswersInv'
<1>1. request \in [Requests -> {NULL} \cup RequestType] /\ prompted \in [Requests -> Seq(Searchable)]
  BY Zenon DEF AnswersInv, AnswersTypeOK
<1>2. AnswersTypeOK'
  BY <1>1, Zenon DEF AnswersInv, AnswersTypeOK
<1>3. ASSUME NEW q \in Requests, request'[q] # NULL PROVE RequestOK(request'[q], prompted'[q])
  <2>1. CASE q = r
    BY <1>1, <2>1, Zenon
  <2>2. CASE q # r
    <3>1. request'[q] = request[q] /\ prompted'[q] = prompted[q]
      BY <1>1, <2>2, Zenon
    <3> QED BY <1>3, <3>1, Zenon DEF AnswersInv
  <2> QED BY <2>1, <2>2, Zenon
<1> QED BY <1>2, <1>3, Zenon DEF AnswersInv

\* A request that goes on as x, with the prompt it has.
LEMMA SamePrompt ==
    ASSUME AnswersInv, NEW r \in Requests, NEW x \in RequestType,
           Proceed(r, x), UNCHANGED prompted, RequestOK(x, prompted[r])
    PROVE  AnswersInv'
<1>1. prompted \in [Requests -> Seq(Searchable)]
  BY Zenon DEF AnswersInv, AnswersTypeOK
<1>2. PICK p \in Seq(Searchable) : p = prompted[r]
  BY <1>1, Zenon
<1>3. prompted' = [prompted EXCEPT ![r] = p]
  BY <1>1, <1>2, Zenon
<1> QED BY <1>2, <1>3, ProceedKeeps, Zenon DEF Proceed

\* The request of an action, and what is known of it.
LEMMA RequestParts ==
    ASSUME AnswersInv, NEW r \in Requests, NEW s, RequestAt(r, s)
    PROVE  /\ request[r] \in RequestType /\ request[r].step = s
           /\ prompted[r] \in Seq(Searchable)
           /\ RequestOK(request[r], prompted[r])
BY Zenon DEF AnswersInv, AnswersTypeOK, RequestAt

\* The fields of a request.
LEMMA RequestFields ==
    ASSUME NEW x \in RequestType
    PROVE  /\ x.user \in Askers /\ x.facts \in Seq(PackedFact) /\ x.reply \in Replies
           /\ x.labels \in Seq(Labels) /\ x.cited \in Seq(PackedFact) /\ x.rejected \in Seq(Labels)
BY Zenon DEF RequestType

\* A request that ends, with an error or with an answer that rests on the prompt.
LEMMA EndedOK ==
    ASSUME NEW x \in RequestType, NEW p, NEW result \in {NULL} \cup AnswerType,
           NEW error \in {NULL, "ValidationFailed", "AnswerGeneration"},
           result # NULL =>
             /\ Range(result.citations) \subseteq Range(PackFacts(p))
             /\ result.status = "ANSWERED" =>
                  /\ result.answer # "" /\ Len(result.citations) > 0 /\ Len(result.rejected) = 0
                  /\ IsInjective(result.citations)
             /\ result.status = "UNGROUNDED" =>
                  result.answer = NULL /\ Len(result.citations) = 0 /\ ~result.inferences
    PROVE  Ended(x, error, result) \in RequestType /\ RequestOK(Ended(x, error, result), p)
<1>1. PICK y : y = Ended(x, error, result)
  BY Zenon
<1>2. NULL \in Replies
  BY Zenon DEF Replies
<1>3. <<>> \in Seq(PackedFact) /\ <<>> \in Seq(Labels)
  BY EmptySeq, Zenon
<1>4. y \in RequestType /\ y.step = "done" /\ y.result = result
  BY <1>1, <1>2, <1>3, Zenon DEF Ended, RequestType
<1>5. y.step \notin {"retrieving", "generating", "checking"}
  BY <1>4, Zenon
<1>6. RequestOK(y, p)
  BY <1>4, <1>5, Zenon DEF RequestOK
<1> QED BY <1>1, <1>4, <1>6, Zenon

LEMMA AnswersInitOK == AnswersInit => AnswersInv
<1> SUFFICES ASSUME AnswersInit PROVE AnswersInv
  BY Zenon
<1>1. <<>> \in Seq(Searchable)
  OBVIOUS
<1>2. AnswersTypeOK
  BY <1>1, Zenon DEF AnswersInit, AnswersTypeOK
<1>3. \A r \in Requests : request[r] = NULL
  BY Zenon DEF AnswersInit
<1> QED BY <1>2, <1>3, Zenon DEF AnswersInv

LEMMA ChangeVisibleKeeps ==
    ASSUME AnswersInv, NEW u \in Askers, NEW v \in Searchable, ChangeVisible(u, v)
    PROVE  AnswersInv'
<1>1. visible \in [Askers -> SUBSET Searchable]
  BY Zenon DEF AnswersInv, AnswersTypeOK
<1>2. visible' \in [Askers -> SUBSET Searchable]
  BY <1>1, Zenon DEF ChangeVisible
<1>3. UNCHANGED <<request, prompted>>
  BY Zenon DEF ChangeVisible
<1> QED BY <1>2, <1>3, Zenon DEF AnswersInv, AnswersTypeOK

LEMMA AskKeeps ==
    ASSUME AnswersInv, NEW r \in Requests, NEW u \in Askers, NEW question, Ask(r, u, question)
    PROVE  AnswersInv'
<1>1. PICK x : x = [step |-> IF question = "usable" THEN "retrieving" ELSE "done", user |-> u,
                    facts |-> <<>>, reply |-> NULL, labels |-> <<>>, cited |-> <<>>, rejected |-> <<>>,
                    error |-> IF question = "usable" THEN NULL ELSE "ValidationFailed", result |-> NULL]
  BY Zenon
<1>2. NULL \in Replies /\ <<>> \in Seq(PackedFact) /\ <<>> \in Seq(Labels) /\ <<>> \in Seq(Searchable)
  BY DEF Replies
<1>3. x \in RequestType
  BY <1>1, <1>2, Zenon DEF RequestType
<1>4. x.step \in {"retrieving", "done"} /\ x.cited = <<>> /\ x.result = NULL
  BY <1>1, Zenon
<1>5. RequestOK(x, <<>>)
  BY <1>4, EmptySeq, Zenon DEF RequestOK
<1>6. /\ request' = [request EXCEPT ![r] = x] /\ prompted' = [prompted EXCEPT ![r] = <<>>]
      /\ visible' = visible
  BY <1>1, Zenon DEF Ask
<1> QED BY <1>2, <1>3, <1>5, <1>6, ProceedKeeps, Zenon

LEMMA RetrieveKeeps ==
    ASSUME AnswersInv, NEW r \in Requests, NEW results \in Retrievals(request[r].user),
           Retrieve(r, results)
    PROVE  AnswersInv'
<1>1. RequestAt(r, "retrieving")
  BY Zenon DEF Retrieve
<1>2. PICK x \in RequestType : x = request[r]
  BY <1>1, RequestParts, Zenon
<1>3. results \in Seq(Searchable)
  <2>1. visible[x.user] \subseteq Searchable
    BY RequestFields, Zenon DEF AnswersInv, AnswersTypeOK
  <2>2. PICK n \in 0 .. Limit : results \in [1 .. n -> visible[x.user]]
    BY <1>2, Zenon DEF Retrievals
  <2>3. results \in [1 .. n -> Searchable]
    BY <2>1, <2>2, Zenon
  <2>4. n \in Nat
    BY AnswersAssumption
  <2> QED BY <2>3, <2>4
<1>4. prompted' = [prompted EXCEPT ![r] = results] /\ visible' = visible
  BY <1>3, RenderedAsPacked, Zenon DEF Retrieve, Proceed
<1>5. Proceed(r, IF Len(results) = 0 THEN Ended(x, NULL, NoFacts)
                 ELSE [x EXCEPT !.step = "generating", !.facts = PackFacts(results)])
  BY <1>2, Zenon DEF Retrieve
<1>6. CASE Len(results) = 0
  <2>1. PICK a : a = NoFacts
    BY Zenon
  <2>2. /\ a \in AnswerType /\ a.status = "INSUFFICIENT_EVIDENCE" /\ a.citations = <<>>
    <3>1. <<>> \in Seq(PackedFact) /\ <<>> \in Seq(Labels)
      BY EmptySeq, Zenon
    <3> QED BY <2>1, <3>1, Zenon DEF NoFacts, AnswerType
  <2>3. Range(a.citations) \subseteq Range(PackFacts(results))
    BY <2>2, EmptySeq, Zenon
  <2>4. a.status # "ANSWERED" /\ a.status # "UNGROUNDED"
    BY <2>2, Zenon
  <2>5. Ended(x, NULL, a) \in RequestType /\ RequestOK(Ended(x, NULL, a), results)
    BY <2>2, <2>3, <2>4, EndedOK, Zenon
  <2>6. request' = [request EXCEPT ![r] = Ended(x, NULL, a)]
    BY <1>5, <1>6, <2>1, Zenon DEF Proceed
  <2> QED BY <1>3, <1>4, <2>5, <2>6, ProceedKeeps, Zenon
<1>7. CASE Len(results) # 0
  <2>1. PICK y : y = [x EXCEPT !.step = "generating", !.facts = PackFacts(results)]
    BY Zenon
  <2>2. PackFacts(results) \in Seq(PackedFact)
    BY <1>3, PackedFacts, Zenon
  <2>3. y \in RequestType
    BY <2>1, <2>2, Zenon DEF RequestType
  <2>4. y.step = "generating" /\ y.facts = PackFacts(results) /\ y.cited = x.cited /\ y.result = x.result
    BY <2>1, Zenon DEF RequestType
  <2>5. RequestOK(x, prompted[r]) /\ x.step = "retrieving"
    BY <1>1, <1>2, RequestParts, Zenon
  <2>6. Len(x.cited) = 0 /\ x.result = NULL
    BY <2>5, Zenon DEF RequestOK
  <2>7. RequestOK(y, results)
    BY <2>4, <2>6, Zenon DEF RequestOK
  <2>8. request' = [request EXCEPT ![r] = y]
    BY <1>5, <1>7, <2>1, Zenon DEF Proceed
  <2> QED BY <1>3, <1>4, <2>3, <2>7, <2>8, ProceedKeeps, Zenon
<1> QED BY <1>6, <1>7, Zenon

LEMMA GenerationFailsKeeps ==
    ASSUME AnswersInv, NEW r \in Requests, GenerationFails(r)
    PROVE  AnswersInv'
<1>1. PICK x \in RequestType : x = request[r]
  BY RequestParts, Zenon DEF GenerationFails
<1>2. PICK y : y = Ended(x, "AnswerGeneration", NULL)
  BY Zenon
<1>3. y \in RequestType /\ RequestOK(y, prompted[r])
  BY <1>2, EndedOK, Zenon
<1>4. Proceed(r, y) /\ UNCHANGED prompted
  BY <1>1, <1>2, Zenon DEF GenerationFails
<1> QED BY <1>3, <1>4, SamePrompt, Zenon

LEMMA ModelRepliesKeeps ==
    ASSUME AnswersInv, NEW r \in Requests, NEW reply \in Replies, ModelReplies(r, reply)
    PROVE  AnswersInv'
<1>1. RequestAt(r, "generating")
  BY Zenon DEF ModelReplies
<1>2. PICK x \in RequestType : x = request[r]
  BY <1>1, RequestParts, Zenon
<1>3. CASE reply = NULL
  <2>1. PICK y : y = Ended(x, "AnswerGeneration", NULL)
    BY Zenon
  <2>2. y \in RequestType /\ RequestOK(y, prompted[r])
    BY <2>1, EndedOK, Zenon
  <2>3. Proceed(r, y) /\ UNCHANGED prompted
    BY <1>2, <1>3, <2>1, Zenon DEF ModelReplies
  <2> QED BY <2>2, <2>3, SamePrompt, Zenon
<1>4. CASE reply # NULL
  <2>1. PICK y : y = [x EXCEPT !.step = "checking", !.reply = reply, !.labels = reply.cited]
    BY Zenon
  <2>2. reply.cited \in Seq(Labels)
    <3>1. PICK n \in 0 .. MaxCited : reply.cited \in [1 .. n -> Labels]
      BY <1>4, Zenon DEF Replies
    <3>2. n \in Nat
      BY AnswersAssumption
    <3> QED BY <3>1, <3>2
  <2>3. y \in RequestType
    BY <2>1, <2>2, Zenon DEF RequestType
  <2>4. /\ y.step = "checking" /\ y.reply = reply /\ y.facts = x.facts /\ y.cited = x.cited
        /\ y.result = x.result
    BY <2>1, Zenon DEF RequestType
  <2>5. RequestOK(x, prompted[r]) /\ x.step = "generating"
    BY <1>1, <1>2, RequestParts, Zenon
  <2>6. Len(x.cited) = 0 /\ x.result = NULL /\ x.facts = PackFacts(prompted[r])
    BY <2>5, Zenon DEF RequestOK
  <2>7. x.cited = <<>>
    BY <2>6, RequestFields
  <2>8. Range(x.cited) \subseteq Range(PackFacts(prompted[r])) /\ IsInjective(x.cited)
    BY <2>7, EmptySeq, Zenon
  <2>9. y.step \notin {"retrieving", "generating", "done"}
    BY <2>4, Zenon
  <2>10. RequestOK(y, prompted[r])
    BY <1>4, <2>4, <2>6, <2>8, <2>9, Zenon DEF RequestOK
  <2>11. Proceed(r, y) /\ UNCHANGED prompted
    BY <1>2, <1>4, <2>1, Zenon DEF ModelReplies
  <2> QED BY <2>3, <2>10, <2>11, SamePrompt, Zenon
<1> QED BY <1>3, <1>4, Zenon

\* A label is rejected, or it cites a fact of the prompt, once.
LEMMA CheckLabelKeeps ==
    ASSUME AnswersInv, NEW r \in Requests, CheckLabel(r)
    PROVE  AnswersInv'
<1>1. RequestAt(r, "checking")
  BY Zenon DEF CheckLabel
<1>2. PICK x \in RequestType : x = request[r]
  BY <1>1, RequestParts, Zenon
<1>3. RequestOK(x, prompted[r]) /\ x.step = "checking" /\ prompted[r] \in Seq(Searchable)
  BY <1>1, <1>2, RequestParts, Zenon
<1>4. PICK label, rest, found : label = Head(x.labels) /\ rest = Tail(x.labels)
                                /\ found = FactAt(x.facts, label)
  BY Zenon
<1>5. /\ Len(x.labels) > 0 /\ UNCHANGED prompted
      /\ \/ Proceed(r, [x EXCEPT !.labels = rest, !.rejected = Append(@, label)])
         \/ \E fact \in found :
               Proceed(r, [x EXCEPT !.labels = rest,
                                    !.cited = IF fact \in Range(@) THEN @ ELSE Append(@, fact)])
  BY <1>2, <1>4, Zenon DEF CheckLabel
<1>6. label \in Labels /\ rest \in Seq(Labels)
  <2>1. PICK labels \in Seq(Labels) : labels = x.labels
    BY RequestFields, Zenon
  <2>2. Len(labels) > 0 /\ label = Head(labels) /\ rest = Tail(labels)
    BY <1>4, <1>5, <2>1, Zenon
  <2> QED BY <2>2
<1>7. /\ x.facts = PackFacts(prompted[r]) /\ x.reply # NULL /\ x.result = NULL
      /\ Range(x.cited) \subseteq Range(PackFacts(prompted[r])) /\ IsInjective(x.cited)
  BY <1>3, Zenon DEF RequestOK
<1>8. ASSUME NEW y \in RequestType, y.step = "checking", y.facts = x.facts, y.reply = x.reply,
             y.result = x.result, IsInjective(y.cited),
             Range(y.cited) \subseteq Range(PackFacts(prompted[r]))
      PROVE  RequestOK(y, prompted[r])
  <2>1. y.step \notin {"retrieving", "generating", "done"}
    BY <1>8, Zenon
  <2> QED BY <1>7, <1>8, <2>1, Zenon DEF RequestOK
<1>9. CASE Proceed(r, [x EXCEPT !.labels = rest, !.rejected = Append(@, label)])
  <2>1. PICK y : y = [x EXCEPT !.labels = rest, !.rejected = Append(@, label)]
    BY Zenon
  <2>2. Append(x.rejected, label) \in Seq(Labels)
    BY <1>6, RequestFields
  <2>3. /\ y \in RequestType /\ y.step = x.step /\ y.facts = x.facts /\ y.reply = x.reply
        /\ y.result = x.result /\ y.cited = x.cited
    BY <1>6, <2>1, <2>2, Zenon DEF RequestType
  <2>4. RequestOK(y, prompted[r])
    BY <1>3, <1>7, <1>8, <2>3, Zenon
  <2> QED BY <1>5, <1>9, <2>1, <2>3, <2>4, SamePrompt, Zenon
<1>10. CASE \E fact \in found :
               Proceed(r, [x EXCEPT !.labels = rest,
                                    !.cited = IF fact \in Range(@) THEN @ ELSE Append(@, fact)])
  <2>1. PICK fact \in found :
               Proceed(r, [x EXCEPT !.labels = rest,
                                    !.cited = IF fact \in Range(@) THEN @ ELSE Append(@, fact)])
    BY <1>10, Zenon
  <2>2. fact \in Range(PackFacts(prompted[r]))
    BY <1>4, <1>7, Zenon DEF FactAt
  <2>3. fact \in PackedFact
    <3>1. PackFacts(prompted[r]) \in Seq(PackedFact)
      BY <1>3, PackedFacts, Zenon
    <3> QED BY <2>2, <3>1 DEF Range
  <2>4. PICK c : c = IF fact \in Range(x.cited) THEN x.cited ELSE Append(x.cited, fact)
    BY Zenon
  <2>5. /\ c \in Seq(PackedFact) /\ IsInjective(c)
        /\ Range(c) \subseteq Range(PackFacts(prompted[r]))
    <3>1. x.cited \in Seq(PackedFact)
      BY RequestFields, Zenon
    <3>2. CASE fact \in Range(x.cited)
      BY <1>7, <2>4, <3>1, <3>2, Zenon
    <3>3. CASE fact \notin Range(x.cited)
      <4>1. c = Append(x.cited, fact)
        BY <2>4, <3>3, Zenon
      <4>2. c \in Seq(PackedFact) /\ IsInjective(c) /\ Range(c) = Range(x.cited) \cup {fact}
        BY <1>7, <2>3, <3>1, <3>3, <4>1, CitedOnce, Zenon
      <4> QED BY <1>7, <2>2, <4>2, Zenon
    <3> QED BY <3>2, <3>3, Zenon
  <2>6. PICK y : y = [x EXCEPT !.labels = rest, !.cited = c]
    BY Zenon
  <2>7. Proceed(r, y)
    BY <2>1, <2>4, <2>6, Zenon
  <2>8. /\ y \in RequestType /\ y.step = x.step /\ y.facts = x.facts /\ y.reply = x.reply
        /\ y.result = x.result /\ y.cited = c
    BY <1>6, <2>5, <2>6, Zenon DEF RequestType
  <2>9. RequestOK(y, prompted[r])
    BY <1>3, <1>8, <2>5, <2>8, Zenon
  <2> QED BY <1>5, <2>7, <2>8, <2>9, SamePrompt, Zenon
<1> QED BY <1>5, <1>9, <1>10, Zenon

\* What the answer of a checked reply says.
LEMMA GroundedAnswerOK ==
    ASSUME NEW reply \in Replies, reply # NULL, NEW cited \in Seq(PackedFact), NEW rejected \in Seq(Labels),
           IsInjective(cited), NEW a, a = GroundedAnswer(reply, cited, rejected)
    PROVE  /\ a \in AnswerType
           /\ Range(a.citations) \subseteq Range(cited)
           /\ a.status = "ANSWERED" =>
                /\ a.answer # "" /\ Len(a.citations) > 0 /\ Len(a.rejected) = 0
                /\ IsInjective(a.citations)
           /\ a.status = "UNGROUNDED" => a.answer = NULL /\ Len(a.citations) = 0 /\ ~a.inferences
<1>1. PICK s : s = Status(reply, cited, rejected)
  BY Zenon
<1>2. /\ s \in {"ANSWERED", "INSUFFICIENT_EVIDENCE", "UNGROUNDED"}
      /\ s = "ANSWERED" => ~(Len(rejected) > 0) /\ Len(cited) # 0 /\ reply.answer # ""
  BY <1>1, Zenon DEF Status
<1>3. PICK m \in Nat, n \in Nat : m = Len(cited) /\ n = Len(rejected)
  OBVIOUS
<1>4. s = "ANSWERED" => Len(cited) > 0 /\ Len(rejected) = 0
  <2>1. m # 0 /\ ~(n > 0) => m > 0 /\ n = 0
    OBVIOUS
  <2> QED BY <1>2, <1>3, <2>1, Zenon
<1>5. reply.answer \in {"", "text"} /\ reply.inferences \in BOOLEAN
  BY Zenon DEF Replies
<1>6. PICK shows \in BOOLEAN : shows = (s = "ANSWERED" /\ reply.inferences)
  BY <1>5, Zenon
<1>7. PICK sound \in BOOLEAN : sound = (s # "UNGROUNDED")
  BY Zenon
<1>8. PICK t : t = IF s = "UNGROUNDED" THEN NULL ELSE reply.answer
  BY Zenon
<1>9. PICK c : c = IF s = "ANSWERED" THEN cited ELSE <<>>
  BY Zenon
<1>10. a = [status |-> s, answer |-> t, grounded |-> sound, citations |-> c,
            inferences |-> shows, rejected |-> rejected, generated |-> TRUE]
  BY <1>1, <1>6, <1>7, <1>8, <1>9, Zenon DEF GroundedAnswer
<1>11. <<>> \in Seq(PackedFact) /\ Len(<<>>) = 0 /\ Range(<<>>) = {}
  BY EmptySeq, Zenon
<1>12. t \in {NULL, "no facts", "", "text"} /\ c \in Seq(PackedFact) /\ TRUE \in BOOLEAN
  BY <1>5, <1>8, <1>9, <1>11, Zenon
<1>13. a \in AnswerType
  <2>1. PICK S, T : /\ S = {"ANSWERED", "INSUFFICIENT_EVIDENCE", "UNGROUNDED"}
                    /\ T = {NULL, "no facts", "", "text"}
    BY Zenon
  <2>2. s \in S /\ t \in T /\ c \in Seq(PackedFact) /\ TRUE \in BOOLEAN
    BY <1>2, <1>12, <2>1, Zenon
  <2>3. [status |-> s, answer |-> t, grounded |-> sound, citations |-> c,
         inferences |-> shows, rejected |-> rejected, generated |-> TRUE]
          \in [status : S, answer : T, grounded : BOOLEAN, citations : Seq(PackedFact),
               inferences : BOOLEAN, rejected : Seq(Labels), generated : BOOLEAN]
    BY <2>2, Zenon
  <2>4. a \in [status : S, answer : T, grounded : BOOLEAN, citations : Seq(PackedFact),
               inferences : BOOLEAN, rejected : Seq(Labels), generated : BOOLEAN]
    BY <1>10, <2>3, Zenon
  <2> QED BY <2>1, <2>4, Zenon DEF AnswerType
<1>14. a.status = s /\ a.answer = t /\ a.citations = c /\ a.rejected = rejected /\ a.inferences = shows
  BY <1>10
<1>15. CASE s = "ANSWERED"
  <2>1. s # "UNGROUNDED"
    BY <1>15, Zenon
  <2>2. c = cited /\ t = reply.answer
    BY <1>8, <1>9, <1>15, <2>1, Zenon
  <2> QED BY <1>2, <1>4, <1>13, <1>14, <1>15, <2>1, <2>2, Zenon
<1>16. CASE s # "ANSWERED"
  <2>1. c = <<>> /\ ~shows /\ (s = "UNGROUNDED" => t = NULL)
    BY <1>6, <1>8, <1>9, <1>16, Zenon
  <2> QED BY <1>11, <1>13, <1>14, <1>16, <2>1, Zenon
<1> QED BY <1>15, <1>16, Zenon

LEMMA ConcludeKeeps ==
    ASSUME AnswersInv, NEW r \in Requests, Conclude(r)
    PROVE  AnswersInv'
<1>1. RequestAt(r, "checking")
  BY Zenon DEF Conclude
<1>2. PICK x \in RequestType : x = request[r]
  BY <1>1, RequestParts, Zenon
<1>3. RequestOK(x, prompted[r]) /\ x.step = "checking"
  BY <1>1, <1>2, RequestParts, Zenon
<1>4. /\ x.reply # NULL /\ IsInjective(x.cited)
      /\ Range(x.cited) \subseteq Range(PackFacts(prompted[r]))
  BY <1>3, Zenon DEF RequestOK
<1>5. PICK reply \in Replies, cited \in Seq(PackedFact), rejected \in Seq(Labels) :
         reply = x.reply /\ cited = x.cited /\ rejected = x.rejected
  BY RequestFields, Zenon
<1>6. PICK a : a = GroundedAnswer(reply, cited, rejected)
  BY Zenon
<1>7. /\ a \in AnswerType
      /\ Range(a.citations) \subseteq Range(cited)
      /\ a.status = "ANSWERED" =>
           /\ a.answer # "" /\ Len(a.citations) > 0 /\ Len(a.rejected) = 0
           /\ IsInjective(a.citations)
      /\ a.status = "UNGROUNDED" => a.answer = NULL /\ Len(a.citations) = 0 /\ ~a.inferences
  BY <1>4, <1>5, <1>6, GroundedAnswerOK, ZenonT(40)
<1>8. Range(a.citations) \subseteq Range(PackFacts(prompted[r]))
  BY <1>4, <1>5, <1>7, Zenon
<1>9. Ended(x, NULL, a) \in RequestType /\ RequestOK(Ended(x, NULL, a), prompted[r])
  BY <1>7, <1>8, EndedOK, Zenon
<1>10. Proceed(r, Ended(x, NULL, a)) /\ UNCHANGED prompted
  BY <1>2, <1>5, <1>6, Zenon DEF Conclude
<1> QED BY <1>9, <1>10, SamePrompt, Zenon

\* Every step of a request keeps the invariant.
THEOREM AnswersInvariance == AnswersSpec => []AnswersInv
<1>1. AnswersInv /\ [AnswersNext]_answerVars => AnswersInv'
  <2> SUFFICES ASSUME AnswersInv, [AnswersNext]_answerVars PROVE AnswersInv'
    BY Zenon
  <2>1. CASE \E u \in Askers, v \in Searchable : ChangeVisible(u, v)
    BY <2>1, ChangeVisibleKeeps, Zenon
  <2>2. ASSUME NEW r \in Requests, \E u \in Askers, question \in Questions : Ask(r, u, question)
        PROVE  AnswersInv'
    BY <2>2, AskKeeps, Zenon
  <2>3. ASSUME NEW r \in Requests, \E results \in Retrievals(request[r].user) : Retrieve(r, results)
        PROVE  AnswersInv'
    BY <2>3, RetrieveKeeps, Zenon
  <2>4. ASSUME NEW r \in Requests, \E reply \in Replies : ModelReplies(r, reply)
        PROVE  AnswersInv'
    BY <2>4, ModelRepliesKeeps, Zenon
  <2>5. ASSUME NEW r \in Requests, GenerationFails(r) \/ CheckLabel(r) \/ Conclude(r)
        PROVE  AnswersInv'
    BY <2>5, GenerationFailsKeeps, CheckLabelKeeps, ConcludeKeeps, Zenon
  <2>6. CASE UNCHANGED answerVars
    BY <2>6, Zenon DEF answerVars, AnswersInv, AnswersTypeOK
  <2> QED BY <2>1, <2>2, <2>3, <2>4, <2>5, <2>6, Zenon DEF AnswersNext
<1> QED BY <1>1, AnswersInitOK, PTL DEF AnswersSpec

\* A citation of an answer names the version that its own request showed the
\* model under that label (pack_facts, check_answer), whatever other requests
\* do and whatever becomes visible or not while the model replies.
THEOREM CitationsAreShown == AnswersSpec => []CitesWhatWasShown
<1>1. AnswersInv => CitesWhatWasShown
  <2> SUFFICES ASSUME AnswersInv, NEW r \in Requests, request[r] # NULL, request[r].result # NULL,
                      NEW c \in Range(request[r].result.citations)
               PROVE  c.label.upper /\ c.label.n \in DOMAIN prompted[r] /\ c.version = prompted[r][c.label.n]
    BY Zenon DEF CitesWhatWasShown, HasAnswer
  <2>1. RequestOK(request[r], prompted[r]) /\ prompted[r] \in Seq(Searchable)
    BY Zenon DEF AnswersInv, AnswersTypeOK
  <2>2. c \in Range(PackFacts(prompted[r]))
    BY <2>1, Zenon DEF RequestOK
  <2> QED BY <2>1, <2>2, PackedFacts, Zenon
<1> QED BY <1>1, AnswersInvariance, PTL

\* An answer that is given rests on citations that were all verified, each
\* once; one that is withheld shows neither text, nor citations, nor
\* inferences (check_answer and the end of _answer).
THEOREM AnswersAreGrounded == AnswersSpec => []AnswersRestOnEvidence
<1>1. AnswersInv => AnswersRestOnEvidence
  <2> SUFFICES ASSUME AnswersInv, NEW r \in Requests, request[r] # NULL, request[r].result # NULL
               PROVE  LET a == request[r].result
                      IN /\ a.status = "ANSWERED" =>
                              /\ a.answer # "" /\ Len(a.citations) > 0 /\ Len(a.rejected) = 0
                              /\ IsInjective(a.citations)
                         /\ a.status = "UNGROUNDED" =>
                              a.answer = NULL /\ Len(a.citations) = 0 /\ ~a.inferences
    BY Zenon DEF AnswersRestOnEvidence, HasAnswer
  <2>1. RequestOK(request[r], prompted[r])
    BY Zenon DEF AnswersInv
  <2> QED BY <2>1, Zenon DEF RequestOK
<1> QED BY <1>1, AnswersInvariance, PTL

-----------------------------------------------------------------------------
(* Investigations.                                                         *)

\* The limits of a run are numbers, and a run is not NULL.
LEMMA RunLimits ==
    /\ MaxSteps \in Nat /\ MaxToolCalls \in Nat /\ MaxCalls \in Nat
    /\ NULL \notin RunType /\ NULL \notin Finals
BY InvestigationsAssumption, Zenon

\* The fields of a run.
LEMMA RunFields ==
    ASSUME NEW x \in RunType
    PROVE  /\ x.user \in Investigators /\ x.status \in RunStatuses /\ x.steps \in Nat /\ x.made \in Nat
           /\ x.pending \in Seq(Nat \X Nat) /\ x.unanswered \subseteq Nat \X Nat
           /\ x.records \in Seq(BOOLEAN) /\ x.observed \subseteq Ids
BY Zenon DEF RunType

\* The run of a step, and what is known of it.
LEMMA RunParts ==
    ASSUME InvestigationsInv, NEW r \in Runs, run[r] # NULL
    PROVE  run[r] \in RunType /\ RunOK(run[r], shown[r]) /\ shown[r] \subseteq Ids
BY Zenon DEF InvestigationsInv, InvestigationsTypeOK

\* Tools return ids of the organization.
LEMMA ResultsAreIds == \A ids \in Results : ids \subseteq Ids
<1> SUFFICES ASSUME NEW ids \in Results PROVE ids \subseteq Ids
  BY Zenon
<1>1. /\ \A d \in Decisions : Receipt[d] \subseteq FactVersions
      /\ \A v \in FactVersions : Chain[v] \subseteq FactVersions
  BY InvestigationsAssumption, Zenon
<1>2. CASE ids \in {{d} \cup Receipt[d] : d \in Decisions}
  BY <1>1, <1>2, Zenon DEF Ids
<1>3. CASE ids \in {Chain[v] : v \in FactVersions}
  BY <1>1, <1>3, Zenon DEF Ids
<1>4. CASE ids \in {{d \in Decisions : v \in Receipt[d]} : v \in FactVersions}
  BY <1>4, Zenon DEF Ids
<1>5. CASE ids \in SUBSET FactVersions
  BY <1>5, Zenon DEF Ids
<1> QED BY <1>2, <1>3, <1>4, <1>5, Zenon DEF Results

\* A run that has not ended goes on as x, which has seen s.
LEMMA RunGoesOn ==
    ASSUME InvestigationsInv, NEW r \in Runs, run[r] # NULL => run[r].at # "ended",
           NEW x \in RunType, NEW s \in SUBSET Ids,
           run' = [run EXCEPT ![r] = x], shown' = [shown EXCEPT ![r] = s],
           UNCHANGED <<members, stored, reads>>, RunOK(x, s)
    PROVE  InvestigationsInv'
<1>1. /\ run \in [Runs -> {NULL} \cup RunType] /\ shown \in [Runs -> SUBSET Ids]
  BY Zenon DEF InvestigationsInv, InvestigationsTypeOK
<1>2. InvestigationsTypeOK'
  BY <1>1, Zenon DEF InvestigationsInv, InvestigationsTypeOK
<1>3. ASSUME NEW q \in Runs
      PROVE  IF run'[q] = NULL THEN shown'[q] = {} ELSE RunOK(run'[q], shown'[q])
  <2>1. CASE q = r
    <3>1. run'[q] = x /\ shown'[q] = s /\ x # NULL
      BY <1>1, <2>1, RunLimits, Zenon
    <3> QED BY <3>1, Zenon
  <2>2. CASE q # r
    <3>1. run'[q] = run[q] /\ shown'[q] = shown[q]
      BY <1>1, <2>2, Zenon
    <3> QED BY <1>3, <3>1, Zenon DEF InvestigationsInv
  <2> QED BY <2>1, <2>2, Zenon
<1>4. ASSUME NEW q \in Runs, RunAt(q, "ended") PROVE run'[q] = run[q] /\ RunAt(q, "ended")'
  <2>1. q # r
    BY <1>4, Zenon DEF RunAt
  <2>2. run'[q] = run[q]
    BY <1>1, <2>1, Zenon
  <2> QED BY <1>4, <2>2, Zenon DEF RunAt
<1>5. ASSUME NEW q \in Runs, stored'[q] # NULL
      PROVE  RunAt(q, "ended")' /\ stored'[q] = Row(run'[q])
  <2>1. stored'[q] = stored[q] /\ RunAt(q, "ended") /\ stored[q] = Row(run[q])
    BY <1>5, Zenon DEF InvestigationsInv
  <2> QED BY <1>4, <2>1, Zenon
<1>6. ASSUME NEW u \in Investigators, reads'[u] # NULL
      PROVE  (/\ reads[u].run \in Runs /\ RunAt(reads[u].run, "ended")
              /\ run[reads[u].run].user = u /\ reads[u].row = Row(run[reads[u].run]))'
  <2>1. PICK q \in Runs : q = reads[u].run
    BY <1>6, Zenon DEF InvestigationsInv
  <2>2. RunAt(q, "ended") /\ run[q].user = u /\ reads[u].row = Row(run[q])
    BY <1>6, <2>1, Zenon DEF InvestigationsInv
  <2>3. run'[q] = run[q] /\ RunAt(q, "ended")'
    BY <1>4, <2>2, Zenon
  <2>4. reads'[u] = reads[u]
    BY Zenon
  <2>5. reads'[u].run = q
    BY <2>1, <2>4, Zenon
  <2>6. RunAt(reads[u].run, "ended")'
    BY <2>3, <2>5, Zenon DEF RunAt
  <2> QED BY <2>1, <2>2, <2>3, <2>4, <2>5, <2>6, Zenon
<1> QED BY <1>2, <1>3, <1>5, <1>6, Zenon DEF InvestigationsInv

\* A run that goes on as x without showing the model anything.
LEMMA SameShown ==
    ASSUME InvestigationsInv, NEW r \in Runs, run[r] # NULL => run[r].at # "ended", NEW x \in RunType,
           run' = [run EXCEPT ![r] = x], UNCHANGED <<members, stored, reads, shown>>,
           RunOK(x, shown[r])
    PROVE  InvestigationsInv'
<1>1. shown \in [Runs -> SUBSET Ids]
  BY Zenon DEF InvestigationsInv, InvestigationsTypeOK
<1>2. PICK s \in SUBSET Ids : s = shown[r]
  BY <1>1, Zenon
<1>3. shown' = [shown EXCEPT ![r] = s]
  BY <1>1, <1>2, Zenon
<1> QED BY <1>2, <1>3, RunGoesOn, Zenon

-----------------------------------------------------------------------------
(* The actions.                                                            *)

LEMMA InvestigationsInitOK == InvestigationsInit => InvestigationsInv
<1> SUFFICES ASSUME InvestigationsInit PROVE InvestigationsInv
  BY Zenon
<1>1. InvestigationsTypeOK
  BY Zenon DEF InvestigationsInit, InvestigationsTypeOK
<1>2. /\ \A r \in Runs : run[r] = NULL /\ stored[r] = NULL /\ shown[r] = {}
      /\ \A u \in Investigators : reads[u] = NULL
  BY Zenon DEF InvestigationsInit
<1> QED BY <1>1, <1>2, Zenon DEF InvestigationsInv

LEMMA ChangeMemberKeeps ==
    ASSUME InvestigationsInv, NEW u \in Investigators, ChangeMember(u)
    PROVE  InvestigationsInv'
<1>1. members' \subseteq Investigators
  BY Zenon DEF ChangeMember, InvestigationsInv, InvestigationsTypeOK
<1>2. UNCHANGED <<run, stored, reads, shown>>
  BY Zenon DEF ChangeMember
<1> QED BY <1>1, <1>2, Zenon DEF InvestigationsInv, InvestigationsTypeOK, RunAt

LEMMA InvestigateKeeps ==
    ASSUME InvestigationsInv, NEW r \in Runs, NEW u \in Investigators, Investigate(r, u)
    PROVE  InvestigationsInv'
<1>1. PICK x : x = Investigation(u)
  BY Zenon
<1>2. 0 \in Nat /\ <<>> \in Seq(Nat \X Nat) /\ <<>> \in Seq(BOOLEAN) /\ Len(<<>>) = 0
  OBVIOUS
<1>3. /\ "STEP_LIMIT" \in RunStatuses /\ "STEP_LIMIT" \notin {"ANSWERED", "INSUFFICIENT_EVIDENCE"}
      /\ "STEP_LIMIT" # "ANSWERED"
  BY Zenon DEF RunStatuses
<1>4. x \in RunType
  BY <1>1, <1>2, <1>3, Zenon DEF Investigation, RunType
<1>5. /\ x.at = "model" /\ x.status = "STEP_LIMIT" /\ x.answer = NULL /\ x.steps = 0 /\ x.made = 0
      /\ x.records = <<>> /\ x.unanswered = {} /\ x.observed = {}
  BY <1>1, Zenon DEF Investigation
<1>6. BudgetOK(x) /\ x.at # "tools"
  BY <1>2, <1>5, RunLimits DEF BudgetOK
<1>7. RunOK(x, {})
  BY <1>3, <1>5, <1>6, Zenon DEF RunOK, VerdictOK, CallsOK
<1>8. run[r] = NULL /\ shown[r] = {}
  BY Zenon DEF InvestigationsInv, Investigate
<1>9. run' = [run EXCEPT ![r] = x] /\ UNCHANGED <<members, stored, reads, shown>>
  BY <1>1, Zenon DEF Investigate
<1> QED BY <1>4, <1>7, <1>8, <1>9, SameShown, Zenon

\* A run that has asked the model once more, and goes on as x.
LEMMA AskedKeeps ==
    ASSUME InvestigationsInv, NEW r \in Runs, NEW x \in RunType, Asked(r, x),
           x.records = run[r].records, x.made = run[r].made, x.observed = run[r].observed,
           VerdictOK(x), CallsOK(x)
    PROVE  InvestigationsInv'
<1>1. /\ run[r] # NULL /\ run[r].at = "model" /\ run[r].steps < MaxSteps
      /\ run' = [run EXCEPT ![r] = [x EXCEPT !.steps = run[r].steps + 1]]
      /\ UNCHANGED <<members, stored, reads, shown>>
  BY Zenon DEF Asked, RunAt
<1>2. run[r] \in RunType /\ RunOK(run[r], shown[r])
  BY <1>1, RunParts, Zenon
<1>3. PICK k \in Nat : k = run[r].steps
  BY <1>2, RunFields, Zenon
<1>4. k + 1 \in Nat /\ k + 1 <= MaxSteps
  BY <1>1, <1>3, RunLimits
<1>5. PICK y : y = [x EXCEPT !.steps = k + 1]
  BY Zenon
<1>6. /\ y \in RunType /\ y.steps = k + 1 /\ y.at = x.at /\ y.records = x.records /\ y.made = x.made
      /\ y.observed = x.observed /\ y.answer = x.answer /\ y.status = x.status /\ y.cited = x.cited
      /\ y.pending = x.pending /\ y.unanswered = x.unanswered
  BY <1>4, <1>5, Zenon DEF RunType
<1>7. BudgetOK(y) /\ y.observed = shown[r]
  BY <1>2, <1>4, <1>6, Zenon DEF RunOK, BudgetOK
<1>8. VerdictOK(y) /\ CallsOK(y)
  BY <1>6, Zenon DEF VerdictOK, CallsOK
<1>9. run' = [run EXCEPT ![r] = y] /\ RunOK(y, shown[r]) /\ run[r].at # "ended"
  <2>1. run[r].at # "ended"
    BY <1>1, Zenon
  <2> QED BY <1>1, <1>3, <1>5, <1>7, <1>8, <2>1, Zenon DEF RunOK
<1> QED BY <1>1, <1>6, <1>9, SameShown, Zenon

LEMMA ModelFailsKeeps ==
    ASSUME InvestigationsInv, NEW r \in Runs, ModelFails(r)
    PROVE  InvestigationsInv'
<1>1. run[r] # NULL
  BY Zenon DEF ModelFails, Asked, RunAt
<1>2. PICK x \in RunType : x = run[r]
  BY <1>1, RunParts, Zenon
<1>3. PICK y : y = [x EXCEPT !.at = "saving", !.status = "FAILED", !.answer = NULL]
  BY Zenon
<1>4. "FAILED" \in RunStatuses
  BY Zenon DEF RunStatuses
<1>5. /\ y \in RunType /\ y.at = "saving" /\ y.status = "FAILED" /\ y.answer = NULL
      /\ y.records = x.records /\ y.made = x.made /\ y.observed = x.observed
  BY <1>3, <1>4, Zenon DEF RunType
<1>6. /\ y.at \notin {"model", "tools"} /\ y.status \notin {"ANSWERED", "INSUFFICIENT_EVIDENCE"}
  BY <1>5, Zenon
<1>7. VerdictOK(y) /\ CallsOK(y)
  BY <1>5, <1>6, Zenon DEF VerdictOK, CallsOK
<1>8. Asked(r, y)
  BY <1>2, <1>3, Zenon DEF ModelFails
<1> QED BY <1>2, <1>5, <1>7, <1>8, AskedKeeps, Zenon

\* The calls of a reply are all different, and all of them wait.
LEMMA ReplyKeeps ==
    ASSUME InvestigationsInv, NEW r \in Runs, NEW n \in 1 .. MaxCalls, Reply(r, n)
    PROVE  InvestigationsInv'
<1>1. run[r] # NULL /\ run[r].at = "model"
  BY Zenon DEF Reply, Asked, RunAt
<1>2. PICK x \in RunType : x = run[r]
  BY <1>1, RunParts, Zenon
<1>3. VerdictOK(x) /\ x.unanswered = {}
  BY <1>1, <1>2, RunParts, Zenon DEF RunOK, CallsOK
<1>4. PICK k \in Nat : k = x.steps + 1
  BY RunFields
<1>5. PICK calls : calls = [i \in 1 .. n |-> <<k, i>>]
  BY Zenon
<1>6. n \in Nat /\ n > 0
  BY RunLimits
<1>7. /\ calls \in Seq(Nat \X Nat) /\ Len(calls) = n /\ DOMAIN calls = 1 .. n
      /\ \A i \in 1 .. n : calls[i] = <<k, i>> /\ i \in Nat
  BY <1>5, <1>6
<1>8. IsInjective(calls)
  <2>1. ASSUME NEW a \in 1 .. n, NEW b \in 1 .. n, calls[a] = calls[b] PROVE a = b
    <3>1. <<k, a>> = <<k, b>>
      BY <1>7, <2>1, Zenon
    <3> QED BY <3>1, Zenon
  <2> QED BY <1>7, <2>1, Zenon DEF IsInjective
<1>9. Range(calls) \subseteq Nat \X Nat
  BY <1>7 DEF Range
<1>10. PICK y : y = [x EXCEPT !.at = "tools", !.pending = calls, !.unanswered = @ \cup Range(calls)]
  BY Zenon
<1>11. x.unanswered \cup Range(calls) = Range(calls)
  BY <1>3, Zenon
<1>12. /\ y \in RunType /\ y.at = "tools" /\ y.pending = calls /\ y.unanswered = Range(calls)
       /\ y.records = x.records /\ y.made = x.made /\ y.observed = x.observed
       /\ y.answer = x.answer /\ y.status = x.status /\ y.cited = x.cited
  BY <1>7, <1>9, <1>10, <1>11, Zenon DEF RunType
<1>13. y.at # "model" /\ Len(y.pending) > 0
  BY <1>6, <1>7, <1>12, Zenon
<1>14. VerdictOK(y) /\ CallsOK(y)
  <2>1. x.at \in {"model", "tools"}
    BY <1>1, <1>2, Zenon
  <2>2. VerdictOK(y)
    BY <1>3, <1>12, <2>1, Zenon DEF VerdictOK
  <2> QED BY <1>8, <1>12, <1>13, <2>2, Zenon DEF CallsOK
<1>15. Asked(r, y)
  BY <1>2, <1>4, <1>5, <1>10, Zenon DEF Reply
<1> QED BY <1>2, <1>12, <1>14, <1>15, AskedKeeps, Zenon

\* _finish keeps an answer only if all its citations are in the ledger.
LEMMA FinishKeeps ==
    ASSUME InvestigationsInv, NEW r \in Runs, NEW final \in Finals, Finish(r, final)
    PROVE  InvestigationsInv'
<1>1. run[r] # NULL
  BY Zenon DEF Finish, Asked, RunAt
<1>2. PICK x \in RunType : x = run[r]
  BY <1>1, RunParts, Zenon
<1>3. PICK cited, rejected : cited = final.cited \cap x.observed /\ rejected = final.cited \ x.observed
  BY Zenon
<1>4. PICK status : status = IF ~final.parses THEN "FAILED"
          ELSE IF rejected # {} \/ (~final.insufficient /\ cited = {}) THEN "UNGROUNDED"
          ELSE IF final.insufficient THEN "INSUFFICIENT_EVIDENCE" ELSE "ANSWERED"
  BY Zenon
<1>5. PICK kept, lost : /\ kept = IF final.parses THEN cited ELSE {}
                        /\ lost = IF final.parses THEN rejected ELSE {}
  BY Zenon
<1>6. PICK answer : answer = IF status \in {"FAILED", "UNGROUNDED"} THEN NULL ELSE final
  BY Zenon
<1>7. PICK y : y = [x EXCEPT !.at = "saving", !.status = status, !.cited = kept, !.rejected = lost,
                             !.answer = answer]
  BY Zenon
<1>8. Asked(r, y)
  BY <1>2, <1>3, <1>4, <1>5, <1>6, <1>7, Zenon DEF Finish
<1>9. final.cited \subseteq Ids \cup {Invented} /\ final # NULL
  BY RunLimits, Zenon DEF Finals
<1>10. /\ status \in RunStatuses
       /\ status \in {"FAILED", "UNGROUNDED", "INSUFFICIENT_EVIDENCE", "ANSWERED"}
  BY <1>4, Zenon DEF RunStatuses
<1>11. answer \in {NULL} \cup Finals /\ kept \subseteq Ids \cup {Invented} /\ lost \subseteq Ids \cup {Invented}
  BY <1>3, <1>5, <1>6, <1>9, Zenon
<1>12. /\ y \in RunType /\ y.at = "saving" /\ y.status = status /\ y.cited = kept /\ y.answer = answer
       /\ y.records = x.records /\ y.made = x.made /\ y.observed = x.observed
  BY <1>7, <1>10, <1>11, Zenon DEF RunType
<1>13. /\ "saving" \notin {"model", "tools"} /\ "saving" # "model" /\ "saving" # "tools"
       /\ status \in {"FAILED", "UNGROUNDED"} <=> status \notin {"ANSWERED", "INSUFFICIENT_EVIDENCE"}
  BY <1>10, Zenon
<1>14. status \notin {"FAILED", "UNGROUNDED"} => final.parses /\ rejected = {}
  BY <1>4, Zenon
<1>15. status = "ANSWERED" => final.parses /\ cited # {}
  BY <1>4, Zenon
<1>16. rejected = {} => cited = final.cited /\ cited \subseteq x.observed
  BY <1>3, Zenon
<1>17. VerdictOK(y)
  <2>1. y.answer # NULL <=> y.status \in {"ANSWERED", "INSUFFICIENT_EVIDENCE"}
    BY <1>6, <1>9, <1>12, <1>13, Zenon
  <2>2. ASSUME y.answer # NULL PROVE y.answer.cited = y.cited /\ y.cited \subseteq y.observed
    <3>1. status \notin {"FAILED", "UNGROUNDED"} /\ answer = final
      BY <1>6, <1>12, <2>2, Zenon
    <3>2. kept = cited /\ cited = final.cited /\ cited \subseteq x.observed
      BY <1>5, <1>14, <1>16, <3>1, Zenon
    <3> QED BY <1>12, <3>1, <3>2, Zenon
  <2>3. y.status = "ANSWERED" => y.cited # {}
    BY <1>5, <1>12, <1>15, Zenon
  <2> QED BY <1>12, <1>13, <2>1, <2>2, <2>3, Zenon DEF VerdictOK
<1>18. CallsOK(y)
  BY <1>12, <1>13, Zenon DEF CallsOK
<1> QED BY <1>2, <1>8, <1>12, <1>17, <1>18, AskedKeeps, Zenon

LEMMA OutOfStepsKeeps ==
    ASSUME InvestigationsInv, NEW r \in Runs, OutOfSteps(r)
    PROVE  InvestigationsInv'
<1>1. run[r] # NULL /\ run[r].at = "model"
  BY Zenon DEF OutOfSteps, RunAt
<1>2. PICK x \in RunType : x = run[r]
  BY <1>1, RunParts, Zenon
<1>3. RunOK(x, shown[r])
  BY <1>1, <1>2, RunParts, Zenon
<1>4. PICK y : y = [x EXCEPT !.at = "saving"]
  BY Zenon
<1>5. /\ y \in RunType /\ y.at = "saving" /\ y.status = x.status /\ y.cited = x.cited /\ y.answer = x.answer
      /\ y.records = x.records /\ y.made = x.made /\ y.observed = x.observed /\ y.steps = x.steps
  BY <1>4, Zenon DEF RunType
<1>6. y.at \notin {"model", "tools"} /\ y.at # "model" /\ y.at # "tools" /\ run[r].at # "ended"
  BY <1>1, <1>5, Zenon
<1>7. RunOK(y, shown[r])
  BY <1>3, <1>5, <1>6, Zenon DEF RunOK, VerdictOK, BudgetOK, CallsOK
<1>8. run' = [run EXCEPT ![r] = y] /\ UNCHANGED <<members, stored, reads, shown>>
  BY <1>2, <1>4, Zenon DEF OutOfSteps
<1> QED BY <1>5, <1>6, <1>7, <1>8, SameShown, Zenon

\* The rest of the calls that wait, when the first one is answered.
LEMMA TailOfCalls ==
    ASSUME NEW q \in Seq(Nat \X Nat), Len(q) > 0, IsInjective(q)
    PROVE  /\ Tail(q) \in Seq(Nat \X Nat) /\ Len(Tail(q)) = Len(q) - 1
           /\ IsInjective(Tail(q)) /\ Range(Tail(q)) = Range(q) \ {Head(q)}
<1>1. /\ Tail(q) \in Seq(Nat \X Nat) /\ Len(Tail(q)) = Len(q) - 1 /\ Head(q) = q[1]
      /\ \A i \in 1 .. Len(q) - 1 : Tail(q)[i] = q[i + 1]
  OBVIOUS
<1>2. PICK k \in Nat : k = Len(q)
  OBVIOUS
<1>3. DOMAIN q = 1 .. k /\ DOMAIN Tail(q) = 1 .. k - 1
  BY <1>1, <1>2
<1>4. \A a, b \in 1 .. k : q[a] = q[b] => a = b
  BY <1>3, Zenon DEF IsInjective
<1>5. IsInjective(Tail(q))
  <2>1. ASSUME NEW a \in 1 .. k - 1, NEW b \in 1 .. k - 1, Tail(q)[a] = Tail(q)[b] PROVE a = b
    <3>1. a + 1 \in 1 .. k /\ b + 1 \in 1 .. k /\ q[a + 1] = q[b + 1]
      BY <1>1, <1>2, <2>1
    <3>2. a + 1 = b + 1
      BY <1>4, <3>1, Zenon
    <3> QED BY <3>2
  <2> QED BY <1>3, <2>1, Zenon DEF IsInjective
<1>6. ASSUME NEW c \in Range(Tail(q)) PROVE c \in Range(q) /\ c # Head(q)
  <2>1. PICK a \in 1 .. k - 1 : c = Tail(q)[a]
    BY <1>3, <1>6, Zenon DEF Range
  <2>2. a + 1 \in 1 .. k /\ 1 \in 1 .. k /\ a + 1 # 1 /\ c = q[a + 1]
    BY <1>1, <1>2, <2>1
  <2> QED BY <1>1, <1>3, <1>4, <2>2, Zenon DEF Range
<1>7. ASSUME NEW c \in Range(q), c # Head(q) PROVE c \in Range(Tail(q))
  <2>1. PICK a \in 1 .. k : c = q[a]
    BY <1>3, <1>7, Zenon DEF Range
  <2>2. a # 1
    BY <1>1, <1>7, <2>1, Zenon
  <2>3. PICK b \in 1 .. k - 1 : a = b + 1
    <3>1. a - 1 \in 1 .. k - 1 /\ a = (a - 1) + 1
      BY <2>2
    <3> QED BY <3>1, Zenon
  <2>4. c = Tail(q)[b]
    BY <1>1, <1>2, <2>1, <2>3, Zenon
  <2> QED BY <1>3, <2>4, Zenon DEF Range
<1> QED BY <1>1, <1>5, <1>6, <1>7, Zenon

\* Every answer to a tool call counts, and takes its call off those that wait.
LEMMA CallAnsweredKeeps ==
    ASSUME InvestigationsInv, NEW r \in Runs, NEW records \in Seq(BOOLEAN), NEW ids \in SUBSET Ids,
           CallAnswered(r, records, ids),
           Len(records) <= MaxToolCalls,
           Len(records) <= run[r].made \/ (Len(records) <= run[r].made + 1 /\ run[r].made < MaxToolCalls)
    PROVE  InvestigationsInv'
<1>1. run[r] # NULL /\ run[r].at = "tools"
  BY Zenon DEF CallAnswered, RunAt
<1>2. PICK x \in RunType : x = run[r]
  BY <1>1, RunParts, Zenon
<1>3. x.observed = shown[r] /\ VerdictOK(x) /\ BudgetOK(x) /\ CallsOK(x) /\ shown[r] \in SUBSET Ids
  BY <1>1, <1>2, RunParts, Zenon DEF RunOK
<1>4. PICK q \in Seq(Nat \X Nat) : q = x.pending
  BY RunFields, Zenon
<1>5. Len(q) > 0 /\ IsInjective(q) /\ x.unanswered = Range(q)
  BY <1>1, <1>2, <1>3, <1>4, Zenon DEF CallsOK
<1>6. PICK made \in Nat : made = x.made
  BY RunFields, Zenon
<1>7. PICK count \in Nat : count = IF made > MaxToolCalls THEN made ELSE made + 1
  OBVIOUS
<1>8. Len(records) <= count
  BY <1>2, <1>6, <1>7, RunLimits
<1>9. PICK rest \in Seq(Nat \X Nat) : rest = Tail(q)
  BY <1>5, TailOfCalls, Zenon
<1>10. /\ Len(rest) = Len(q) - 1 /\ IsInjective(rest)
       /\ Range(rest) = Range(q) \ {Head(q)} /\ Range(rest) \subseteq Nat \X Nat
  <2>1. Range(rest) = Range(q) \ {Head(q)} /\ Len(rest) = Len(q) - 1 /\ IsInjective(rest)
    BY <1>5, <1>9, TailOfCalls, Zenon
  <2> QED BY <1>5, <2>1, RunFields, Zenon
<1>11. PICK at \in {"model", "tools"} : at = IF Len(q) = 1 THEN "model" ELSE "tools"
  BY Zenon
<1>12. PICK s \in SUBSET Ids : s = x.observed \cup ids
  BY <1>3, Zenon
<1>13. PICK y : y = [x EXCEPT !.made = count, !.pending = rest, !.unanswered = Range(rest),
                              !.records = records, !.observed = s, !.at = at]
  BY Zenon
<1>14. /\ y \in RunType /\ y.made = count /\ y.pending = rest /\ y.unanswered = Range(rest)
       /\ y.records = records /\ y.observed = s /\ y.at = at
       /\ y.steps = x.steps /\ y.answer = x.answer /\ y.status = x.status /\ y.cited = x.cited
  <2>1. at \in {"model", "tools", "saving", "raised", "ended"}
    BY <1>11, Zenon
  <2> QED BY <1>10, <1>13, <2>1, Zenon DEF RunType
<1>15. run' = [run EXCEPT ![r] = y] /\ shown' = [shown EXCEPT ![r] = s] /\ UNCHANGED <<members, stored, reads>>
  BY <1>2, <1>3, <1>4, <1>5, <1>6, <1>7, <1>9, <1>10, <1>11, <1>12, <1>13, Zenon DEF CallAnswered
<1>16. BudgetOK(y)
  BY <1>3, <1>8, <1>14, Zenon DEF BudgetOK
<1>17. VerdictOK(y)
  <2>1. x.at \in {"model", "tools"} /\ x.status \notin {"ANSWERED", "INSUFFICIENT_EVIDENCE"}
    <3>1. x.at \in {"model", "tools"} /\ x.status = "STEP_LIMIT"
      BY <1>1, <1>2, <1>3, Zenon DEF VerdictOK
    <3> QED BY <3>1, Zenon
  <2> QED BY <1>3, <1>14, <2>1, Zenon DEF VerdictOK
<1>18. CallsOK(y)
  <2>1. CASE Len(q) = 1
    <3>1. PICK h : h = Head(q) /\ Range(q) \subseteq {h}
      <4>1. DOMAIN q = 1 .. 1 /\ Head(q) = q[1]
        BY <2>1
      <4>2. \A i \in 1 .. 1 : i = 1
        OBVIOUS
      <4> QED BY <4>1, <4>2, Zenon DEF Range
    <3>2. y.at = "model" /\ y.unanswered = {}
      BY <1>10, <1>11, <1>14, <2>1, <3>1, Zenon
    <3>3. y.at # "tools"
      BY <3>2, Zenon
    <3> QED BY <3>2, <3>3, Zenon DEF CallsOK
  <2>2. CASE Len(q) # 1
    <3>1. y.at = "tools" /\ y.at # "model" /\ Len(rest) > 0
      BY <1>5, <1>10, <1>11, <1>14, <2>2
    <3> QED BY <1>10, <1>14, <3>1, Zenon DEF CallsOK
  <2> QED BY <2>1, <2>2, Zenon
<1>19. RunOK(y, s) /\ run[r].at # "ended"
  <2>1. run[r].at # "ended"
    BY <1>1, Zenon
  <2> QED BY <1>14, <1>16, <1>17, <1>18, <2>1, Zenon DEF RunOK
<1> QED BY <1>14, <1>15, <1>19, RunGoesOn, Zenon

LEMMA OneMore ==
    ASSUME NEW S, NEW q \in Seq(S), NEW e \in S
    PROVE  Append(q, e) \in Seq(S) /\ Len(Append(q, e)) = Len(q) + 1 /\ Len(q) \in Nat
OBVIOUS

LEMMA ToolCallsKeep ==
    ASSUME InvestigationsInv, NEW r \in Runs,
           OverBudget(r) \/ BadCall(r) \/ ToolRefused(r) \/ \E ids \in Results : ToolReturns(r, ids)
    PROVE  InvestigationsInv'
<1>1. run[r] # NULL
  BY Zenon DEF OverBudget, BadCall, ToolRefused, ToolReturns
<1>2. PICK x \in RunType : x = run[r]
  BY <1>1, RunParts, Zenon
<1>3. Len(x.records) <= x.made /\ Len(x.records) <= MaxToolCalls
  BY <1>1, <1>2, RunParts, Zenon DEF RunOK, BudgetOK
<1>4. x.records \in Seq(BOOLEAN) /\ x.made \in Nat
  BY RunFields, Zenon
<1>5. CASE OverBudget(r) \/ BadCall(r)
  <2>1. CallAnswered(r, x.records, {})
    BY <1>2, <1>5, Zenon DEF OverBudget, BadCall
  <2>2. {} \in SUBSET Ids
    BY Zenon
  <2>3. PICK none \in SUBSET Ids : none = {}
    BY <2>2, Zenon
  <2> QED BY <1>2, <1>3, <1>4, <2>1, <2>3, CallAnsweredKeeps, Zenon
<1>6. ASSUME NEW found \in BOOLEAN, NEW ids \in SUBSET Ids, x.made < MaxToolCalls,
             CallAnswered(r, Append(x.records, found), ids)
      PROVE  InvestigationsInv'
  <2>1. PICK records \in Seq(BOOLEAN) : /\ records = Append(x.records, found)
                                         /\ Len(records) = Len(x.records) + 1
                                         /\ Len(x.records) \in Nat
    BY <1>4, OneMore, Zenon
  <2>2. PICK k \in Nat : k = Len(x.records) /\ Len(records) = k + 1
    BY <2>1, Zenon
  <2>3. k + 1 <= x.made + 1 /\ k + 1 <= MaxToolCalls
    <3>1. PICK made \in Nat : made = x.made /\ made < MaxToolCalls /\ k <= made
      BY <1>3, <1>4, <1>6, <2>2, Zenon
    <3>2. k + 1 <= made + 1 /\ k + 1 <= MaxToolCalls
      BY <3>1, RunLimits
    <3> QED BY <3>1, <3>2, Zenon
  <2> QED BY <1>2, <1>6, <2>1, <2>2, <2>3, CallAnsweredKeeps, Zenon
<1>7. CASE ToolRefused(r)
  <2>1. PICK found \in BOOLEAN, none \in SUBSET Ids : found = FALSE /\ none = {}
    BY Zenon
  <2> QED BY <1>2, <1>6, <1>7, <2>1, Zenon DEF ToolRefused
<1>8. ASSUME NEW ids \in Results, ToolReturns(r, ids) PROVE InvestigationsInv'
  <2>1. ids \in SUBSET Ids
    BY <1>8, ResultsAreIds, Zenon
  <2> QED BY <1>2, <1>6, <1>8, <2>1, Zenon DEF ToolReturns
<1> QED BY <1>5, <1>7, <1>8, Zenon

LEMMA ToolRaisesKeeps ==
    ASSUME InvestigationsInv, NEW r \in Runs, ToolRaises(r)
    PROVE  InvestigationsInv'
<1>1. run[r] # NULL /\ run[r].at = "tools"
  BY Zenon DEF ToolRaises, RunAt
<1>2. PICK x \in RunType : x = run[r]
  BY <1>1, RunParts, Zenon
<1>3. x.observed = shown[r] /\ VerdictOK(x) /\ BudgetOK(x)
  BY <1>1, <1>2, RunParts, Zenon DEF RunOK
<1>4. PICK count \in Nat : count = x.made + 1
  BY RunFields
<1>5. PICK y : y = [x EXCEPT !.at = "raised", !.made = count]
  BY Zenon
<1>6. /\ y \in RunType /\ y.at = "raised" /\ y.made = count /\ y.status = x.status /\ y.cited = x.cited
      /\ y.answer = x.answer /\ y.records = x.records /\ y.observed = x.observed /\ y.steps = x.steps
  BY <1>5, Zenon DEF RunType
<1>7. y.at \notin {"model", "tools"} /\ y.at # "model" /\ y.at # "tools" /\ run[r].at # "ended"
  BY <1>1, <1>6, Zenon
<1>8. BudgetOK(y)
  <2>1. x.records \in Seq(BOOLEAN) /\ x.made \in Nat
    BY RunFields, Zenon
  <2> QED BY <1>3, <1>4, <1>6, <2>1 DEF BudgetOK
<1>9. RunOK(y, shown[r])
  BY <1>3, <1>6, <1>7, <1>8, Zenon DEF RunOK, VerdictOK, CallsOK
<1>10. run' = [run EXCEPT ![r] = y] /\ UNCHANGED <<members, stored, reads, shown>>
  BY <1>2, <1>4, <1>5, Zenon DEF ToolRaises
<1> QED BY <1>6, <1>7, <1>9, <1>10, SameShown, Zenon

\* What is stored is what the run ends with.
LEMMA SaveKeeps ==
    ASSUME InvestigationsInv, NEW r \in Runs, Save(r)
    PROVE  InvestigationsInv'
<1>1. run[r] # NULL /\ run[r].at = "saving"
  BY Zenon DEF Save, RunAt
<1>2. PICK x \in RunType : x = run[r]
  BY <1>1, RunParts, Zenon
<1>3. RunOK(x, shown[r])
  BY <1>1, <1>2, RunParts, Zenon
<1>4. PICK y : y = [x EXCEPT !.at = "ended"]
  BY Zenon
<1>5. /\ y \in RunType /\ y.at = "ended" /\ y.user = x.user /\ y.status = x.status /\ y.cited = x.cited
      /\ y.rejected = x.rejected /\ y.answer = x.answer /\ y.records = x.records /\ y.made = x.made
      /\ y.observed = x.observed /\ y.steps = x.steps
  BY <1>4, Zenon DEF RunType
<1>6. y.at \notin {"model", "tools"} /\ y.at # "model" /\ y.at # "tools" /\ run[r].at # "ended"
  BY <1>1, <1>5, Zenon
<1>7. RunOK(y, shown[r]) /\ Row(y) = Row(x)
  BY <1>3, <1>5, <1>6, Zenon DEF RunOK, VerdictOK, BudgetOK, CallsOK, Row
<1>8. run' = [run EXCEPT ![r] = y] /\ stored' = [stored EXCEPT ![r] = Row(x)] /\ UNCHANGED <<members, reads, shown>>
  BY <1>2, <1>4, Zenon DEF Save
<1>9. run \in [Runs -> {NULL} \cup RunType] /\ DOMAIN stored = Runs
  BY Zenon DEF InvestigationsInv, InvestigationsTypeOK
<1>10. /\ run'[r] = y /\ stored'[r] = Row(x) /\ y # NULL
       /\ \A q \in Runs : q # r => run'[q] = run[q] /\ stored'[q] = stored[q]
  BY <1>5, <1>8, <1>9, RunLimits, Zenon
<1>11. InvestigationsTypeOK'
  BY <1>5, <1>8, <1>9, Zenon DEF InvestigationsInv, InvestigationsTypeOK
<1>12. ASSUME NEW q \in Runs
       PROVE  IF run'[q] = NULL THEN shown'[q] = {} ELSE RunOK(run'[q], shown'[q])
  <2>1. CASE q = r
    BY <1>7, <1>8, <1>10, <2>1, Zenon
  <2>2. CASE q # r
    BY <1>8, <1>10, <2>2, Zenon DEF InvestigationsInv
  <2> QED BY <2>1, <2>2, Zenon
<1>13. ASSUME NEW q \in Runs, stored'[q] # NULL
       PROVE  RunAt(q, "ended")' /\ stored'[q] = Row(run'[q])
  <2>1. CASE q = r
    BY <1>5, <1>7, <1>10, <2>1, Zenon DEF RunAt
  <2>2. CASE q # r
    BY <1>10, <1>13, <2>2, ZenonT(40) DEF InvestigationsInv, RunAt
  <2> QED BY <2>1, <2>2, Zenon
<1>14. ASSUME NEW u \in Investigators, reads'[u] # NULL
       PROVE  (/\ reads[u].run \in Runs /\ RunAt(reads[u].run, "ended")
               /\ run[reads[u].run].user = u /\ reads[u].row = Row(run[reads[u].run]))'
  <2>1. reads'[u] = reads[u]
    BY <1>8, Zenon
  <2>2. PICK q \in Runs : q = reads[u].run
    BY <1>14, <2>1, Zenon DEF InvestigationsInv
  <2>3. RunAt(q, "ended") /\ run[q].user = u /\ reads[u].row = Row(run[q])
    BY <1>14, <2>1, <2>2, Zenon DEF InvestigationsInv
  <2>4. q # r
    BY <1>6, <2>3, Zenon DEF RunAt
  <2>5. run'[q] = run[q] /\ RunAt(q, "ended")'
    BY <1>10, <2>3, <2>4, Zenon DEF RunAt
  <2>6. reads'[u].run = q
    BY <2>1, <2>2, Zenon
  <2>7. RunAt(reads[u].run, "ended")'
    BY <2>5, <2>6, Zenon DEF RunAt
  <2> QED BY <2>1, <2>2, <2>3, <2>5, <2>6, <2>7, Zenon
<1> QED BY <1>11, <1>12, <1>13, <1>14, Zenon DEF InvestigationsInv

LEMMA GetKeeps ==
    ASSUME InvestigationsInv, NEW r \in Runs, NEW v \in Investigators, Get(r, v)
    PROVE  InvestigationsInv'
<1>1. stored[r] # NULL /\ stored[r].user = v /\ UNCHANGED <<members, run, stored, shown>>
  BY Zenon DEF Get
<1>2. PICK z : z = [run |-> r, row |-> stored[r]]
  BY Zenon
<1>3. z.run = r /\ z.row = stored[r] /\ reads' = [reads EXCEPT ![v] = z]
  BY <1>2, Zenon DEF Get
<1>4. RunAt(r, "ended") /\ stored[r] = Row(run[r])
  BY <1>1, Zenon DEF InvestigationsInv
<1>5. Row(run[r]).user = run[r].user
  BY Zenon DEF Row
<1>6. DOMAIN reads = Investigators
  BY Zenon DEF InvestigationsInv, InvestigationsTypeOK
<1>7. InvestigationsTypeOK'
  BY <1>1, <1>3, <1>6, Zenon DEF InvestigationsInv, InvestigationsTypeOK
<1>8. ASSUME NEW u \in Investigators, reads'[u] # NULL
      PROVE  (/\ reads[u].run \in Runs /\ RunAt(reads[u].run, "ended")
              /\ run[reads[u].run].user = u /\ reads[u].row = Row(run[reads[u].run]))'
  <2>1. CASE u = v
    <3>1. reads'[u] = z /\ reads'[u].run = r
      BY <1>3, <1>6, <2>1, Zenon
    <3>2. RunAt(reads[u].run, "ended")'
      BY <1>1, <1>4, <3>1, Zenon DEF RunAt
    <3> QED BY <1>1, <1>3, <1>4, <1>5, <2>1, <3>1, <3>2, Zenon
  <2>2. CASE u # v
    <3>1. reads'[u] = reads[u]
      BY <1>3, <1>6, <2>2, Zenon
    <3>2. PICK q \in Runs : q = reads[u].run
      BY <1>8, <3>1, Zenon DEF InvestigationsInv
    <3>3. RunAt(q, "ended") /\ run[q].user = u /\ reads[u].row = Row(run[q])
      BY <1>8, <3>1, <3>2, Zenon DEF InvestigationsInv
    <3>4. reads'[u].run = q
      BY <3>1, <3>2, Zenon
    <3>5. RunAt(reads[u].run, "ended")'
      BY <1>1, <3>3, <3>4, Zenon DEF RunAt
    <3> QED BY <1>1, <3>1, <3>3, <3>4, <3>5, Zenon
  <2> QED BY <2>1, <2>2, Zenon
<1>9. /\ \A q \in Runs : IF run'[q] = NULL THEN shown'[q] = {} ELSE RunOK(run'[q], shown'[q])
      /\ \A q \in Runs : stored'[q] # NULL => RunAt(q, "ended")' /\ stored'[q] = Row(run'[q])
  BY <1>1, Zenon DEF InvestigationsInv, RunAt
<1> QED BY <1>7, <1>8, <1>9, Zenon DEF InvestigationsInv

LEMMA InvestigationsInvariance == InvestigationsSpec => []InvestigationsInv
<1>1. InvestigationsInv /\ [InvestigationsNext]_investigationVars => InvestigationsInv'
  <2> SUFFICES ASSUME InvestigationsInv, [InvestigationsNext]_investigationVars PROVE InvestigationsInv'
    BY Zenon
  <2>1. CASE \E u \in Investigators : ChangeMember(u)
    BY <2>1, ChangeMemberKeeps, Zenon
  <2>2. CASE \E r \in Runs, u \in Investigators : Investigate(r, u) \/ Get(r, u)
    BY <2>2, InvestigateKeeps, GetKeeps, Zenon
  <2>3. ASSUME NEW r \in Runs, RunSteps(r) PROVE InvestigationsInv'
    BY <2>3, ReplyKeeps, FinishKeeps, ModelFailsKeeps, OutOfStepsKeeps, ToolCallsKeep, ToolRaisesKeeps,
       SaveKeeps, Zenon DEF RunSteps
  <2>4. CASE UNCHANGED investigationVars
    <3>1. UNCHANGED <<members, run, stored, reads, shown>>
      BY <2>4, Zenon DEF investigationVars
    <3> QED BY <3>1, Zenon DEF InvestigationsInv, InvestigationsTypeOK, RunAt
  <2> QED BY <2>1, <2>2, <2>3, <2>4, Zenon DEF InvestigationsNext
<1> QED BY <1>1, InvestigationsInitOK, PTL DEF InvestigationsSpec

\* A kept answer of an investigation cites only what the tools have shown the
\* model, and every other outcome keeps no answer, whatever the model replies
\* (DecisionInvestigator._finish).
THEOREM InvestigationsGrounded == InvestigationsSpec => []Grounded
<1>1. InvestigationsInv => Grounded
  <2> SUFFICES ASSUME InvestigationsInv, NEW r \in Runs, stored[r] # NULL
               PROVE  LET row == stored[r]
                      IN /\ row.answer # NULL <=> row.status \in {"ANSWERED", "INSUFFICIENT_EVIDENCE"}
                         /\ row.answer # NULL => row.answer.cited = row.cited /\ row.cited \subseteq shown[r]
                         /\ row.status = "ANSWERED" => row.cited # {}
    BY Zenon DEF Grounded
  <2>1. run[r] # NULL /\ stored[r] = Row(run[r])
    BY Zenon DEF InvestigationsInv, RunAt
  <2>2. run[r].observed = shown[r] /\ VerdictOK(run[r])
    BY <2>1, RunParts, Zenon DEF RunOK
  <2>3. /\ stored[r].answer = run[r].answer /\ stored[r].status = run[r].status
        /\ stored[r].cited = run[r].cited
    <3>1. /\ Row(run[r]).answer = run[r].answer /\ Row(run[r]).status = run[r].status
          /\ Row(run[r]).cited = run[r].cited
      BY Zenon DEF Row
    <3> QED BY <2>1, <3>1, Zenon
  <2> QED BY <2>2, <2>3, Zenon DEF VerdictOK
<1> QED BY <1>1, InvestigationsInvariance, PTL

\* An investigation asks the model at most MaxSteps times, calls services at
\* most MaxToolCalls times, and answers every tool call before it asks again
\* (DecisionInvestigator.investigate).
THEOREM InvestigationsBounded == InvestigationsSpec => [](BudgetKept /\ CallsAnswered)
<1>1. InvestigationsInv => BudgetKept /\ CallsAnswered
  <2>1. InvestigationsInv => BudgetKept
    BY RunParts, Zenon DEF BudgetKept, RunOK, BudgetOK
  <2>2. InvestigationsInv => CallsAnswered
    BY RunParts, Zenon DEF CallsAnswered, RunAt, RunOK, CallsOK
  <2> QED BY <2>1, <2>2, Zenon
<1> QED BY <1>1, InvestigationsInvariance, PTL

\* A user who reads a run back reads their own, as it ended
\* (InvestigationService.get).
THEOREM RunsReadBack == InvestigationsSpec => []ReadsOwn
<1>1. InvestigationsInv => ReadsOwn
  BY Zenon DEF InvestigationsInv, ReadsOwn
<1> QED BY <1>1, InvestigationsInvariance, PTL
=============================================================================
