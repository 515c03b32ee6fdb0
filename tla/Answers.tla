------------------------------- MODULE Answers -------------------------------
(***************************************************************************)
(* Grounded answers (app/services/answers.py): a question is answered from *)
(* the facts that retrieval returns to its user, labelled F1, F2... in     *)
(* that one request, and what the model cites is checked against those     *)
(* labels, one after the other (check_answer of app/ai/grounding.py).      *)
(*                                                                         *)
(* What each user may see changes at any time.  Retrieval returns a        *)
(* ranked list of visible versions (HybridSearch says which).  The model   *)
(* replies anything, or its provider fails (Providers).                    *)
(***************************************************************************)
EXTENDS Null, Naturals, Sequences, FiniteSets, Functions

CONSTANTS
    Askers,       \* users who ask
    Requests,     \* concurrent requests
    Searchable,   \* fact versions
    Limit,        \* facts that a question asks for
    MaxCited      \* bound: labels in one reply

\* "F<n>" or "f<n>".  The model may cite one label more than there are facts.
Labels == [n : 1 .. (Limit + 1), upper : BOOLEAN]

\* The fields of the structured output that decide what becomes of it.
\* A reply that parse_model_answer refuses is NULL.
Replies ==
    {NULL} \cup
    [answer : {"", "text"}, insufficient : BOOLEAN, inferences : BOOLEAN,
     cited : UNION {[1 .. n -> Labels] : n \in 0 .. MaxCited}]

\* A fact in the prompt, under its label.
PackedFact == [label : [n : Nat, upper : BOOLEAN], version : Searchable]

\* What answers to a question look like, and a request that is under way.
AnswerType ==
    [status : {"ANSWERED", "INSUFFICIENT_EVIDENCE", "UNGROUNDED"},
     answer : {NULL, "no facts", "", "text"}, grounded : BOOLEAN, citations : Seq(PackedFact),
     inferences : BOOLEAN, rejected : Seq(Labels), generated : BOOLEAN]

RequestType ==
    [step : {"retrieving", "generating", "checking", "done"}, user : Askers,
     facts : Seq(PackedFact), reply : Replies, labels : Seq(Labels),
     cited : Seq(PackedFact), rejected : Seq(Labels),
     error : {NULL, "ValidationFailed", "AnswerGeneration"}, result : {NULL} \cup AnswerType]

ASSUME AnswersAssumption ==
    Limit \in Nat /\ MaxCited \in Nat

VARIABLES
    visible,   \* what each user may see
    request,   \* each request, or NULL
    prompted   \* ghost: the facts, in order, in the prompt of each request

answerVars == <<visible, request, prompted>>

\* Questions, as far as they are told apart before retrieval.
Questions == {"empty", "too long", "usable"}

AnswersInit ==
    /\ visible = [u \in Askers |-> Searchable]
    /\ request = [r \in Requests |-> NULL]
    /\ prompted = [r \in Requests |-> <<>>]

RequestAt(r, step) == request[r] # NULL /\ request[r].step = step

\* Facts appear and go, and users gain and lose sight of them.
ChangeVisible(u, v) ==
    /\ visible' = [visible EXCEPT ![u] = IF v \in @ THEN @ \ {v} ELSE @ \cup {v}]
    /\ UNCHANGED <<request, prompted>>

\* A question that cannot be asked ends here.
Ask(r, u, question) ==
    /\ request[r] = NULL \/ RequestAt(r, "done")
    /\ request' = [request EXCEPT ![r] =
          [step |-> IF question = "usable" THEN "retrieving" ELSE "done", user |-> u,
           facts |-> <<>>, reply |-> NULL, labels |-> <<>>, cited |-> <<>>, rejected |-> <<>>,
           error |-> IF question = "usable" THEN NULL ELSE "ValidationFailed", result |-> NULL]]
    /\ prompted' = [prompted EXCEPT ![r] = <<>>]
    /\ UNCHANGED visible

\* pack_facts: facts are labelled by their place.
PackFacts(results) ==
    [i \in 1 .. Len(results) |-> [label |-> [n |-> i, upper |-> TRUE], version |-> results[i]]]

\* render_facts: one line for each fact, in order, with its label.
RenderFacts(facts) == [i \in 1 .. Len(facts) |-> facts[i].version]

\* Nothing to answer from: said without calling a model.
NoFacts ==
    [status |-> "INSUFFICIENT_EVIDENCE", answer |-> "no facts", grounded |-> TRUE,
     citations |-> <<>>, inferences |-> FALSE, rejected |-> <<>>, generated |-> FALSE]

Proceed(r, x) ==
    /\ request' = [request EXCEPT ![r] = x]
    /\ UNCHANGED visible

\* The request returns or raises, and what it had in hand is gone.
Ended(x, error, result) ==
    [x EXCEPT !.step = "done", !.facts = <<>>, !.reply = NULL, !.labels = <<>>, !.cited = <<>>,
              !.rejected = <<>>, !.error = error, !.result = result]

\* The facts that retrieval returns are packed and rendered into the prompt.
Retrieve(r, results) ==
    /\ RequestAt(r, "retrieving")
    /\ LET x == request[r]
       IN Proceed(r, IF Len(results) = 0
                  THEN Ended(x, NULL, NoFacts)
                  ELSE [x EXCEPT !.step = "generating", !.facts = PackFacts(results)])
    /\ prompted' = [prompted EXCEPT ![r] = RenderFacts(PackFacts(results))]

\* Faulty variant: the labels are resolved among what is visible by now.
ModelRepliesNow(r, reply) ==
    /\ RequestAt(r, "generating")
    /\ LET x == request[r]
           facts == SelectSeq(prompted[r], LAMBDA v : v \in visible[x.user])
       IN Proceed(r, IF reply = NULL THEN Ended(x, "AnswerGeneration", NULL)
                  ELSE [x EXCEPT !.step = "checking", !.facts = PackFacts(facts),
                                 !.reply = reply, !.labels = reply.cited])
    /\ UNCHANGED prompted

\* A reply that does not parse is a failure of the model.
ModelReplies(r, reply) ==
    /\ RequestAt(r, "generating")
    /\ LET x == request[r]
       IN Proceed(r, IF reply = NULL THEN Ended(x, "AnswerGeneration", NULL)
                  ELSE [x EXCEPT !.step = "checking", !.reply = reply, !.labels = reply.cited])
    /\ UNCHANGED prompted

GenerationFails(r) ==
    /\ RequestAt(r, "generating")
    /\ LET x == request[r] IN Proceed(r, Ended(x, "AnswerGeneration", NULL))
    /\ UNCHANGED prompted

-----------------------------------------------------------------------------
(* check_answer.                                                           *)

\* by_label.get(label.upper()).
FactAt(facts, label) == {f \in Range(facts) : f.label.n = label.n}

\* The next label of the reply: rejected, or cited unless it is already.
CheckLabel(r) ==
    /\ RequestAt(r, "checking")
    /\ LET x == request[r]
           label == Head(x.labels)
           found == FactAt(x.facts, label)
           rest == Tail(x.labels)
       IN /\ Len(x.labels) > 0
          /\ \/ /\ found = {}
                /\ Proceed(r, [x EXCEPT !.labels = rest, !.rejected = Append(@, label)])
             \/ \E fact \in found :
                   Proceed(r, [x EXCEPT !.labels = rest,
                                     !.cited = IF fact \in Range(@) THEN @ ELSE Append(@, fact)])
    /\ UNCHANGED prompted

Status(reply, cited, rejected) ==
    IF reply.insufficient THEN "INSUFFICIENT_EVIDENCE"
    ELSE IF Len(rejected) > 0 \/ Len(cited) = 0 \/ reply.answer = "" THEN "UNGROUNDED"
    ELSE "ANSWERED"

\* The answer is withheld when it is not grounded.
GroundedAnswer(reply, cited, rejected) ==
    LET status == Status(reply, cited, rejected)
    IN [status |-> status,
        answer |-> IF status = "UNGROUNDED" THEN NULL ELSE reply.answer,
        grounded |-> status # "UNGROUNDED",
        citations |-> IF status = "ANSWERED" THEN cited ELSE <<>>,
        inferences |-> status = "ANSWERED" /\ reply.inferences,
        rejected |-> rejected,
        generated |-> TRUE]

\* Every label is checked: the answer is returned.
Conclude(r) ==
    /\ RequestAt(r, "checking")
    /\ LET x == request[r]
       IN /\ Len(x.labels) = 0
          /\ Proceed(r, Ended(x, NULL, GroundedAnswer(x.reply, x.cited, x.rejected)))
    /\ UNCHANGED prompted

\* What retrieval may return to a user: at most Limit versions, best first.
Retrievals(u) ==
    {s \in UNION {[1 .. n -> visible[u]] : n \in 0 .. Limit} : IsInjective(s)}

AnswersNext ==
    \/ \E u \in Askers, v \in Searchable : ChangeVisible(u, v)
    \/ \E r \in Requests :
        \/ \E u \in Askers, question \in Questions : Ask(r, u, question)
        \/ RequestAt(r, "retrieving") /\ \E results \in Retrievals(request[r].user) : Retrieve(r, results)
        \/ \E reply \in Replies : ModelReplies(r, reply)
        \/ GenerationFails(r)
        \/ CheckLabel(r)
        \/ Conclude(r)

AnswersSpec == AnswersInit /\ [][AnswersNext]_answerVars

-----------------------------------------------------------------------------
(* Properties.                                                             *)

HasAnswer(r) == request[r] # NULL /\ request[r].result # NULL

AnswersTypeOK ==
    /\ visible \in [Askers -> SUBSET Searchable]
    /\ request \in [Requests -> {NULL} \cup RequestType]
    /\ prompted \in [Requests -> Seq(Searchable)]

\* A citation means what the model saw: the version it names is the one that
\* this request's prompt showed under that label, whatever other requests
\* were shown under it and whatever has become visible or not since.
CitesWhatWasShown ==
    \A r \in Requests : HasAnswer(r) =>
        \A c \in Range(request[r].result.citations) :
            /\ c.label.upper /\ c.label.n \in DOMAIN prompted[r]
            /\ c.version = prompted[r][c.label.n]

\* An answer with the status ANSWERED rests on evidence: it cites something,
\* each version once, and no label of the reply was left unverified.  One
\* that is withheld shows neither text, nor citations, nor inferences.
AnswersRestOnEvidence ==
    \A r \in Requests : HasAnswer(r) =>
        LET a == request[r].result
        IN /\ a.status = "ANSWERED" =>
                /\ a.answer # "" /\ Len(a.citations) > 0 /\ Len(a.rejected) = 0
                /\ IsInjective(a.citations)
           /\ a.status = "UNGROUNDED" => a.answer = NULL /\ Len(a.citations) = 0 /\ ~a.inferences

\* What is known of one request, from the prompt to the answer: its facts are
\* those of its prompt, and what it has cited so far is among them, once each.
RequestOK(x, p) ==
    /\ x.step \in {"generating", "checking"} => x.facts = PackFacts(p)
    /\ x.step = "checking" =>
        /\ x.reply # NULL
        /\ Range(x.cited) \subseteq Range(PackFacts(p)) /\ IsInjective(x.cited)
    /\ x.step \in {"retrieving", "generating"} => Len(x.cited) = 0
    /\ x.step # "done" => x.result = NULL
    /\ x.result # NULL =>
        /\ Range(x.result.citations) \subseteq Range(PackFacts(p))
        /\ x.result.status = "ANSWERED" =>
             /\ x.result.answer # "" /\ Len(x.result.citations) > 0 /\ Len(x.result.rejected) = 0
             /\ IsInjective(x.result.citations)
        /\ x.result.status = "UNGROUNDED" =>
             x.result.answer = NULL /\ Len(x.result.citations) = 0 /\ ~x.result.inferences

\* The inductive invariant behind the two properties.
AnswersInv ==
    /\ AnswersTypeOK
    /\ \A r \in Requests : request[r] # NULL => RequestOK(request[r], prompted[r])

-----------------------------------------------------------------------------
(* What the documentation says and the code does not keep.                 *)

\* "grounded: True only when every citation was verified against supplied
\* facts" (app/services/answers.py, GroundedAnswer).
GroundedMeansVerified ==
    \A r \in Requests : HasAnswer(r) =>
        (request[r].result.grounded => Len(request[r].result.rejected) = 0)
=============================================================================
