------------------------------ MODULE MCModels ------------------------------
(***************************************************************************)
(* The components that call a model: EmbeddingQueue, Providers, Answers    *)
(* and Investigations.                                                     *)
(*                                                                         *)
(* The components share no state, so one run checks them side by side: a   *)
(* behaviour is of the one that part names, and the others stay in their   *)
(* initial states.  Parts = {"queue"} checks the first alone.              *)
(***************************************************************************)
EXTENDS EmbeddingQueue, Providers, Answers, Investigations, TLC

CONSTANTS Parts, org1, org2, doc1, doc2, u1, u2, r1, r2, d1, v1, v2, v3, other

\* Two versions of one document in one organization, and one of another.
SharedText == <<doc1, doc2, doc1>>
MixedOrgs == <<org1, org2, org1>>

\* No Retry-After header, at once, within max_delay_seconds and beyond it.
SomeRetryAfters == {NULL, 0, 3, 7}

\* The decision saw v1; v2 superseded it.
OneReceipt == [d \in {d1} |-> {v1}]
TwoChain == [v \in {v1, v2} |-> {v1, v2}]

-----------------------------------------------------------------------------
(* What a part leaves out.                                                 *)

\* One question at a time, with every reply.
OneQuestion == request[r2] = NULL /\ visible[u2] = Searchable

\* Two questions of two users at the same time, about one fact each.
ShortQuestions ==
    /\ \A u \in Askers : v3 \in visible[u]
    /\ \A r \in Requests :
        /\ Len(prompted[r]) <= 1 /\ Range(prompted[r]) \subseteq {v1, v2}
        /\ request[r] # NULL /\ request[r].reply # NULL =>
            LET reply == request[r].reply
            IN /\ reply.answer = "text" /\ ~reply.insufficient /\ ~reply.inferences
               /\ Len(reply.cited) <= 1 /\ \A label \in Range(reply.cited) : label.n <= 2

\* One run, with every sequence of replies.
OneRun == run[r2] = NULL /\ u2 \in members

\* Two runs of two users at the same time, about a single version.
ShortRuns ==
    \A r \in Runs : run[r] # NULL =>
        LET x == run[r]
        IN /\ x.steps <= 2 /\ x.made <= 1 /\ Len(x.pending) <= 1
           /\ x.observed \subseteq {v1} /\ (x.cited \cup x.rejected) \subseteq {v1, other}

-----------------------------------------------------------------------------
(* The runs side by side.                                                  *)

VARIABLE part

allVars == <<part, vars, providerVars, answerVars, investigationVars>>

PartsInit ==
    part \in Parts /\ Init /\ ProviderInit /\ AnswersInit /\ InvestigationsInit

PartsNext ==
    /\ UNCHANGED part
    /\ \/ part = "queue" /\ Next /\ UNCHANGED <<providerVars, answerVars, investigationVars>>
       \/ part = "providers" /\ ProviderNext /\ UNCHANGED <<vars, answerVars, investigationVars>>
       \/ part = "answers" /\ AnswersNext /\ OneQuestion'
              /\ UNCHANGED <<vars, providerVars, investigationVars>>
       \/ part = "answers2" /\ AnswersNext /\ ShortQuestions'
              /\ UNCHANGED <<vars, providerVars, investigationVars>>
       \/ part = "investigations" /\ InvestigationsNext /\ OneRun'
              /\ UNCHANGED <<vars, providerVars, answerVars>>
       \/ part = "investigations2" /\ InvestigationsNext /\ ShortRuns'
              /\ UNCHANGED <<vars, providerVars, answerVars>>

PartsSpec == PartsInit /\ [][PartsNext]_allVars
=============================================================================
