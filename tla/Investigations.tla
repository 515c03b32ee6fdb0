--------------------------- MODULE Investigations ---------------------------
(***************************************************************************)
(* The decision investigator: the agent loop (ai/agent/investigator.py),   *)
(* its four read-only tools (ai/agent/tools.py) and the service that keeps *)
(* the trace of a run (services/investigations.py).                        *)
(*                                                                         *)
(* The model, outside the code, replies as it likes: tool calls, a final   *)
(* answer that may cite anything, or a failure (Providers).  Members come  *)
(* and go while runs are under way; every tool checks permissions anew.    *)
(***************************************************************************)
EXTENDS Null, Naturals, Sequences, FiniteSets, Functions

CONSTANTS
    Investigators, \* users who investigate
    Runs,          \* run ids
    Decisions,
    FactVersions,
    Receipt,       \* the versions each decision saw
    Chain,         \* the lineage of each version, itself included
    Invented,      \* an id that no tool returns
    MaxSteps,      \* llm_agent_max_steps
    MaxToolCalls,  \* llm_agent_max_tool_calls
    MaxCalls       \* bound: tool calls of one reply

Ids == Decisions \cup FactVersions
RunStatuses == {"ANSWERED", "INSUFFICIENT_EVIDENCE", "UNGROUNDED", "STEP_LIMIT", "FAILED"}

\* What a final answer may say, as far as _finish tells answers apart.
Finals == [parses : BOOLEAN, insufficient : BOOLEAN, cited : SUBSET (Ids \cup {Invented})]

\* A run and its ledger.  A tool call is named by its step and its place in the
\* reply; a record says whether the service returned a result.
RunType ==
    [user : Investigators, at : {"model", "tools", "saving", "raised", "ended"},
     status : RunStatuses, answer : {NULL} \cup Finals,
     cited : SUBSET (Ids \cup {Invented}), rejected : SUBSET (Ids \cup {Invented}),
     steps : Nat, made : Nat, pending : Seq(Nat \X Nat), unanswered : SUBSET (Nat \X Nat),
     records : Seq(BOOLEAN), observed : SUBSET Ids]

ASSUME InvestigationsAssumption ==
    /\ MaxSteps \in Nat /\ MaxToolCalls \in Nat /\ MaxCalls \in Nat
    /\ Receipt \in [Decisions -> SUBSET FactVersions]
    /\ Chain \in [FactVersions -> SUBSET FactVersions]
    /\ NULL \notin RunType /\ NULL \notin Finals

VARIABLES
    members,   \* users who may read facts and decisions
    run,       \* each run, or NULL before it
    stored,    \* agent_runs: the row of each run, or NULL
    reads,     \* what each user has read back last, or NULL
    shown      \* ghost: the ids that tool messages have shown to the model

investigationVars == <<members, run, stored, reads, shown>>

InvestigationsInit ==
    /\ members = Investigators
    /\ run = [r \in Runs |-> NULL]
    /\ stored = [r \in Runs |-> NULL]
    /\ reads = [u \in Investigators |-> NULL]
    /\ shown = [r \in Runs |-> {}]

RunAt(r, at) == run[r] # NULL /\ run[r].at = at

\* The members of the organization change.
ChangeMember(u) ==
    /\ members' = IF u \in members THEN members \ {u} ELSE members \cup {u}
    /\ UNCHANGED <<run, stored, reads, shown>>

\* A run begins; without an answer, the status stays STEP_LIMIT.
Investigation(u) ==
    [user |-> u, at |-> "model", status |-> "STEP_LIMIT", answer |-> NULL,
     cited |-> {}, rejected |-> {}, steps |-> 0, made |-> 0, pending |-> <<>>,
     unanswered |-> {}, records |-> <<>>, observed |-> {}]

\* Authorization, before any model call; then the run begins.
Investigate(r, u) ==
    /\ run[r] = NULL
    /\ u \in members
    /\ run' = [run EXCEPT ![r] = Investigation(u)]
    /\ UNCHANGED <<members, stored, reads, shown>>

-----------------------------------------------------------------------------
(* The loop.                                                               *)

\* The model is asked once more, and its run goes on as x.
Asked(r, x) ==
    /\ RunAt(r, "model")
    /\ run[r].steps < MaxSteps
    /\ run' = [run EXCEPT ![r] = [x EXCEPT !.steps = run[r].steps + 1]]
    /\ UNCHANGED <<members, stored, reads, shown>>

\* The model calls n tools.
Reply(r, n) ==
    LET x == run[r]
        calls == [i \in 1 .. n |-> <<x.steps + 1, i>>]
    IN Asked(r, [x EXCEPT !.at = "tools", !.pending = calls, !.unanswered = @ \cup Range(calls)])

\* The provider raises GenerationError: _fail, and the partial result is kept.
ModelFails(r) ==
    LET x == run[r]
    IN Asked(r, [x EXCEPT !.at = "saving", !.status = "FAILED", !.answer = NULL])

\* Faulty variant: an answer stands if one of its citations does.
FinishLax(r, final) ==
    LET x == run[r]
        cited == final.cited \cap x.observed
        rejected == final.cited \ x.observed
        status == IF ~final.parses THEN "FAILED"
                  ELSE IF final.insufficient THEN "INSUFFICIENT_EVIDENCE"
                  ELSE IF cited = {} THEN "UNGROUNDED" ELSE "ANSWERED"
    IN Asked(r, [x EXCEPT !.at = "saving", !.status = status,
                          !.cited = IF final.parses THEN cited ELSE {},
                          !.rejected = IF final.parses THEN rejected ELSE {},
                          !.answer = IF status \in {"FAILED", "UNGROUNDED"} THEN NULL ELSE final])

\* A reply without tool calls: _finish, or _fail when it does not parse.
Finish(r, final) ==
    LET x == run[r]
        cited == final.cited \cap x.observed
        rejected == final.cited \ x.observed
        status == IF ~final.parses THEN "FAILED"
                  ELSE IF rejected # {} \/ (~final.insufficient /\ cited = {}) THEN "UNGROUNDED"
                  ELSE IF final.insufficient THEN "INSUFFICIENT_EVIDENCE" ELSE "ANSWERED"
    IN Asked(r, [x EXCEPT !.at = "saving", !.status = status,
                          !.cited = IF final.parses THEN cited ELSE {},
                          !.rejected = IF final.parses THEN rejected ELSE {},
                          !.answer = IF status \in {"FAILED", "UNGROUNDED"} THEN NULL ELSE final])

\* The steps are used up: the status stays STEP_LIMIT.
OutOfSteps(r) ==
    /\ RunAt(r, "model")
    /\ run[r].steps = MaxSteps
    /\ LET x == run[r] IN run' = [run EXCEPT ![r] = [x EXCEPT !.at = "saving"]]
    /\ UNCHANGED <<members, stored, reads, shown>>

-----------------------------------------------------------------------------
(* The tools.                                                              *)

\* The ids that a call of each tool returns, one set for each argument and,
\* for a search, for each result; none if there is no such record.
Results ==
    {{d} \cup Receipt[d] : d \in Decisions}
        \cup {Chain[v] : v \in FactVersions}
        \cup {{d \in Decisions : v \in Receipt[d]} : v \in FactVersions}
        \cup SUBSET FactVersions

\* The next tool call of the reply is answered by a message, with the records
\* of the service calls up to now; a result shows the model its ids.
\* calls_made is counted as far as one past the budget, where it makes no more
\* difference.
CallAnswered(r, records, ids) ==
    LET x == run[r]
        rest == Tail(x.pending)
    IN /\ RunAt(r, "tools")
       /\ run' = [run EXCEPT ![r] =
             [x EXCEPT !.made = IF @ > MaxToolCalls THEN @ ELSE @ + 1, !.pending = rest,
                       !.unanswered = @ \ {Head(x.pending)},
                       !.records = records, !.observed = @ \cup ids,
                       !.at = IF Len(x.pending) = 1 THEN "model" ELSE "tools"]]
       /\ shown' = [shown EXCEPT ![r] = @ \cup ids]
       /\ UNCHANGED <<members, stored, reads>>

\* "tool call budget exhausted".
OverBudget(r) ==
    /\ run[r] # NULL /\ run[r].made >= MaxToolCalls
    /\ CallAnswered(r, run[r].records, {})

\* An unknown tool, or arguments that do not validate: nothing is called.
BadCall(r) ==
    /\ run[r] # NULL /\ run[r].made < MaxToolCalls
    /\ CallAnswered(r, run[r].records, {})

\* A domain error, "not found or not accessible" among them.
ToolRefused(r) ==
    /\ run[r] # NULL /\ run[r].made < MaxToolCalls
    /\ CallAnswered(r, Append(run[r].records, FALSE), {})

\* The service finds what was asked for, and its user may read it.
ToolReturns(r, ids) ==
    /\ run[r] # NULL /\ run[r].made < MaxToolCalls
    /\ run[r].user \in members
    /\ CallAnswered(r, Append(run[r].records, TRUE), ids)

\* Anything but a domain error (the database is gone, say) leaves the loop.
ToolRaises(r) ==
    /\ RunAt(r, "tools")
    /\ run[r].made < MaxToolCalls
    /\ LET x == run[r] IN run' = [run EXCEPT ![r] = [x EXCEPT !.at = "raised", !.made = @ + 1]]
    /\ UNCHANGED <<members, stored, reads, shown>>

-----------------------------------------------------------------------------
(* The trace.                                                              *)

Row(x) == [user |-> x.user, status |-> x.status, answer |-> x.answer, cited |-> x.cited,
           rejected |-> x.rejected, records |-> x.records, steps |-> x.steps]

\* _save, for a result and for the partial result of a failure.
Save(r) ==
    /\ RunAt(r, "saving")
    /\ LET x == run[r]
       IN /\ stored' = [stored EXCEPT ![r] = Row(x)]
          /\ run' = [run EXCEPT ![r] = [x EXCEPT !.at = "ended"]]
    /\ UNCHANGED <<members, reads, shown>>

Get(r, u) ==
    /\ u \in members
    /\ stored[r] # NULL /\ stored[r].user = u
    /\ reads' = [reads EXCEPT ![u] = [run |-> r, row |-> stored[r]]]
    /\ UNCHANGED <<members, run, stored, shown>>

-----------------------------------------------------------------------------
RunSteps(r) ==
    \/ \E n \in 1 .. MaxCalls : Reply(r, n)
    \/ \E final \in Finals : Finish(r, final)
    \/ ModelFails(r)
    \/ OutOfSteps(r)
    \/ OverBudget(r)
    \/ BadCall(r)
    \/ ToolRefused(r)
    \/ \E ids \in Results : ToolReturns(r, ids)
    \/ ToolRaises(r)
    \/ Save(r)

InvestigationsNext ==
    \/ \E u \in Investigators : ChangeMember(u)
    \/ \E r \in Runs, u \in Investigators : Investigate(r, u) \/ Get(r, u)
    \/ \E r \in Runs : RunSteps(r)

InvestigationsSpec == InvestigationsInit /\ [][InvestigationsNext]_investigationVars

-----------------------------------------------------------------------------
(* Properties.                                                             *)

InvestigationsTypeOK ==
    /\ members \subseteq Investigators
    /\ run \in [Runs -> {NULL} \cup RunType]
    /\ DOMAIN stored = Runs
    /\ DOMAIN reads = Investigators
    /\ shown \in [Runs -> SUBSET Ids]

\* The model is asked at most MaxSteps times, and services are called at most
\* MaxToolCalls times, however many calls the replies hold.
BudgetKept ==
    \A r \in Runs : run[r] # NULL => run[r].steps <= MaxSteps /\ Len(run[r].records) <= MaxToolCalls

\* When the model is asked again, every tool call it has made was answered.
CallsAnswered == \A r \in Runs : RunAt(r, "model") => run[r].unanswered = {}

\* A kept answer cites only what the tools of that run have shown, and cites
\* something unless it says the evidence does not suffice; any other run, one
\* with an invented citation among them, keeps no answer.
Grounded ==
    \A r \in Runs : stored[r] # NULL =>
        LET row == stored[r]
        IN /\ row.answer # NULL <=> row.status \in {"ANSWERED", "INSUFFICIENT_EVIDENCE"}
           /\ row.answer # NULL => row.answer.cited = row.cited /\ row.cited \subseteq shown[r]
           /\ row.status = "ANSWERED" => row.cited # {}

\* What a user reads back is the run they asked for, as it ended.
ReadsOwn ==
    \A u \in Investigators : reads[u] # NULL =>
        LET r == reads[u].run
        IN run[r].user = u /\ RunAt(r, "ended") /\ reads[u].row = Row(run[r])

\* The verdict of a run rests on its ledger.
VerdictOK(x) ==
    /\ x.answer # NULL <=> x.status \in {"ANSWERED", "INSUFFICIENT_EVIDENCE"}
    /\ x.answer # NULL => x.answer.cited = x.cited /\ x.cited \subseteq x.observed
    /\ x.status = "ANSWERED" => x.cited # {}
    /\ x.at \in {"model", "tools"} => x.answer = NULL /\ x.status = "STEP_LIMIT"

BudgetOK(x) == x.steps <= MaxSteps /\ Len(x.records) <= x.made /\ Len(x.records) <= MaxToolCalls

\* The calls that wait are those without an answer.
CallsOK(x) ==
    /\ x.at = "model" => x.unanswered = {}
    /\ x.at = "tools" =>
        Len(x.pending) > 0 /\ IsInjective(x.pending) /\ x.unanswered = Range(x.pending)

\* What is known of one run that was shown s.
RunOK(x, s) == x.observed = s /\ VerdictOK(x) /\ BudgetOK(x) /\ CallsOK(x)

\* The inductive invariant: what is stored, and what was read of it, is what
\* the run has ended with.
InvestigationsInv ==
    /\ InvestigationsTypeOK
    /\ \A r \in Runs : IF run[r] = NULL THEN shown[r] = {} ELSE RunOK(run[r], shown[r])
    /\ \A r \in Runs : stored[r] # NULL => RunAt(r, "ended") /\ stored[r] = Row(run[r])
    /\ \A u \in Investigators : reads[u] # NULL =>
        /\ reads[u].run \in Runs /\ RunAt(reads[u].run, "ended")
        /\ run[reads[u].run].user = u /\ reads[u].row = Row(run[reads[u].run])

-----------------------------------------------------------------------------
(* What the documentation says and the code does not keep.                 *)

\* Every run, including a failed one, is stored.
EveryRunStored == \A r \in Runs : RunAt(r, "ended") \/ RunAt(r, "raised") => stored[r] # NULL
=============================================================================
