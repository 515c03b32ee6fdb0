----------------------------- MODULE McpSession -----------------------------
(***************************************************************************)
(* The state that an MCP server keeps between the tool calls of a session  *)
(* (mcp/state.py), and the tools that use it (mcp/tools.py).               *)
(*                                                                         *)
(* A session is one server process; its tool calls run concurrently.  The  *)
(* state is one value in Redis, read, changed and written back in separate *)
(* commands.  Redis may be out of reach, expire the value or lose it.      *)
(***************************************************************************)
EXTENDS KeyValueStore, Sequences

CONSTANTS
    Sessions,
    Calls,       \* bound: tool calls under way at the same time
    Snapshots,   \* context snapshots
    FactsOf,     \* the fact versions each snapshot froze
    Queries,
    MaxRecent,   \* MAX_RECENT_QUERIES
    SessionTTL   \* mcp_session_ttl_seconds, in ticks

VARIABLES
    sessionStore,  \* Redis: the state of each session
    captures,  \* the snapshots in the database, in the order of their commits
    call,      \* the tool call in each slot, or NULL
    decision   \* the decision recorded last, or NULL

sessionVars == <<sessionStore, captures, call, decision>>

Empty == [snapshot |-> NULL, facts |-> {}, queries |-> <<>>]

\* Faulty variant: the key leaves the session out.
KeyShared(s) == CHOOSE one \in Sessions : TRUE

\* The key holds organization, user, agent and session.
KeyOf(s) == s

SessionInit ==
    /\ sessionStore = [k \in Sessions |-> NULL]
    /\ captures = <<>>
    /\ call = [c \in Calls |-> NULL]
    /\ decision = NULL

CallAt(c, step) == call[c] # NULL /\ call[c].step = step
Captured == {captures[i].snapshot : i \in DOMAIN captures}
Place(snapshot) == CHOOSE i \in DOMAIN captures : captures[i].snapshot = snapshot

\* The place of the last snapshot whose capture has returned to session s.
LastReturned(s) ==
    LET places == {i \in DOMAIN captures : captures[i].session = s /\ captures[i].returned}
    IN IF places = {} THEN 0 ELSE CHOOSE i \in places : \A j \in places : j <= i

-----------------------------------------------------------------------------
(* Tools that remember: search_facts and capture_decision_context.         *)

\* A tool call; data is the state it has loaded.
Call(s, step, query, snapshot) ==
    [session |-> s, step |-> step, query |-> query, snapshot |-> snapshot, data |-> Empty, after |-> NULL]

SearchFacts(c, s, query) ==
    /\ call[c] = NULL
    /\ call' = [call EXCEPT ![c] = Call(s, "load", query, NULL)]
    /\ UNCHANGED <<sessionStore, captures, decision>>

\* The snapshot is committed before the session remembers it.
CaptureContext(c, s, snapshot) ==
    /\ call[c] = NULL
    /\ snapshot \notin Captured
    /\ captures' = Append(captures, [snapshot |-> snapshot, session |-> s, returned |-> FALSE])
    /\ call' = [call EXCEPT ![c] = Call(s, "load", NULL, snapshot)]
    /\ UNCHANGED <<sessionStore, decision>>

\* _load and current: the state in the store, empty if there is none.
Loaded(s) == IF Get(sessionStore, KeyOf(s)) = NULL THEN Empty ELSE Get(sessionStore, KeyOf(s))

\* When the store is out of reach the update is skipped.
Load(c, reached) ==
    /\ CallAt(c, "load")
    /\ call' = IF reached THEN [call EXCEPT ![c].step = "save", ![c].data = Loaded(call[c].session)]
               ELSE [call EXCEPT ![c].step = "return"]
    /\ UNCHANGED <<sessionStore, captures, decision>>

WithQuery(data, query) ==
    LET others == SelectSeq(data.queries, LAMBDA q : q # query)
        queries == <<query>> \o others
    IN [data EXCEPT !.queries = SubSeq(queries, 1, IF Len(queries) < MaxRecent THEN Len(queries) ELSE MaxRecent)]

WithSnapshot(data, snapshot) == [data EXCEPT !.snapshot = snapshot, !.facts = FactsOf[snapshot]]

\* _save: the whole value, with a new time to live.
Save(c, reached) ==
    /\ CallAt(c, "save")
    /\ LET data == IF call[c].snapshot = NULL THEN WithQuery(call[c].data, call[c].query)
                   ELSE WithSnapshot(call[c].data, call[c].snapshot)
       IN sessionStore' = IF reached THEN SetKey(sessionStore, KeyOf(call[c].session), data, SessionTTL) ELSE sessionStore
    /\ call' = [call EXCEPT ![c].step = "return", ![c].data = Empty]
    /\ UNCHANGED <<captures, decision>>

\* The tool answers, whether or not the session remembers.
Return(c) ==
    /\ CallAt(c, "return")
    /\ captures' = [i \in DOMAIN captures |->
          IF captures[i].snapshot = call[c].snapshot THEN [captures[i] EXCEPT !.returned = TRUE]
          ELSE captures[i]]
    /\ call' = [call EXCEPT ![c] = NULL]
    /\ UNCHANGED <<sessionStore, decision>>

-----------------------------------------------------------------------------
(* record_decision and get_session_context.                                *)

\* What the agent is shown; it is a read.
GetSessionContext(s) == Loaded(s)

\* With a snapshot, or without one; after notes the captures that a call
\* without one comes after.
RecordDecision(c, s, snapshot) ==
    /\ call[c] = NULL
    /\ call' = [call EXCEPT ![c] =
          IF snapshot # NULL THEN Call(s, "record", NULL, snapshot)
          ELSE [Call(s, "default", NULL, NULL) EXCEPT !.after = LastReturned(s)]]
    /\ UNCHANGED <<sessionStore, captures, decision>>

\* _last_snapshot: what the session remembers, or a tool error.
LastSnapshot(c, reached) ==
    /\ CallAt(c, "default")
    /\ LET last == Loaded(call[c].session).snapshot
       IN call' = IF reached /\ last # NULL
                  THEN [call EXCEPT ![c].step = "record", ![c].snapshot = last]
                  ELSE [call EXCEPT ![c] = NULL]
    /\ UNCHANGED <<sessionStore, captures, decision>>

\* What is kept of a decision; after is NULL if the agent named the snapshot.
Made(c, relied) ==
    [session |-> call[c].session, snapshot |-> call[c].snapshot, relied |-> relied, after |-> call[c].after]

\* A decision cites facts of its snapshot, and no others.
ValidateReliedOn(relied, snapshot) == relied \subseteq FactsOf[snapshot]

\* DecisionService: the snapshot exists, and holds every citation.
Decide(c, relied) ==
    /\ CallAt(c, "record")
    /\ decision' = IF call[c].snapshot \in Captured /\ ValidateReliedOn(relied, call[c].snapshot)
                   THEN Made(c, relied) ELSE decision
    /\ call' = [call EXCEPT ![c] = NULL]
    /\ UNCHANGED <<sessionStore, captures>>

-----------------------------------------------------------------------------
\* Redis expires what has not been written for TTL ticks.
SessionTick ==
    /\ sessionStore' = Elapse(sessionStore)
    /\ UNCHANGED <<captures, call, decision>>

-----------------------------------------------------------------------------
Versions == UNION {FactsOf[snapshot] : snapshot \in Snapshots}

Steps(c) ==
    \/ \E reached \in BOOLEAN : Load(c, reached) \/ Save(c, reached) \/ LastSnapshot(c, reached)
    \/ Return(c)
    \/ \E relied \in SUBSET Versions : Decide(c, relied)

SessionNext ==
    \/ \E c \in Calls, s \in Sessions :
          \/ \E query \in Queries : SearchFacts(c, s, query)
          \/ \E snapshot \in Snapshots : CaptureContext(c, s, snapshot)
          \/ \E snapshot \in Snapshots \cup {NULL} : RecordDecision(c, s, snapshot)
    \/ \E c \in Calls : Steps(c)
    \/ SessionTick

SessionSpec == SessionInit /\ [][SessionNext]_sessionVars

-----------------------------------------------------------------------------
(* Properties.                                                             *)

SessionTypeOK ==
    /\ \A s \in Sessions : sessionStore[s] # NULL =>
          /\ sessionStore[s].left \in 1..SessionTTL
          /\ \A i, j \in DOMAIN sessionStore[s].value.queries :
                 sessionStore[s].value.queries[i] = sessionStore[s].value.queries[j] => i = j
          /\ Len(sessionStore[s].value.queries) <= MaxRecent
    /\ \A c \in Calls : call[c] # NULL =>
          call[c].step \in {"load", "save", "return", "default", "record"}

\* What a session is shown belongs together and is its own: the snapshot is one
\* that it captured, and the fact versions are those of the snapshot, although
\* tool calls overwrite each other's updates.
ContextWhole ==
    \A s \in Sessions :
        LET data == GetSessionContext(s)
        IN /\ data.facts = IF data.snapshot = NULL THEN {} ELSE FactsOf[data.snapshot]
           /\ data.snapshot # NULL =>
                 \E i \in DOMAIN captures : captures[i].snapshot = data.snapshot /\ captures[i].session = s

\* A decision cites only facts that its snapshot froze, whichever snapshot the
\* session's state stood for.
CitesSnapshot ==
    decision # NULL =>
        decision.snapshot \in Captured /\ decision.relied \subseteq FactsOf[decision.snapshot]

-----------------------------------------------------------------------------
(* The inductive invariant of the proofs.                                  *)

CaptureType == [snapshot : Snapshots, session : Sessions, returned : BOOLEAN]

CapturedBy(s, snapshot) ==
    \E i \in DOMAIN captures : captures[i].snapshot = snapshot /\ captures[i].session = s

\* A state that session s may be shown.
WholeFor(s, data) ==
    /\ DOMAIN data = {"snapshot", "facts", "queries"}
    /\ data.facts = IF data.snapshot = NULL THEN {} ELSE FactsOf[data.snapshot]
    /\ data.snapshot # NULL => CapturedBy(s, data.snapshot)

\* A call carries a state of its session, and remembers what it captured.
CallOK(x) ==
    /\ DOMAIN x = {"session", "step", "query", "snapshot", "data", "after"}
    /\ x.session \in Sessions
    /\ WholeFor(x.session, x.data)
    /\ x.step \in {"load", "save"} /\ x.snapshot # NULL => CapturedBy(x.session, x.snapshot)

SessionInv ==
    /\ DOMAIN sessionStore = Sessions /\ DOMAIN call = Calls
    /\ captures \in Seq(CaptureType)
    /\ \A s \in Sessions : sessionStore[s] # NULL =>
          DOMAIN sessionStore[s] = {"value", "left"} /\ WholeFor(s, sessionStore[s].value)
    /\ \A c \in Calls : call[c] # NULL => CallOK(call[c])
    /\ CitesSnapshot

-----------------------------------------------------------------------------
(* What the documentation says and the code does not keep.                 *)

\* snapshot_id defaults to the snapshot that the session captured last: to one
\* no older than the last capture that had returned before.
LastCaptureUsed ==
    decision # NULL /\ decision.after # NULL => Place(decision.snapshot) >= decision.after
=============================================================================
