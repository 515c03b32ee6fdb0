------------------------------ MODULE Evidence ------------------------------
(***************************************************************************)
(* services/evidence.py and repositories/evidence.py: capturing content-   *)
(* addressed evidence, and linking it to fact versions as supporting or    *)
(* contradicting them.                                                     *)
(*                                                                         *)
(* Each request is one transaction.  INSERT ... ON CONFLICT DO NOTHING     *)
(* waits while another open transaction holds the same key, and then finds *)
(* a conflict if that one committed and none if it rolled back.            *)
(***************************************************************************)
EXTENDS Null

CONSTANTS
    Contents,   \* <<source, normalised excerpt>>, the key of evidence
    Copies,     \* what a capture adds to the key: URI, metadata, time
    Versions,   \* fact versions
    Requests    \* bound: requests that run at the same time

VARIABLES
    evidence,  \* the copy stored for each content, or NULL
    links,     \* the relation stored for each <<version, content>>, or NULL
    request,   \* the request each slot works on, or NULL
    answer     \* what the last request of each slot was told, with the row it
               \* wrote or read (got, NULL if neither), or NULL

vars == <<evidence, links, request, answer>>

Relations == {"SUPPORTS", "CONTRADICTS"}
LinkKeys == Versions \X Contents

RequestType ==
    [step : {"inserting", "linking", "missing", "wrote", "found"},
     key : Contents \cup LinkKeys, value : Copies \cup Relations]

AnswerType ==
    [key : Contents \cup LinkKeys, created : BOOLEAN,
     asked : Copies \cup Relations, got : Copies \cup Relations \cup {NULL}]

ASSUME EvidenceAssumption ==
    /\ NULL \notin Copies \cup Relations
    /\ NULL \notin RequestType \cup AnswerType
    /\ Contents \cap LinkKeys = {}

Init ==
    /\ evidence = [c \in Contents |-> NULL]
    /\ links = [k \in LinkKeys |-> NULL]
    /\ request = [r \in Requests |-> NULL]
    /\ answer = [r \in Requests |-> NULL]

At(r, step) == request[r] # NULL /\ request[r].step = step

\* Whether another open transaction has written the row this one is to write.
Held(r) ==
    \E s \in Requests \ {r} : At(s, "wrote") /\ request[s].key = request[r].key

-----------------------------------------------------------------------------
(* capture_evidence.                                                       *)

Capture(r, c, copy) ==
    /\ request[r] = NULL
    /\ request' = [request EXCEPT ![r] = [step |-> "inserting", key |-> c, value |-> copy]]
    /\ UNCHANGED <<evidence, links, answer>>

InsertEvidence(r) ==
    /\ At(r, "inserting")
    /\ request[r].key \in Contents
    /\ ~Held(r)
    /\ request' = [request EXCEPT ![r].step =
                      IF evidence[request[r].key] = NULL THEN "wrote" ELSE "found"]
    /\ UNCHANGED <<evidence, links, answer>>

\* The SELECT that follows sees the row, inserted or met.
ReturnEvidence(r) ==
    /\ At(r, "wrote") \/ At(r, "found")
    /\ request[r].key \in Contents
    /\ LET c == request[r].key
           created == request[r].step = "wrote"
       IN /\ evidence' = IF created THEN [evidence EXCEPT ![c] = request[r].value] ELSE evidence
          /\ answer' = [answer EXCEPT ![r] = [key |-> c, created |-> created,
                                              asked |-> request[r].value, got |-> evidence'[c]]]
    /\ request' = [request EXCEPT ![r] = NULL]
    /\ UNCHANGED links

-----------------------------------------------------------------------------
(* attach.                                                                 *)

\* The version and the evidence are found in the caller's organization.
Attach(r, v, c, relation) ==
    /\ request[r] = NULL
    /\ evidence[c] # NULL
    /\ request' = [request EXCEPT ![r] = [step |-> "linking", key |-> <<v, c>>, value |-> relation]]
    /\ UNCHANGED <<evidence, links, answer>>

\* get_link: present with the same relation, present with another (conflict,
\* rolled back), or missing.
FindLink(r) ==
    /\ At(r, "linking")
    /\ LET stored == links[request[r].key]
       IN IF stored = NULL
          THEN request' = [request EXCEPT ![r].step = "missing"] /\ UNCHANGED answer
          ELSE /\ request' = [request EXCEPT ![r] = NULL]
               /\ answer' = [answer EXCEPT ![r] =
                     IF stored = request[r].value
                     THEN [key |-> request[r].key, created |-> FALSE,
                           asked |-> request[r].value, got |-> stored]
                     ELSE NULL]
    /\ UNCHANGED <<evidence, links>>

InsertLink(r) ==
    /\ At(r, "missing")
    /\ ~Held(r)
    /\ request' = [request EXCEPT ![r].step =
                      IF links[request[r].key] = NULL THEN "wrote" ELSE "found"]
    /\ UNCHANGED <<evidence, links, answer>>

\* Faulty variant: the insert updates the link that it meets.
ReturnLinkUpsert(r) ==
    /\ At(r, "wrote") \/ At(r, "found")
    /\ request[r].key \in LinkKeys
    /\ LET k == request[r].key
       IN /\ links' = [links EXCEPT ![k] = request[r].value]
          /\ answer' = [answer EXCEPT ![r] =
                [key |-> k, created |-> request[r].step = "wrote", asked |-> request[r].value,
                 got |-> IF request[r].step = "wrote" THEN request[r].value ELSE NULL]]
    /\ request' = [request EXCEPT ![r] = NULL]
    /\ UNCHANGED evidence

\* Whether it was inserted is all that is told; a link that was met is not read.
ReturnLink(r) ==
    /\ At(r, "wrote") \/ At(r, "found")
    /\ request[r].key \in LinkKeys
    /\ LET k == request[r].key
           created == request[r].step = "wrote"
       IN /\ links' = IF created THEN [links EXCEPT ![k] = request[r].value] ELSE links
          /\ answer' = [answer EXCEPT ![r] =
                [key |-> k, created |-> created, asked |-> request[r].value,
                 got |-> IF created THEN request[r].value ELSE NULL]]
    /\ request' = [request EXCEPT ![r] = NULL]
    /\ UNCHANGED evidence

\* The transaction is rolled back.
Rollback(r) ==
    /\ request[r] # NULL
    /\ request' = [request EXCEPT ![r] = NULL]
    /\ answer' = [answer EXCEPT ![r] = NULL]
    /\ UNCHANGED <<evidence, links>>

-----------------------------------------------------------------------------
StepsOf(r) == InsertEvidence(r) \/ ReturnEvidence(r) \/ FindLink(r) \/ InsertLink(r) \/ ReturnLink(r)

Next ==
    \E r \in Requests :
        \/ \E c \in Contents, copy \in Copies : Capture(r, c, copy)
        \/ \E v \in Versions, c \in Contents, relation \in Relations : Attach(r, v, c, relation)
        \/ StepsOf(r)
        \/ Rollback(r)

Spec == Init /\ [][Next]_vars

-----------------------------------------------------------------------------
(* Properties.                                                             *)

TypeOK ==
    /\ evidence \in [Contents -> Copies \cup {NULL}]
    /\ links \in [LinkKeys -> Relations \cup {NULL}]
    /\ request \in [Requests -> RequestType \cup {NULL}]
    /\ answer \in [Requests -> AnswerType \cup {NULL}]
    /\ \A r \in Requests : request[r] # NULL =>
          /\ request[r].key \in Contents => request[r].value \in Copies
          /\ request[r].key \in LinkKeys => request[r].value \in Relations
    /\ \A k \in LinkKeys : links[k] # NULL => evidence[k[2]] # NULL

\* Provenance is never rewritten: what was captured first stays, and a link
\* keeps the relation it was created with, however requests overlap.
NeverRewritten ==
    [][/\ \A c \in Contents : evidence[c] # NULL => evidence'[c] = evidence[c]
       /\ \A k \in LinkKeys : links[k] # NULL => links'[k] = links[k]]_vars

\* Concurrent requests for one row are told different things: at most one open
\* transaction holds the row, it is not there yet, and only that one will be
\* told that it created it.
CreatedOnce ==
    \A r, s \in Requests : At(r, "wrote") =>
        /\ request[r].key \in Contents => evidence[request[r].key] = NULL
        /\ request[r].key \in LinkKeys => links[request[r].key] = NULL
        /\ s # r /\ At(s, "wrote") => request[s].key # request[r].key

\* What a request was told stays true: the row that it wrote or was given is the
\* one stored, and a link that it was told exists does.
AnswersStand ==
    \A r \in Requests : answer[r] # NULL =>
        LET a == answer[r]
        IN /\ a.key \in Contents => evidence[a.key] = a.got
           /\ a.key \in LinkKeys => links[a.key] # NULL /\ a.got \in {links[a.key], NULL}
           /\ a.created => a.got = a.asked

-----------------------------------------------------------------------------
(* What the documentation says and the code does not keep.                 *)

\* link_evidence: a link that exists with a different relation is a conflict;
\* who was told of no conflict finds the relation they asked for.
ConflictsReported ==
    \A r \in Requests : answer[r] # NULL /\ answer[r].key \in LinkKeys =>
        links[answer[r].key] = answer[r].asked
=============================================================================
