-------------------------- MODULE KnowledgeProofs ---------------------------
(***************************************************************************)
(* Proofs about Evidence and Contradictions.                               *)
(*                                                                         *)
(* Evidence: provenance is never rewritten, a row is created once, and the *)
(* answers given stay true, however many captures and links overlap.  A    *)
(* row that some open transaction has written is not there yet and no      *)
(* other has written it (CreatedOnce), because an insert waits while the   *)
(* row is held; hence a commit fills an empty row, and whatever was read   *)
(* of a filled one stays so.                                               *)
(*                                                                         *)
(* Contradictions: a contradiction is closed once, because whoever closes  *)
(* it holds its row and an insert fills none that is there; and a review   *)
(* reports the truth, because it has counted every finding it is done with *)
(* and keeps every pair it accepted, until it is stored (ReviewsInv).      *)
(***************************************************************************)
EXTENDS Evidence, Contradictions, TLAPS

-----------------------------------------------------------------------------
(* The inductive invariant.                                                *)

RowsOK ==
    /\ evidence \in [Contents -> Copies \cup {NULL}]
    /\ links \in [LinkKeys -> Relations \cup {NULL}]
    /\ \A k \in LinkKeys : links[k] # NULL => evidence[k[2]] # NULL

SlotsOK ==
    /\ request \in [Requests -> RequestType \cup {NULL}]
    /\ answer \in [Requests -> AnswerType \cup {NULL}]

\* A request works on a key of its kind; the evidence it links is there, and
\* so is the row it found.
RequestOK(r) ==
    /\ request[r].key \in Contents =>
          /\ request[r].value \in Copies
          /\ request[r].step \in {"inserting", "wrote", "found"}
          /\ request[r].step = "found" => evidence[request[r].key] # NULL
    /\ request[r].key \in LinkKeys =>
          /\ request[r].value \in Relations
          /\ request[r].step \in {"linking", "missing", "wrote", "found"}
          /\ evidence[request[r].key[2]] # NULL
          /\ request[r].step = "found" => links[request[r].key] # NULL

AnswerOK(r) ==
    /\ answer[r].key \in Contents =>
          evidence[answer[r].key] # NULL /\ evidence[answer[r].key] = answer[r].got
    /\ answer[r].key \in LinkKeys =>
          links[answer[r].key] # NULL /\ answer[r].got \in {links[answer[r].key], NULL}
    /\ answer[r].created => answer[r].got = answer[r].asked

RequestsOK == \A r \in Requests : request[r] # NULL => RequestOK(r)
AnswersOK == \A r \in Requests : answer[r] # NULL => AnswerOK(r)

Inv == RowsOK /\ SlotsOK /\ RequestsOK /\ AnswersOK /\ CreatedOnce

\* What a step may do to the rows.
Grows ==
    /\ \A c \in Contents : evidence[c] # NULL => evidence'[c] = evidence[c]
    /\ \A k \in LinkKeys : links[k] # NULL => links'[k] = links[k]

\* What a step of one request leaves alone.
OthersSame(r) ==
    \A s \in Requests \ {r} : request'[s] = request[s] /\ answer'[s] = answer[s]

\* The second part of a link's key is its content.
LEMMA KeyParts == ASSUME NEW k \in LinkKeys PROVE k[2] \in Contents
BY Zenon DEF LinkKeys

\* What is said of the requests and answers of others survives while the rows
\* only grow.
LEMMA OthersKept ==
    ASSUME Inv, Grows, NEW r \in Requests, OthersSame(r), NEW s \in Requests, s # r
    PROVE  /\ request'[s] # NULL => RequestOK(s)'
           /\ answer'[s] # NULL => AnswerOK(s)'
<1>1. request'[s] = request[s] /\ answer'[s] = answer[s]
  BY Zenon DEF OthersSame
<1>2. ASSUME request[s] # NULL PROVE RequestOK(s)'
  <2>1. RequestOK(s)
    BY <1>2, Zenon DEF Inv, RequestsOK
  <2>. QED BY <1>1, <2>1, KeyParts, Zenon DEF RequestOK, Grows
<1>3. ASSUME answer[s] # NULL PROVE AnswerOK(s)'
  <2>1. AnswerOK(s)
    BY <1>3, Zenon DEF Inv, AnswersOK
  <2>. QED BY <1>1, <2>1, Zenon DEF AnswerOK, Grows
<1>. QED BY <1>1, <1>2, <1>3, Zenon

\* It is enough, then, to look at the rows and at the slot of the step.
LEMMA StepOK ==
    ASSUME Inv, Grows, NEW r \in Requests, OthersSame(r), RowsOK', SlotsOK',
           request'[r] # NULL => RequestOK(r)', answer'[r] # NULL => AnswerOK(r)', CreatedOnce'
    PROVE  Inv'
BY OthersKept, Zenon DEF Inv, RequestsOK, AnswersOK

\* A step that leaves the rows alone.
LEMMA QuietRows == ASSUME Inv, UNCHANGED <<evidence, links>> PROVE Grows /\ RowsOK'
BY Zenon DEF Inv, Grows, RowsOK

\* A step of a request that has written nothing afterwards, and leaves the rows
\* alone, leaves CreatedOnce alone.
LEMMA CreatedQuietly ==
    ASSUME Inv, NEW r \in Requests, OthersSame(r), UNCHANGED <<evidence, links>>, ~At(r, "wrote")'
    PROVE  CreatedOnce'
<1> SUFFICES ASSUME NEW p \in Requests, NEW q \in Requests, At(p, "wrote")'
             PROVE  /\ request'[p].key \in Contents => evidence'[request'[p].key] = NULL
                    /\ request'[p].key \in LinkKeys => links'[request'[p].key] = NULL
                    /\ q # p /\ At(q, "wrote")' => request'[q].key # request'[p].key
  BY Zenon DEF CreatedOnce
<1>1. p # r /\ request'[p] = request[p] /\ At(p, "wrote")
  BY Zenon DEF OthersSame, At
<1>2. At(q, "wrote")' => q # r /\ request'[q] = request[q] /\ At(q, "wrote")
  BY Zenon DEF OthersSame, At
<1>. QED BY <1>1, <1>2, Zenon DEF Inv, CreatedOnce

\* Without rows and requests the invariant holds.
LEMMA InitInv == ASSUME Init PROVE Inv
<1>1. RowsOK /\ SlotsOK
  BY Zenon DEF Init, RowsOK, SlotsOK
<1>2. RequestsOK /\ AnswersOK /\ CreatedOnce
  BY Zenon DEF Init, RequestsOK, AnswersOK, CreatedOnce, At
<1>. QED BY <1>1, <1>2, Zenon DEF Inv

-----------------------------------------------------------------------------
(* The steps.                                                              *)

\* A request that goes on keeps its key and its value.
LEMMA GoesOn ==
    ASSUME Inv, NEW r \in Requests, request[r] # NULL,
           NEW step \in {"missing", "wrote", "found"},
           request' = [request EXCEPT ![r].step = step], answer' = answer
    PROVE  /\ SlotsOK' /\ OthersSame(r)
           /\ request'[r] # NULL /\ request'[r].step = step
           /\ request'[r].key = request[r].key /\ request'[r].value = request[r].value
           /\ request[r].key \in Contents \cup LinkKeys
<1>1. /\ request \in [Requests -> RequestType \cup {NULL}] /\ request[r] \in RequestType
      /\ answer \in [Requests -> AnswerType \cup {NULL}]
  BY Zenon DEF Inv, SlotsOK
<1>2. request'[r] = [request[r] EXCEPT !.step = step]
  BY <1>1, Zenon
<1>3. request'[r] = [step |-> step, key |-> request[r].key, value |-> request[r].value]
  BY <1>1, <1>2, Zenon DEF RequestType
<1>4. request'[r] \in RequestType /\ request[r].key \in Contents \cup LinkKeys
  BY <1>1, <1>3, Zenon DEF RequestType
<1>5. request'[r] # NULL
  BY <1>4, EvidenceAssumption, Zenon
<1>6. SlotsOK' /\ OthersSame(r)
  BY <1>1, <1>2, <1>4, Zenon DEF SlotsOK, OthersSame
<1>. QED BY <1>3, <1>4, <1>5, <1>6

\* What a request that ends leaves behind.
LEMMA EndsOK ==
    ASSUME Inv, NEW r \in Requests, NEW a \in AnswerType \cup {NULL},
           request' = [request EXCEPT ![r] = NULL], answer' = [answer EXCEPT ![r] = a]
    PROVE  SlotsOK' /\ OthersSame(r) /\ request'[r] = NULL /\ answer'[r] = a
BY Zenon DEF Inv, SlotsOK, OthersSame

\* A request begins to run, with the rows as they are.
LEMMA StartStep ==
    ASSUME Inv, NEW r \in Requests, NEW new \in RequestType, request[r] = NULL,
           request' = [request EXCEPT ![r] = new], UNCHANGED <<evidence, links, answer>>,
           \/ new.key \in Contents /\ new.value \in Copies /\ new.step = "inserting"
           \/ /\ new.key \in LinkKeys /\ new.value \in Relations /\ new.step = "linking"
              /\ evidence[new.key[2]] # NULL
    PROVE  Inv'
<1>1. SlotsOK' /\ OthersSame(r) /\ request'[r] = new /\ answer'[r] = answer[r]
  BY Zenon DEF Inv, SlotsOK, OthersSame
<1>2. ~At(r, "wrote")'
  BY <1>1, Zenon DEF At
<1>3. CreatedOnce'
  BY <1>1, <1>2, CreatedQuietly, Zenon
<1>4. RequestOK(r)'
  BY <1>1, EvidenceAssumption, Zenon DEF RequestOK
<1>5. answer'[r] # NULL => AnswerOK(r)'
  BY <1>1, Zenon DEF Inv, AnswersOK, AnswerOK
<1>. QED BY <1>1, <1>3, <1>4, <1>5, QuietRows, StepOK, Zenon

\* An insert that waited until nobody holds the row: it writes the row if it is
\* not there, and finds it otherwise.
LEMMA InsertStep ==
    ASSUME Inv, NEW r \in Requests, request[r] # NULL, ~Held(r),
           NEW step \in {"wrote", "found"},
           request' = [request EXCEPT ![r].step = step], UNCHANGED <<evidence, links, answer>>,
           request[r].key \in Contents => (step = "wrote" <=> evidence[request[r].key] = NULL),
           request[r].key \in LinkKeys => (step = "wrote" <=> links[request[r].key] = NULL)
    PROVE  Inv'
<1>1. /\ SlotsOK' /\ OthersSame(r)
      /\ request'[r] # NULL /\ request'[r].step = step
      /\ request'[r].key = request[r].key /\ request'[r].value = request[r].value
      /\ request[r].key \in Contents \cup LinkKeys
  BY GoesOn, Zenon
<1>2. RequestOK(r)
  BY Zenon DEF Inv, RequestsOK
<1>3. RequestOK(r)'
  <2>1. CASE request[r].key \in Contents
    BY <1>1, <1>2, <2>1, EvidenceAssumption, Zenon DEF RequestOK
  <2>2. CASE request[r].key \in LinkKeys
    BY <1>1, <1>2, <2>2, EvidenceAssumption, Zenon DEF RequestOK
  <2>. QED BY <1>1, <2>1, <2>2, Zenon
<1>4. CreatedOnce'
  <2> SUFFICES ASSUME NEW p \in Requests, NEW q \in Requests, At(p, "wrote")'
               PROVE  /\ request'[p].key \in Contents => evidence'[request'[p].key] = NULL
                      /\ request'[p].key \in LinkKeys => links'[request'[p].key] = NULL
                      /\ q # p /\ At(q, "wrote")' => request'[q].key # request'[p].key
    BY Zenon DEF CreatedOnce
  <2>1. \A s \in Requests : s # r /\ At(s, "wrote")' => /\ At(s, "wrote") /\ request'[s].key = request[s].key
                                                        /\ request[s].key # request[r].key
    BY <1>1, ZenonT(40) DEF OthersSame, At, Held
  <2>2. CASE p = r
    <3>1. step = "wrote"
      BY <1>1, <2>2, Zenon DEF At
    <3>2. /\ request'[p].key \in Contents => evidence'[request'[p].key] = NULL
          /\ request'[p].key \in LinkKeys => links'[request'[p].key] = NULL
      BY <1>1, <2>2, <3>1, Zenon
    <3>. QED BY <1>1, <2>1, <2>2, <3>2, Zenon
  <2>3. CASE p # r
    <3>1. At(p, "wrote") /\ request'[p].key = request[p].key
      BY <2>1, <2>3, Zenon
    <3>2. /\ request'[p].key \in Contents => evidence'[request'[p].key] = NULL
          /\ request'[p].key \in LinkKeys => links'[request'[p].key] = NULL
      BY <3>1, Zenon DEF Inv, CreatedOnce
    <3>3. CASE q = r
      BY <1>1, <2>1, <2>3, <3>1, <3>2, <3>3, Zenon
    <3>4. CASE q # r
      BY <2>1, <3>1, <3>2, <3>4, ZenonT(40) DEF Inv, CreatedOnce
    <3>. QED BY <3>3, <3>4, Zenon
  <2>. QED BY <2>2, <2>3, Zenon
<1>5. answer'[r] # NULL => AnswerOK(r)'
  BY Zenon DEF Inv, AnswersOK, AnswerOK
<1>. QED BY <1>1, <1>3, <1>4, <1>5, QuietRows, StepOK, Zenon

\* A commit fills the row it wrote, if it wrote it.
LEMMA CommitRows ==
    ASSUME Inv, NEW r \in Requests, At(r, "wrote") \/ At(r, "found"),
           LET k == request[r].key
               created == request[r].step = "wrote"
           IN \/ /\ k \in Contents
                 /\ evidence' = IF created THEN [evidence EXCEPT ![k] = request[r].value] ELSE evidence
                 /\ links' = links
              \/ /\ k \in LinkKeys
                 /\ links' = IF created THEN [links EXCEPT ![k] = request[r].value] ELSE links
                 /\ evidence' = evidence
    PROVE  /\ Grows /\ RowsOK'
           /\ \A c \in Contents : c # request[r].key => evidence'[c] = evidence[c]
           /\ \A k \in LinkKeys : k # request[r].key => links'[k] = links[k]
<1> DEFINE key == request[r].key
           value == request[r].value
<1>1. /\ evidence \in [Contents -> Copies \cup {NULL}]
      /\ links \in [LinkKeys -> Relations \cup {NULL}]
      /\ \A k \in LinkKeys : links[k] # NULL => evidence[k[2]] # NULL
  BY Zenon DEF Inv, RowsOK
<1>2. RequestOK(r)
  BY Zenon DEF Inv, RequestsOK, At
<1>3. CASE request[r].step # "wrote"
  <2>1. UNCHANGED <<evidence, links>>
    BY <1>3, Zenon
  <2>. QED BY <2>1, QuietRows, Zenon
<1>4. CASE request[r].step = "wrote" /\ key \in Contents
  <2>1. evidence[key] = NULL /\ value \in Copies /\ value # NULL
    BY <1>2, <1>4, EvidenceAssumption, Zenon DEF Inv, CreatedOnce, At, RequestOK
  <2>2. evidence' = [evidence EXCEPT ![key] = value] /\ links' = links
    BY <1>4, EvidenceAssumption, Zenon
  <2>3. \A c \in Contents : c # key => evidence'[c] = evidence[c]
    BY <1>1, <2>2, Zenon
  <2>4. Grows
    BY <2>1, <2>2, <2>3, Zenon DEF Grows
  <2>5. evidence' \in [Contents -> Copies \cup {NULL}]
    BY <1>1, <2>1, <2>2, Zenon
  <2>6. \A k \in LinkKeys : links'[k] # NULL => evidence'[k[2]] # NULL
    BY <1>1, <2>2, <2>4, KeyParts, Zenon DEF Grows
  <2>. QED BY <1>1, <2>2, <2>3, <2>4, <2>5, <2>6, Zenon DEF RowsOK
<1>5. CASE request[r].step = "wrote" /\ key \in LinkKeys
  <2>1. links[key] = NULL /\ value \in Relations /\ evidence[key[2]] # NULL
    BY <1>2, <1>5, Zenon DEF Inv, CreatedOnce, At, RequestOK
  <2>2. links' = [links EXCEPT ![key] = value] /\ evidence' = evidence
    BY <1>5, EvidenceAssumption, Zenon
  <2>3. \A k \in LinkKeys : k # key => links'[k] = links[k]
    BY <1>1, <2>2, Zenon
  <2>4. Grows
    BY <2>1, <2>2, <2>3, Zenon DEF Grows
  <2>5. links' \in [LinkKeys -> Relations \cup {NULL}]
    BY <1>1, <2>1, <2>2, Zenon
  <2>6. \A k \in LinkKeys : links'[k] # NULL => evidence'[k[2]] # NULL
    BY <1>1, <2>1, <2>2, <2>3, Zenon
  <2>. QED BY <1>1, <2>2, <2>3, <2>4, <2>5, <2>6, Zenon DEF RowsOK
<1>6. key \in Contents \cup LinkKeys
  BY Zenon
<1>. QED BY <1>3, <1>4, <1>5, <1>6, Zenon

\* The commit of a request, and the answer it gives.
LEMMA CommitStep ==
    ASSUME Inv, NEW r \in Requests, ReturnEvidence(r) \/ ReturnLink(r)
    PROVE  Inv' /\ Grows
<1> DEFINE key == request[r].key
           created == request[r].step = "wrote"
           got == IF key \in Contents THEN evidence'[key]
                  ELSE IF created THEN request[r].value ELSE NULL
           a == [key |-> key, created |-> created, asked |-> request[r].value, got |-> got]
<1>1. /\ request[r] # NULL /\ (At(r, "wrote") \/ At(r, "found"))
      /\ \/ /\ key \in Contents
            /\ evidence' = IF created THEN [evidence EXCEPT ![key] = request[r].value] ELSE evidence
            /\ links' = links
         \/ /\ key \in LinkKeys
            /\ links' = IF created THEN [links EXCEPT ![key] = request[r].value] ELSE links
            /\ evidence' = evidence
  BY Zenon DEF ReturnEvidence, ReturnLink, At
<1>2. /\ Grows /\ RowsOK'
      /\ \A c \in Contents : c # key => evidence'[c] = evidence[c]
      /\ \A k \in LinkKeys : k # key => links'[k] = links[k]
  BY <1>1, CommitRows, Zenon
<1>3. request' = [request EXCEPT ![r] = NULL] /\ answer' = [answer EXCEPT ![r] = a]
  BY EvidenceAssumption, Zenon DEF ReturnEvidence, ReturnLink
<1>4. RequestOK(r) /\ request[r] \in RequestType
  BY <1>1, Zenon DEF Inv, RequestsOK, SlotsOK
<1>5. /\ got \in Copies \cup Relations \cup {NULL}
      /\ key \in Contents => evidence'[key] # NULL
      /\ key \in LinkKeys => links'[key] # NULL
      /\ created => got = request[r].value
  <2>1. CASE created /\ key \in Contents
    BY <1>1, <1>4, <2>1, EvidenceAssumption, Zenon DEF RequestOK, Inv, RowsOK
  <2>2. CASE created /\ key \in LinkKeys
    BY <1>1, <1>4, <2>2, EvidenceAssumption, Zenon DEF RequestOK, Inv, RowsOK
  <2>3. CASE ~created /\ key \in Contents
    <3>1. key \notin LinkKeys /\ evidence'[key] = evidence[key] /\ evidence[key] # NULL
      BY <1>1, <1>4, <2>3, EvidenceAssumption, Zenon DEF RequestOK, At
    <3>. QED BY <2>3, <3>1, Zenon DEF Inv, RowsOK
  <2>4. CASE ~created /\ key \in LinkKeys
    <3>1. key \notin Contents /\ links'[key] = links[key] /\ links[key] # NULL
      BY <1>1, <1>4, <2>4, EvidenceAssumption, Zenon DEF RequestOK, At
    <3>. QED BY <2>4, <3>1, Zenon
  <2>. QED BY <1>1, <2>1, <2>2, <2>3, <2>4, Zenon
<1>6. a \in AnswerType
  BY <1>4, <1>5, Zenon DEF AnswerType, RequestType
<1>7. SlotsOK' /\ OthersSame(r) /\ request'[r] = NULL /\ answer'[r] = a
  BY <1>3, <1>6, EndsOK, Zenon
<1>8. AnswerOK(r)'
  <2>1. a.key = key /\ a.created = created /\ a.asked = request[r].value /\ a.got = got
    BY Zenon
  <2>2. key \in Contents => got = evidence'[key]
    BY Zenon
  <2>3. key \in LinkKeys => got \in {links'[key], NULL}
    BY <1>1, <1>4, EvidenceAssumption, Zenon DEF RequestOK, Inv, RowsOK
  <2> HIDE DEF a, got
  <2>. QED BY <1>5, <1>7, <2>1, <2>2, <2>3, Zenon DEF AnswerOK
<1>9. CreatedOnce'
  <2> SUFFICES ASSUME NEW p \in Requests, NEW q \in Requests, At(p, "wrote")'
               PROVE  /\ request'[p].key \in Contents => evidence'[request'[p].key] = NULL
                      /\ request'[p].key \in LinkKeys => links'[request'[p].key] = NULL
                      /\ q # p /\ At(q, "wrote")' => request'[q].key # request'[p].key
    BY Zenon DEF CreatedOnce
  <2>1. \A s \in Requests : At(s, "wrote")' => s # r /\ At(s, "wrote") /\ request'[s] = request[s]
    BY <1>7, Zenon DEF OthersSame, At
  <2>2. /\ request[p].key \in Contents => evidence[request[p].key] = NULL
        /\ request[p].key \in LinkKeys => links[request[p].key] = NULL
        /\ q # p /\ At(q, "wrote")' => request'[q].key # request'[p].key
    BY <2>1, Zenon DEF Inv, CreatedOnce
  <2>3. CASE created
    <3>1. request[p].key # key
      BY <1>1, <2>1, <2>3, Zenon DEF Inv, CreatedOnce, At
    <3>. QED BY <1>2, <2>1, <2>2, <3>1, Zenon
  <2>4. CASE ~created
    BY <1>1, <2>1, <2>2, <2>4, Zenon
  <2>. QED BY <2>3, <2>4, Zenon
<1>. QED BY <1>2, <1>7, <1>8, <1>9, StepOK, Zenon

\* Every step preserves the invariant, and no step takes a row away.
LEMMA InvStep == ASSUME Inv, [Next]_vars PROVE Inv' /\ (Grows \/ UNCHANGED vars)
<1>1. CASE UNCHANGED vars
  <2>1. RowsOK' /\ SlotsOK'
    BY <1>1, Zenon DEF Inv, vars, RowsOK, SlotsOK
  <2>2. RequestsOK' /\ AnswersOK'
    BY <1>1, Zenon DEF Inv, vars, RequestsOK, AnswersOK, RequestOK, AnswerOK
  <2>3. CreatedOnce'
    BY <1>1, Zenon DEF Inv, vars, CreatedOnce, At
  <2>. QED BY <1>1, <2>1, <2>2, <2>3, Zenon DEF Inv
<1>2. ASSUME NEW r \in Requests, NEW c \in Contents, NEW copy \in Copies, Capture(r, c, copy)
      PROVE  Inv' /\ Grows
  <2> DEFINE new == [step |-> "inserting", key |-> c, value |-> copy]
  <2>1. /\ new \in RequestType /\ new.key = c /\ new.value = copy /\ new.step = "inserting"
    BY Zenon DEF RequestType
  <2>2. /\ request[r] = NULL /\ request' = [request EXCEPT ![r] = new]
        /\ UNCHANGED <<evidence, links, answer>>
    BY <1>2, Zenon DEF Capture
  <2> HIDE DEF new
  <2>. QED BY <2>1, <2>2, StartStep, QuietRows, Zenon
<1>3. ASSUME NEW r \in Requests, NEW v \in Versions, NEW c \in Contents, NEW relation \in Relations,
             Attach(r, v, c, relation)
      PROVE  Inv' /\ Grows
  <2> DEFINE new == [step |-> "linking", key |-> <<v, c>>, value |-> relation]
  <2>1. /\ new \in RequestType /\ new.key \in LinkKeys /\ new.value = relation /\ new.step = "linking"
        /\ new.key[2] = c
    BY Zenon DEF RequestType, LinkKeys
  <2>2. /\ request[r] = NULL /\ request' = [request EXCEPT ![r] = new]
        /\ UNCHANGED <<evidence, links, answer>> /\ evidence[c] # NULL
    BY <1>3, Zenon DEF Attach
  <2> HIDE DEF new
  <2>. QED BY <2>1, <2>2, StartStep, QuietRows, Zenon
<1>4. ASSUME NEW r \in Requests, InsertEvidence(r) PROVE Inv' /\ Grows
  <2> DEFINE step == IF evidence[request[r].key] = NULL THEN "wrote" ELSE "found"
  <2>1. /\ request[r] # NULL /\ ~Held(r) /\ request[r].key \in Contents
        /\ request' = [request EXCEPT ![r].step = step] /\ UNCHANGED <<evidence, links, answer>>
    BY <1>4, Zenon DEF InsertEvidence, At
  <2>2. request[r].key \notin LinkKeys /\ step \in {"wrote", "found"}
    BY <2>1, EvidenceAssumption, Zenon
  <2>3. step = "wrote" <=> evidence[request[r].key] = NULL
    BY Zenon
  <2> HIDE DEF step
  <2>. QED BY <2>1, <2>2, <2>3, InsertStep, QuietRows, Zenon
<1>5. ASSUME NEW r \in Requests, InsertLink(r) PROVE Inv' /\ Grows
  <2> DEFINE step == IF links[request[r].key] = NULL THEN "wrote" ELSE "found"
  <2>1. /\ request[r] # NULL /\ ~Held(r) /\ request[r].step = "missing"
        /\ request' = [request EXCEPT ![r].step = step] /\ UNCHANGED <<evidence, links, answer>>
    BY <1>5, Zenon DEF InsertLink, At
  <2>2. request[r].key \notin Contents
    BY <2>1, Zenon DEF Inv, RequestsOK, RequestOK
  <2>3. (step = "wrote" <=> links[request[r].key] = NULL) /\ step \in {"wrote", "found"}
    BY Zenon
  <2> HIDE DEF step
  <2>. QED BY <2>1, <2>2, <2>3, InsertStep, QuietRows, Zenon
<1>6. ASSUME NEW r \in Requests, FindLink(r) PROVE Inv' /\ Grows
  <2> DEFINE key == request[r].key
  <2>1. /\ request[r] # NULL /\ request[r].step = "linking" /\ RequestOK(r)
        /\ request[r] \in RequestType /\ UNCHANGED <<evidence, links>>
    BY <1>6, Zenon DEF FindLink, At, Inv, RequestsOK, SlotsOK
  <2>2. key \in LinkKeys /\ key \notin Contents
    BY <2>1, Zenon DEF RequestType, RequestOK
  <2>3. CASE links[key] = NULL
    <3>1. request' = [request EXCEPT ![r].step = "missing"] /\ answer' = answer
      BY <1>6, <2>3, Zenon DEF FindLink
    <3>2. /\ SlotsOK' /\ OthersSame(r)
          /\ request'[r] # NULL /\ request'[r].step = "missing"
          /\ request'[r].key = key /\ request'[r].value = request[r].value
      BY <2>1, <3>1, GoesOn, Zenon
    <3>3. RequestOK(r)'
      BY <2>1, <2>2, <3>2, Zenon DEF RequestOK
    <3>4. answer'[r] # NULL => AnswerOK(r)'
      BY <2>1, <3>1, Zenon DEF Inv, AnswersOK, AnswerOK
    <3>5. ~At(r, "wrote")'
      BY <3>2, Zenon DEF At
    <3>. QED BY <2>1, <3>2, <3>3, <3>4, <3>5, CreatedQuietly, QuietRows, StepOK, Zenon
  <2>4. CASE links[key] # NULL
    <3> DEFINE told == [key |-> key, created |-> FALSE, asked |-> request[r].value, got |-> links[key]]
               a == IF links[key] = request[r].value THEN told ELSE NULL
    <3>1. request' = [request EXCEPT ![r] = NULL] /\ answer' = [answer EXCEPT ![r] = a]
      BY <1>6, <2>4, Zenon DEF FindLink
    <3>2. links[key] \in Copies \cup Relations \cup {NULL}
      BY <2>2, <2>4, Zenon DEF Inv, RowsOK
    <3>3. told \in AnswerType
      BY <2>1, <3>2, Zenon DEF AnswerType, RequestType
    <3>4. told.key = key /\ told.got = links[key] /\ ~told.created
      BY Zenon
    <3> HIDE DEF told
    <3>5. SlotsOK' /\ OthersSame(r) /\ request'[r] = NULL /\ answer'[r] = a
      BY <3>1, <3>3, EndsOK, Zenon
    <3>6. answer'[r] # NULL => AnswerOK(r)'
      BY <2>1, <2>2, <2>4, <3>4, <3>5, Zenon DEF AnswerOK
    <3>7. ~At(r, "wrote")'
      BY <3>5, Zenon DEF At
    <3>. QED BY <2>1, <3>5, <3>6, <3>7, CreatedQuietly, QuietRows, StepOK, Zenon
  <2>. QED BY <2>3, <2>4, Zenon
<1>7. ASSUME NEW r \in Requests, Rollback(r) PROVE Inv' /\ Grows
  <2>1. SlotsOK' /\ OthersSame(r) /\ request'[r] = NULL /\ answer'[r] = NULL
    BY <1>7, EndsOK, Zenon DEF Rollback
  <2>2. ~At(r, "wrote")' /\ UNCHANGED <<evidence, links>>
    BY <1>7, <2>1, Zenon DEF At, Rollback
  <2>. QED BY <2>1, <2>2, CreatedQuietly, QuietRows, StepOK, Zenon
<1>. QED BY <1>1, <1>2, <1>3, <1>4, <1>5, <1>6, <1>7, CommitStep, Zenon DEF Next, StepsOf

\* The invariant holds in every reachable state.
LEMMA Invariant == Spec => []Inv
<1>1. Init => Inv
  BY InitInv, Zenon
<1>2. Inv /\ [Next]_vars => Inv'
  BY InvStep, Zenon
<1>. QED BY <1>1, <1>2, PTL DEF Spec

-----------------------------------------------------------------------------
(* Theorems.                                                               *)

\* Evidence, links, requests and answers have their types, and a link leads to
\* evidence that is there.
THEOREM EvidenceTyped == Spec => []TypeOK
<1>1. Inv => TypeOK
  BY Zenon DEF Inv, TypeOK, RowsOK, SlotsOK, RequestsOK, RequestOK
<1>. QED BY <1>1, Invariant, PTL

\* Of all the transactions that insert one row, at most one will be told that
\* it created it (repositories/evidence.py, ON CONFLICT DO NOTHING).
THEOREM RowsCreatedOnce == Spec => []CreatedOnce
<1>1. Inv => CreatedOnce
  BY Zenon DEF Inv
<1>. QED BY <1>1, Invariant, PTL

\* The evidence and the link that a request was given are the ones stored, for
\* as long as anybody remembers the answer.
THEOREM AnswersStay == Spec => []AnswersStand
<1>1. Inv => AnswersStand
  BY Zenon DEF Inv, AnswersOK, AnswerOK, AnswersStand
<1>. QED BY <1>1, Invariant, PTL

\* No step rewrites evidence or the relation of a link.
THEOREM ProvenanceKept == Spec => NeverRewritten
<1>1. Inv /\ [Next]_vars => [Grows]_vars
  BY InvStep, Zenon
<1>2. [Grows]_vars =>
        [/\ \A c \in Contents : evidence[c] # NULL => evidence'[c] = evidence[c]
         /\ \A k \in LinkKeys : links[k] # NULL => links'[k] = links[k]]_vars
  BY Zenon DEF Grows
<1>. QED BY <1>1, <1>2, Invariant, PTL DEF Spec, NeverRewritten

-----------------------------------------------------------------------------
(* Contradictions: sequences of pairs.                                     *)

\* The length of a sequence, and its domain.
LEMMA LengthOf ==
    ASSUME NEW S, NEW s \in Seq(S) PROVE Len(s) \in Nat /\ s \in [1 .. Len(s) -> S]
OBVIOUS

\* The head of a sequence, and the rest.
LEMMA TakeHead ==
    ASSUME NEW S, NEW s \in Seq(S), s # <<>>
    PROVE  /\ Head(s) \in S /\ Tail(s) \in Seq(S) /\ Len(s) = Len(Tail(s)) + 1
           /\ Range(s) = Range(Tail(s)) \cup {Head(s)}
<1>1. /\ Len(s) \in Nat /\ Len(s) > 0 /\ DOMAIN s = 1 .. Len(s) /\ Head(s) = s[1] /\ s[1] \in S
      /\ Tail(s) \in Seq(S) /\ Len(Tail(s)) = Len(s) - 1
    OBVIOUS
<1>2. /\ DOMAIN Tail(s) = 1 .. (Len(s) - 1)
      /\ \A i \in 1 .. (Len(s) - 1) : Tail(s)[i] = s[i + 1]
    BY <1>1
<1>3. ASSUME NEW x \in Range(s) PROVE x \in Range(Tail(s)) \cup {Head(s)}
  <2>1. PICK i \in 1 .. Len(s) : x = s[i]
    BY <1>1, <1>3, Zenon DEF Range
  <2>2. CASE i = 1
    BY <1>1, <2>1, <2>2, Zenon
  <2>3. CASE i # 1
    <3>1. i - 1 \in 1 .. (Len(s) - 1) /\ x = Tail(s)[i - 1]
        BY <1>1, <1>2, <2>1, <2>3
    <3> QED
        BY <1>2, <3>1, Zenon DEF Range
  <2> QED
    BY <2>2, <2>3, Zenon
<1>4. ASSUME NEW x \in Range(Tail(s)) \cup {Head(s)} PROVE x \in Range(s)
  <2>1. CASE x = Head(s)
    <3>1. 1 \in DOMAIN s
        BY <1>1
    <3> QED
        BY <1>1, <2>1, <3>1, Zenon DEF Range
  <2>2. CASE x \in Range(Tail(s))
    <3>1. PICK i \in 1 .. (Len(s) - 1) : x = Tail(s)[i]
        BY <1>2, <2>2, Zenon DEF Range
    <3>2. i + 1 \in 1 .. Len(s) /\ x = s[i + 1]
        BY <1>1, <1>2, <3>1
    <3> QED
        BY <1>1, <3>2, Zenon DEF Range
  <2> QED
    BY <1>4, <2>1, <2>2, Zenon
<1> QED
    BY <1>1, <1>3, <1>4

\* A sequence with one element more.
LEMMA AddLast ==
    ASSUME NEW S, NEW s \in Seq(S), NEW e \in S
    PROVE  /\ Append(s, e) \in Seq(S) /\ Len(Append(s, e)) = Len(s) + 1
           /\ Range(Append(s, e)) = Range(s) \cup {e}
<1>1. /\ Append(s, e) \in Seq(S) /\ Len(Append(s, e)) = Len(s) + 1 /\ Len(s) \in Nat
      /\ DOMAIN s = 1 .. Len(s) /\ DOMAIN Append(s, e) = 1 .. (Len(s) + 1)
      /\ \A i \in 1 .. Len(s) : Append(s, e)[i] = s[i]
      /\ Append(s, e)[Len(s) + 1] = e
    OBVIOUS
<1>2. \A i : i \in 1 .. (Len(s) + 1) <=> i \in 1 .. Len(s) \/ i = Len(s) + 1
    BY <1>1
<1> QED
    BY <1>1, <1>2, Zenon DEF Range

\* Nothing is in the empty sequence.
LEMMA NothingLeft == Range(<<>>) = {} /\ Len(<<>>) = 0
<1>1. DOMAIN <<>> = {} /\ Len(<<>>) = 0
    OBVIOUS
<1> QED
    BY <1>1, Zenon DEF Range

\* An accepted finding gives a pair of two different facts, as they were shown.
LEMMA AcceptedPair ==
    ASSUME ReviewsAssumption, current \in [Facts -> 1 .. MaxVersions],
           NEW finding, NEW seen \in SUBSET Facts, NEW shown \in [seen -> 1 .. MaxVersions],
           \A f \in seen : shown[f] <= current[f], Accepted(finding, shown)
    PROVE  PairOf(finding, shown) \in Pairs /\ Sound(PairOf(finding, shown))
<1>1. PICK a, b : a = finding[1] /\ b = finding[2]
    BY Zenon
<1>2. a \in seen /\ b \in seen /\ a # b
    BY <1>1, Zenon DEF Accepted
<1>3. PICK x, y : x = <<a, shown[a]>> /\ y = <<b, shown[b]>>
    BY Zenon
<1>4. x \in FactVersions /\ y \in FactVersions
    BY <1>2, <1>3, Zenon DEF FactVersions
<1>5. x[1] = a /\ x[2] = shown[a] /\ y[1] = b /\ y[2] = shown[b]
    BY <1>3, Zenon
<1>6. x # y
    BY <1>2, <1>5, Zenon
<1>7. PairOf(finding, shown) = {x} \cup {y}
    BY <1>1, <1>3, Zenon DEF PairOf
<1>8. \A v \in {x} \cup {y} : v[2] <= current[v[1]]
    BY <1>2, <1>5, Zenon
<1>9. \A v, w \in {x} \cup {y} : v # w => v[1] # w[1]
    BY <1>2, <1>5, Zenon
<1>10. {x} \cup {y} \in Pairs
  <2>1. {x} \cup {y} = {x, y} /\ {x, y} \in SUBSET FactVersions
    BY <1>4, Zenon
  <2> QED
    BY <1>6, <2>1, Zenon DEF Pairs
<1> QED
    BY <1>7, <1>8, <1>9, <1>10, Zenon DEF Sound

-----------------------------------------------------------------------------
(* Contradictions: the steps of a review.                                  *)

\* What a review that takes the place of another must satisfy.
Follows(r, y) ==
    y # NULL =>
        /\ y \in ReviewType /\ ReviewOK(y)
        /\ \A s \in Reviews \ {r} : review[s] # NULL => y.own \cap review[s].own = {}

LEMMA ReviewSame ==
    ASSUME NEW x, ReviewOK(x), UNCHANGED <<current, table>>
    PROVE  ReviewOK(x)'
BY Zenon DEF ReviewOK, Sound

LEMMA ReviewStep ==
    ASSUME ReviewsInv, NEW r \in Reviews, NEW y, Follows(r, y), Goes(r, y), UNCHANGED <<current, table, closing>>
    PROVE  ReviewsInv'
<1>1. \A s \in Reviews : IF s = r THEN review'[s] = y ELSE review'[s] = review[s]
    BY Zenon DEF ReviewsInv, Goes
<1>2. review' \in [Reviews -> ReviewType \cup {NULL}]
    BY Zenon DEF ReviewsInv, Follows, Goes
<1>3. ASSUME NEW s \in Reviews, review'[s] # NULL PROVE ReviewOK(review[s])'
  <2>1. PICK z : z = review'[s] /\ ReviewOK(z)
    BY <1>1, <1>3, Zenon DEF ReviewsInv, Follows
  <2> QED
    BY <2>1, Zenon DEF ReviewOK, Sound
<1>4. ASSUME NEW s \in Reviews, NEW t \in Reviews, s # t, review'[s] # NULL, review'[t] # NULL
      PROVE  review'[s].own \cap review'[t].own = {}
  <2>1. CASE s = r
    BY <1>1, <1>4, <2>1, Zenon DEF Follows
  <2>2. CASE t = r
    <3>1. review'[t].own \cap review'[s].own = {}
        BY <1>1, <1>4, <2>2, Zenon DEF Follows
    <3> QED
        BY <3>1, Zenon
  <2>3. CASE s # r /\ t # r
    BY <1>1, <1>4, <2>3, Zenon DEF ReviewsInv
  <2> QED
    BY <2>1, <2>2, <2>3, Zenon
<1>5. \A p \in Pairs : table'[p] # NULL => Sound(p)'
    BY Zenon DEF ReviewsInv, Sound
<1>6. ClosingOK'
    BY Zenon DEF ReviewsInv, ClosingOK
<1> QED
    BY <1>2, <1>3, <1>4, <1>5, <1>6, Zenon DEF ReviewsInv

\* The parts of a review.
LEMMA ReviewParts ==
    ASSUME ReviewsInv, NEW r \in Reviews, NEW step, ReviewAt(r, step)
    PROVE  \E x \in ReviewType : x = review[r] /\ x # NULL /\ x.step = step /\ ReviewOK(x)
BY Zenon DEF ReviewsInv, ReviewAt

LEMMA ReviewFields ==
    ASSUME NEW x \in ReviewType
    PROVE  /\ x.step \in {"asking", "sifting", "looking", "inserting"}
           /\ x.findings \in Seq(Findings) /\ x.todo \in Seq(Pairs)
           /\ x.accepted \subseteq Pairs /\ x.own \subseteq Pairs
           /\ x.created \in Nat /\ x.known \in Nat /\ x.rejected \in Nat /\ x.given \in Nat
           /\ \E seen \in SUBSET Facts : x.shown \in [seen -> 1 .. MaxVersions]
BY Zenon DEF ReviewType

LEMMA ReviewStarts ==
    ASSUME ReviewsInv, NEW r \in Reviews, NEW seen \in SUBSET Facts, StartReview(r, seen)
    PROVE  ReviewsInv'
<1> DEFINE shown == [f \in seen |-> current[f]]
<1> DEFINE y == [step |-> "asking", shown |-> shown, findings |-> <<>>, todo |-> <<>>,
                 accepted |-> {}, own |-> {}, created |-> 0, known |-> 0, rejected |-> 0, given |-> 0]
<1>1. shown \in [seen -> 1 .. MaxVersions] /\ \A f \in DOMAIN shown : shown[f] <= current[f]
    BY ReviewsAssumption DEF ReviewsInv
<1>2. Goes(r, y) /\ UNCHANGED <<current, table, closing>>
    BY Zenon DEF StartReview, Goes
<1> HIDE DEF shown
<1>3. y \in ReviewType
    BY <1>1 DEF ReviewType
<1>4. ReviewOK(y)
  <2>1. y.created + y.known + y.rejected + Len(y.todo) + Len(y.findings) = y.given
    OBVIOUS
  <2>2. /\ y.accepted = {} /\ y.own = {} /\ y.todo = <<>> /\ y.findings = <<>> /\ y.step = "asking"
        /\ y.shown = shown /\ y.given = 0
    BY Zenon
  <2>3. Range(y.todo) \cup y.own = {}
    BY <2>2, NothingLeft, Zenon
  <2> HIDE DEF y
  <2> QED
    BY <1>1, <2>1, <2>2, <2>3, Zenon DEF ReviewOK
<1>5. y.own = {}
    BY Zenon
<1> HIDE DEF y
<1>6. Follows(r, y)
    BY <1>3, <1>4, <1>5, Zenon DEF Follows
<1> QED
    BY <1>2, <1>6, ReviewStep, Zenon

LEMMA ReviewStops ==
    ASSUME ReviewsInv, NEW r \in Reviews, Goes(r, NULL), UNCHANGED <<current, table, closing>>
    PROVE  ReviewsInv'
<1>1. Follows(r, NULL)
    BY Zenon DEF Follows
<1> QED
    BY <1>1, ReviewStep, Zenon

\* The pairs that a review has yet to store or has stored stay in order when it
\* goes on, if none appears that is not sound and none is dropped that is not stored.
LEMMA ReviewGoesOn ==
    ASSUME ReviewsInv, NEW r \in Reviews, NEW x \in ReviewType, x = review[r], x # NULL, ReviewOK(x),
           NEW y \in ReviewType, y.shown = x.shown, y.own = x.own,
           y.step \in {"looking", "inserting"} => y.findings = <<>>,
           y.step # "asking", y.step = "inserting" => y.todo # <<>>,
           y.created + y.known + y.rejected + Len(y.todo) + Len(y.findings) = y.given,
           \A p \in y.accepted : table[p] # NULL \/ p \in Range(y.todo) \cup y.own,
           \A p \in Range(y.todo) : Sound(p)
    PROVE  Follows(r, y)
<1>1. y.step \in {"asking", "looking", "inserting"} => y.findings = <<>>
    BY Zenon
<1>2. /\ \A f \in DOMAIN y.shown : y.shown[f] <= current[f]
      /\ \A p \in Range(y.todo) \cup y.own : Sound(p)
      /\ \A p \in y.own : table[p] = NULL
    BY Zenon DEF ReviewOK
<1>3. ReviewOK(y)
    BY <1>1, <1>2, Zenon DEF ReviewOK
<1>4. \A s \in Reviews \ {r} : review[s] # NULL => y.own \cap review[s].own = {}
    BY Zenon DEF ReviewsInv
<1> QED
    BY <1>3, <1>4, Zenon DEF Follows

LEMMA ReviewAnswered ==
    ASSUME ReviewsInv, NEW r \in Reviews, NEW findings \in UNION {[1 .. n -> Findings] : n \in 0 .. MaxFindings},
           ModelAnswers(r, findings)
    PROVE  ReviewsInv'
<1>1. PICK x \in ReviewType : x = review[r] /\ x # NULL /\ x.step = "asking" /\ ReviewOK(x)
  <2>1. ReviewAt(r, "asking")
    BY Zenon DEF ModelAnswers
  <2> QED
    BY <2>1, ReviewParts
<1>2. findings \in Seq(Findings) /\ Len(findings) \in Nat
  <2>1. PICK m \in 0 .. MaxFindings : findings \in [1 .. m -> Findings]
    BY Zenon
  <2>2. m \in Nat
    OBVIOUS
  <2> QED
    BY <2>1, <2>2
<1>3. PICK y : y = [x EXCEPT !.step = "sifting", !.findings = findings, !.given = Len(findings)]
    BY Zenon
<1>4. Goes(r, y) /\ UNCHANGED <<current, table, closing>>
    BY <1>1, <1>3, Zenon DEF ModelAnswers
<1>5. y \in ReviewType
    BY <1>2, <1>3, Zenon DEF ReviewType
<1>6. /\ y.step = "sifting" /\ y.shown = x.shown /\ y.findings = findings /\ y.todo = x.todo
      /\ y.accepted = x.accepted /\ y.own = x.own /\ y.created = x.created
      /\ y.known = x.known /\ y.rejected = x.rejected /\ y.given = Len(findings)
    BY <1>3, Zenon DEF ReviewType
<1>7. y.created + y.known + y.rejected + Len(y.todo) + Len(y.findings) = y.given
  <2>1. PICK a \in Nat, b \in Nat, c \in Nat, d \in Nat :
            a = x.created /\ b = x.known /\ c = x.rejected /\ d = Len(x.todo)
    <3>1. x.created \in Nat /\ x.known \in Nat /\ x.rejected \in Nat /\ Len(x.todo) \in Nat
        BY ReviewFields, LengthOf, Zenon
    <3> QED
        BY <3>1, Zenon
  <2>2. a + b + c + d + 0 = 0
    BY <1>1, <2>1, NothingLeft, Zenon DEF ReviewOK
  <2>3. a = 0 /\ b = 0 /\ c = 0 /\ d = 0
    BY <2>2
  <2>4. PICK n \in Nat : n = Len(findings)
    BY <1>2, Zenon
  <2>5. a + b + c + d + n = n
    BY <2>3
  <2> QED
    BY <1>6, <2>1, <2>4, <2>5, Zenon
<1>8. /\ \A p \in y.accepted : table[p] # NULL \/ p \in Range(y.todo) \cup y.own
      /\ \A p \in Range(y.todo) : Sound(p)
    BY <1>1, <1>6, Zenon DEF ReviewOK
<1>9. Follows(r, y)
    BY <1>1, <1>5, <1>6, <1>7, <1>8, ReviewGoesOn, Zenon
<1> QED
    BY <1>4, <1>9, ReviewStep, Zenon

LEMMA ReviewSifts == ASSUME ReviewsInv, NEW r \in Reviews, Sift(r) PROVE ReviewsInv'
<1>1. PICK x \in ReviewType : x = review[r] /\ x # NULL /\ x.step = "sifting" /\ ReviewOK(x)
    BY ReviewParts, Zenon DEF Sift
<1>2. x.findings \in Seq(Findings) /\ x.findings # <<>> /\ x.todo \in Seq(Pairs) /\ x.rejected \in Nat
    BY <1>1, ReviewFields, Zenon DEF Sift
<1>3. PICK finding, rest : finding = Head(x.findings) /\ rest = Tail(x.findings)
    BY Zenon
<1>4. rest \in Seq(Findings) /\ Len(x.findings) = Len(rest) + 1
    BY <1>2, <1>3, TakeHead, Zenon
<1>5. PICK a \in Nat, b \in Nat, c \in Nat, d \in Nat, e \in Nat :
            /\ a = x.created /\ b = x.known /\ c = x.rejected /\ d = Len(x.todo) /\ e = Len(rest)
            /\ a + b + c + d + (e + 1) = x.given
  <2>1. /\ x.created \in Nat /\ x.known \in Nat /\ x.rejected \in Nat /\ Len(x.todo) \in Nat
        /\ Len(rest) \in Nat
    BY <1>4, ReviewFields, LengthOf, Zenon
  <2>2. x.created + x.known + x.rejected + Len(x.todo) + (Len(rest) + 1) = x.given
    BY <1>1, <1>4, Zenon DEF ReviewOK
  <2> QED
    BY <2>1, <2>2, Zenon
<1>6. CASE Accepted(finding, x.shown)
  <2>1. PICK p : p = PairOf(finding, x.shown)
    BY Zenon
  <2>2. p \in Pairs /\ Sound(p)
    <3>1. PICK seen \in SUBSET Facts : x.shown \in [seen -> 1 .. MaxVersions]
        BY ReviewFields, Zenon
    <3>2. \A f \in seen : x.shown[f] <= current[f]
        BY <1>1, <3>1, Zenon DEF ReviewOK
    <3>3. current \in [Facts -> 1 .. MaxVersions]
        BY Zenon DEF ReviewsInv
    <3> QED
        BY <1>6, <2>1, <3>1, <3>2, <3>3, AcceptedPair, ReviewsAssumption, Zenon
  <2>3. PICK todo : todo = Append(x.todo, p)
    BY Zenon
  <2>4. todo \in Seq(Pairs) /\ Len(todo) = Len(x.todo) + 1 /\ Range(todo) = Range(x.todo) \cup {p}
    BY <1>2, <2>2, <2>3, AddLast, ZenonT(40)
  <2>5. PICK y : y = [x EXCEPT !.findings = rest, !.todo = todo, !.accepted = x.accepted \cup {p}]
    BY Zenon
  <2>6. Goes(r, y) /\ UNCHANGED <<current, table, closing>>
    BY <1>1, <1>3, <1>6, <2>1, <2>3, <2>5, Zenon DEF Sift
  <2>7. x.accepted \cup {p} \in SUBSET Pairs
    BY <2>2, ReviewFields, Zenon
  <2>8. y \in ReviewType
    BY <1>4, <2>4, <2>5, <2>7, Zenon DEF ReviewType
  <2>9. /\ y.step = x.step /\ y.shown = x.shown /\ y.findings = rest /\ y.todo = todo
        /\ y.accepted = x.accepted \cup {p} /\ y.own = x.own /\ y.created = x.created
        /\ y.known = x.known /\ y.rejected = x.rejected /\ y.given = x.given
    BY <2>5, Zenon DEF ReviewType
  <2>10. y.created + y.known + y.rejected + Len(y.todo) + Len(y.findings) = y.given
    <3>1. a + b + c + (d + 1) + e = a + b + c + d + (e + 1)
        OBVIOUS
    <3> QED
        BY <1>5, <2>4, <2>9, <3>1, Zenon
  <2>11. /\ \A q \in y.accepted : table[q] # NULL \/ q \in Range(y.todo) \cup y.own
         /\ \A q \in Range(y.todo) : Sound(q)
    BY <1>1, <2>2, <2>4, <2>9, Zenon DEF ReviewOK
  <2>12. Follows(r, y)
    BY <1>1, <2>8, <2>9, <2>10, <2>11, ReviewGoesOn, Zenon
  <2> QED
    BY <2>6, <2>12, ReviewStep, Zenon
<1>7. CASE ~Accepted(finding, x.shown)
  <2>1. PICK y : y = [x EXCEPT !.findings = rest, !.rejected = x.rejected + 1]
    BY Zenon
  <2>2. Goes(r, y) /\ UNCHANGED <<current, table, closing>>
    BY <1>1, <1>3, <1>7, <2>1, Zenon DEF Sift
  <2>3. x.rejected + 1 \in Nat
    BY <1>2
  <2>4. y \in ReviewType
    BY <1>4, <2>1, <2>3, Zenon DEF ReviewType
  <2>5. /\ y.step = x.step /\ y.shown = x.shown /\ y.findings = rest /\ y.todo = x.todo
        /\ y.accepted = x.accepted /\ y.own = x.own /\ y.created = x.created
        /\ y.known = x.known /\ y.rejected = x.rejected + 1 /\ y.given = x.given
    BY <2>1, Zenon DEF ReviewType
  <2>6. y.created + y.known + y.rejected + Len(y.todo) + Len(y.findings) = y.given
    <3>1. a + b + (c + 1) + d + e = a + b + c + d + (e + 1)
        OBVIOUS
    <3> QED
        BY <1>5, <2>5, <3>1, Zenon
  <2>7. /\ \A q \in y.accepted : table[q] # NULL \/ q \in Range(y.todo) \cup y.own
        /\ \A q \in Range(y.todo) : Sound(q)
    BY <1>1, <2>5, Zenon DEF ReviewOK
  <2>8. Follows(r, y)
    BY <1>1, <2>4, <2>5, <2>6, <2>7, ReviewGoesOn, Zenon
  <2> QED
    BY <2>2, <2>8, ReviewStep, Zenon
<1> QED
    BY <1>6, <1>7, Zenon

LEMMA ReviewBeginsStoring == ASSUME ReviewsInv, NEW r \in Reviews, BeginStoring(r) PROVE ReviewsInv'
<1>1. PICK x \in ReviewType : x = review[r] /\ x # NULL /\ x.step = "sifting" /\ ReviewOK(x)
    BY ReviewParts, Zenon DEF BeginStoring
<1>2. PICK y : y = [x EXCEPT !.step = "looking"]
    BY Zenon
<1>3. Goes(r, y) /\ x.findings = <<>> /\ UNCHANGED <<current, table, closing>>
    BY <1>1, <1>2, Zenon DEF BeginStoring
<1>4. y \in ReviewType
    BY <1>2, Zenon DEF ReviewType
<1>5. /\ y.step = "looking" /\ y.shown = x.shown /\ y.findings = x.findings /\ y.todo = x.todo
      /\ y.accepted = x.accepted /\ y.own = x.own /\ y.created = x.created
      /\ y.known = x.known /\ y.rejected = x.rejected /\ y.given = x.given
    BY <1>2, Zenon DEF ReviewType
<1>6. /\ y.created + y.known + y.rejected + Len(y.todo) + Len(y.findings) = y.given
      /\ \A q \in y.accepted : table[q] # NULL \/ q \in Range(y.todo) \cup y.own
      /\ \A q \in Range(y.todo) : Sound(q)
    BY <1>1, <1>5, Zenon DEF ReviewOK
<1>7. Follows(r, y)
    BY <1>1, <1>3, <1>4, <1>5, <1>6, ReviewGoesOn, Zenon
<1> QED
    BY <1>3, <1>7, ReviewStep, Zenon

LEMMA ReviewLooksUp == ASSUME ReviewsInv, NEW r \in Reviews, LookUp(r) PROVE ReviewsInv'
<1>1. PICK x \in ReviewType : x = review[r] /\ x # NULL /\ x.step = "looking" /\ ReviewOK(x)
  <2>1. ReviewAt(r, "looking")
    BY Zenon DEF LookUp
  <2> QED
    BY <2>1, ReviewParts
<1>2. x.todo \in Seq(Pairs) /\ x.todo # <<>> /\ x.known \in Nat
    BY <1>1, ReviewFields, Zenon DEF LookUp
<1>3. PICK p, rest : p = Head(x.todo) /\ rest = Tail(x.todo)
    BY Zenon
<1>4. /\ rest \in Seq(Pairs) /\ Len(x.todo) = Len(rest) + 1 /\ p \in Pairs
      /\ Range(x.todo) = Range(rest) \cup {p}
    BY <1>2, <1>3, TakeHead, Zenon
<1>5. CASE table[p] # NULL \/ p \in x.own
  <2>1. PICK y : y = [x EXCEPT !.todo = rest, !.known = x.known + 1]
    BY Zenon
  <2>2. Goes(r, y) /\ UNCHANGED <<current, table, closing>>
    BY <1>1, <1>3, <1>5, <2>1, Zenon DEF LookUp
  <2>3. x.known + 1 \in Nat
    BY <1>2
  <2>4. y \in ReviewType
    BY <1>4, <2>1, <2>3, Zenon DEF ReviewType
  <2>5. /\ y.step = "looking" /\ y.shown = x.shown /\ y.findings = x.findings /\ y.todo = rest
        /\ y.accepted = x.accepted /\ y.own = x.own /\ y.created = x.created
        /\ y.known = x.known + 1 /\ y.rejected = x.rejected /\ y.given = x.given
    BY <1>1, <2>1, Zenon DEF ReviewType
  <2>6. y.created + y.known + y.rejected + Len(y.todo) + Len(y.findings) = y.given
    <3>1. PICK a \in Nat, b \in Nat, c \in Nat, d \in Nat, e \in Nat :
              /\ a = x.created /\ b = x.known /\ c = x.rejected /\ d = Len(rest) /\ e = Len(x.findings)
              /\ a + b + c + (d + 1) + e = x.given
        <4>1. /\ x.created \in Nat /\ x.known \in Nat /\ x.rejected \in Nat /\ Len(rest) \in Nat
              /\ Len(x.findings) \in Nat
            BY <1>4, ReviewFields, LengthOf, Zenon
        <4>2. x.created + x.known + x.rejected + (Len(rest) + 1) + Len(x.findings) = x.given
            BY <1>1, <1>4, Zenon DEF ReviewOK
        <4> QED
            BY <4>1, <4>2, Zenon
    <3>2. a + (b + 1) + c + d + e = a + b + c + (d + 1) + e
        OBVIOUS
    <3> QED
        BY <2>5, <3>1, <3>2, Zenon
  <2>7. /\ \A q \in y.accepted : table[q] # NULL \/ q \in Range(y.todo) \cup y.own
        /\ \A q \in Range(y.todo) : Sound(q)
    BY <1>1, <1>4, <1>5, <2>5, Zenon DEF ReviewOK
  <2>8. x.findings = <<>>
    BY <1>1, Zenon DEF ReviewOK
  <2>9. Follows(r, y)
    BY <1>1, <2>4, <2>5, <2>6, <2>7, <2>8, ReviewGoesOn, Zenon
  <2> QED
    BY <2>2, <2>9, ReviewStep, Zenon
<1>6. CASE ~(table[p] # NULL \/ p \in x.own)
  <2>1. PICK y : y = [x EXCEPT !.step = "inserting"]
    BY Zenon
  <2>2. Goes(r, y) /\ UNCHANGED <<current, table, closing>>
    BY <1>1, <1>3, <1>6, <2>1, Zenon DEF LookUp
  <2>3. y \in ReviewType
    BY <2>1, Zenon DEF ReviewType
  <2>4. /\ y.step = "inserting" /\ y.shown = x.shown /\ y.findings = x.findings /\ y.todo = x.todo
        /\ y.accepted = x.accepted /\ y.own = x.own /\ y.created = x.created
        /\ y.known = x.known /\ y.rejected = x.rejected /\ y.given = x.given
    BY <2>1, Zenon DEF ReviewType
  <2>5. /\ y.created + y.known + y.rejected + Len(y.todo) + Len(y.findings) = y.given
        /\ \A q \in y.accepted : table[q] # NULL \/ q \in Range(y.todo) \cup y.own
        /\ \A q \in Range(y.todo) : Sound(q)
    BY <1>1, <2>4, Zenon DEF ReviewOK
  <2>6. x.findings = <<>>
    BY <1>1, Zenon DEF ReviewOK
  <2>7. Follows(r, y)
    BY <1>1, <1>2, <2>3, <2>4, <2>5, <2>6, ReviewGoesOn, Zenon
  <2> QED
    BY <2>2, <2>7, ReviewStep, Zenon
<1> QED
    BY <1>5, <1>6, Zenon

\* An insert waits for those who hold the pair, so it is the only one to hold it.
LEMMA ReviewInserts == ASSUME ReviewsInv, NEW r \in Reviews, Insert(r) PROVE ReviewsInv'
<1>1. PICK x \in ReviewType : x = review[r] /\ x # NULL /\ x.step = "inserting" /\ ReviewOK(x)
  <2>1. ReviewAt(r, "inserting")
    BY Zenon DEF Insert
  <2> QED
    BY <2>1, ReviewParts
<1>2. x.todo \in Seq(Pairs) /\ x.todo # <<>> /\ x.created \in Nat /\ x.own \subseteq Pairs
    BY <1>1, ReviewFields, Zenon DEF ReviewOK
<1>3. PICK p, rest : p = Head(x.todo) /\ rest = Tail(x.todo)
    BY Zenon
<1>4. /\ rest \in Seq(Pairs) /\ Len(x.todo) = Len(rest) + 1 /\ p \in Pairs
      /\ Range(x.todo) = Range(rest) \cup {p}
    BY <1>2, <1>3, TakeHead, Zenon
<1>5. CASE table[p] # NULL
  <2>1. Goes(r, NULL) /\ UNCHANGED <<current, table, closing>>
    BY <1>1, <1>3, <1>5, Zenon DEF Insert
  <2> QED
    BY <2>1, ReviewStops, Zenon
<1>6. CASE table[p] = NULL
  <2>1. PICK y : y = [x EXCEPT !.step = "looking", !.todo = rest, !.own = x.own \cup {p},
                               !.created = x.created + 1]
    BY Zenon
  <2>2. Goes(r, y) /\ UNCHANGED <<current, table, closing>>
    BY <1>1, <1>3, <1>6, <2>1, Zenon DEF Insert
  <2>3. x.created + 1 \in Nat
    BY <1>2
  <2>4. x.own \cup {p} \in SUBSET Pairs
    BY <1>2, <1>4, Zenon
  <2>5. y \in ReviewType
    BY <1>4, <2>1, <2>3, <2>4, Zenon DEF ReviewType
  <2>6. /\ y.step = "looking" /\ y.shown = x.shown /\ y.findings = x.findings /\ y.todo = rest
        /\ y.accepted = x.accepted /\ y.own = x.own \cup {p} /\ y.created = x.created + 1
        /\ y.known = x.known /\ y.rejected = x.rejected /\ y.given = x.given
    BY <2>1, Zenon DEF ReviewType
  <2>7. y.created + y.known + y.rejected + Len(y.todo) + Len(y.findings) = y.given
    <3>1. PICK a \in Nat, b \in Nat, c \in Nat, d \in Nat, e \in Nat :
              /\ a = x.created /\ b = x.known /\ c = x.rejected /\ d = Len(rest) /\ e = Len(x.findings)
              /\ a + b + c + (d + 1) + e = x.given
        <4>1. /\ x.created \in Nat /\ x.known \in Nat /\ x.rejected \in Nat /\ Len(rest) \in Nat
              /\ Len(x.findings) \in Nat
            BY <1>4, ReviewFields, LengthOf, Zenon
        <4>2. x.created + x.known + x.rejected + (Len(rest) + 1) + Len(x.findings) = x.given
            BY <1>1, <1>4, Zenon DEF ReviewOK
        <4> QED
            BY <4>1, <4>2, Zenon
    <3>2. (a + 1) + b + c + d + e = a + b + c + (d + 1) + e
        OBVIOUS
    <3> QED
        BY <2>6, <3>1, <3>2, Zenon
  <2>8. /\ \A f \in DOMAIN y.shown : y.shown[f] <= current[f]
        /\ \A q \in y.accepted : table[q] # NULL \/ q \in Range(y.todo) \cup y.own
        /\ \A q \in Range(y.todo) \cup y.own : Sound(q)
        /\ \A q \in y.own : table[q] = NULL
    BY <1>1, <1>4, <1>6, <2>6, Zenon DEF ReviewOK
  <2>9. x.findings = <<>>
    BY <1>1, Zenon DEF ReviewOK
  <2>10. y.step # "inserting" /\ y.step # "asking"
    BY <2>6, Zenon
  <2>11. ReviewOK(y)
    BY <2>6, <2>7, <2>8, <2>9, <2>10, Zenon DEF ReviewOK
  <2>12. ASSUME NEW s \in Reviews \ {r}, review[s] # NULL PROVE y.own \cap review[s].own = {}
    <3>1. p \notin review[s].own
        BY <1>1, <1>3, <2>12, Zenon DEF Insert, WaitsFor, ReviewAt
    <3>2. x.own \cap review[s].own = {}
        BY <1>1, <2>12, Zenon DEF ReviewsInv
    <3> QED
        BY <2>6, <3>1, <3>2, Zenon
  <2>13. Follows(r, y)
    BY <2>5, <2>11, <2>12, Zenon DEF Follows
  <2> QED
    BY <2>2, <2>13, ReviewStep, Zenon
<1> QED
    BY <1>5, <1>6, Zenon

-----------------------------------------------------------------------------
(* Contradictions: steps that change the table.                            *)

\* A newer version makes no pair less sound.
LEMMA VersionRecorded == ASSUME ReviewsInv, NEW f \in Facts, RecordVersion(f) PROVE ReviewsInv'
<1>1. PICK n \in 1 .. MaxVersions : n = current[f] /\ n < MaxVersions
    BY Zenon DEF ReviewsInv, RecordVersion
<1>2. n + 1 \in 1 .. MaxVersions /\ n <= n + 1
    BY <1>1, ReviewsAssumption
<1>3. /\ \A g \in Facts : IF g = f THEN current'[g] = n + 1 ELSE current'[g] = current[g]
      /\ current' \in [Facts -> 1 .. MaxVersions]
    BY <1>1, <1>2, Zenon DEF ReviewsInv, RecordVersion
<1>4. ASSUME NEW g \in Facts, NEW m \in 1 .. MaxVersions, m <= current[g] PROVE m <= current'[g]
  <2>1. current[g] \in 1 .. MaxVersions
    BY Zenon DEF ReviewsInv
  <2>2. CASE g = f
    <3>1. m <= n + 1
        BY <1>1, <1>4, <2>2, ReviewsAssumption
    <3> QED
        BY <1>3, <2>2, <3>1, Zenon
  <2>3. CASE g # f
    BY <1>3, <1>4, <2>3, Zenon
  <2> QED
    BY <2>2, <2>3, Zenon
<1>5. ASSUME NEW p \in Pairs, Sound(p) PROVE Sound(p)'
  <2>1. ASSUME NEW v \in p PROVE v[2] <= current'[v[1]]
    <3>1. v[1] \in Facts /\ v[2] \in 1 .. MaxVersions
        BY Zenon DEF Pairs, FactVersions
    <3>2. v[2] <= current[v[1]]
        BY <1>5, Zenon DEF Sound
    <3> QED
        BY <1>4, <3>1, <3>2, Zenon
  <2> QED
    BY <1>5, <2>1, Zenon DEF Sound
<1>6. UNCHANGED <<table, review, closing>>
    BY Zenon DEF RecordVersion
<1>7. ASSUME NEW r \in Reviews, review[r] # NULL PROVE ReviewOK(review[r])'
  <2>1. PICK x \in ReviewType : x = review[r] /\ x = review'[r] /\ ReviewOK(x)
    BY <1>6, <1>7, Zenon DEF ReviewsInv
  <2>2. PICK seen \in SUBSET Facts : x.shown \in [seen -> 1 .. MaxVersions]
    BY ReviewFields, Zenon
  <2>3. \A g \in DOMAIN x.shown : x.shown[g] <= current'[g]
    BY <1>4, <2>1, <2>2, Zenon DEF ReviewOK
  <2>4. \A p \in Range(x.todo) \cup x.own : Sound(p)'
    <3>1. x.todo \in Seq(Pairs) /\ x.own \subseteq Pairs
        BY ReviewFields, Zenon
    <3>2. x.todo \in [1 .. Len(x.todo) -> Pairs]
        BY <3>1, LengthOf, Zenon
    <3>3. Range(x.todo) \subseteq Pairs
        BY <3>2, Zenon DEF Range
    <3> QED
        BY <1>5, <2>1, <3>1, <3>3, Zenon DEF ReviewOK
  <2> QED
    BY <1>6, <2>1, <2>3, <2>4, Zenon DEF ReviewOK
<1>8. ClosingOK'
    BY <1>6, Zenon DEF ReviewsInv, ClosingOK
<1> QED
    BY <1>3, <1>5, <1>6, <1>7, <1>8, Zenon DEF ReviewsInv

\* What a step that changes the table keeps: no row that is there goes away, and
\* no row appears that an open review holds.
LEMMA ReviewKept ==
    ASSUME ReviewsInv, NEW x \in ReviewType, ReviewOK(x),
           UNCHANGED current,
           \A p \in Pairs : table[p] # NULL => table'[p] # NULL,
           \A p \in x.own : table'[p] = NULL
    PROVE  ReviewOK(x)'
<1>1. x.accepted \subseteq Pairs
    BY ReviewFields, Zenon
<1> QED
    BY <1>1, Zenon DEF ReviewOK, Sound

LEMMA ReviewCommits == ASSUME ReviewsInv, NEW r \in Reviews, Commit(r) PROVE ReviewsInv'
<1>1. PICK x \in ReviewType : x = review[r] /\ x # NULL /\ x.step = "looking" /\ ReviewOK(x)
  <2>1. ReviewAt(r, "looking")
    BY Zenon DEF Commit
  <2> QED
    BY <2>1, ReviewParts
<1>2. /\ table' = [p \in Pairs |-> IF p \in x.own THEN "open" ELSE table[p]]
      /\ Goes(r, NULL) /\ UNCHANGED <<current, closing>>
    BY <1>1, Zenon DEF Commit
<1>3. /\ table' \in [Pairs -> {"open", "resolved", "dismissed", NULL}]
      /\ \A p \in Pairs : IF p \in x.own THEN table'[p] = "open" ELSE table'[p] = table[p]
    BY <1>2, Zenon DEF ReviewsInv
<1>4. \A p \in Pairs : table[p] # NULL => table'[p] = table[p]
    BY <1>1, <1>3, Zenon DEF ReviewOK
<1>5. /\ \A s \in Reviews : IF s = r THEN review'[s] = NULL ELSE review'[s] = review[s]
      /\ review' \in [Reviews -> ReviewType \cup {NULL}]
    BY <1>2, Zenon DEF ReviewsInv, Goes
<1>6. ASSUME NEW p \in Pairs, table'[p] # NULL PROVE Sound(p)'
  <2>1. Sound(p)
    BY <1>1, <1>3, <1>6, Zenon DEF ReviewsInv, ReviewOK
  <2> QED
    BY <1>2, <2>1, Zenon DEF Sound
<1>7. ASSUME NEW s \in Reviews, review'[s] # NULL PROVE ReviewOK(review[s])'
  <2>1. s # r
    BY <1>5, <1>7, Zenon
  <2>2. PICK z \in ReviewType : z = review[s] /\ z = review'[s] /\ ReviewOK(z)
    BY <1>5, <1>7, <2>1, Zenon DEF ReviewsInv
  <2>3. z.own \cap x.own = {} /\ z.own \subseteq Pairs
    BY <1>1, <1>5, <1>7, <2>1, <2>2, ReviewFields, Zenon DEF ReviewsInv
  <2>4. \A p \in z.own : table'[p] = NULL
    BY <1>3, <2>2, <2>3, Zenon DEF ReviewOK
  <2>5. ReviewOK(z)'
    BY <1>2, <1>4, <2>2, <2>4, ReviewKept, Zenon
  <2> QED
    BY <2>2, <2>5, Zenon DEF ReviewOK
<1>8. ASSUME NEW s \in Reviews, NEW t \in Reviews, s # t, review'[s] # NULL, review'[t] # NULL
      PROVE  review'[s].own \cap review'[t].own = {}
    BY <1>5, <1>8, Zenon DEF ReviewsInv
<1>9. ClosingOK'
  <2>1. ASSUME NEW h \in People, closing'[h] # NULL PROVE table'[closing'[h].pair] = closing'[h].status
    <3>1. PICK k \in ClosingType : k = closing[h] /\ k = closing'[h] /\ table[k.pair] = k.status
        BY <1>2, <2>1, Zenon DEF ReviewsInv, ClosingOK
    <3>2. k.pair \in Pairs /\ k.status # NULL
        BY ReviewsAssumption, Zenon DEF ClosingType
    <3> QED
        BY <1>4, <3>1, <3>2, Zenon
  <2> QED
    BY <1>2, <2>1, Zenon DEF ReviewsInv, ClosingOK
<1> QED
    BY <1>2, <1>3, <1>5, <1>6, <1>7, <1>8, <1>9, Zenon DEF ReviewsInv

LEMMA RowLocked ==
    ASSUME ReviewsInv, NEW h \in People, NEW p \in Pairs, ReadLocked(h, p) PROVE ReviewsInv'
<1>1. PICK k : k = [pair |-> p, status |-> table[p]]
    BY Zenon
<1>2. /\ closing' = [closing EXCEPT ![h] = k] /\ table[p] # NULL
      /\ \A g \in People : closing[g] # NULL => closing[g].pair # p
      /\ UNCHANGED <<current, table, review>>
    BY <1>1, Zenon DEF ReadLocked
<1>3. table[p] \in {"open", "resolved", "dismissed"}
    BY <1>2, Zenon DEF ReviewsInv
<1>4. k \in ClosingType /\ k.pair = p /\ k.status = table[p]
    BY <1>1, <1>3, Zenon DEF ClosingType
<1>5. /\ \A g \in People : IF g = h THEN closing'[g] = k ELSE closing'[g] = closing[g]
      /\ closing' \in [People -> ClosingType \cup {NULL}]
    BY <1>2, <1>4, Zenon DEF ReviewsInv
<1>6. ClosingOK'
    BY <1>2, <1>4, <1>5, ZenonT(40) DEF ReviewsInv, ClosingOK
<1>7. ASSUME NEW r \in Reviews, review'[r] # NULL PROVE ReviewOK(review[r])'
  <2>1. PICK x \in ReviewType : x = review[r] /\ x = review'[r] /\ ReviewOK(x)
    BY <1>2, <1>7, Zenon DEF ReviewsInv
  <2>2. ReviewOK(x)'
    BY <1>2, <2>1, ReviewSame, Zenon
  <2> QED
    BY <2>1, <2>2, Zenon
<1>8. \A q \in Pairs : table'[q] # NULL => Sound(q)'
    BY <1>2, Zenon DEF ReviewsInv, Sound
<1> QED
    BY <1>2, <1>5, <1>6, <1>7, <1>8, Zenon DEF ReviewsInv

LEMMA RowReleased == ASSUME ReviewsInv, NEW h \in People, GiveUp(h) PROVE ReviewsInv'
<1>1. /\ \A g \in People : IF g = h THEN closing'[g] = NULL ELSE closing'[g] = closing[g]
      /\ closing' \in [People -> ClosingType \cup {NULL}]
      /\ UNCHANGED <<current, table, review>>
    BY Zenon DEF ReviewsInv, GiveUp
<1>2. ClosingOK'
    BY <1>1, Zenon DEF ReviewsInv, ClosingOK
<1>3. ASSUME NEW r \in Reviews, review'[r] # NULL PROVE ReviewOK(review[r])'
  <2>1. PICK x \in ReviewType : x = review[r] /\ x = review'[r] /\ ReviewOK(x)
    BY <1>1, <1>3, Zenon DEF ReviewsInv
  <2>2. ReviewOK(x)'
    BY <1>1, <2>1, ReviewSame, Zenon
  <2> QED
    BY <2>1, <2>2, Zenon
<1>4. \A q \in Pairs : table'[q] # NULL => Sound(q)'
    BY <1>1, Zenon DEF ReviewsInv, Sound
<1> QED
    BY <1>1, <1>2, <1>3, <1>4, Zenon DEF ReviewsInv

LEMMA RowClosed ==
    ASSUME ReviewsInv, NEW h \in People, NEW status \in {"resolved", "dismissed"}, Close(h, status)
    PROVE  ReviewsInv'
<1>1. PICK k \in ClosingType : k = closing[h] /\ k # NULL /\ k.status = "open" /\ table[k.pair] = k.status
    BY Zenon DEF ReviewsInv, ClosingOK, Close
<1>2. k.pair \in Pairs /\ k.status # NULL /\ status # NULL
    BY ReviewsAssumption, Zenon DEF ClosingType
<1>3. /\ \A p \in Pairs : IF p = k.pair THEN table'[p] = status ELSE table'[p] = table[p]
      /\ table' \in [Pairs -> {"open", "resolved", "dismissed", NULL}]
    BY <1>1, Zenon DEF ReviewsInv, Close
<1>4. /\ \A g \in People : IF g = h THEN closing'[g] = NULL ELSE closing'[g] = closing[g]
      /\ closing' \in [People -> ClosingType \cup {NULL}]
      /\ UNCHANGED <<current, review>>
    BY Zenon DEF ReviewsInv, Close
<1>5. \A p \in Pairs : table[p] # NULL => table'[p] # NULL
    BY <1>2, <1>3, Zenon
<1>6. \A p \in Pairs : table[p] = NULL => table'[p] = NULL
    BY <1>1, <1>2, <1>3, Zenon
<1>7. ASSUME NEW r \in Reviews, review'[r] # NULL PROVE ReviewOK(review[r])'
  <2>1. PICK x \in ReviewType : x = review[r] /\ x = review'[r] /\ ReviewOK(x)
    BY <1>4, <1>7, Zenon DEF ReviewsInv
  <2>2. \A p \in x.own : table'[p] = NULL
    BY <1>6, <2>1, ReviewFields, Zenon DEF ReviewOK
  <2>3. ReviewOK(x)'
    BY <1>4, <1>5, <2>1, <2>2, ReviewKept, Zenon
  <2> QED
    BY <2>1, <2>3, Zenon DEF ReviewOK
<1>8. ASSUME NEW p \in Pairs, table'[p] # NULL PROVE Sound(p)'
  <2>1. Sound(p)
    BY <1>6, <1>8, Zenon DEF ReviewsInv
  <2> QED
    BY <1>4, <2>1, Zenon DEF Sound
<1>9. ClosingOK'
  <2>1. ASSUME NEW g \in People, closing'[g] # NULL PROVE table'[closing'[g].pair] = closing'[g].status
    <3>1. g # h /\ closing'[g] = closing[g]
        BY <1>4, <2>1, Zenon
    <3>2. PICK m \in ClosingType : m = closing[g] /\ table[m.pair] = m.status /\ m.pair # k.pair
        BY <1>1, <2>1, <3>1, Zenon DEF ReviewsInv, ClosingOK
    <3>3. m.pair \in Pairs
        BY Zenon DEF ClosingType
    <3> QED
        BY <1>3, <3>1, <3>2, <3>3, Zenon
  <2> QED
    BY <1>4, <2>1, ZenonT(40) DEF ReviewsInv, ClosingOK
<1> QED
    BY <1>3, <1>4, <1>7, <1>8, <1>9, Zenon DEF ReviewsInv

-----------------------------------------------------------------------------
(* Contradictions: theorems.                                               *)

LEMMA ReviewsStep == ASSUME ReviewsInv, ReviewsNext PROVE ReviewsInv'
<1>1. ASSUME NEW r \in Reviews, ReviewSteps(r) \/ BreakDeadlock(r) \/ Abort(r) PROVE ReviewsInv'
  <2>1. CASE ModelFails(r) \/ BreakDeadlock(r) \/ Abort(r)
    BY <2>1, ReviewStops, Zenon DEF ModelFails, BreakDeadlock, Abort
  <2> QED
    BY <1>1, <2>1, ReviewAnswered, ReviewSifts, ReviewBeginsStoring, ReviewLooksUp, ReviewInserts,
       ReviewCommits, Zenon DEF ReviewSteps
<1> QED
    BY <1>1, VersionRecorded, ReviewStarts, RowLocked, RowClosed, RowReleased, Zenon DEF ReviewsNext

\* The state of reviews and of those who close contradictions keeps its order.
THEOREM ReviewsInvariance == ReviewsSpec => []ReviewsInv
<1>1. ReviewsInit => ReviewsInv
  <2> SUFFICES ASSUME ReviewsInit PROVE ReviewsInv
    BY Zenon
  <2>1. 1 \in 1 .. MaxVersions
    BY ReviewsAssumption
  <2>2. /\ current \in [Facts -> 1 .. MaxVersions]
        /\ table \in [Pairs -> {"open", "resolved", "dismissed", NULL}]
        /\ review \in [Reviews -> ReviewType \cup {NULL}]
        /\ closing \in [People -> ClosingType \cup {NULL}]
    BY <2>1, Zenon DEF ReviewsInit
  <2>3. /\ \A p \in Pairs : table[p] = NULL
        /\ \A r \in Reviews : review[r] = NULL
        /\ \A h \in People : closing[h] = NULL
    BY Zenon DEF ReviewsInit
  <2> QED
    BY <2>2, <2>3, Zenon DEF ReviewsInv, ClosingOK
<1>2. ReviewsInv /\ [ReviewsNext]_reviewVars => ReviewsInv'
  <2> SUFFICES ASSUME ReviewsInv, [ReviewsNext]_reviewVars PROVE ReviewsInv'
    BY Zenon
  <2>1. CASE UNCHANGED reviewVars
    <3>1. UNCHANGED <<current, table, review, closing>>
        BY <2>1, Zenon DEF reviewVars
    <3>2. ASSUME NEW r \in Reviews, review'[r] # NULL PROVE ReviewOK(review[r])'
        <4>1. PICK x \in ReviewType : x = review[r] /\ x = review'[r] /\ ReviewOK(x)
            BY <3>1, <3>2, Zenon DEF ReviewsInv
        <4>2. ReviewOK(x)'
            BY <3>1, <4>1, ReviewSame, Zenon
        <4> QED
            BY <4>1, <4>2, Zenon
    <3>3. ClosingOK' /\ \A q \in Pairs : table'[q] # NULL => Sound(q)'
        BY <3>1, Zenon DEF ReviewsInv, Sound, ClosingOK
    <3> QED
        BY <3>1, <3>2, <3>3, Zenon DEF ReviewsInv
  <2> QED
    BY <2>1, ReviewsStep, Zenon
<1> QED
    BY <1>1, <1>2, PTL DEF ReviewsSpec

\* resolve(): a contradiction is closed once; whoever closes it and however
\* requests and reviews overlap, no row goes away, reopens or changes its verdict.
THEOREM ContradictionsClosedOnce == ReviewsSpec => ClosedOnce
<1>1. ReviewsInv /\ [ReviewsNext]_reviewVars =>
          [\A p \in Pairs : table[p] # NULL =>
              /\ table'[p] # NULL
              /\ table[p] # "open" => table'[p] = table[p]]_reviewVars
  <2> SUFFICES ASSUME ReviewsInv, ReviewsNext, NEW p \in Pairs, table[p] # NULL
               PROVE  table'[p] # NULL /\ (table[p] # "open" => table'[p] = table[p])
    BY Zenon
  <2>1. CASE table' = table
    BY <2>1, Zenon
  <2>2. ASSUME NEW r \in Reviews, Commit(r) PROVE table'[p] = table[p]
    <3>1. PICK x : x = review[r] /\ ReviewOK(x) /\ review[r] # NULL
        BY <2>2, Zenon DEF Commit, ReviewAt, ReviewsInv
    <3>2. p \notin x.own
        BY <3>1, Zenon DEF ReviewOK
    <3> QED
        BY <2>2, <3>1, <3>2, Zenon DEF Commit
  <2>3. ASSUME NEW h \in People, NEW status \in {"resolved", "dismissed"}, Close(h, status)
        PROVE  table'[p] # NULL /\ (table[p] # "open" => table'[p] = table[p])
    <3>1. PICK k \in ClosingType : k = closing[h] /\ k.status = "open" /\ table[k.pair] = k.status
        BY <2>3, Zenon DEF ReviewsInv, ClosingOK, Close
    <3>2. k.pair \in Pairs /\ status # NULL
        BY ReviewsAssumption, Zenon DEF ClosingType
    <3>3. IF p = k.pair THEN table'[p] = status ELSE table'[p] = table[p]
        BY <2>3, <3>1, Zenon DEF ReviewsInv, Close
    <3> QED
        BY <3>1, <3>2, <3>3, Zenon
  <2>4. ASSUME ~(\E r \in Reviews : Commit(r)),
               ~(\E h \in People, status \in {"resolved", "dismissed"} : Close(h, status))
        PROVE  table' = table
    BY <2>4, Zenon DEF ReviewsNext, ReviewSteps, RecordVersion, StartReview, ModelAnswers, ModelFails,
       Sift, BeginStoring, LookUp, Insert, BreakDeadlock, Abort, ReadLocked, GiveUp
  <2> QED
    BY <2>1, <2>2, <2>3, <2>4, Zenon
<1> QED
    BY <1>1, ReviewsInvariance, PTL DEF ReviewsSpec, ClosedOnce

\* review_entity() reports the truth: every finding of the model is created,
\* already known or rejected, and every accepted pair is in the table when the
\* review ends, whatever other reviews stored or people closed meanwhile.
THEOREM ReviewsReportTruth == ReviewsSpec => ReportTrue
<1>1. ReviewsInv /\ [ReviewsNext]_reviewVars =>
          [\A r \in Reviews : Commit(r) =>
              /\ review[r].created + review[r].known + review[r].rejected = review[r].given
              /\ \A p \in review[r].accepted : table'[p] # NULL]_reviewVars
  <2> SUFFICES ASSUME ReviewsInv, NEW r \in Reviews, Commit(r)
               PROVE  /\ review[r].created + review[r].known + review[r].rejected = review[r].given
                      /\ \A p \in review[r].accepted : table'[p] # NULL
    BY Zenon
  <2>1. PICK x \in ReviewType : x = review[r] /\ x # NULL /\ x.step = "looking" /\ ReviewOK(x)
    <3>1. ReviewAt(r, "looking")
        BY Zenon DEF Commit
    <3> QED
        BY <3>1, ReviewParts
  <2>2. /\ x.todo = <<>> /\ x.findings = <<>> /\ x.own \subseteq Pairs /\ x.accepted \subseteq Pairs
        /\ table' = [p \in Pairs |-> IF p \in x.own THEN "open" ELSE table[p]]
    <3>1. x.findings = <<>>
        BY <2>1, Zenon DEF ReviewOK
    <3> QED
        BY <2>1, <3>1, ReviewFields, Zenon DEF Commit
  <2>3. x.created + x.known + x.rejected = x.given
    <3>1. PICK a \in Nat, b \in Nat, c \in Nat : a = x.created /\ b = x.known /\ c = x.rejected
        <4>1. x.created \in Nat /\ x.known \in Nat /\ x.rejected \in Nat
            BY ReviewFields, Zenon
        <4> QED
            BY <4>1, Zenon
    <3>2. a + b + c + 0 + 0 = x.given
        BY <2>1, <2>2, <3>1, NothingLeft, Zenon DEF ReviewOK
    <3>3. a + b + c + 0 + 0 = a + b + c
        OBVIOUS
    <3> QED
        BY <3>1, <3>2, <3>3, Zenon
  <2>4. ASSUME NEW p \in x.accepted PROVE table'[p] # NULL
    <3>1. table[p] # NULL \/ p \in x.own
        BY <2>1, <2>2, NothingLeft, Zenon DEF ReviewOK
    <3> QED
        BY <2>2, <3>1, ReviewsAssumption, Zenon
  <2> QED
    BY <2>1, <2>3, <2>4, Zenon
<1> QED
    BY <1>1, ReviewsInvariance, PTL DEF ReviewsSpec, ReportTrue

\* What reviews store, or are about to, is about two different facts in versions
\* that exist; and no two open transactions hold the same pair.
THEOREM PairsAlwaysGrounded == ReviewsSpec => []PairsGrounded
<1>1. ReviewsInv => PairsGrounded
  <2> SUFFICES ASSUME ReviewsInv PROVE PairsGrounded
    BY Zenon
  <2>1. \A p \in Pairs : table[p] # NULL => \A v, w \in p : v # w => v[1] # w[1]
    BY Zenon DEF ReviewsInv, Sound
  <2>2. \A r \in Reviews : review[r] # NULL =>
            \A p \in review[r].own : table[p] = NULL /\ \A v \in p : v[2] <= current[v[1]]
    BY Zenon DEF ReviewsInv, ReviewOK, Sound
  <2>3. \A r \in Reviews : review[r] # NULL =>
            \A s \in Reviews \ {r} : review[s] # NULL => review[r].own \cap review[s].own = {}
    BY Zenon DEF ReviewsInv
  <2> QED
    BY <2>1, <2>2, <2>3, Zenon DEF PairsGrounded
<1> QED
    BY <1>1, ReviewsInvariance, PTL
=============================================================================
