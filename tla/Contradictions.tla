--------------------------- MODULE Contradictions ---------------------------
(***************************************************************************)
(* services/contradictions.py: people close contradictions, and reviews    *)
(* ask a model for conflicts between different facts of one entity.        *)
(*                                                                         *)
(* A review reads the current versions, calls the model outside of any     *)
(* transaction, and stores the accepted findings in one transaction.  An   *)
(* insert waits while another transaction holds the same pair uncommitted, *)
(* and fails if the pair was committed since it was looked up.  Rows the   *)
(* deterministic rule writes belong to FactLedger; both versions of such a *)
(* pair are of one fact, so no review stores one.                          *)
(***************************************************************************)
EXTENDS Null, Naturals, Sequences, FiniteSets, Functions

CONSTANTS
    Facts,        \* the facts of one entity
    MaxVersions,  \* bound: versions of a fact
    Findings,     \* bound: findings the model may make, <<label, label>>; a
                  \* label is a fact it was shown, or something else
    MaxFindings,  \* bound: findings in one answer of the model
    Reviews,      \* bound: reviews that run at the same time
    People        \* who closes contradictions


ASSUME ReviewsAssumption == MaxVersions \in Nat \ {0} /\ NULL \notin {"open", "resolved", "dismissed"}

VARIABLES
    current,   \* the current version of each fact
    table,     \* contradictions: status of each pair of versions, or NULL
    review,    \* the review each slot works on, or NULL
    closing,   \* the row each person has locked and read, or NULL
    duplicate  \* whether an insert met a pair that was there already

reviewVars == <<current, table, review, closing, duplicate>>

FactVersions == Facts \X (1 .. MaxVersions)

\* left_version_id and right_version_id are sorted, so a pair is a set.
Pairs == {p \in SUBSET FactVersions : \E v, w \in p : v # w /\ p = {v, w}}

ReviewsInit ==
    /\ current = [f \in Facts |-> 1]
    /\ table = [p \in Pairs |-> NULL]
    /\ review = [r \in Reviews |-> NULL]
    /\ closing = [h \in People |-> NULL]
    /\ duplicate = FALSE

\* FactService.record_version, as far as a review can see it.
RecordVersion(f) ==
    /\ current[f] < MaxVersions
    /\ current' = [current EXCEPT ![f] = @ + 1]
    /\ UNCHANGED <<table, review, closing, duplicate>>

-----------------------------------------------------------------------------
(* review_entity.                                                          *)

ReviewAt(r, step) == review[r] # NULL /\ review[r].step = step
Goes(r, x) == review' = [review EXCEPT ![r] = x]

\* The caller sees some of the facts; fewer than two are not reviewed.
StartReview(r, seen) ==
    /\ review[r] = NULL
    /\ Cardinality(seen) >= 2
    /\ review' = [review EXCEPT ![r] =
          [step |-> "asking", shown |-> [f \in seen |-> current[f]], findings |-> <<>>, todo |-> <<>>,
           accepted |-> {}, own |-> {}, created |-> 0, known |-> 0, rejected |-> 0, given |-> 0]]
    /\ UNCHANGED <<current, table, closing, duplicate>>

\* Both labels are known and the facts differ.
Accepted(finding, shown) ==
    finding[1] \in DOMAIN shown /\ finding[2] \in DOMAIN shown /\ finding[1] # finding[2]

PairOf(finding, shown) == {<<f, shown[f]>> : f \in {finding[1], finding[2]}}

ModelAnswers(r, findings) ==
    /\ ReviewAt(r, "asking")
    /\ LET x == review[r]
       IN Goes(r, [x EXCEPT !.step = "sifting", !.findings = findings, !.given = Len(findings)])
    /\ UNCHANGED <<current, table, closing, duplicate>>

\* One turn of the loop that accepts or rejects the findings.
Sift(r) ==
    /\ ReviewAt(r, "sifting")
    /\ review[r].findings # <<>>
    /\ LET x == review[r]
           p == PairOf(Head(x.findings), x.shown)
       IN IF Accepted(Head(x.findings), x.shown)
          THEN Goes(r, [x EXCEPT !.findings = Tail(x.findings), !.todo = Append(x.todo, p),
                                 !.accepted = x.accepted \cup {p}])
          ELSE Goes(r, [x EXCEPT !.findings = Tail(x.findings), !.rejected = x.rejected + 1])
    /\ UNCHANGED <<current, table, closing, duplicate>>

\* The transaction that stores them begins.
BeginStoring(r) ==
    /\ ReviewAt(r, "sifting")
    /\ review[r].findings = <<>>
    /\ LET x == review[r] IN Goes(r, [x EXCEPT !.step = "looking"])
    /\ UNCHANGED <<current, table, closing, duplicate>>

\* GenerationError, or findings that do not parse.
ModelFails(r) ==
    /\ ReviewAt(r, "asking")
    /\ Goes(r, NULL)
    /\ UNCHANGED <<current, table, closing, duplicate>>

\* Faulty variant: a pair that is already known is dropped without a count.
LookUpSilent(r) ==
    /\ ReviewAt(r, "looking")
    /\ review[r].todo # <<>>
    /\ LET x == review[r]
       IN IF table[Head(x.todo)] # NULL \/ Head(x.todo) \in x.own
          THEN Goes(r, [x EXCEPT !.todo = Tail(x.todo)])
          ELSE Goes(r, [x EXCEPT !.step = "inserting"])
    /\ UNCHANGED <<current, table, closing, duplicate>>

\* The SELECT sees committed rows and those of its own transaction.
LookUp(r) ==
    /\ ReviewAt(r, "looking")
    /\ review[r].todo # <<>>
    /\ LET x == review[r]
       IN IF table[Head(x.todo)] # NULL \/ Head(x.todo) \in x.own
          THEN Goes(r, [x EXCEPT !.todo = Tail(x.todo), !.known = x.known + 1])
          ELSE Goes(r, [x EXCEPT !.step = "inserting"])
    /\ UNCHANGED <<current, table, closing, duplicate>>

WaitsFor(r) == {s \in Reviews \ {r} :
    ReviewAt(r, "inserting") /\ review[s] # NULL /\ Head(review[r].todo) \in review[s].own}

\* Faulty variant: a duplicate is caught, and the insert tried again.
InsertAgain(r) ==
    /\ ReviewAt(r, "inserting")
    /\ WaitsFor(r) = {}
    /\ LET x == review[r]
       IN IF table[Head(x.todo)] # NULL
          THEN duplicate' = TRUE /\ UNCHANGED review
          ELSE /\ Goes(r, [x EXCEPT !.step = "looking", !.todo = Tail(x.todo),
                                    !.own = x.own \cup {Head(x.todo)}, !.created = x.created + 1])
               /\ UNCHANGED duplicate
    /\ UNCHANGED <<current, table, closing>>

\* It waits for the transaction that holds the pair; a pair committed since the
\* look-up ends the review.
Insert(r) ==
    /\ ReviewAt(r, "inserting")
    /\ WaitsFor(r) = {}
    /\ LET x == review[r]
       IN IF table[Head(x.todo)] # NULL
          THEN Goes(r, NULL) /\ duplicate' = TRUE
          ELSE /\ Goes(r, [x EXCEPT !.step = "looking", !.todo = Tail(x.todo),
                                    !.own = x.own \cup {Head(x.todo)}, !.created = x.created + 1])
               /\ UNCHANGED duplicate
    /\ UNCHANGED <<current, table, closing>>

Commit(r) ==
    /\ ReviewAt(r, "looking")
    /\ review[r].todo = <<>>
    /\ table' = [p \in Pairs |-> IF p \in review[r].own THEN "open" ELSE table[p]]
    /\ Goes(r, NULL)
    /\ UNCHANGED <<current, closing, duplicate>>

\* Reviews that store the same pairs in another order wait for each other.
Stuck(r) == \E s \in WaitsFor(r) : r \in WaitsFor(s)

\* PostgreSQL ends one of the transactions of a deadlock.
BreakDeadlock(r) ==
    /\ Stuck(r)
    /\ Goes(r, NULL)
    /\ UNCHANGED <<current, table, closing, duplicate>>

\* A lost connection or the end of the process.
Abort(r) ==
    /\ review[r] # NULL
    /\ Goes(r, NULL)
    /\ UNCHANGED <<current, table, closing, duplicate>>

-----------------------------------------------------------------------------
(* resolve.                                                                *)

\* Faulty variant: the row is read without FOR UPDATE.
ReadUnlocked(h, p) ==
    /\ closing[h] = NULL
    /\ table[p] # NULL
    /\ closing' = [closing EXCEPT ![h] = [pair |-> p, status |-> table[p]]]
    /\ UNCHANGED <<current, table, review, duplicate>>

\* _row with lock: waits for whoever holds the row.
ReadLocked(h, p) ==
    /\ closing[h] = NULL
    /\ table[p] # NULL
    /\ \A g \in People : closing[g] # NULL => closing[g].pair # p
    /\ closing' = [closing EXCEPT ![h] = [pair |-> p, status |-> table[p]]]
    /\ UNCHANGED <<current, table, review, duplicate>>

Close(h, status) ==
    /\ closing[h] # NULL
    /\ closing[h].status = "open"
    /\ table' = [table EXCEPT ![closing[h].pair] = status]
    /\ closing' = [closing EXCEPT ![h] = NULL]
    /\ UNCHANGED <<current, review, duplicate>>

\* Already closed (409), or the transaction is rolled back.
GiveUp(h) ==
    /\ closing[h] # NULL
    /\ closing' = [closing EXCEPT ![h] = NULL]
    /\ UNCHANGED <<current, table, review, duplicate>>

-----------------------------------------------------------------------------
\* What the handler of a review does.
ReviewSteps(r) ==
    \/ \E findings \in UNION {[1 .. n -> Findings] : n \in 0 .. MaxFindings} : ModelAnswers(r, findings)
    \/ ModelFails(r) \/ Sift(r) \/ BeginStoring(r) \/ LookUp(r) \/ Insert(r) \/ Commit(r)

ReviewsNext ==
    \/ \E f \in Facts : RecordVersion(f)
    \/ \E r \in Reviews :
          (\E seen \in SUBSET Facts : StartReview(r, seen)) \/ ReviewSteps(r) \/ BreakDeadlock(r) \/ Abort(r)
    \/ \E h \in People :
          \/ \E p \in Pairs : ReadLocked(h, p)
          \/ \E status \in {"resolved", "dismissed"} : Close(h, status)
          \/ GiveUp(h)

ReviewsSpec == ReviewsInit /\ [][ReviewsNext]_reviewVars

-----------------------------------------------------------------------------
(* Properties.                                                             *)

ReviewsTypeOK ==
    /\ current \in [Facts -> 1 .. MaxVersions]
    /\ table \in [Pairs -> {"open", "resolved", "dismissed", NULL}]
    /\ \A r \in Reviews : review[r] # NULL =>
          /\ Range(review[r].todo) \cup review[r].own \subseteq Pairs
          /\ review[r].step = "inserting" => review[r].todo # <<>>
    /\ \A h \in People : closing[h] # NULL => table[closing[h].pair] # NULL

\* What is stored, or about to be, is about two different facts, in versions
\* that exist; and no two open transactions hold the same pair.
PairsGrounded ==
    /\ \A p \in Pairs : table[p] # NULL => \A v, w \in p : v # w => v[1] # w[1]
    /\ \A r \in Reviews : review[r] # NULL =>
          /\ \A p \in review[r].own : table[p] = NULL /\ \A v \in p : v[2] <= current[v[1]]
          /\ \A s \in Reviews \ {r} : review[s] # NULL => review[r].own \cap review[s].own = {}

\* A contradiction is closed once: whoever closes it, and however requests
\* overlap, no row goes away, reopens or changes its verdict.
ClosedOnce ==
    [][\A p \in Pairs : table[p] # NULL =>
          /\ table'[p] # NULL
          /\ table[p] # "open" => table'[p] = table[p]]_reviewVars

\* What a review reports: every finding of the model is created, already known
\* or rejected, and every accepted pair is in the table when the review ends.
ReportTrue ==
    [][\A r \in Reviews : Commit(r) =>
          /\ review[r].created + review[r].known + review[r].rejected = review[r].given
          /\ \A p \in review[r].accepted : table'[p] # NULL]_reviewVars

\* Every review ends, although it waits for the pairs of others: whoever it
\* waits for ends too, or PostgreSQL breaks the deadlock, and it does not try
\* for ever what cannot succeed.
ReviewsEnd == \A r \in Reviews : review[r] # NULL ~> review[r] = NULL

-----------------------------------------------------------------------------
(* What the documentation says and the code does not keep.                 *)

\* docs/CONTRADICTIONS.md: a pair that is already recorded is counted as
\* already_known; it never makes a review fail.
KnownNeverFails == ~duplicate

-----------------------------------------------------------------------------
(* The inductive invariant of the proofs.                                  *)

ReviewType ==
    [step : {"asking", "sifting", "looking", "inserting"},
     shown : UNION {[seen -> 1 .. MaxVersions] : seen \in SUBSET Facts},
     findings : Seq(Findings), todo : Seq(Pairs), accepted : SUBSET Pairs, own : SUBSET Pairs,
     created : Nat, known : Nat, rejected : Nat, given : Nat]

ClosingType == [pair : Pairs, status : {"open", "resolved", "dismissed"}]

\* Two different facts, in versions that exist.
Sound(p) == \A v, w \in p : v[2] <= current[v[1]] /\ (v # w => v[1] # w[1])

\* A review has counted all the findings it is done with, and has not lost any
\* pair it accepted.
ReviewOK(x) ==
    /\ \A f \in DOMAIN x.shown : x.shown[f] <= current[f]
    /\ x.step \in {"asking", "looking", "inserting"} => x.findings = <<>>
    /\ x.step = "asking" => x.given = 0
    /\ x.step = "inserting" => x.todo # <<>>
    /\ x.created + x.known + x.rejected + Len(x.todo) + Len(x.findings) = x.given
    /\ \A p \in x.accepted : table[p] # NULL \/ p \in Range(x.todo) \cup x.own
    /\ \A p \in Range(x.todo) \cup x.own : Sound(p)
    /\ \A p \in x.own : table[p] = NULL

\* Whoever has locked a row knows what it says, and holds it alone.
ClosingOK ==
    \A h \in People : closing[h] # NULL =>
        /\ table[closing[h].pair] = closing[h].status
        /\ \A g \in People \ {h} : closing[g] # NULL => closing[g].pair # closing[h].pair

ReviewsInv ==
    /\ current \in [Facts -> 1 .. MaxVersions]
    /\ table \in [Pairs -> {"open", "resolved", "dismissed", NULL}]
    /\ review \in [Reviews -> ReviewType \cup {NULL}]
    /\ closing \in [People -> ClosingType \cup {NULL}]
    /\ \A p \in Pairs : table[p] # NULL => Sound(p)
    /\ \A r \in Reviews : review[r] # NULL => ReviewOK(review[r])
    /\ \A r, s \in Reviews : r # s /\ review[r] # NULL /\ review[s] # NULL =>
          review[r].own \cap review[s].own = {}
    /\ ClosingOK
=============================================================================
