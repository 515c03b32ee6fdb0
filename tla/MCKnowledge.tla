----------------------------- MODULE MCKnowledge -----------------------------
(***************************************************************************)
(* What is kept beside facts, and the search for them: Evidence,           *)
(* Contradictions and HybridSearch (twice).                                *)
(*                                                                         *)
(* One run checks them side by side: a behaviour is of the one that part   *)
(* names, and the others stay in their initial states.                     *)
(* Parts = {"evidence"} checks the first alone.                            *)
(***************************************************************************)
EXTENDS Evidence, Contradictions, TLC

CONSTANTS Parts, c1, first, second, v1, r1, r2, f1, f2, h1, h2

\* A conflict in both orders, one fact twice, and a label nobody gave out.
TwoFactFindings == {<<f1, f2>>, <<f2, f1>>, <<f2, f2>>, <<f1, NULL>>}

-----------------------------------------------------------------------------
(* Hybrid search.                                                          *)

VARIABLES corpus, role, search, last

searchVars == <<corpus, role, search, last>>

ThreeVersions == 1..3
TwoVersions == 1..2

\* Three public versions, with everything that can tell them apart.  The trusts
\* of the first and the last come from the same authority and confidence.
RankedCorpora ==
    LET Stored(form) == [distance : {NULL, 0, 1}, score : {NULL, 1, 2}, trust : {0, 2},
                         form : {form}, scope : {"PUBLIC"}]
    IN {<<a, b, c>> : a \in Stored(1), b \in Stored(2), c \in Stored(1)}

\* Two versions in any scopes.
ScopedCorpora ==
    [TwoVersions -> [distance : {NULL, 0}, score : {NULL, 1}, trust : {2}, form : {1},
              scope : {"PUBLIC", "CONFIDENTIAL", "RESTRICTED"}]]

Ranking ==
    INSTANCE HybridSearch WITH
        Versions <- ThreeVersions, Corpora <- RankedCorpora, Roles <- {"ADMIN"}, Ceilings <- {NULL},
        MaxTrust <- 2, Weights <- {1, 3}, MaxWeight <- 3, RrfK <- 2, Pool <- 2, Limit <- 2

\* A caller whose role may change at any time.
Scoping ==
    INSTANCE HybridSearch WITH
        Versions <- TwoVersions, Corpora <- ScopedCorpora,
        Roles <- {NULL, "VIEWER", "ENGINEER", "ADMIN"}, Ceilings <- {NULL, "CONFIDENTIAL"},
        MaxTrust <- 2, Weights <- {1}, MaxWeight <- 3, RrfK <- 2, Pool <- 1, Limit <- 1

ASSUME SearchesAssumption == Ranking!SearchAssumption /\ Scoping!SearchAssumption

-----------------------------------------------------------------------------
(* The runs side by side.                                                  *)

VARIABLE part

allVars == <<part, vars, reviewVars, searchVars>>

PartsInit ==
    /\ part \in Parts
    /\ Init /\ ReviewsInit
    /\ CASE part = "ranking" -> Ranking!Init
         [] part = "scoping" -> Scoping!Init
         [] OTHER -> corpus = <<>> /\ role = NULL /\ search = NULL /\ last = NULL

\* Reviews overlap while nobody closes a contradiction, or people close them while
\* one review at a time finds them again.
OneReview == \A r, s \in Reviews : r # s => review[r] = NULL \/ review[s] = NULL

\* A ranking does not depend on earlier searches: one is enough.
OneSearch == last # NULL => search' = NULL

PartsNext ==
    /\ UNCHANGED part
    /\ \/ part = "evidence" /\ Next /\ UNCHANGED <<reviewVars, searchVars>>
       \/ part = "reviews" /\ ReviewsNext /\ UNCHANGED <<closing, vars, searchVars>>
       \/ part = "closings" /\ ReviewsNext /\ OneReview' /\ UNCHANGED <<vars, searchVars>>
       \/ part = "ranking" /\ Ranking!Next /\ OneSearch /\ UNCHANGED <<vars, reviewVars>>
       \/ part = "scoping" /\ Scoping!Next /\ UNCHANGED <<vars, reviewVars>>

PartsSpec == PartsInit /\ [][PartsNext]_allVars

Symmetry == Permutations(Reviews) \cup Permutations(People)

-----------------------------------------------------------------------------
(* Properties, as the components state them; those of Evidence and         *)
(* Contradictions come with EXTENDS.                                       *)

\* HybridSearch: the results are the best candidates by the documented formula,
\* best first.
RankedAsDocumented == part = "ranking" => Ranking!RankedAsDocumented

\* HybridSearch: a result is what the caller may see when it is read.
ReadsAsCallerNow == Scoping!ReadsAsCallerNow
=============================================================================
