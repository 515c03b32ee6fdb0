---------------------------- MODULE HybridSearch ----------------------------
(***************************************************************************)
(* A search that the cache does not answer (RetrievalService._search): the *)
(* two branches of candidates (app/repositories/retrieval.py), and the     *)
(* pure rules that fuse them into one ranking (app/domain/retrieval.py).   *)
(*                                                                         *)
(* The role of the caller may change between the first check and the       *)
(* transaction that reads the candidates.  Ids are ordered, hence numbers. *)
(*                                                                         *)
(* The code computes scores in floating point.  Here a score is an exact   *)
(* fraction over a common denominator and a rounding error far below the   *)
(* difference of two such fractions: it can only order scores that are     *)
(* equal, and it is the same for the same computation.                     *)
(***************************************************************************)
EXTENDS Naturals, Sequences, FiniteSets, SequencesExt, FiniteSetsExt, TLC

CONSTANTS
    Versions,    \* ids of fact versions
    Corpora,     \* what may be stored: for each version, a record of what a
                 \* query finds, its trust (of MaxTrust), the form of that
                 \* trust (the authority and the confidence it is the product
                 \* of) and its privacy scope
    Roles,       \* the roles the caller may have
    Ceilings,    \* the ceilings that requests ask for
    MaxTrust,    \* the trust of authority 100 and confidence 1
    Weights,     \* trust weights, of MaxWeight
    MaxWeight,
    RrfK,        \* rrf_k
    Pool,        \* candidate_pool_size
    Limit,       \* results that a query asks for
    NULL

\* What the constants satisfy; every instance assumes it.
SearchAssumption ==
    /\ Versions \subseteq Nat /\ IsFiniteSet(Versions)
    /\ RrfK \in Nat \ {0} /\ MaxWeight \in Nat \ {0} /\ Weights \subseteq 0..MaxWeight
    /\ Limit \in 1..Pool

VARIABLES
    corpus,   \* what is stored
    role,     \* the role of the caller, NULL if not a member
    search,   \* the search under way, or NULL
    last      \* the last search that ended, with what it was given, or NULL

vars == <<corpus, role, search, last>>

-----------------------------------------------------------------------------
(* Privacy.                                                                *)

PrivacyOrder == <<"PUBLIC", "INTERNAL", "CONFIDENTIAL", "RESTRICTED">>
Index(scope) == CHOOSE i \in DOMAIN PrivacyOrder : PrivacyOrder[i] = scope
RoleMaxPrivacy == [VIEWER |-> "INTERNAL", ENGINEER |-> "CONFIDENTIAL", ADMIN |-> "RESTRICTED"]

\* Capped by the role and by the ceiling of the request.
VisiblePrivacyScopes(r, ceiling) ==
    LET top == Index(RoleMaxPrivacy[r])
    IN Range(SubSeq(PrivacyOrder, 1, IF ceiling = NULL THEN top ELSE Min({top, Index(ceiling)})))

-----------------------------------------------------------------------------
(* The candidates of a query.                                              *)

Visible(scopes) == {v \in Versions : corpus[v].scope \in scopes}

\* The full-text branch: the best Pool, ties by id.
TextHits(scopes) ==
    LET found == {v \in Visible(scopes) : corpus[v].score # NULL}
        Better(a, b) == \/ corpus[a].score > corpus[b].score
                        \/ corpus[a].score = corpus[b].score /\ a < b
    IN {[id |-> v, score |-> corpus[v].score] :
            v \in {w \in found : Cardinality({b \in found : Better(b, w)}) < Pool}}

\* The vector branch: ORDER BY distance LIMIT pool.  Which of those at the
\* same distance come in under the limit is not said.
VectorHits(scopes) ==
    LET found == {v \in Visible(scopes) : corpus[v].distance # NULL}
        Nearest(S) == \A a \in S, b \in found \ S : corpus[a].distance <= corpus[b].distance
    IN {{[id |-> v, distance |-> corpus[v].distance] : v \in S} :
            S \in {T \in kSubset(Min({Pool, Cardinality(found)}), found) : Nearest(T)}}

-----------------------------------------------------------------------------
(* fuse.  Hits are sequences, in whatever order the rows come.             *)

Nearer(a, b) == a.distance < b.distance \/ (a.distance = b.distance /\ a.id < b.id)

BetterMatch(a, b) == a.score > b.score \/ (a.score = b.score /\ a.id < b.id)

\* The best hit of each version; the hits are sorted.
Dedupe(hits) ==
    FoldLeft(LAMBDA acc, h : IF \E i \in DOMAIN acc : acc[i].id = h.id THEN acc ELSE Append(acc, h),
             <<>>, hits)

Rank(v, hits) == {i \in DOMAIN hits : hits[i].id = v}

\* A denominator common to every 1 / (rrf_k + rank).
Denominator == FoldFunction(LAMBDA a, b : a * b, 1, [i \in 1..Cardinality(Versions) |-> RrfK + i])

\* Faulty variant: the branch that finds a version first decides alone.
RrfMax(v, vectors, texts) ==
    Max({0} \cup {Denominator \div (RrfK + i) : i \in Rank(v, vectors) \cup Rank(v, texts)})

\* Reciprocal rank fusion, over the branches that found the version.
Rrf(v, vectors, texts) ==
    LET Reciprocal(i) == Denominator \div (RrfK + i)
    IN MapThenSumSet(Reciprocal, Rank(v, vectors)) + MapThenSumSet(Reciprocal, Rank(v, texts))

\* rrf * ((1 - w) + w * trust).
Weighed(rrf, weight, trust) == rrf * ((MaxWeight - weight) * MaxTrust + weight * trust)

\* What a score is computed from besides the ranks: authority times confidence
\* times the weight.  Equal trusts of different forms may round differently;
\* without a weight, or without any trust, the product is exactly zero.
Product(v, weight) ==
    LET trust == weight * corpus[v].trust
    IN <<trust, IF trust = 0 THEN NULL ELSE corpus[v].form>>

\* The ways in which the scores of a search may be rounded.
Roundings(weight) == [{Product(v, weight) : v \in Versions} -> 0..1]

\* The exact score, then the error; zero is exact.
Rounded(exact, error) == IF exact = 0 THEN 0 ELSE 2 * exact + error

\* The candidates, best first.
Fuse(vectorHits, textHits, weight, rounding) ==
    LET vectors == Dedupe(SortSeq(vectorHits, Nearer))
        texts == Dedupe(SortSeq(textHits, BetterMatch))
        found == {h.id : h \in Range(vectors)} \cup {h.id : h \in Range(texts)}
        score == [v \in found |-> Rounded(Weighed(Rrf(v, vectors, texts), weight, corpus[v].trust),
                                          rounding[Product(v, weight)])]
    IN SetToSortSeq(found, LAMBDA a, b : score[a] > score[b] \/ (score[a] = score[b] /\ a < b))

-----------------------------------------------------------------------------
(* Searches.                                                               *)

Init ==
    /\ corpus \in Corpora
    /\ role \in Roles
    /\ search = NULL
    /\ last = NULL

\* Memberships change.
ChangeRole(r) == role' = r /\ UNCHANGED <<corpus, search, last>>

\* The first check, before an embedding is paid for.
Start(ceiling, weight) ==
    /\ search = NULL
    /\ role # NULL
    /\ search' = [ceiling |-> ceiling, weight |-> weight, role |-> role, step |-> "embedding"]
    /\ UNCHANGED <<corpus, role, last>>

\* The query is embedded, or the provider fails and full text has to do.
Embed(available) ==
    /\ search # NULL /\ search.step = "embedding"
    /\ search' = [search EXCEPT !.step = IF available THEN "both" ELSE "text"]
    /\ UNCHANGED <<corpus, role, last>>

Hits(scopes) == IF search.step = "both" THEN VectorHits(scopes) ELSE {{}}

Top(ranked) == SubSeq(ranked, 1, Min({Limit, Len(ranked)}))

\* The search ends with what the candidates in these scopes fuse to.
EndSearch(scopes) ==
    /\ search # NULL /\ search.step # "embedding"
    /\ role # NULL
    /\ \E vectorHits \in Hits(scopes), rounding \in Roundings(search.weight) :
        LET textHits == TextHits(scopes)
            ranked == Fuse(SetToSeq(vectorHits), SetToSeq(textHits), search.weight, rounding)
        IN last' = [vectors |-> vectorHits, texts |-> textHits, weight |-> search.weight,
                    scopes |-> scopes, mode |-> search.step, rounding |-> rounding,
                    results |-> Top(ranked)]
    /\ search' = NULL
    /\ UNCHANGED <<corpus, role>>

\* Faulty variant: the role of the first check is used.
ReadStale == search # NULL /\ EndSearch(VisiblePrivacyScopes(search.role, search.ceiling))

\* One read-only snapshot: the role is read again, then the candidates.
Read == search # NULL /\ role # NULL /\ EndSearch(VisiblePrivacyScopes(role, search.ceiling))

\* Not a member any more.
Refuse ==
    /\ search # NULL /\ search.step # "embedding"
    /\ role = NULL
    /\ search' = NULL
    /\ UNCHANGED <<corpus, role, last>>

Next ==
    \/ \E r \in Roles : ChangeRole(r)
    \/ \E ceiling \in Ceilings, weight \in Weights : Start(ceiling, weight)
    \/ \E available \in BOOLEAN : Embed(available)
    \/ Read
    \/ Refuse

Spec == Init /\ [][Next]_vars

-----------------------------------------------------------------------------
(* Properties.                                                             *)

TypeOK ==
    /\ corpus \in Corpora
    /\ role \in Roles
    /\ search # NULL => search.step \in {"embedding", "both", "text"} /\ search.role \in Roles
    /\ last # NULL => /\ Range(last.results) \subseteq Versions
                      /\ Len(last.results) <= Limit
                      /\ IsInjective(last.results)

\* The score of the last search by the formula in the head of
\* domain/retrieval.py, without sorting: a rank is a number of better hits.
ReferenceScore(v) ==
    LET VectorRank(h) == 1 + Cardinality({g \in last.vectors :
                               g.distance < h.distance \/ (g.distance = h.distance /\ g.id < h.id)})
        TextRank(h) == 1 + Cardinality({g \in last.texts :
                               g.score > h.score \/ (g.score = h.score /\ g.id < h.id)})
        ranks == <<{VectorRank(h) : h \in {g \in last.vectors : g.id = v}},
                   {TextRank(h) : h \in {g \in last.texts : g.id = v}}>>
        terms == [b \in 1..2 |-> IF ranks[b] = {} THEN 0 ELSE Denominator \div (RrfK + Max(ranks[b]))]
        trust == corpus[v].trust
    IN (terms[1] + terms[2]) * (MaxWeight * MaxTrust - last.weight * (MaxTrust - trust))

Found == {h.id : h \in last.vectors} \cup {h.id : h \in last.texts}

\* The results are the best of the candidates, best first: nothing that was
\* left out and nothing later in the list has a higher score by the formula,
\* however the scores are rounded.  Versions with the same score are in the
\* order of their ids if their scores are zero or come from the same authority
\* and confidence; otherwise rounding may have ordered them.
RankedAsDocumented ==
    last # NULL =>
        LET score == [v \in Found |-> ReferenceScore(v)]
            Alike(a, b) == score[a] = 0 \/ Product(a, last.weight) = Product(b, last.weight)
            Before(a, b) == \/ score[a] > score[b]
                            \/ score[a] = score[b] /\ (Alike(a, b) => a < b)
            results == last.results
        IN /\ Len(results) = Min({Limit, Cardinality(Found)})
           /\ \A i, j \in DOMAIN results : i < j => Before(results[i], results[j])
           /\ \A i \in DOMAIN results, v \in Found \ Range(results) : Before(results[i], v)

\* Nothing depends on the order in which the database returns the rows.
RowOrderIrrelevant ==
    last # NULL =>
        \A vectors \in SetToSeqs(last.vectors), texts \in SetToSeqs(last.texts) :
            Top(Fuse(vectors, texts, last.weight, last.rounding)) = last.results

\* A version that is nearer, matches better and is trusted no less than one
\* among the results precedes it there, limits of the branches or not.  (With
\* all the weight on trust, versions without any trust are all equal.)
BetterComesFirst ==
    last # NULL =>
        \A i \in DOMAIN last.results, a \in Visible(last.scopes) :
            LET b == last.results[i]
                better == /\ corpus[b].distance # NULL =>
                                corpus[a].distance # NULL /\ corpus[a].distance < corpus[b].distance
                          /\ corpus[b].score # NULL =>
                                corpus[a].score # NULL /\ corpus[a].score > corpus[b].score
                          /\ corpus[a].trust >= corpus[b].trust
                          /\ corpus[a].trust > 0 \/ last.weight < MaxWeight
            IN better => \E j \in 1..(i - 1) : last.results[j] = a

\* What a search returns, its caller may see when it is read: the role may
\* have changed since the first check, and a ceiling only ever narrows it.
ReadsAsCallerNow ==
    [][last' # last =>
        \A v \in Range(last'.results) :
            /\ Index(corpus[v].scope) <= Index(RoleMaxPrivacy[role])
            /\ search.ceiling # NULL => Index(corpus[v].scope) <= Index(search.ceiling)]_vars

-----------------------------------------------------------------------------
(* What the documentation says and the code does not keep.                 *)

\* "Ties are broken by version id" (docs/RETRIEVAL.md): of two results with the
\* same score by the formula, the first has the smaller id.
TiesById ==
    last # NULL =>
        \A i, j \in DOMAIN last.results :
            (/\ i < j
             /\ ReferenceScore(last.results[i]) = ReferenceScore(last.results[j]))
                => last.results[i] < last.results[j]

\* "... so results are deterministic": the same search of the same data by the
\* same caller, with the same arithmetic, returns the same.
Deterministic ==
    [][(/\ last # NULL /\ last' # NULL
        /\ last'.scopes = last.scopes
        /\ last'.weight = last.weight
        /\ last'.mode = last.mode
        /\ last'.rounding = last.rounding) => last'.results = last.results]_vars
=============================================================================
