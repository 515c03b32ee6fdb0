--------------------------- MODULE TemporalQueries ---------------------------
(***************************************************************************)
(* The questions that TemporalService (app/services/temporal.py) answers   *)
(* about one entity, over the ledger that concurrent requests write        *)
(* (FactLedger).  Each is one read-only transaction whose rows come from   *)
(* one statement, hence an operator on the committed rows.                 *)
(*                                                                         *)
(* Facts are the facts of the entity.  A sorted list is the set of its     *)
(* entries with the order of its sort key.                                 *)
(***************************************************************************)
EXTENDS FactLedger

CONSTANT PropertyRank   \* the place of each fact in the order of the property names

\* The property names of one entity differ (unique constraint of migration 0003).
ASSUME PropertiesAssumption ==
    /\ PropertyRank \in [Facts -> Nat]
    /\ \A f, g \in Facts : PropertyRank[f] = PropertyRank[g] => f = g

\* DISTINCT ON keeps the top version of a fact.
TopAnswer(f, validAt, knownAt) ==
    {i \in Answer(f, validAt, knownAt) : \A j \in Answer(f, validAt, knownAt) : j <= i}

FactsAt(validAt, knownAt) ==
    UNION {{[fact |-> f, version |-> AsKnown(versions[f][i], knownAt)] :
                i \in TopAnswer(f, validAt, knownAt)} : f \in Facts}

\* All versions of one fact that were known, in the order of their numbers.
History(f, knownAt) ==
    {AsKnown(versions[f][i], knownAt) : i \in HistoryAsKnown(versions[f], knownAt)}

\* entity_versions: the versions of every fact that were known.
EntityVersions(knownAt) ==
    UNION {{<<f, i>> : i \in HistoryAsKnown(versions[f], knownAt)} : f \in Facts}

\* change_between of every fact with a known version.
ComparedFacts(start, end, knownAt) ==
    {[fact |-> f, change |-> ChangeBetween(versions[f], start, end, knownAt)] :
        f \in {e[1] : e \in EntityVersions(knownAt)}}

\* Faulty variant: only the values at the two ends are compared.
ChangesBetweenEnds(start, end, knownAt) ==
    {x \in ComparedFacts(start, end, knownAt) : x.change.before # x.change.after}

\* Each fact that changed, with its value at both ends and the versions between.
ChangesBetween(start, end, knownAt) ==
    {x \in ComparedFacts(start, end, knownAt) :
        x.change.before # x.change.after \/ x.change.transitions # {}}

\* The versions of a chain, as list_versions returns them.
Chain(f) == {versions[f][i] : i \in Rows(f)}

\* The versions before and after one version of a fact.
Lineage(f, i) ==
    [version |-> versions[f][i],
     ancestors |-> {v \in Chain(f) : v.version < versions[f][i].version},
     descendants |-> {v \in Chain(f) : v.version > versions[f][i].version}]

\* The sort key of the timeline: valid_from, property, version.
EarlierEntry(a, b) ==
    \/ a.version.valid_from < b.version.valid_from
    \/ /\ a.version.valid_from = b.version.valid_from
       /\ \/ PropertyRank[a.fact] < PropertyRank[b.fact]
          \/ a.fact = b.fact /\ a.version.version < b.version.version

\* Every known version of every fact.
EntityTimeline(knownAt) ==
    {[fact |-> e[1], version |-> AsKnown(versions[e[1]][e[2]], knownAt)] :
        e \in EntityVersions(knownAt)}

-----------------------------------------------------------------------------
(* Properties of every state of the ledger.                                *)

KnownAts == Instants \cup {NULL}

\* The timeline and facts_at tell one story, however requests interleave:
\* what facts_at reports as of some knowledge is an entry of the timeline as
\* of that knowledge, and an entry valid then which facts_at leaves out has
\* been revoked by then.
TimelineAgrees ==
    \A knownAt \in KnownAts, validAt \in Instants :
        /\ FactsAt(validAt, knownAt) \subseteq EntityTimeline(knownAt)
        /\ \A e \in EntityTimeline(knownAt) \ FactsAt(validAt, knownAt) :
              IsValidAt(e.version, validAt) => ~NotRevokedCondition(e.version, revocations, knownAt)

\* The sort key puts any two entries of the timeline in one order, so the list
\* does not depend on the order the rows come in.  The versions of one fact come
\* in the order they were recorded, without a gap, and each has ended when the
\* next begins.
TimelineInOrder ==
    \A knownAt \in KnownAts :
        /\ \A a, b \in EntityTimeline(knownAt) :
              /\ a = b \/ EarlierEntry(a, b) \/ EarlierEntry(b, a)
              /\ EarlierEntry(a, b) => ~EarlierEntry(b, a)
              /\ a.fact = b.fact /\ EarlierEntry(a, b) =>
                    /\ a.version.version < b.version.version
                    /\ a.version.valid_until # NULL
                    /\ a.version.valid_until <= b.version.valid_from
        /\ \A a \in EntityTimeline(knownAt) : \A n \in 1 .. a.version.version :
              \E b \in EntityTimeline(knownAt) : b.fact = a.fact /\ b.version.version = n
        /\ \A f \in Facts :
              History(f, knownAt) = {e.version : e \in {x \in EntityTimeline(knownAt) : x.fact = f}}

\* Lineage, which compares version numbers, is what following supersedes_id
\* from version to version gives.
LineageIsSupersession ==
    \A f \in Facts : \A i \in Rows(f) :
        /\ Lineage(f, i).ancestors =
              UNION {{p} \cup Lineage(f, p.version).ancestors :
                        p \in {q \in Chain(f) : q.id = versions[f][i].supersedes_id}}
        /\ \A d \in Lineage(f, i).descendants : versions[f][i] \in Lineage(f, d.version).ancestors

ChangedFacts(changes) == {x.fact : x \in changes}

\* Changes compose: a fact is reported between two instants exactly if it is
\* reported before or after an instant between them, and the values and
\* versions reported fit together.
ChangesCompose ==
    \A knownAt \in KnownAts, a, b, c \in Instants : a < b /\ b < c =>
        LET first  == ChangesBetween(a, b, knownAt)
            second == ChangesBetween(b, c, knownAt)
            whole  == ChangesBetween(a, c, knownAt)
        IN  /\ ChangedFacts(whole) = ChangedFacts(first) \cup ChangedFacts(second)
            /\ \A x \in first, y \in second, z \in whole :
                  x.fact = y.fact /\ y.fact = z.fact =>
                      /\ x.change.after = y.change.before
                      /\ z.change.before = x.change.before /\ z.change.after = y.change.after
                      /\ z.change.transitions = x.change.transitions \cup y.change.transitions

\* changes_between and facts_at: at either end of a reported change facts_at
\* gives the version that the change has there, unless it has been revoked by
\* then (facts_at leaves revoked versions out, changes_between does not); and of
\* a fact that is not reported facts_at gives the same version at every instant
\* from one end to the other.
ChangesExplainAnswers ==
    \A knownAt \in KnownAts, start, end \in Instants : start < end =>
        LET changes == ChangesBetween(start, end, knownAt)
            Standing(f, rows) ==
                {i \in rows : NotRevokedCondition(versions[f][i], revocations, knownAt)}
        IN  /\ \A x \in changes :
                  /\ TopAnswer(x.fact, start, knownAt) = Standing(x.fact, x.change.before)
                  /\ TopAnswer(x.fact, end, knownAt) = Standing(x.fact, x.change.after)
            /\ \A f \in Facts \ ChangedFacts(changes), t \in Instants :
                  start <= t /\ t <= end => TopAnswer(f, t, knownAt) = TopAnswer(f, start, knownAt)

\* The reads agree with each other on every state that concurrent requests, a
\* clock that steps back and revocations lead to: facts_at, timeline, history,
\* lineage and changes_between hide what was not known in different ways, in SQL
\* and in Python, and tell one story, but for revoked versions, which facts_at
\* alone leaves out.
ReadsAgree ==
    /\ TimelineAgrees
    /\ TimelineInOrder
    /\ LineageIsSupersession
    /\ ChangesCompose
    /\ ChangesExplainAnswers
=============================================================================
