------------------------------ MODULE Temporal ------------------------------
(***************************************************************************)
(* Bitemporal resolution: which version of a fact is "valid at T as known  *)
(* at K".  The operators translate the two implementations the repository  *)
(* keeps side by side: the pure functions of app/temporal/reference.py and *)
(* the SQL conditions of app/repositories/temporal.py.                     *)
(*                                                                         *)
(* A chain is the sequence of the versions of one fact, oldest first; a    *)
(* set of indices into it stands for a result list or a result set.        *)
(* Instants are natural numbers (microseconds, in the code).               *)
(***************************************************************************)
EXTENDS Integers, Sequences

CONSTANT NULL   \* None in Python, NULL in SQL; for known_at, "latest knowledge"

ASSUME NullAssumption == NULL \notin Int

-----------------------------------------------------------------------------
(* The reference implementation.                                           *)

IsKnown(v, knownAt) == knownAt = NULL \/ v.recorded_at <= knownAt

\* The version as it looked at knownAt: an end not learned by then is hidden.
AsKnown(v, knownAt) ==
    IF \/ knownAt = NULL
       \/ v.valid_until_recorded_at = NULL
       \/ v.valid_until_recorded_at <= knownAt
    THEN v
    ELSE [v EXCEPT !.valid_until = NULL, !.valid_until_recorded_at = NULL]

IsValidAt(v, instant) ==
    /\ v.valid_from <= instant
    /\ v.valid_until = NULL \/ instant < v.valid_until

HistoryAsKnown(chain, knownAt) ==
    {i \in DOMAIN chain : IsKnown(chain[i], knownAt)}

\* The list "matches" of resolve(); resolve() raises when it has two elements.
Resolve(chain, validAt, knownAt) ==
    {i \in HistoryAsKnown(chain, knownAt) :
        IsValidAt(AsKnown(chain[i], knownAt), validAt)}

\* (before, after, transitions) of one fact; None in the code when nothing changed.
ChangeBetween(chain, start, end, knownAt) ==
    [before      |-> Resolve(chain, start, knownAt),
     after       |-> Resolve(chain, end, knownAt),
     transitions |-> {i \in HistoryAsKnown(chain, knownAt) :
                         start < chain[i].valid_from /\ chain[i].valid_from <= end}]

-----------------------------------------------------------------------------
(* The SQL implementation.  revocations is the set of rows of the table     *)
(* fact_revocations that the statement's snapshot sees.                     *)

\* Faulty variant: misses a revocation at exactly knownAt.
NotRevokedStrict(v, revocations, knownAt) ==
    ~ \E rev \in revocations :
        /\ rev.fact_version_id = v.id
        /\ knownAt = NULL \/ rev.revoked_at < knownAt

NotRevokedCondition(v, revocations, knownAt) ==
    ~ \E rev \in revocations :
        /\ rev.fact_version_id = v.id
        /\ knownAt = NULL \/ rev.revoked_at <= knownAt

\* Faulty variant: hides an end recorded at exactly knownAt.
ValidAtConditionLate(v, revocations, validAt, knownAt) ==
    /\ NotRevokedCondition(v, revocations, knownAt)
    /\ v.valid_from <= validAt
    /\ knownAt = NULL \/ v.recorded_at <= knownAt
    /\ \/ v.valid_until = NULL
       \/ knownAt # NULL /\ v.valid_until_recorded_at >= knownAt
       \/ v.valid_until > validAt

ValidAtCondition(v, revocations, validAt, knownAt) ==
    /\ NotRevokedCondition(v, revocations, knownAt)
    /\ v.valid_from <= validAt
    /\ knownAt = NULL \/ v.recorded_at <= knownAt
    /\ \/ v.valid_until = NULL
       \/ knownAt # NULL /\ v.valid_until_recorded_at > knownAt
       \/ v.valid_until > validAt

\* The rows of one fact before DISTINCT ON keeps the one with the top version.
FactsValidAt(chain, revocations, validAt, knownAt) ==
    {i \in DOMAIN chain :
        ValidAtCondition(chain[i], revocations, validAt, knownAt)}
=============================================================================
