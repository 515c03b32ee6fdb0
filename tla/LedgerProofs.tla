---------------------------- MODULE LedgerProofs ----------------------------
(***************************************************************************)
(* Proofs about FactLedger, TemporalQueries and Decisions, for every set   *)
(* of facts, agents, requests and commands.                                *)
(*                                                                         *)
(* FactLedger: what the domain rules do to one version chain and what the  *)
(* two engines read from it, type correctness, the inductive invariant     *)
(* (Inv), and what readers may rely on.                                    *)
(*                                                                         *)
(* TemporalQueries: the reads agree, which follows from Inv.               *)
(*                                                                         *)
(* Decisions: the ledger under it is that of FactLedger, receipts verify,  *)
(* and the impact of a revocation is true and complete (DecisionsInv).     *)
(***************************************************************************)
EXTENDS Decisions, TemporalQueries, TLAPS

-----------------------------------------------------------------------------
(* Lemmas about the domain rules.                                          *)

\* latest_version() returns a row when the fact has one.
LEMMA LatestType ==
    ASSUME NEW chain \in Seq(VersionType), chain # <<>>
    PROVE  Latest(chain) \in VersionType /\ Len(chain) \in DOMAIN chain
BY DEF Latest

\* What new_version() writes is a row of fact_versions.
LEMMA NewVersionType ==
    ASSUME NEW id \in Requests, NEW chain \in Seq(VersionType),
           NEW cmd \in Commands, NEW t \in Nat
    PROVE  NewVersion(id, chain, cmd, t) \in VersionType
<1>1. cmd \in CommandType
    BY LedgerAssumption, Zenon
<1>2. chain # <<>> => Latest(chain) \in VersionType
    BY LatestType, Zenon
<1>3. (IF chain = <<>> THEN NULL ELSE Latest(chain).id) \in Requests \cup {NULL}
    BY <1>2, Zenon DEF VersionType
<1>4. Len(chain) + 1 \in Nat
    OBVIOUS
<1> QED
    BY <1>1, <1>3, <1>4, Zenon DEF NewVersion, VersionType, CommandType

\* close_version() keeps a row a row.
LEMMA CloseVersionType ==
    ASSUME NEW v \in VersionType, NEW cmd \in Commands, NEW t \in Nat
    PROVE  CloseVersion(v, cmd, t) \in VersionType
<1>1. cmd.valid_from \in Nat
    BY LedgerAssumption, Zenon DEF CommandType
<1> QED
    BY <1>1, Zenon DEF CloseVersion, VersionType

\* The rows of the chain record_version leaves behind.
LEMMA ExtendedShape ==
    ASSUME NEW id \in Requests, NEW chain \in Seq(VersionType),
           NEW cmd \in Commands, NEW t \in Nat
    PROVE  LET e == Extended(id, chain, cmd, t)
               n == Len(chain)
           IN  /\ e \in Seq(VersionType)
               /\ Len(e) = n + 1
               /\ DOMAIN e = 1 .. n + 1
               /\ e[n + 1] = NewVersion(id, chain, cmd, t)
               /\ \A i \in 1 .. n : i < n => e[i] = chain[i]
               /\ n > 0 => e[n] = CloseVersion(chain[n], cmd, t)
<1> DEFINE e == Extended(id, chain, cmd, t)
           n == Len(chain)
<1>1. n \in Nat /\ \A i \in 1 .. n : chain[i] \in VersionType
    OBVIOUS
<1>2. NewVersion(id, chain, cmd, t) \in VersionType
    BY NewVersionType, Zenon
<1>3. \A i \in 1 .. n : CloseVersion(chain[i], cmd, t) \in VersionType
    BY <1>1, CloseVersionType, Zenon
<1>4. \A i \in 1 .. n + 1 : e[i] \in VersionType
    BY <1>1, <1>2, <1>3 DEF Extended
<1>5. e = [i \in 1 .. n + 1 |-> e[i]]
    BY Zenon DEF Extended
<1>6. e \in [1 .. n + 1 -> VersionType]
    BY <1>4, <1>5, Zenon
<1>7. e \in Seq(VersionType) /\ Len(e) = n + 1 /\ DOMAIN e = 1 .. n + 1
    BY <1>1, <1>6
<1> QED
    BY <1>1, <1>7 DEF Extended

\* next_transaction_time() is strictly after the latest version.
LEMMA NextTransactionTimeLater ==
    ASSUME NEW chain \in Seq(VersionType), NEW now \in Nat
    PROVE  /\ NextTransactionTime(chain, now) \in Nat
           /\ chain # <<>> => Latest(chain).recorded_at < NextTransactionTime(chain, now)
<1>1. chain # <<>> => Latest(chain).recorded_at \in Nat
    BY LatestType, Zenon DEF VersionType
<1> QED
    BY <1>1 DEF NextTransactionTime

\* What the constraints say of one row and of two.
LEMMA ChainRow ==
    ASSUME NEW chain, ChainOK(chain), NEW i \in DOMAIN chain
    PROVE  /\ chain[i].version = i
           /\ chain[i].supersedes_id = IF i = 1 THEN NULL ELSE chain[i - 1].id
           /\ chain[i].valid_until = NULL <=> chain[i].valid_until_recorded_at = NULL
           /\ chain[i].valid_until # NULL =>
                 /\ chain[i].valid_from < chain[i].valid_until
                 /\ chain[i].recorded_at <= chain[i].valid_until_recorded_at
           /\ i = Len(chain) /\ chain[i].valid_until # NULL =>
                 chain[i].valid_until_recorded_at = chain[i].recorded_at
BY Zenon DEF ChainOK

\* The constraints on two versions of one fact.
LEMMA ChainPair ==
    ASSUME NEW chain, ChainOK(chain), NEW i \in DOMAIN chain, NEW j \in DOMAIN chain, i < j
    PROVE  /\ chain[i].valid_until # NULL
           /\ chain[i].valid_until <= chain[j].valid_from
           /\ chain[i].recorded_at < chain[j].recorded_at
           /\ chain[i].valid_until_recorded_at <= chain[j].recorded_at
BY Zenon DEF ChainOK

\* The ids of the chain record_version leaves behind.
LEMMA ExtendedIds ==
    ASSUME NEW id \in Requests, NEW chain \in Seq(VersionType),
           NEW cmd \in Commands, NEW t \in Nat
    PROVE  LET e == Extended(id, chain, cmd, t)
               n == Len(chain)
           IN  /\ n \in Nat /\ DOMAIN chain = 1 .. n /\ DOMAIN e = 1 .. n + 1
               /\ e[n + 1].id = id
               /\ \A i \in 1 .. n : e[i].id = chain[i].id
<1> DEFINE e == Extended(id, chain, cmd, t)
           n == Len(chain)
<1>1. n \in Nat /\ DOMAIN chain = 1 .. n /\ \A i \in 1 .. n : chain[i] \in VersionType
    OBVIOUS
<1>2. /\ DOMAIN e = 1 .. n + 1
      /\ e[n + 1] = NewVersion(id, chain, cmd, t)
      /\ \A i \in 1 .. n : i < n => e[i] = chain[i]
      /\ n > 0 => e[n] = CloseVersion(chain[n], cmd, t)
    BY ExtendedShape, ZenonT(40)
<1>3. \A v \in VersionType : CloseVersion(v, cmd, t).id = v.id
    BY Zenon DEF CloseVersion, VersionType
<1>4. NewVersion(id, chain, cmd, t).id = id
    BY Zenon DEF NewVersion
<1> HIDE DEF e, n
<1>5. \A i \in 1 .. n : e[i].id = chain[i].id
    BY <1>1, <1>2, <1>3
<1> QED
    BY <1>1, <1>2, <1>4, <1>5, Zenon DEF e, n

\* A version that record_version may append keeps the constraints of the chain.
LEMMA ExtendedOK ==
    ASSUME NEW id \in Requests, NEW chain \in Seq(VersionType),
           NEW cmd \in Commands, NEW t \in Nat,
           ChainOK(chain), ~PlanConflict(chain, cmd),
           chain # <<>> => Latest(chain).recorded_at < t
    PROVE  ChainOK(Extended(id, chain, cmd, t))
<1> DEFINE e == Extended(id, chain, cmd, t)
           n == Len(chain)
           new == NewVersion(id, chain, cmd, t)
<1>0. n \in Nat /\ DOMAIN chain = 1 .. n /\ \A i \in 1 .. n : chain[i] \in VersionType
    OBVIOUS
<1>1. /\ DOMAIN e = 1 .. n + 1
      /\ e[n + 1] = new
      /\ \A i \in 1 .. n : i < n => e[i] = chain[i]
      /\ n > 0 => e[n] = CloseVersion(chain[n], cmd, t)
    BY ExtendedShape, ZenonT(30)
<1>2. /\ cmd.valid_from \in Nat
      /\ cmd.valid_until \in Nat \cup {NULL}
      /\ cmd.valid_until # NULL => cmd.valid_from < cmd.valid_until
    BY LedgerAssumption, ZenonT(40) DEF CommandType
<1>3. /\ new.version = n + 1
      /\ new.valid_from = cmd.valid_from
      /\ new.valid_until = cmd.valid_until
      /\ new.recorded_at = t
      /\ new.valid_until_recorded_at = IF cmd.valid_until = NULL THEN NULL ELSE t
    BY Zenon DEF NewVersion
<1>4. \A v \in VersionType : LET c == CloseVersion(v, cmd, t) IN
        /\ c.version = v.version
        /\ c.valid_from = v.valid_from
        /\ c.recorded_at = v.recorded_at
        /\ c.valid_until = IF v.valid_until = NULL THEN cmd.valid_from ELSE v.valid_until
        /\ c.valid_until_recorded_at =
              IF v.valid_until = NULL THEN t ELSE v.valid_until_recorded_at
    BY Zenon DEF CloseVersion, VersionType
<1> HIDE DEF e, n, new
<1>5. ASSUME NEW i \in 1 .. n
      PROVE  /\ e[i].version = i
             /\ e[i].valid_from \in Nat /\ e[i].valid_until \in Nat
             /\ e[i].recorded_at \in Nat /\ e[i].valid_until_recorded_at \in Nat
             /\ e[i].valid_from < e[i].valid_until
             /\ e[i].valid_until <= cmd.valid_from
             /\ e[i].recorded_at <= e[i].valid_until_recorded_at
             /\ e[i].recorded_at < t
             /\ e[i].valid_until_recorded_at <= t
  <2>1. /\ chain[i].valid_from \in Nat /\ chain[i].valid_until \in Nat \cup {NULL}
        /\ chain[i].recorded_at \in Nat
        /\ chain[i].valid_until_recorded_at \in Nat \cup {NULL}
    BY <1>0, Zenon DEF VersionType
  <2>2. /\ chain[n].valid_from \in Nat /\ chain[n].valid_until \in Nat \cup {NULL}
        /\ chain[n].recorded_at \in Nat
    <3>1. n \in 1 .. n
        BY <1>0
    <3>2. chain[n] \in VersionType
        BY <1>0, <3>1, Zenon
    <3> QED
        BY <3>2, Zenon DEF VersionType
  <2>3. chain # <<>> /\ Latest(chain) = chain[n]
    BY <1>0 DEF Latest, n
  <2>4. /\ chain[n].recorded_at < t
        /\ chain[n].valid_from < cmd.valid_from
        /\ chain[n].valid_until # NULL => chain[n].valid_until <= cmd.valid_from
    BY <1>2, <2>2, <2>3 DEF PlanConflict
  <2>5. CASE i < n
    <3>1. e[i] = chain[i]
        BY <1>1, <2>5, Zenon
    <3>2. /\ chain[i].valid_until # NULL
          /\ chain[i].valid_until <= chain[n].valid_from
          /\ chain[i].recorded_at < chain[n].recorded_at
          /\ chain[i].valid_until_recorded_at <= chain[n].recorded_at
        BY <1>0, <2>5, ChainPair
    <3>3. /\ chain[i].version = i
          /\ chain[i].valid_until_recorded_at # NULL
          /\ chain[i].valid_from < chain[i].valid_until
          /\ chain[i].recorded_at <= chain[i].valid_until_recorded_at
        BY <1>0, <3>2, ChainRow
    <3>4. chain[i].valid_until \in Nat /\ chain[i].valid_until_recorded_at \in Nat
        BY <2>1, <3>2, <3>3, Zenon
    <3>5. /\ chain[i].valid_until <= cmd.valid_from
          /\ chain[i].recorded_at < t
          /\ chain[i].valid_until_recorded_at <= t
        BY <1>2, <2>1, <2>2, <2>4, <3>2, <3>4, SMTT(30)
    <3> QED
        BY <2>1, <3>1, <3>3, <3>4, <3>5, Zenon
  <2>6. CASE i = n
    <3>1. e[i] = CloseVersion(chain[i], cmd, t)
        BY <1>0, <1>1, <2>6
    <3>2. /\ e[i].version = chain[i].version
          /\ e[i].valid_from = chain[i].valid_from
          /\ e[i].recorded_at = chain[i].recorded_at
          /\ e[i].valid_until =
                IF chain[i].valid_until = NULL THEN cmd.valid_from ELSE chain[i].valid_until
          /\ e[i].valid_until_recorded_at =
                IF chain[i].valid_until = NULL THEN t ELSE chain[i].valid_until_recorded_at
        BY <1>0, <1>4, <3>1, ZenonT(40)
    <3>3. /\ chain[i].version = i
          /\ chain[i].valid_until # NULL =>
                /\ chain[i].valid_from < chain[i].valid_until
                /\ chain[i].valid_until_recorded_at = chain[i].recorded_at
        BY <1>0, <2>6, ChainRow DEF n
    <3> QED
        BY <1>2, <2>1, <2>4, <2>6, <3>2, <3>3, NullAssumption
  <2> QED
    BY <1>0, <2>5, <2>6
<1>6. ASSUME NEW i \in 1 .. n, NEW j \in 1 .. n, i < j
      PROVE  /\ e[i].valid_until <= e[j].valid_from
             /\ e[i].recorded_at < e[j].recorded_at
             /\ e[i].valid_until_recorded_at <= e[j].recorded_at
  <2>1. i < n /\ e[i] = chain[i]
    BY <1>0, <1>1, <1>6
  <2>2. e[j].valid_from = chain[j].valid_from /\ e[j].recorded_at = chain[j].recorded_at
    BY <1>0, <1>1, <1>4
  <2> QED
    BY <1>0, <1>6, <2>1, <2>2, ChainPair, Zenon
<1>7. DOMAIN e = 1 .. n + 1 /\ Len(e) = n + 1
    BY ExtendedShape, ZenonT(40) DEF e, n
<1>8. \A i \in 1 .. n + 1 :
        /\ e[i].version = i
        /\ e[i].valid_until = NULL <=> e[i].valid_until_recorded_at = NULL
        /\ e[i].valid_until # NULL =>
              /\ e[i].valid_from < e[i].valid_until
              /\ e[i].recorded_at <= e[i].valid_until_recorded_at
    BY <1>0, <1>1, <1>2, <1>3, <1>5, NullAssumption
<1>9. \A i, j \in 1 .. n + 1 : i < j =>
        /\ e[i].valid_until # NULL
        /\ e[i].valid_until <= e[j].valid_from
        /\ e[i].recorded_at < e[j].recorded_at
        /\ e[i].valid_until_recorded_at <= e[j].recorded_at
  <2> TAKE i, j \in 1 .. n + 1
  <2> HAVE i < j
  <2>1. i \in 1 .. n
    BY <1>0
  <2>2. CASE j \in 1 .. n
    BY <1>5, <1>6, <2>1, <2>2, NullAssumption
  <2>3. CASE j = n + 1
    BY <1>1, <1>3, <1>5, <2>1, <2>3, NullAssumption
  <2> QED
    BY <1>0, <2>2, <2>3
<1>10. \A i \in 1 .. n + 1 : e[i].supersedes_id = IF i = 1 THEN NULL ELSE e[i - 1].id
  <2>1. /\ e[n + 1].id = id
        /\ \A i \in 1 .. n : e[i].id = chain[i].id
    BY ExtendedIds DEF e, n
  <2>2. new.supersedes_id = IF n = 0 THEN NULL ELSE chain[n].id
    BY <1>0 DEF new, NewVersion, Latest, n
  <2>3. \A v \in VersionType : CloseVersion(v, cmd, t).supersedes_id = v.supersedes_id
    BY Zenon DEF CloseVersion, VersionType
  <2>4. \A i \in 1 .. n : e[i].supersedes_id = chain[i].supersedes_id
    BY <1>0, <1>1, <2>3
  <2>5. \A i \in 1 .. n : chain[i].supersedes_id = IF i = 1 THEN NULL ELSE chain[i - 1].id
    BY <1>0, ChainRow, ZenonT(40)
  <2> QED
    BY <1>0, <1>1, <2>1, <2>2, <2>4, <2>5
<1>11. e[n + 1].valid_until # NULL =>
        e[n + 1].valid_until_recorded_at = e[n + 1].recorded_at
    BY <1>1, <1>3, Zenon
<1> QED
    BY <1>7, <1>8, <1>9, <1>10, <1>11, Zenon DEF ChainOK, e

\* The rows the other statements of record_version insert.
LEMMA RowsType ==
    ASSUME NEW id \in Requests, NEW chain \in Seq(VersionType),
           NEW cmd \in Commands, NEW t \in Nat, NEW now \in Nat
    PROVE  /\ DetectValueConflict(chain, NewVersion(id, chain, cmd, t))
                 \subseteq ContradictionType
           /\ LinkEvidence(id, cmd, now) \subseteq LinkType
<1> DEFINE new == NewVersion(id, chain, cmd, t)
<1>1. new.id = id
    BY Zenon DEF NewVersion
<1>2. chain # <<>> => Latest(chain).id \in Requests
    BY LatestType, Zenon DEF VersionType
<1>3. chain # <<>> => Preferred(Latest(chain), new) \in Requests
    BY <1>1, <1>2, Zenon DEF Preferred
<1>4. chain # <<>> =>
        [left_version_id |-> Latest(chain).id, right_version_id |-> new.id,
         preferred_version_id |-> Preferred(Latest(chain), new)] \in ContradictionType
    BY <1>1, <1>2, <1>3, Zenon DEF ContradictionType
<1>5. cmd.evidence_ids \subseteq STRING
    BY LedgerAssumption, Zenon DEF CommandType
<1> HIDE DEF new
<1>6. DetectValueConflict(chain, new) \subseteq ContradictionType
    BY <1>4, Zenon DEF DetectValueConflict
<1> QED
    BY <1>5, <1>6 DEF LinkEvidence, LinkType, new

\* What a job carries.
LEMMA JobFields ==
    ASSUME NEW j \in Jobs
    PROVE  /\ j.fact \in Facts
           /\ j.kind \in {"record", "revoke"}
           /\ j.kind = "record" => j.command \in Commands
BY Zenon DEF Jobs, RecordJobs, RevokeJobs

-----------------------------------------------------------------------------
(* Lemmas about what a reader sees.                                        *)

\* as_known() hides an end that was not yet recorded, and nothing else.
LEMMA AsKnownFields ==
    ASSUME NEW v \in VersionType, NEW knownAt \in Nat \cup {NULL}
    PROVE  /\ AsKnown(v, knownAt).valid_from = v.valid_from
           /\ AsKnown(v, knownAt).valid_until =
                IF \/ knownAt = NULL
                   \/ v.valid_until_recorded_at = NULL
                   \/ v.valid_until_recorded_at <= knownAt
                THEN v.valid_until ELSE NULL
BY Zenon DEF AsKnown, VersionType

\* A chain that satisfies the constraints resolves to at most one version.
LEMMA ResolveUnique ==
    ASSUME NEW chain \in Seq(VersionType), ChainOK(chain),
           NEW validAt \in Nat, NEW knownAt \in Nat \cup {NULL},
           NEW i \in Resolve(chain, validAt, knownAt),
           NEW j \in Resolve(chain, validAt, knownAt)
    PROVE  i = j
<1>1. ASSUME NEW a \in Resolve(chain, validAt, knownAt),
             NEW b \in Resolve(chain, validAt, knownAt), a < b
      PROVE  FALSE
  <2>1. a \in DOMAIN chain /\ b \in DOMAIN chain
    BY Zenon DEF Resolve, HistoryAsKnown
  <2>2. chain[a] \in VersionType /\ chain[b] \in VersionType
    BY <2>1
  <2>3. /\ chain[a].valid_until # NULL
        /\ chain[a].valid_until <= chain[b].valid_from
        /\ chain[a].valid_until_recorded_at <= chain[b].recorded_at
        /\ chain[a].valid_until_recorded_at # NULL
    BY <1>1, <2>1, ChainPair, ChainRow
  <2>4. /\ chain[a].valid_until \in Nat /\ chain[a].valid_until_recorded_at \in Nat
        /\ chain[b].valid_from \in Nat /\ chain[b].recorded_at \in Nat
    BY <2>2, <2>3, Zenon DEF VersionType
  <2>5. knownAt = NULL \/ chain[a].valid_until_recorded_at <= knownAt
    BY <2>3, <2>4, NullAssumption DEF Resolve, HistoryAsKnown, IsKnown
  <2>6. AsKnown(chain[a], knownAt).valid_until = chain[a].valid_until
    BY <2>2, <2>5, AsKnownFields, Zenon
  <2>7. validAt < chain[a].valid_until
    BY <2>3, <2>6, Zenon DEF Resolve, IsValidAt
  <2>8. chain[b].valid_from <= validAt
    BY <2>2, AsKnownFields, Zenon DEF Resolve, IsValidAt
  <2> QED
    BY <2>3, <2>4, <2>7, <2>8
<1>2. i \in Nat /\ j \in Nat
    BY DEF Resolve, HistoryAsKnown
<1> QED
    BY <1>1, <1>2

\* The SQL condition selects a row exactly when the reference does and the row
\* is not revoked.
LEMMA SqlRow ==
    ASSUME NEW v \in VersionType, NEW revs,
           v.valid_until = NULL <=> v.valid_until_recorded_at = NULL,
           NEW validAt \in Nat, NEW knownAt \in Nat \cup {NULL}
    PROVE  ValidAtCondition(v, revs, validAt, knownAt) <=>
              /\ IsKnown(v, knownAt)
              /\ IsValidAt(AsKnown(v, knownAt), validAt)
              /\ NotRevokedCondition(v, revs, knownAt)
<1>1. /\ v.valid_from \in Nat /\ v.recorded_at \in Nat
      /\ v.valid_until \in Nat \cup {NULL}
      /\ v.valid_until_recorded_at \in Nat \cup {NULL}
    BY Zenon DEF VersionType
<1>2. CASE knownAt = NULL
    BY <1>1, <1>2, AsKnownFields, NullAssumption, Zenon DEF ValidAtCondition, IsKnown, IsValidAt
<1>3. CASE knownAt \in Nat
  <2>1. IsValidAt(AsKnown(v, knownAt), validAt) <=>
            /\ v.valid_from <= validAt
            /\ \/ v.valid_until = NULL
               \/ v.valid_until_recorded_at > knownAt
               \/ v.valid_until > validAt
    BY <1>1, <1>3, AsKnownFields, NullAssumption DEF IsValidAt
  <2> QED
    BY <1>3, <2>1, NullAssumption DEF ValidAtCondition, IsKnown
<1> QED
    BY <1>2, <1>3, Zenon

\* A version recorded after K, and the end it gives the version before it, are
\* invisible as known at K.
LEMMA ExtendedInvisible ==
    ASSUME NEW id \in Requests, NEW chain \in Seq(VersionType),
           NEW cmd \in Commands, NEW t \in Nat, NEW revs,
           NEW validAt \in Nat, NEW knownAt \in Nat, knownAt < t
    PROVE  FactsValidAt(Extended(id, chain, cmd, t), revs, validAt, knownAt) =
              FactsValidAt(chain, revs, validAt, knownAt)
<1> DEFINE e == Extended(id, chain, cmd, t)
           n == Len(chain)
           C(v) == ValidAtCondition(v, revs, validAt, knownAt)
<1>1. n \in Nat /\ DOMAIN chain = 1 .. n /\ \A i \in 1 .. n : chain[i] \in VersionType
    OBVIOUS
<1>2. /\ DOMAIN e = 1 .. n + 1
      /\ e[n + 1] = NewVersion(id, chain, cmd, t)
      /\ \A i \in 1 .. n : i < n => e[i] = chain[i]
      /\ n > 0 => e[n] = CloseVersion(chain[n], cmd, t)
    BY ExtendedShape
<1>3. ~C(NewVersion(id, chain, cmd, t))
  <2>1. NewVersion(id, chain, cmd, t).recorded_at = t
    BY Zenon DEF NewVersion
  <2> QED
    BY <2>1, NullAssumption DEF ValidAtCondition
<1>4. ASSUME NEW v \in VersionType
      PROVE  C(CloseVersion(v, cmd, t)) <=> C(v)
  <2> DEFINE c == CloseVersion(v, cmd, t)
  <2>1. CASE v.valid_until # NULL
    BY <2>1, Zenon DEF CloseVersion
  <2>2. CASE v.valid_until = NULL
    <3>1. /\ c.id = v.id /\ c.valid_from = v.valid_from /\ c.recorded_at = v.recorded_at
          /\ c.valid_until_recorded_at = t
        BY <2>2, Zenon DEF CloseVersion, VersionType
    <3> HIDE DEF c
    <3>2. NotRevokedCondition(c, revs, knownAt) <=> NotRevokedCondition(v, revs, knownAt)
        BY <3>1, Zenon DEF NotRevokedCondition
    <3>3. C(c) <=> C(v)
        BY <2>2, <3>1, <3>2, NullAssumption DEF ValidAtCondition
    <3> QED
        BY <3>3, Zenon DEF c
  <2> QED
    BY <2>1, <2>2, Zenon
<1> HIDE DEF e, n, C
<1>5. \A i \in 1 .. n : C(e[i]) <=> C(chain[i])
    BY <1>1, <1>2, <1>4
<1>6. {i \in DOMAIN e : C(e[i])} = {i \in DOMAIN chain : C(chain[i])}
    BY <1>1, <1>2, <1>3, <1>5
<1> QED
    BY <1>6, Zenon DEF FactsValidAt, C, e

-----------------------------------------------------------------------------
(* Lemmas about contradictions.                                            *)

\* What close_version() keeps of a version, and the claim it does not touch.
LEMMA CloseVersionKeeps ==
    ASSUME NEW v \in VersionType, NEW cmd \in Commands, NEW t \in Nat
    PROVE  LET c == CloseVersion(v, cmd, t)
           IN  /\ c.id = v.id /\ c.source = v.source /\ c.value = v.value
               /\ c.valid_from = v.valid_from /\ c.recorded_at = v.recorded_at
               /\ c.observed_at = v.observed_at /\ c.trust = v.trust
BY Zenon DEF CloseVersion, VersionType

\* as_known() hides the end of a version and nothing else.
LEMMA ClaimedKeeps ==
    ASSUME NEW v \in VersionType
    PROVE  /\ Claimed(v).id = v.id /\ Claimed(v).source = v.source
           /\ Claimed(v).value = v.value /\ Claimed(v).observed_at = v.observed_at
           /\ Claimed(v).trust = v.trust
BY Zenon DEF Claimed, AsKnown, VersionType

\* The latest version is claimed as it stands, and closing it does not change
\* what it claimed.
LEMMA ClaimedClosed ==
    ASSUME NEW v \in VersionType, NEW cmd \in Commands, NEW t \in Nat, v.recorded_at < t,
           v.valid_until = NULL <=> v.valid_until_recorded_at = NULL,
           v.valid_until # NULL => v.valid_until_recorded_at = v.recorded_at
    PROVE  Claimed(CloseVersion(v, cmd, t)).valid_until = v.valid_until
<1> DEFINE c == CloseVersion(v, cmd, t)
<1>1. v.recorded_at \in Nat
    BY Zenon DEF VersionType
<1>2. CASE v.valid_until # NULL
  <2>1. c = v
    BY <1>2, Zenon DEF CloseVersion
  <2>2. v.valid_until_recorded_at <= v.recorded_at
    BY <1>1, <1>2
  <2> QED
    BY <2>1, <2>2, Zenon DEF Claimed, AsKnown
<1>3. CASE v.valid_until = NULL
  <2>1. c.recorded_at = v.recorded_at /\ c.valid_until_recorded_at = t
    BY <1>3, Zenon DEF CloseVersion, VersionType
  <2>2. c \in VersionType
    BY CloseVersionType, Zenon
  <2> HIDE DEF c
  <2>3. ~(c.recorded_at = NULL \/ c.valid_until_recorded_at = NULL
          \/ c.valid_until_recorded_at <= c.recorded_at)
    BY <1>1, <2>1, NullAssumption
  <2>4. Claimed(c).valid_until = NULL
    BY <2>2, <2>3, Zenon DEF Claimed, AsKnown, VersionType
  <2> QED
    BY <1>3, <2>4, Zenon DEF c
<1> QED
    BY <1>2, <1>3, Zenon

\* Recording a version adds the conflict that detect_value_conflict() finds to
\* those of the chain, and changes none of them.
LEMMA ExtendedConflicts ==
    ASSUME NEW id \in Requests, NEW chain \in Seq(VersionType),
           NEW cmd \in Commands, NEW t \in Nat, ChainOK(chain),
           chain # <<>> => Latest(chain).recorded_at < t
    PROVE  ConflictsOf(Extended(id, chain, cmd, t)) =
              ConflictsOf(chain) \cup DetectValueConflict(chain, NewVersion(id, chain, cmd, t))
<1> DEFINE e == Extended(id, chain, cmd, t)
           n == Len(chain)
           new == NewVersion(id, chain, cmd, t)
           Conflict(c, i) == ValueConflict(Claimed(c[i - 1]), c[i])
           ConflictRow(c, i) == [left_version_id |-> Claimed(c[i - 1]).id,
                         right_version_id |-> c[i].id,
                         preferred_version_id |-> Preferred(Claimed(c[i - 1]), c[i])]
<1>1. n \in Nat /\ DOMAIN chain = 1 .. n /\ \A i \in 1 .. n : chain[i] \in VersionType
    OBVIOUS
<1>2. /\ DOMAIN e = 1 .. n + 1
      /\ e[n + 1] = new
      /\ \A i \in 1 .. n : i < n => e[i] = chain[i]
      /\ n > 0 => e[n] = CloseVersion(chain[n], cmd, t)
    BY ExtendedShape, ZenonT(40)
<1> HIDE DEF e, n, new
<1>3. ASSUME NEW i \in 2 .. n
      PROVE  (Conflict(e, i) <=> Conflict(chain, i)) /\ ConflictRow(e, i) = ConflictRow(chain, i)
  <2>1. e[i - 1] = chain[i - 1] /\ i \in 1 .. n
    BY <1>1, <1>2
  <2>2. /\ e[i].id = chain[i].id /\ e[i].source = chain[i].source
        /\ e[i].value = chain[i].value /\ e[i].valid_from = chain[i].valid_from
        /\ e[i].observed_at = chain[i].observed_at /\ e[i].trust = chain[i].trust
    <3>1. CASE i < n
        BY <1>2, <2>1, <3>1, Zenon
    <3>2. CASE i = n
        <4>1. e[i] = CloseVersion(chain[i], cmd, t)
            BY <1>1, <1>2, <3>2
        <4>2. chain[i] \in VersionType
            BY <1>1, <2>1, Zenon
        <4> QED
            BY <4>1, <4>2, CloseVersionKeeps
    <3> QED
        BY <1>1, <2>1, <3>1, <3>2
  <2> QED
    BY <2>1, <2>2, Zenon DEF ValueConflict, Preferred
<1>4. ASSUME n > 0
      PROVE  /\ Conflict(e, n + 1) <=> ValueConflict(Latest(chain), new)
             /\ ConflictRow(e, n + 1) = [left_version_id |-> Latest(chain).id, right_version_id |-> new.id,
                                 preferred_version_id |-> Preferred(Latest(chain), new)]
  <2> DEFINE v == chain[n]
             c == Claimed(e[n])
  <2>1. n \in 1 .. n /\ (n + 1) - 1 = n /\ chain # <<>> /\ Latest(chain) = v
    BY <1>1, <1>4 DEF n, Latest
  <2>2. v \in VersionType /\ e[n] = CloseVersion(v, cmd, t)
    BY <1>1, <1>2, <1>4, <2>1, Zenon
  <2>3. c.valid_until = v.valid_until
    <3>1. /\ v.valid_until = NULL <=> v.valid_until_recorded_at = NULL
          /\ v.valid_until # NULL => v.valid_until_recorded_at = v.recorded_at
        BY <1>1, <2>1, ChainRow DEF n
    <3>2. v.recorded_at < t
        BY <2>1, Zenon
    <3> HIDE DEF v
    <3>3. Claimed(CloseVersion(v, cmd, t)).valid_until = v.valid_until
        BY <2>2, <3>1, <3>2, ClaimedClosed, Zenon
    <3> QED
        BY <2>2, <3>3, Zenon
  <2>4. e[n] \in VersionType
    BY <2>2, CloseVersionType, Zenon
  <2>5. c.id = v.id /\ c.source = v.source /\ c.value = v.value
        /\ c.observed_at = v.observed_at /\ c.trust = v.trust
    <3>1. /\ c.id = e[n].id /\ c.source = e[n].source /\ c.value = e[n].value
          /\ c.observed_at = e[n].observed_at /\ c.trust = e[n].trust
        BY <2>4, ClaimedKeeps, Zenon
    <3> HIDE DEF v, c
    <3> QED
        BY <2>2, <3>1, CloseVersionKeeps
  <2>6. Conflict(e, n + 1) <=> ValueConflict(c, new)
    BY <1>2, <2>1, Zenon
  <2>7. ConflictRow(e, n + 1) = [left_version_id |-> c.id, right_version_id |-> new.id,
                         preferred_version_id |-> Preferred(c, new)]
    BY <1>2, <2>1, Zenon
  <2> HIDE DEF c, v
  <2> QED
    BY <2>1, <2>3, <2>5, <2>6, <2>7, Zenon DEF ValueConflict, Preferred
<1>5. ConflictsOf(e) = {ConflictRow(e, i) : i \in {k \in DOMAIN e \ {1} : Conflict(e, k)}}
    BY Zenon DEF ConflictsOf
<1>6. ConflictsOf(chain) = {ConflictRow(chain, i) : i \in {k \in DOMAIN chain \ {1} : Conflict(chain, k)}}
    BY Zenon DEF ConflictsOf
<1>7. DetectValueConflict(chain, new) =
        IF n > 0 /\ Conflict(e, n + 1) THEN {ConflictRow(e, n + 1)} ELSE {}
  <2>1. chain # <<>> <=> n > 0
    BY DEF n
  <2> QED
    BY <1>4, <2>1, Zenon DEF DetectValueConflict
<1>8. DOMAIN e \ {1} = IF n > 0 THEN (2 .. n) \cup {n + 1} ELSE {}
    BY <1>1, <1>2
<1>9. DOMAIN chain \ {1} = 2 .. n
    BY <1>1
<1>10. ConflictsOf(e) = ConflictsOf(chain) \cup DetectValueConflict(chain, new)
  <2> HIDE DEF Conflict, ConflictRow
  <2>1. CASE n > 0
    <3>1. DOMAIN e \ {1} = (2 .. n) \cup {n + 1}
        BY <1>8, <2>1, Zenon
    <3>2. DetectValueConflict(chain, new) = {ConflictRow(e, i) : i \in {k \in {n + 1} : Conflict(e, k)}}
        BY <1>7, <2>1, Zenon
    <3>3. ConflictsOf(chain) = {ConflictRow(e, i) : i \in {k \in 2 .. n : Conflict(e, k)}}
        BY <1>3, <1>6, <1>9, Zenon
    <3> QED
        BY <1>5, <3>1, <3>2, <3>3, Zenon
  <2>2. CASE ~(n > 0)
    <3>1. 2 .. n = {}
        BY <1>1, <2>2
    <3> QED
        BY <1>5, <1>6, <1>7, <1>8, <1>9, <2>2, <3>1, Zenon
  <2> QED
    BY <2>1, <2>2, Zenon
<1> QED
    BY <1>10, Zenon DEF e, new

-----------------------------------------------------------------------------
(* Type correctness.                                                       *)

\* The empty tables are well typed.
LEMMA TypeInit == Init => TypeOK /\ LocksOK
<1> SUFFICES ASSUME Init PROVE TypeOK /\ LocksOK
    BY Zenon
<1>1. NoWork \in WorkType
    BY DEF NoWork, WorkType
<1>2. LocksOK
    BY Zenon DEF Init, LocksOK, InFlight
<1>3. TypeOK
    BY <1>1 DEF Init, TypeOK, Phases
<1> QED
    BY <1>2, <1>3, Zenon

\* The end of a transaction keeps the types of what it resets.
LEMMA EndType ==
    ASSUME TypeOK, NEW r \in Requests, NEW outcome \in Ended, End(r, outcome)
    PROVE  /\ clock' \in Nat
           /\ lock' \in [Facts -> Requests \cup {NULL}]
           /\ phase' \in [Requests -> Phases]
           /\ job' \in [Requests -> Jobs \cup {NULL}]
           /\ started' \in [Requests -> Nat]
           /\ work' \in [Requests -> WorkType]
<1>1. NoWork \in WorkType
    BY DEF NoWork, WorkType
<1> QED
    BY <1>1, Zenon DEF TypeOK, End, Phases

\* Every step of a request or of the clock keeps the types.
LEMMA TypeStep == TypeOK /\ LocksOK /\ [Next]_vars => TypeOK'
<1> SUFFICES ASSUME TypeOK, LocksOK, [Next]_vars PROVE TypeOK'
    BY Zenon
<1>1. ASSUME NEW r \in Requests, Begin(r) PROVE TypeOK'
    BY <1>1, Zenon DEF TypeOK, Begin, tables, Phases, InFlight
<1>2. ASSUME NEW r \in Requests, RefuseMissing(r) PROVE TypeOK'
    BY <1>2, Zenon DEF TypeOK, RefuseMissing, tables, Phases, Ended
<1>3. ASSUME NEW r \in Requests, LockFact(r) PROVE TypeOK'
    BY <1>3, Zenon DEF TypeOK, LockFact, tables, Phases, InFlight
<1>4. ASSUME NEW r \in Requests, RecordVersion(r) PROVE TypeOK'
  <2> DEFINE f == job[r].fact
             cmd == job[r].command
             t == NextTransactionTime(versions[f], clock)
             new == NewVersion(r, versions[f], cmd, t)
             w == [chain |-> Extended(r, versions[f], cmd, t),
                   revocations |-> {},
                   contradictions |-> DetectValueConflict(versions[f], new),
                   links |-> LinkEvidence(r, cmd, started[r])]
  <2>1. f \in Facts /\ cmd \in Commands
    BY <1>4, JobFields, Zenon DEF RecordVersion, LocksOK, InFlight
  <2>2. versions[f] \in Seq(VersionType) /\ clock \in Nat /\ started[r] \in Nat
    BY <2>1, Zenon DEF TypeOK
  <2>3. t \in Nat
    BY <2>2, NextTransactionTimeLater, Zenon
  <2>4. Extended(r, versions[f], cmd, t) \in Seq(VersionType)
    BY <2>1, <2>2, <2>3, ExtendedShape, Zenon
  <2>5. /\ DetectValueConflict(versions[f], new) \subseteq ContradictionType
        /\ LinkEvidence(r, cmd, started[r]) \subseteq LinkType
    BY <2>1, <2>2, <2>3, RowsType, Zenon
  <2>6. w \in WorkType
    BY <2>4, <2>5, Zenon DEF WorkType
  <2>7. /\ work' = [work EXCEPT ![r] = w]
        /\ phase' = [phase EXCEPT ![r] = "written"]
        /\ UNCHANGED <<clock, tables, lock, job, started>>
    BY <1>4, Zenon DEF RecordVersion
  <2> HIDE DEF w
  <2> QED
    BY <2>6, <2>7, Zenon DEF TypeOK, tables, Phases, InFlight
<1>5. ASSUME NEW r \in Requests, RevokeVersion(r) PROVE TypeOK'
  <2> DEFINE chain == versions[job[r].fact]
             W(i) == [chain |-> chain,
                      revocations |-> {[fact_version_id |-> chain[i].id,
                                        revoked_at |-> started[r]]},
                      contradictions |-> {},
                      links |-> {}]
  <2>1. job[r].fact \in Facts
    BY <1>5, JobFields, Zenon DEF RevokeVersion, LocksOK, InFlight
  <2>2. chain \in Seq(VersionType) /\ started[r] \in Nat
    BY <2>1, Zenon DEF TypeOK
  <2>3. PICK i \in DOMAIN chain : work' = [work EXCEPT ![r] = W(i)]
    BY <1>5, Zenon DEF RevokeVersion, RevokeTarget
  <2>4. chain[i].id \in Requests
    <3>1. chain[i] \in VersionType
        BY <2>2, <2>3
    <3> QED
        BY <3>1, Zenon DEF VersionType
  <2>5. W(i) \in WorkType
    BY <2>2, <2>4 DEF WorkType, RevocationType
  <2>6. /\ phase' = [phase EXCEPT ![r] = "written"]
        /\ UNCHANGED <<clock, tables, lock, job, started>>
    BY <1>5, Zenon DEF RevokeVersion
  <2> HIDE DEF W
  <2> QED
    BY <2>3, <2>5, <2>6, Zenon DEF TypeOK, tables, Phases, InFlight
<1>6. ASSUME NEW r \in Requests, Refuse(r) PROVE TypeOK'
  <2>1. End(r, "refused") /\ UNCHANGED tables
    BY <1>6, Zenon DEF Refuse
  <2> QED
    BY <2>1, EndType, Zenon DEF TypeOK, tables, Ended
<1>7. ASSUME NEW r \in Requests, Commit(r) PROVE TypeOK'
  <2>1. End(r, "committed")
    BY <1>7, Zenon DEF Commit
  <2>2. /\ versions' \in [Facts -> Seq(VersionType)]
        /\ revocations' \subseteq RevocationType
        /\ contradictions' \subseteq ContradictionType
        /\ links' \subseteq LinkType
    BY <1>7, Zenon DEF Commit, TypeOK, WorkType
  <2> QED
    BY <2>1, <2>2, EndType, Zenon DEF TypeOK, Ended
<1>8. ASSUME NEW r \in Requests, Rollback(r) PROVE TypeOK'
  <2>1. End(r, "rolledback") /\ UNCHANGED tables
    BY <1>8, Zenon DEF Rollback
  <2> QED
    BY <2>1, EndType, Zenon DEF TypeOK, tables, Ended
<1>9. CASE Tick
    BY <1>9 DEF Tick, TypeOK, tables
<1>10. CASE StepBack
    BY <1>10 DEF StepBack, TypeOK, tables
<1>11. CASE UNCHANGED vars
    BY <1>11, Zenon DEF TypeOK, vars, tables
<1> QED
    BY <1>1, <1>2, <1>3, <1>4, <1>5, <1>6, <1>7, <1>8, <1>9, <1>10, <1>11, Zenon
    DEF Next, Serve, Finished

\* A transaction that writes holds the row lock of its fact until it ends.
LEMMA LocksStep == TypeOK /\ LocksOK /\ [Next]_vars => LocksOK'
<1> SUFFICES ASSUME TypeOK, LocksOK, [Next]_vars PROVE LocksOK'
    BY Zenon
<1> USE DEF LocksOK, InFlight
<1>1. ASSUME NEW r \in Requests, Begin(r) PROVE LocksOK'
    BY <1>1, Zenon DEF TypeOK, Begin
<1>2. ASSUME NEW r \in Requests, RefuseMissing(r) PROVE LocksOK'
    BY <1>2, Zenon DEF TypeOK, RefuseMissing
<1>3. ASSUME NEW r \in Requests, LockFact(r) PROVE LocksOK'
    BY <1>3, LedgerAssumption, JobFields, Zenon DEF TypeOK, LockFact
<1>4. ASSUME NEW r \in Requests, RecordVersion(r) PROVE LocksOK'
    BY <1>4, Zenon DEF TypeOK, RecordVersion
<1>5. ASSUME NEW r \in Requests, RevokeVersion(r) PROVE LocksOK'
    BY <1>5, Zenon DEF TypeOK, RevokeVersion
<1>6. ASSUME NEW r \in Requests, NEW outcome \in Ended, phase[r] \in InFlight, End(r, outcome)
      PROVE  LocksOK'
    BY <1>6 DEF TypeOK, End, Ended
<1>7. ASSUME NEW r \in Requests, Refuse(r) \/ Commit(r) \/ Rollback(r) PROVE LocksOK'
    BY <1>6, <1>7, Zenon DEF Refuse, Commit, Rollback, Ended
<1>8. CASE Tick \/ StepBack \/ UNCHANGED vars
    BY <1>8, Zenon DEF Tick, StepBack, vars
<1> QED
    BY <1>1, <1>2, <1>3, <1>4, <1>5, <1>7, <1>8, Zenon DEF Next, Serve, Finished

\* Every variable keeps the type of the rows and columns it models, whatever
\* record_version and revoke requests run concurrently.
THEOREM TypeCorrect == Spec => []TypeOK
<1>1. Init => TypeOK /\ LocksOK
    BY TypeInit, Zenon
<1>2. TypeOK /\ LocksOK /\ [Next]_vars => (TypeOK /\ LocksOK)'
    BY TypeStep, LocksStep, Zenon
<1> QED
    BY <1>1, <1>2, PTL DEF Spec

-----------------------------------------------------------------------------
(* The inductive invariant.                                                *)

\* Only a commit makes rows visible.
LEMMA TablesStep ==
    [Next]_vars => UNCHANGED tables \/ \E r \in Requests : Commit(r)
BY Zenon DEF Next, vars, Begin, RefuseMissing, Serve, LockFact, RecordVersion, RevokeVersion,
       Refuse, Rollback, Tick, StepBack, Finished

\* A request that has committed stays committed, with its job.
LEMMA CommittedStable ==
    ASSUME TypeOK, [Next]_vars, NEW q \in Requests, phase[q] = "committed"
    PROVE  phase'[q] = "committed" /\ job'[q] = job[q]
<1> USE DEF TypeOK, InFlight
<1>1. ASSUME NEW r \in Requests, Begin(r) \/ RefuseMissing(r) \/ LockFact(r)
      PROVE  phase'[q] = "committed" /\ job'[q] = job[q]
    BY <1>1, Zenon DEF Begin, RefuseMissing, LockFact
<1>2. ASSUME NEW r \in Requests, RecordVersion(r) \/ RevokeVersion(r)
      PROVE  phase'[q] = "committed" /\ job'[q] = job[q]
    BY <1>2, Zenon DEF RecordVersion, RevokeVersion
<1>3. ASSUME NEW r \in Requests, Refuse(r) \/ Commit(r) \/ Rollback(r)
      PROVE  phase'[q] = "committed" /\ job'[q] = job[q]
    BY <1>3, Zenon DEF Refuse, Commit, Rollback, End
<1>4. CASE Tick \/ StepBack \/ UNCHANGED vars
    BY <1>4, Zenon DEF Tick, StepBack, vars
<1> QED
    BY <1>1, <1>2, <1>3, <1>4, Zenon DEF Next, Serve, Finished

\* What a commit does to the chains: its own fact's chain is extended by its
\* version, or is left as it was by a revocation; other chains do not change.
LEMMA CommitChains ==
    ASSUME TypeOK, LocksOK, WorkOK, NEW r \in Requests, Commit(r)
    PROVE  LET f == job[r].fact
               t == Latest(work[r].chain).recorded_at
           IN  /\ f \in Facts
               /\ versions[f] \in Seq(VersionType)
               /\ \A g \in Facts : g # f => versions'[g] = versions[g]
               /\ \/ /\ job[r].kind = "record"
                     /\ job[r].command \in Commands
                     /\ t \in Nat
                     /\ ~PlanConflict(versions[f], job[r].command)
                     /\ versions[f] # <<>> => Latest(versions[f]).recorded_at < t
                     /\ versions'[f] = Extended(r, versions[f], job[r].command, t)
                     /\ revocations' = revocations
                     /\ contradictions' = contradictions \cup
                          DetectValueConflict(versions[f], NewVersion(r, versions[f], job[r].command, t))
                     /\ links' = links \cup LinkEvidence(r, job[r].command, started[r])
                  \/ /\ job[r].kind = "revoke"
                     /\ versions' = versions
                     /\ contradictions' = contradictions
                     /\ links' = links
                     /\ \E i \in DOMAIN versions[f] :
                          /\ ~AlreadyRevoked(versions[f][i].id)
                          /\ revocations' = revocations \cup
                                {[fact_version_id |-> versions[f][i].id,
                                  revoked_at |-> started[r]]}
<1> DEFINE f == job[r].fact
           t == Latest(work[r].chain).recorded_at
<1>1. phase[r] = "written" /\ job[r] \in Jobs
    BY Zenon DEF Commit, LocksOK, InFlight
<1>2. f \in Facts /\ (job[r].kind = "record" => job[r].command \in Commands)
    BY <1>1, JobFields, Zenon
<1>3. versions[f] \in Seq(VersionType) /\ work[r].chain \in Seq(VersionType)
    BY <1>2, Zenon DEF TypeOK, WorkType
<1>4. /\ versions'[f] = work[r].chain
      /\ \A g \in Facts : g # f => versions'[g] = versions[g]
    BY <1>2, Zenon DEF Commit, TypeOK
<1>5. CASE RecordWork(r)
  <2>1. versions'[f] = Extended(r, versions[f], job[r].command, t)
    BY <1>4, <1>5, Zenon DEF RecordWork
  <2>2. work[r].chain # <<>>
    <3>1. work[r].chain = Extended(r, versions[f], job[r].command, t)
        BY <1>5, Zenon DEF RecordWork
    <3>2. DOMAIN work[r].chain = 1 .. Len(versions[f]) + 1
        BY <3>1, Zenon DEF Extended
    <3> QED
        BY <1>3, <3>2
  <2>3. t \in Nat
    BY <1>3, <2>2, LatestType, Zenon DEF VersionType
  <2>4. /\ revocations' = revocations
        /\ contradictions' = contradictions \cup
              DetectValueConflict(versions[f], NewVersion(r, versions[f], job[r].command, t))
        /\ links' = links \cup LinkEvidence(r, job[r].command, started[r])
    BY <1>5, Zenon DEF RecordWork, Commit
  <2> QED
    BY <1>2, <1>3, <1>4, <1>5, <2>1, <2>3, <2>4, Zenon DEF RecordWork
<1>6. CASE RevokeWork(r)
  <2>1. work[r].chain = versions[f]
    BY <1>6, Zenon DEF RevokeWork
  <2>2. versions' = versions
    BY <2>1, Zenon DEF Commit, TypeOK
  <2>3. contradictions' = contradictions /\ links' = links
    BY <1>6, Zenon DEF RevokeWork, Commit
  <2>4. PICK i \in DOMAIN versions[f] :
            /\ work[r].revocations = {[fact_version_id |-> versions[f][i].id,
                                       revoked_at |-> started[r]]}
            /\ ~AlreadyRevoked(versions[f][i].id)
    BY <1>6, Zenon DEF RevokeWork
  <2>5. revocations' = revocations \cup {[fact_version_id |-> versions[f][i].id,
                                          revoked_at |-> started[r]]}
    BY <2>4, Zenon DEF Commit
  <2> QED
    BY <1>2, <1>3, <1>4, <1>6, <2>2, <2>3, <2>4, <2>5, Zenon DEF RevokeWork
<1> QED
    BY <1>1, <1>5, <1>6, Zenon DEF WorkOK

\* What a commit does to the revocations: nothing, or one more of a version that
\* has none.
LEMMA CommitRevokes ==
    ASSUME TypeOK, LocksOK, WorkOK, NEW r \in Requests, Commit(r)
    PROVE  \/ revocations' = revocations
           \/ \E i \in DOMAIN versions[job[r].fact] :
                /\ ~AlreadyRevoked(versions[job[r].fact][i].id)
                /\ revocations' = revocations \cup
                      {[fact_version_id |-> versions[job[r].fact][i].id, revoked_at |-> started[r]]}
BY CommitChains, Zenon

\* The constraints of fact_versions survive every step.
LEMMA ChainsStep ==
    ASSUME TypeOK, LocksOK, WorkOK, ChainsOK, [Next]_vars
    PROVE  ChainsOK'
<1>1. CASE UNCHANGED tables
    BY <1>1, Zenon DEF tables, ChainsOK
<1>2. ASSUME NEW r \in Requests, Commit(r) PROVE ChainsOK'
  <2> SUFFICES ASSUME NEW g \in Facts PROVE ChainOK(versions'[g])
    BY Zenon DEF ChainsOK
  <2>1. ChainOK(versions[g])
    BY Zenon DEF ChainsOK
  <2>2. CASE g # job[r].fact \/ versions' = versions
    BY <1>2, <2>1, <2>2, CommitChains, Zenon
  <2>3. CASE g = job[r].fact /\ versions' # versions
    BY <1>2, <2>1, <2>3, CommitChains, ExtendedOK, Zenon
  <2> QED
    BY <2>2, <2>3, Zenon
<1> QED
    BY <1>1, <1>2, TablesStep, Zenon

\* A transaction that writes a version writes what WorkOK says.
LEMMA RecordVersionWork ==
    ASSUME TypeOK, LocksOK, NEW r \in Requests, RecordVersion(r)
    PROVE  RecordWork(r)'
<1> DEFINE f == job[r].fact
           chain == versions[f]
           cmd == job[r].command
           t == NextTransactionTime(chain, clock)
<1>1. f \in Facts /\ cmd \in Commands /\ job[r].kind = "record"
    BY JobFields, Zenon DEF RecordVersion, LocksOK, InFlight
<1>2. chain \in Seq(VersionType) /\ clock \in Nat
    BY <1>1, Zenon DEF TypeOK
<1>3. t \in Nat /\ (chain # <<>> => Latest(chain).recorded_at < t)
    BY <1>2, NextTransactionTimeLater, Zenon
<1>4. /\ work'[r].chain = Extended(r, chain, cmd, t)
      /\ work'[r].revocations = {}
      /\ work'[r].contradictions = DetectValueConflict(chain, NewVersion(r, chain, cmd, t))
      /\ work'[r].links = LinkEvidence(r, cmd, started[r])
    BY Zenon DEF RecordVersion, TypeOK
<1>5. Latest(work'[r].chain).recorded_at = t
  <2> HIDE DEF t, chain, cmd
  <2> DEFINE e == Extended(r, chain, cmd, t)
             n == Len(chain)
  <2>1. Len(e) = n + 1 /\ e[n + 1] = NewVersion(r, chain, cmd, t)
    BY <1>1, <1>2, <1>3, ExtendedShape, Zenon
  <2>2. NewVersion(r, chain, cmd, t).recorded_at = t
    BY Zenon DEF NewVersion
  <2> QED
    BY <1>4, <2>1, <2>2, Zenon DEF Latest
<1>6. ~PlanConflict(chain, cmd)
    BY Zenon DEF RecordVersion
<1>7. versions' = versions /\ job' = job /\ started' = started
    BY Zenon DEF RecordVersion, tables
<1> HIDE DEF t
<1> QED
    BY <1>1, <1>3, <1>4, <1>5, <1>6, <1>7, Zenon DEF RecordWork

\* A transaction that revokes writes what WorkOK says.
LEMMA RevokeVersionWork ==
    ASSUME TypeOK, NEW r \in Requests, RevokeVersion(r)
    PROVE  RevokeWork(r)'
<1> DEFINE chain == versions[job[r].fact]
<1>1. PICK i \in DOMAIN chain :
        /\ ~AlreadyRevoked(chain[i].id)
        /\ work' = [work EXCEPT ![r] =
              [chain |-> chain,
               revocations |-> {[fact_version_id |-> chain[i].id, revoked_at |-> started[r]]},
               contradictions |-> {},
               links |-> {}]]
    BY Zenon DEF RevokeVersion, RevokeTarget
<1>2. /\ work'[r].chain = chain
      /\ work'[r].revocations = {[fact_version_id |-> chain[i].id, revoked_at |-> started[r]]}
      /\ work'[r].contradictions = {}
      /\ work'[r].links = {}
    BY <1>1, Zenon DEF TypeOK
<1>3. /\ job[r].kind = "revoke"
      /\ versions' = versions /\ revocations' = revocations
      /\ job' = job /\ started' = started
    BY Zenon DEF RevokeVersion, tables
<1>4. (~AlreadyRevoked(chain[i].id))'
    BY <1>1, <1>3, Zenon DEF AlreadyRevoked
<1> QED
    BY <1>1, <1>2, <1>3, <1>4, Zenon DEF RevokeWork

\* A step of another request leaves the private state of q alone.
LEMMA OthersKeepOut ==
    ASSUME TypeOK, [Next]_vars, NEW q \in Requests, phase'[q] = "written",
           ~RecordVersion(q), ~RevokeVersion(q)
    PROVE  /\ phase[q] = "written"
           /\ job'[q] = job[q] /\ started'[q] = started[q] /\ work'[q] = work[q]
<1> DEFINE P == /\ phase[q] = "written"
                /\ job'[q] = job[q] /\ started'[q] = started[q] /\ work'[q] = work[q]
<1> USE DEF TypeOK
<1>1. ASSUME NEW r \in Requests, Begin(r) \/ RefuseMissing(r) \/ LockFact(r) PROVE P
    BY <1>1, Zenon DEF Begin, RefuseMissing, LockFact
<1>2. ASSUME NEW r \in Requests, RecordVersion(r) \/ RevokeVersion(r) PROVE P
  <2>1. r # q
    BY <1>2, Zenon
  <2>2. \E w : work' = [work EXCEPT ![r] = w]
    BY <1>2, Zenon DEF RecordVersion, RevokeVersion
  <2>3. phase' = [phase EXCEPT ![r] = "written"] /\ job' = job /\ started' = started
    BY <1>2, Zenon DEF RecordVersion, RevokeVersion
  <2> QED
    BY <2>1, <2>2, <2>3, Zenon
<1>3. ASSUME NEW r \in Requests, NEW outcome \in Ended, End(r, outcome) PROVE P
    BY <1>3, Zenon DEF End, Ended
<1>4. ASSUME NEW r \in Requests, Refuse(r) \/ Commit(r) \/ Rollback(r) PROVE P
    BY <1>3, <1>4, Zenon DEF Refuse, Commit, Rollback, Ended
<1>5. CASE Tick \/ StepBack \/ UNCHANGED vars
    BY <1>5, Zenon DEF Tick, StepBack, vars
<1> QED
    BY <1>1, <1>2, <1>4, <1>5, Zenon DEF Next, Serve, Finished

\* A row belongs to the fact that its request named.
LEMMA RowOfFact ==
    ASSUME CommittedOnce, NEW f \in Facts, NEW i \in DOMAIN versions[f]
    PROVE  job[versions[f][i].id].fact = f
BY Zenon DEF CommittedOnce, Rows

\* The uncommitted work of a lock holder stays based on the committed rows.
LEMMA WorkStep ==
    ASSUME TypeOK, LocksOK, WorkOK, CommittedOnce, [Next]_vars
    PROVE  WorkOK'
<1> SUFFICES ASSUME NEW q \in Requests, phase'[q] = "written"
             PROVE  (RecordWork(q) \/ RevokeWork(q))'
    BY Zenon DEF WorkOK
<1>1. CASE RecordVersion(q)
    BY <1>1, RecordVersionWork, Zenon
<1>2. CASE RevokeVersion(q)
    BY <1>2, RevokeVersionWork, Zenon
<1>3. CASE ~RecordVersion(q) /\ ~RevokeVersion(q)
  <2>1. /\ phase[q] = "written"
        /\ job'[q] = job[q] /\ started'[q] = started[q] /\ work'[q] = work[q]
    BY <1>3, OthersKeepOut, Zenon
  <2>2. RecordWork(q) \/ RevokeWork(q)
    BY <2>1, Zenon DEF WorkOK
  <2>3. job[q].fact \in Facts /\ lock[job[q].fact] = q
    BY <2>1, JobFields, Zenon DEF LocksOK, InFlight
  <2>4. CASE UNCHANGED tables
    BY <2>1, <2>2, <2>4, Zenon DEF tables, RecordWork, RevokeWork, AlreadyRevoked
  <2>5. ASSUME NEW r \in Requests, Commit(r)
        PROVE  (RecordWork(q) \/ RevokeWork(q))'
    <3> DEFINE f == job[r].fact
    <3>1. r # q /\ lock[f] = r /\ f \in Facts
      <4>1. r # q
        BY <2>5, Zenon DEF Commit, End, TypeOK
      <4> QED
        BY <2>5, <4>1, JobFields, Zenon DEF Commit, LocksOK, InFlight
    <3>2. job[q].fact # f
        BY <2>3, <3>1, Zenon
    <3>3. versions'[job[q].fact] = versions[job[q].fact]
        BY <2>3, <2>5, <3>2, CommitChains, Zenon
    <3>4. CASE RecordWork(q)
        BY <2>1, <3>3, <3>4, Zenon DEF RecordWork
    <3>5. CASE RevokeWork(q)
      <4>1. PICK i \in DOMAIN versions[job[q].fact] :
              /\ work[q].revocations = {[fact_version_id |-> versions[job[q].fact][i].id,
                                         revoked_at |-> started[q]]}
              /\ ~AlreadyRevoked(versions[job[q].fact][i].id)
        BY <3>5, Zenon DEF RevokeWork
      <4> DEFINE id == versions[job[q].fact][i].id
      <4>2. job[id].fact = job[q].fact
        BY <2>3, RowOfFact, Zenon
      <4>3. \A j \in DOMAIN versions[f] : versions[f][j].id # id
        <5>1. \A j \in DOMAIN versions[f] : job[versions[f][j].id].fact = f
          BY <3>1, RowOfFact, Zenon
        <5> QED BY <3>2, <4>2, <5>1, Zenon
      <4>4. \A rev \in revocations' : rev.fact_version_id # id
        BY <2>5, <4>1, <4>3, CommitRevokes DEF AlreadyRevoked
      <4>5. (~AlreadyRevoked(id))'
        BY <3>3, <2>1, <4>4, Zenon DEF AlreadyRevoked
      <4> QED
        BY <2>1, <3>3, <3>5, <4>1, <4>5, Zenon DEF RevokeWork
    <3> QED
        BY <2>2, <3>4, <3>5, Zenon
  <2> QED
    BY <2>4, <2>5, TablesStep, Zenon
<1> QED
    BY <1>1, <1>2, <1>3, Zenon

\* Links become visible with the version they belong to.
LEMMA LinksStep ==
    ASSUME TypeOK, LocksOK, WorkOK, LinksOK, [Next]_vars
    PROVE  LinksOK'
<1>1. \A l \in links : phase'[l.fact_version_id] = "committed"
    BY CommittedStable, Zenon DEF LinksOK, TypeOK, LinkType
<1>2. CASE UNCHANGED tables
    BY <1>1, <1>2, Zenon DEF tables, LinksOK
<1>3. ASSUME NEW r \in Requests, Commit(r) PROVE LinksOK'
  <2>1. phase'[r] = "committed"
    BY <1>3, Zenon DEF Commit, End, TypeOK
  <2>2. \A l \in links' : l \in links \/ l.fact_version_id = r
    BY <1>3, CommitChains DEF LinkEvidence
  <2> QED
    BY <1>1, <2>1, <2>2, Zenon DEF LinksOK
<1> QED
    BY <1>2, <1>3, TablesStep, Zenon

\* A commit adds no second revocation of a version.
LEMMA RevokedStep ==
    ASSUME TypeOK, LocksOK, WorkOK, RevokedOnce, [Next]_vars
    PROVE  RevokedOnce'
<1>1. CASE UNCHANGED tables
    BY <1>1, Zenon DEF tables, RevokedOnce
<1>2. ASSUME NEW r \in Requests, Commit(r) PROVE RevokedOnce'
    BY <1>2, CommitRevokes DEF RevokedOnce, AlreadyRevoked
<1> QED
    BY <1>1, <1>2, TablesStep, Zenon

\* A commit commits one request.
LEMMA OneCommit ==
    ASSUME TypeOK, [Next]_vars, NEW q \in Requests, phase'[q] = "committed", ~Commit(q)
    PROVE  phase[q] = "committed"
<1> USE DEF TypeOK
<1>1. ASSUME NEW r \in Requests, Begin(r) \/ RefuseMissing(r) \/ LockFact(r)
      PROVE  phase[q] = "committed"
    BY <1>1, Zenon DEF Begin, RefuseMissing, LockFact
<1>2. ASSUME NEW r \in Requests, RecordVersion(r) \/ RevokeVersion(r)
      PROVE  phase[q] = "committed"
    BY <1>2, Zenon DEF RecordVersion, RevokeVersion
<1>3. ASSUME NEW r \in Requests, Refuse(r) \/ Rollback(r) PROVE phase[q] = "committed"
    BY <1>3, Zenon DEF Refuse, Rollback, End
<1>4. ASSUME NEW r \in Requests, Commit(r) PROVE phase[q] = "committed"
    BY <1>4, Zenon DEF Commit, End
<1>5. CASE Tick \/ StepBack \/ UNCHANGED vars
    BY <1>5, Zenon DEF Tick, StepBack, vars
<1> QED
    BY <1>1, <1>2, <1>3, <1>4, <1>5, Zenon DEF Next, Serve, Finished

\* Every committed version belongs to one committed request, and conversely.
LEMMA CommittedOnceStep ==
    ASSUME TypeOK, LocksOK, WorkOK, LinksOK, CommittedOnce, [Next]_vars
    PROVE  CommittedOnce'
<1>1. CASE UNCHANGED tables /\ \A r \in Requests : ~Commit(r)
  <2>1. \A q \in Requests : phase'[q] = "committed" <=> phase[q] = "committed"
    BY <1>1, OneCommit, CommittedStable, Zenon
  <2>2. \A q \in Requests : phase[q] = "committed" => job'[q] = job[q]
    BY CommittedStable, Zenon
  <2>3. \A f \in Facts : \A i \in DOMAIN versions[f] : versions[f][i].id \in Requests
    <3>1. \A v \in VersionType : v.id \in Requests
        BY Zenon DEF VersionType
    <3> QED
        BY <3>1 DEF TypeOK
  <2>4. versions' = versions /\ links' = links
    BY <1>1, Zenon DEF tables
  <2> QED
    BY <2>1, <2>2, <2>3, <2>4 DEF CommittedOnce, Rows
<1>2. ASSUME NEW r \in Requests, Commit(r) PROVE CommittedOnce'
  <2> DEFINE f == job[r].fact
  <2>1. phase[r] = "written" /\ phase'[r] = "committed" /\ job'[r] = job[r]
    BY <1>2, Zenon DEF Commit, End, TypeOK
  <2>2. \A q \in Requests : q # r => (phase'[q] = "committed" <=> phase[q] = "committed")
    BY <1>2, OneCommit, CommittedStable, Zenon DEF Commit, End, TypeOK
  <2>3. \A q \in Requests : phase[q] = "committed" => phase'[q] = "committed" /\ job'[q] = job[q]
    BY CommittedStable, Zenon
  <2>4. \A g \in Facts : \A i \in DOMAIN versions[g] :
          /\ versions[g][i].id \in Requests
          /\ phase[versions[g][i].id] = "committed"
          /\ job[versions[g][i].id].kind = "record"
          /\ job[versions[g][i].id].fact = g
          /\ \A j \in DOMAIN versions[g] : versions[g][j].id = versions[g][i].id => i = j
    <3>1. \A v \in VersionType : v.id \in Requests
        BY Zenon DEF VersionType
    <3> QED
        BY <3>1 DEF CommittedOnce, Rows, TypeOK
  <2>5. /\ f \in Facts
        /\ \A g \in Facts : g # f => versions'[g] = versions[g]
        /\ \/ /\ job[r].kind = "record"
              /\ DOMAIN versions[f] \subseteq DOMAIN versions'[f]
              /\ \A i \in DOMAIN versions[f] : versions'[f][i].id = versions[f][i].id
              /\ \E n \in DOMAIN versions'[f] :
                    /\ DOMAIN versions'[f] = DOMAIN versions[f] \cup {n}
                    /\ n \notin DOMAIN versions[f]
                    /\ versions'[f][n].id = r
              /\ links' = links \cup LinkEvidence(r, job[r].command, started[r])
           \/ /\ job[r].kind = "revoke"
              /\ versions' = versions
              /\ links' = links
    <3> DEFINE t == Latest(work[r].chain).recorded_at
               n == Len(versions[f])
    <3>1. f \in Facts /\ versions[f] \in Seq(VersionType)
        BY <1>2, CommitChains, ZenonT(40)
    <3>2. ASSUME job[r].command \in Commands, t \in Nat,
                 versions'[f] = Extended(r, versions[f], job[r].command, t)
          PROVE  /\ n \in Nat /\ DOMAIN versions[f] = 1 .. n /\ DOMAIN versions'[f] = 1 .. n + 1
                 /\ versions'[f][n + 1].id = r
                 /\ \A i \in 1 .. n : versions'[f][i].id = versions[f][i].id
        BY <3>1, <3>2, ExtendedIds
    <3>3. ASSUME n \in Nat, DOMAIN versions[f] = 1 .. n, DOMAIN versions'[f] = 1 .. n + 1
          PROVE  /\ DOMAIN versions[f] \subseteq DOMAIN versions'[f]
                 /\ n + 1 \in DOMAIN versions'[f]
                 /\ DOMAIN versions'[f] = DOMAIN versions[f] \cup {n + 1}
                 /\ n + 1 \notin DOMAIN versions[f]
        BY <3>3, SMTT(30)
    <3> HIDE DEF n, t
    <3> QED
        BY <1>2, <3>2, <3>3, CommitChains, Zenon DEF t
  <2> HIDE DEF f
  <2>6. ASSUME NEW q \in Requests, phase'[q] = "committed", job'[q].kind = "record"
        PROVE  \E i \in DOMAIN versions'[job'[q].fact] : versions'[job'[q].fact][i].id = q
    <3>1. CASE q = r
        BY <2>1, <2>5, <2>6, <3>1, Zenon DEF f
    <3>2. CASE q # r
      <4>1. phase[q] = "committed" /\ job'[q] = job[q]
        BY <2>2, <2>3, <2>6, <3>2, Zenon
      <4>2. PICK i \in DOMAIN versions[job[q].fact] : versions[job[q].fact][i].id = q
        BY <2>6, <4>1 DEF CommittedOnce, Rows
      <4>3. job[q].fact \in Facts
        BY <4>1, JobFields, Zenon DEF LocksOK
      <4> QED
        BY <2>5, <4>1, <4>2, <4>3, ZenonT(40)
    <3> QED
        BY <3>1, <3>2, Zenon
  <2>7. ASSUME NEW q \in Requests, phase'[q] = "committed", job'[q].kind = "record"
        PROVE  {l.evidence_id : l \in {k \in links' : k.fact_version_id = q}} =
                  job'[q].command.evidence_ids
    <3>1. \A l \in LinkEvidence(r, job[r].command, started[r]) : l.fact_version_id = r
        BY DEF LinkEvidence
    <3>2. CASE q = r
      <4>1. \A l \in links : l.fact_version_id # r
        BY <2>1, Zenon DEF LinksOK
      <4>2. links' = links \cup LinkEvidence(r, job[r].command, started[r])
        BY <2>1, <2>5, <2>7, <3>2, Zenon
      <4>3. {k \in links' : k.fact_version_id = r} =
                LinkEvidence(r, job[r].command, started[r])
        BY <3>1, <4>1, <4>2, Zenon
      <4>4. {l.evidence_id : l \in LinkEvidence(r, job[r].command, started[r])} =
                job[r].command.evidence_ids
        <5> DEFINE L == LinkEvidence(r, job[r].command, started[r])
        <5>1. \A l \in L : l.evidence_id \in job[r].command.evidence_ids
            BY DEF LinkEvidence
        <5>2. ASSUME NEW x \in job[r].command.evidence_ids
              PROVE  \E l \in L : l.evidence_id = x
            <6> DEFINE l == [fact_version_id |-> r, evidence_id |-> x,
                             linked_at |-> started[r]]
            <6>1. l \in L
                BY Zenon DEF LinkEvidence
            <6>2. l.evidence_id = x
                BY Zenon
            <6> QED
                BY <6>1, <6>2, Zenon
        <5> HIDE DEF L
        <5>3. {l.evidence_id : l \in L} = job[r].command.evidence_ids
            BY <5>1, <5>2, Zenon
        <5> QED
            BY <5>3, Zenon DEF L
      <4> QED
        BY <2>1, <3>2, <4>3, <4>4, Zenon
    <3>3. CASE q # r
      <4>1. phase[q] = "committed" /\ job'[q] = job[q]
        BY <2>2, <2>3, <2>7, <3>3, Zenon
      <4>2. {k \in links' : k.fact_version_id = q} = {k \in links : k.fact_version_id = q}
        BY <2>5, <3>1, <3>3, Zenon
      <4> QED
        BY <2>7, <4>1, <4>2 DEF CommittedOnce
    <3> QED
        BY <3>2, <3>3, Zenon
  <2>8. ASSUME NEW g \in Facts, NEW i \in DOMAIN versions'[g]
        PROVE  /\ phase'[versions'[g][i].id] = "committed"
               /\ job'[versions'[g][i].id].kind = "record"
               /\ job'[versions'[g][i].id].fact = g
               /\ \A j \in DOMAIN versions'[g] :
                    versions'[g][j].id = versions'[g][i].id => i = j
    <3>1. CASE g # f \/ versions' = versions
        BY <2>3, <2>4, <2>5, <3>1
    <3>2. CASE g = f /\ versions' # versions
      <4>1. job[r].kind = "record"
        BY <2>5, <3>2, Zenon
      <4>2. PICK n \in DOMAIN versions'[f] :
                /\ DOMAIN versions'[f] = DOMAIN versions[f] \cup {n}
                /\ n \notin DOMAIN versions[f]
                /\ versions'[f][n].id = r
                /\ \A k \in DOMAIN versions[f] : versions'[f][k].id = versions[f][k].id
        BY <2>5, <3>2, Zenon
      <4>3. \A k \in DOMAIN versions[f] : versions[f][k].id # r
        BY <2>1, <2>4, <2>5
      <4>4. CASE i = n
        BY <2>1, <3>2, <4>1, <4>2, <4>3, <4>4, Zenon DEF f
      <4>5. CASE i \in DOMAIN versions[f]
        BY <2>3, <2>4, <2>5, <3>2, <4>2, <4>3, <4>5
      <4> QED
        BY <3>2, <4>2, <4>4, <4>5, Zenon
    <3> QED
        BY <3>1, <3>2, Zenon
  <2> QED
    BY <2>6, <2>7, <2>8, Zenon DEF CommittedOnce, Rows
<1> QED
    BY <1>1, <1>2, TablesStep, Zenon

\* A commit stores the conflict of the version it adds, and no step touches the
\* others.
LEMMA ContradictionsStep ==
    ASSUME TypeOK, LocksOK, WorkOK, ChainsOK, ContradictionsExact, [Next]_vars
    PROVE  ContradictionsExact'
<1>1. CASE UNCHANGED tables
    BY <1>1, Zenon DEF tables, ContradictionsExact
<1>2. ASSUME NEW r \in Requests, Commit(r) PROVE ContradictionsExact'
  <2> DEFINE f == job[r].fact
             t == Latest(work[r].chain).recorded_at
             added == DetectValueConflict(versions[f], NewVersion(r, versions[f], job[r].command, t))
  <2>1. CASE job[r].kind = "revoke"
    <3>1. versions' = versions /\ contradictions' = contradictions
        BY <1>2, <2>1, CommitChains, Zenon
    <3> QED
        BY <3>1, Zenon DEF ContradictionsExact
  <2>2. CASE job[r].kind = "record"
    <3>1. /\ f \in Facts /\ versions[f] \in Seq(VersionType)
          /\ \A g \in Facts : g # f => versions'[g] = versions[g]
          /\ job[r].command \in Commands /\ t \in Nat
          /\ versions[f] # <<>> => Latest(versions[f]).recorded_at < t
          /\ versions'[f] = Extended(r, versions[f], job[r].command, t)
          /\ contradictions' = contradictions \cup added
        BY <1>2, <2>2, CommitChains, Zenon
    <3>2. ConflictsOf(versions'[f]) = ConflictsOf(versions[f]) \cup added
      <4>1. ChainOK(versions[f])
        BY <3>1, Zenon DEF ChainsOK
      <4> HIDE DEF f, t
      <4>2. ConflictsOf(Extended(r, versions[f], job[r].command, t)) = ConflictsOf(versions[f]) \cup added
        BY <3>1, <4>1, ExtendedConflicts, Zenon
      <4> QED
        BY <3>1, <4>2, Zenon
    <3> HIDE DEF f, added
    <3>3. \A g \in Facts : g # f => ConflictsOf(versions'[g]) = ConflictsOf(versions[g])
        BY <3>1, Zenon
    <3>4. UNION {ConflictsOf(versions'[g]) : g \in Facts} =
              (UNION {ConflictsOf(versions[g]) : g \in Facts}) \cup added
      <4>1. f \in Facts
        BY <3>1, Zenon
      <4> QED
        BY <3>2, <3>3, <4>1, Zenon
    <3> QED
        BY <3>1, <3>4, Zenon DEF ContradictionsExact
  <2> QED
    BY <1>2, <2>1, <2>2, CommitChains, Zenon
<1> QED
    BY <1>1, <1>2, TablesStep, Zenon

\* The inductive invariant holds of the empty ledger.
LEMMA InvInit == Init => Inv
<1> SUFFICES ASSUME Init PROVE Inv
    BY Zenon
<1>1. \A f \in Facts : versions[f] = <<>> /\ DOMAIN versions[f] = {}
    BY DEF Init
<1>2. ChainsOK
    BY <1>1, Zenon DEF ChainsOK, ChainOK
<1>3. WorkOK /\ LinksOK /\ RevokedOnce
    BY Zenon DEF Init, WorkOK, LinksOK, RevokedOnce
<1>4. CommittedOnce
    BY <1>1, Zenon DEF Init, CommittedOnce, Rows
<1>5. ContradictionsExact
  <2>1. \A f \in Facts : ConflictsOf(versions[f]) = {}
    BY <1>1, Zenon DEF ConflictsOf
  <2> QED
    BY <2>1, Zenon DEF Init, ContradictionsExact
<1> QED
    BY <1>2, <1>3, <1>4, <1>5, TypeInit, Zenon DEF Inv

\* Every step preserves the inductive invariant.
LEMMA InvStep == Inv /\ [Next]_vars => Inv'
BY TypeStep, LocksStep, ChainsStep, WorkStep, LinksStep, RevokedStep, CommittedOnceStep,
   ContradictionsStep, Zenon DEF Inv

\* The inductive invariant holds in every state of the ledger.
THEOREM Invariance == Spec => []Inv
BY InvInit, InvStep, PTL DEF Spec

-----------------------------------------------------------------------------
(* What follows from the invariant.                                        *)

\* The exclusion constraint, the version numbering and the ordering of the
\* transaction times of migration 0003 hold for every number of writers.
THEOREM ChainsAlwaysOK == Spec => []ChainsOK
<1>1. Inv => ChainsOK
    BY Zenon DEF Inv
<1> QED
    BY <1>1, Invariance, PTL

\* No write is lost, doubled or left behind by a request that did not commit.
THEOREM NoLostUpdate == Spec => []CommittedOnce
<1>1. Inv => CommittedOnce
    BY Zenon DEF Inv
<1> QED
    BY <1>1, Invariance, PTL

\* Concurrent revoke requests never revoke one version twice.
THEOREM NoDoubleRevocation == Spec => []RevokedOnce
<1>1. Inv => RevokedOnce
    BY Zenon DEF Inv
<1> QED
    BY <1>1, Invariance, PTL

\* The deterministic rule misses no conflict between consecutive versions and
\* reports no other, although it runs in transactions that may roll back and
\* although the versions it compared are closed later.
THEOREM ContradictionsComplete == Spec => []ContradictionsExact
<1>1. Inv => ContradictionsExact
    BY Zenon DEF Inv
<1> QED
    BY <1>1, Invariance, PTL

-----------------------------------------------------------------------------
(* What readers of the ledger may rely on.                                 *)

\* Windows of one chain do not overlap, at any state of knowledge.
LEMMA ResolvesOnce == Inv => UniqueResolution
<1>1. ASSUME Inv PROVE UniqueResolution
  <2> SUFFICES ASSUME NEW f \in Facts, NEW validAt \in Instants,
                      NEW knownAt \in Instants \cup {NULL},
                      NEW i \in Resolve(versions[f], validAt, knownAt),
                      NEW j \in Resolve(versions[f], validAt, knownAt)
               PROVE  i = j
    BY Zenon DEF UniqueResolution
  <2>1. validAt \in Nat /\ knownAt \in Nat \cup {NULL}
    BY LedgerAssumption, Zenon
  <2>2. versions[f] \in Seq(VersionType) /\ ChainOK(versions[f])
    BY <1>1, Zenon DEF Inv, TypeOK, ChainsOK
  <2> QED
    BY <2>1, <2>2, ResolveUnique, Zenon
<1> QED
    BY <1>1, Zenon

\* facts_valid_at never has two rows of one fact to choose from, and resolve()
\* never raises, at any instant and any state of knowledge.
THEOREM ResolutionIsUnique == Spec => []UniqueResolution
BY ResolvesOnce, Invariance, PTL

\* The SQL condition, row by row, is the reference's.
LEMMA SqlMatches == Inv => SqlMatchesReference
<1>1. ASSUME Inv PROVE SqlMatchesReference
  <2> SUFFICES ASSUME NEW f \in Facts, NEW validAt \in Instants,
                      NEW knownAt \in Instants \cup {NULL}
               PROVE  Answer(f, validAt, knownAt) =
                        {i \in Resolve(versions[f], validAt, knownAt) :
                            NotRevokedCondition(versions[f][i], revocations, knownAt)}
    BY Zenon DEF SqlMatchesReference
  <2>1. validAt \in Nat /\ knownAt \in Nat \cup {NULL}
    BY LedgerAssumption, Zenon
  <2>2. versions[f] \in Seq(VersionType) /\ ChainOK(versions[f])
    BY <1>1, Zenon DEF Inv, TypeOK, ChainsOK
  <2>3. \A i \in DOMAIN versions[f] :
            ValidAtCondition(versions[f][i], revocations, validAt, knownAt) <=>
              /\ IsKnown(versions[f][i], knownAt)
              /\ IsValidAt(AsKnown(versions[f][i], knownAt), validAt)
              /\ NotRevokedCondition(versions[f][i], revocations, knownAt)
    BY <2>1, <2>2, ChainRow, SqlRow
  <2> QED
    BY <2>3, Zenon DEF Answer, FactsValidAt, Resolve, HistoryAsKnown
<1> QED
    BY <1>1, Zenon

\* The SQL engine and the reference implementation agree on every reachable
\* chain, up to the revoked versions, which only the SQL engine knows about.
THEOREM SqlAgreesWithReference == Spec => []SqlMatchesReference
BY SqlMatches, Invariance, PTL

\* What was known at K is always an initial part of the version chain.
THEOREM KnownVersionsArePrefix == Spec => []KnownIsPrefix
<1>1. ASSUME Inv PROVE KnownIsPrefix
  <2> SUFFICES ASSUME NEW f \in Facts, NEW knownAt \in Instants,
                      NEW i \in DOMAIN versions[f], IsKnown(versions[f][i], knownAt),
                      NEW k \in 1 .. i
               PROVE  IsKnown(versions[f][k], knownAt)
    BY Zenon DEF KnownIsPrefix, Rows
  <2>1. versions[f] \in Seq(VersionType) /\ ChainOK(versions[f]) /\ knownAt \in Nat
    BY <1>1, LedgerAssumption, Zenon DEF Inv, TypeOK, ChainsOK
  <2>2. k \in DOMAIN versions[f] /\ (k = i \/ k < i)
    BY <2>1
  <2>3. versions[f][k] \in VersionType /\ versions[f][i] \in VersionType
    BY <2>1, <2>2
  <2>4. versions[f][k].recorded_at \in Nat /\ versions[f][i].recorded_at \in Nat
    BY <2>3, Zenon DEF VersionType
  <2>5. CASE k < i
    BY <2>1, <2>2, <2>4, <2>5, ChainPair, NullAssumption DEF IsKnown
  <2> QED
    BY <2>2, <2>5, Zenon
<1> QED
    BY <1>1, Invariance, PTL

\* A commit keeps every row, except that it may give an open version its end.
LEMMA CommitKeepsRow ==
    ASSUME Inv, NEW r \in Requests, Commit(r), NEW g \in Facts, NEW i \in DOMAIN versions[g]
    PROVE  /\ i \in DOMAIN versions'[g]
           /\ \/ versions'[g][i] = versions[g][i]
              \/ /\ versions[g][i].valid_until = NULL
                 /\ versions'[g][i] =
                      [versions[g][i] EXCEPT
                         !.valid_until = versions'[g][i].valid_until,
                         !.valid_until_recorded_at = versions'[g][i].valid_until_recorded_at]
<1>1. CASE versions'[g] = versions[g]
  BY <1>1, Zenon
<1>2. CASE versions'[g] # versions[g]
  <2> DEFINE chain == versions[g]
             cmd == job[r].command
             t == Latest(work[r].chain).recorded_at
             c == CloseVersion(chain[i], cmd, t)
  <2>1. /\ chain \in Seq(VersionType) /\ cmd \in Commands /\ t \in Nat
        /\ versions'[g] = Extended(r, chain, cmd, t)
      BY <1>2, CommitChains, Zenon DEF Inv
  <2>2. /\ i \in DOMAIN versions'[g]
        /\ versions'[g][i] = chain[i] \/ versions'[g][i] = c
    <3> DEFINE e == Extended(r, chain, cmd, t)
               n == Len(chain)
    <3> HIDE DEF chain, cmd, t
    <3>1. /\ DOMAIN e = 1 .. n + 1
          /\ \A k \in 1 .. n : k < n => e[k] = chain[k]
          /\ n > 0 => e[n] = CloseVersion(chain[n], cmd, t)
      BY <2>1, ExtendedShape
    <3>2. n \in Nat /\ DOMAIN chain = 1 .. n
      BY <2>1
    <3>3. i \in 1 .. n
      BY <3>2, Zenon DEF chain
    <3> HIDE DEF e, n
    <3>4. i \in DOMAIN e /\ (e[i] = chain[i] \/ e[i] = CloseVersion(chain[i], cmd, t))
      BY <3>1, <3>2, <3>3
    <3> QED
      BY <2>1, <3>4, Zenon DEF e
  <2>3. chain[i] \in VersionType
      BY <2>1
  <2>4. c = chain[i] \/ (chain[i].valid_until = NULL /\
            c = [chain[i] EXCEPT !.valid_until = c.valid_until,
                   !.valid_until_recorded_at = c.valid_until_recorded_at])
    <3>1. CASE chain[i].valid_until # NULL
      BY <3>1, Zenon DEF CloseVersion
    <3>2. CASE chain[i].valid_until = NULL
      <4>1. c = [chain[i] EXCEPT !.valid_until = cmd.valid_from,
                                 !.valid_until_recorded_at = t]
          BY <3>2, Zenon DEF CloseVersion
      <4>2. c.valid_until = cmd.valid_from /\ c.valid_until_recorded_at = t
          BY <2>3, <4>1, Zenon DEF VersionType
      <4> HIDE DEF c, t, cmd
      <4> QED
          BY <3>2, <4>1, <4>2, Zenon
    <3> QED
      BY <3>1, <3>2, Zenon
  <2> HIDE DEF c
  <2> QED
      BY <2>2, <2>4, Zenon
<1> QED
  BY <1>1, <1>2, Zenon

\* Committed rows are never rewritten, except that an open version receives its
\* end, once; no row ever disappears.
THEOREM LedgerIsAppendOnly == Spec => AppendOnly
<1> DEFINE Kept ==
      /\ \A f \in Facts : \A i \in Rows(f) :
            LET v == versions[f][i]
                w == versions'[f][i]
            IN  /\ i \in DOMAIN versions'[f]
                /\ \/ w = v
                   \/ /\ v.valid_until = NULL
                      /\ w = [v EXCEPT !.valid_until = w.valid_until,
                                !.valid_until_recorded_at = w.valid_until_recorded_at]
      /\ revocations \subseteq revocations'
      /\ contradictions \subseteq contradictions'
      /\ links \subseteq links'
<1>1. ASSUME UNCHANGED tables PROVE Kept
    BY <1>1, Zenon DEF tables, Rows
<1>2. ASSUME Inv, NEW r \in Requests, Commit(r) PROVE Kept
    BY <1>2, CommitKeepsRow, Zenon DEF Commit, Rows
<1>3. Inv /\ [Next]_vars => [Kept]_vars
    BY <1>1, <1>2, TablesStep, Zenon
<1> QED
    BY <1>3, Invariance, PTL DEF Spec, AppendOnly

\* A commit never changes an answer as known before the transaction time of the
\* row it adds: knowledge only accumulates at and after that time.
THEOREM HistoryIsStable == Spec => HistoryStable
<1> DEFINE Stable ==
      \A f \in Facts, validAt \in Instants, knownAt \in Instants :
          Answer(f, validAt, knownAt)' # Answer(f, validAt, knownAt) =>
              \/ \E i \in DOMAIN versions'[f] \ Rows(f) :
                    versions'[f][i].recorded_at <= knownAt
              \/ \E rev \in revocations' \ revocations : rev.revoked_at <= knownAt
<1>1. ASSUME UNCHANGED tables PROVE Stable
    BY <1>1, Zenon DEF tables, Answer
<1>2. ASSUME Inv, NEW r \in Requests, Commit(r) PROVE Stable
  <2> SUFFICES ASSUME NEW g \in Facts, NEW validAt \in Instants, NEW knownAt \in Instants,
                      Answer(g, validAt, knownAt)' # Answer(g, validAt, knownAt)
               PROVE  \/ \E i \in DOMAIN versions'[g] \ DOMAIN versions[g] :
                            versions'[g][i].recorded_at <= knownAt
                      \/ \E rev \in revocations' \ revocations : rev.revoked_at <= knownAt
    BY Zenon DEF Rows
  <2> DEFINE f == job[r].fact
             t == Latest(work[r].chain).recorded_at
             cmd == job[r].command
  <2>1. validAt \in Nat /\ knownAt \in Nat
    BY LedgerAssumption, Zenon
  <2>2. CASE job[r].kind = "record"
    <3>1. /\ f \in Facts /\ versions[f] \in Seq(VersionType)
          /\ \A h \in Facts : h # f => versions'[h] = versions[h]
          /\ cmd \in Commands /\ t \in Nat
          /\ versions'[f] = Extended(r, versions[f], cmd, t)
          /\ revocations' = revocations
        BY <1>2, <2>2, CommitChains, Zenon DEF Inv
    <3>2. g = f
        BY <3>1, Zenon DEF Answer
    <3>3. t <= knownAt
      <4>1. ASSUME knownAt < t PROVE FALSE
        BY <2>1, <3>1, <3>2, <4>1, ExtendedInvisible DEF Answer
      <4> QED
        BY <2>1, <3>1, <4>1
    <3> DEFINE n == Len(versions[f])
    <3>4. /\ n \in Nat /\ DOMAIN versions[f] = 1 .. n
          /\ DOMAIN versions'[f] = 1 .. n + 1
          /\ versions'[f][n + 1] = NewVersion(r, versions[f], cmd, t)
      <4> HIDE DEF cmd, t, f
      <4>1. n \in Nat /\ DOMAIN versions[f] = 1 .. n
        BY <3>1, SMTT(30)
      <4>2. PICK chain \in Seq(VersionType) : chain = versions[f]
        BY <3>1, Zenon
      <4>3. /\ DOMAIN Extended(r, chain, cmd, t) = 1 .. Len(chain) + 1
            /\ Extended(r, chain, cmd, t)[Len(chain) + 1] = NewVersion(r, chain, cmd, t)
        <5>1. r \in Requests /\ cmd \in Commands /\ t \in Nat
          BY <1>2, <3>1, Zenon
        <5> QED
          BY <5>1, ExtendedShape, SMTT(30)
      <4> QED
        BY <3>1, <4>1, <4>2, <4>3, Zenon
    <3>5. versions'[f][n + 1].recorded_at = t
        BY <3>4 DEF NewVersion
    <3> HIDE DEF n, t
    <3>6. n + 1 \in DOMAIN versions'[f] \ DOMAIN versions[f]
        BY <3>4
    <3> QED
        BY <3>2, <3>3, <3>5, <3>6, Zenon
  <2>3. CASE job[r].kind = "revoke"
    <3>1. versions' = versions
        BY <1>2, <2>3, CommitChains, Zenon DEF Inv
    <3>2. PICK i \in DOMAIN versions[f] :
            /\ ~AlreadyRevoked(versions[f][i].id)
            /\ revocations' = revocations \cup {[fact_version_id |-> versions[f][i].id,
                                                 revoked_at |-> started[r]]}
        BY <1>2, <2>3, CommitChains, Zenon DEF Inv
    <3> DEFINE rev == [fact_version_id |-> versions[f][i].id, revoked_at |-> started[r]]
    <3>3. rev \in revocations' \ revocations
        BY <3>2, Zenon DEF AlreadyRevoked
    <3>4. rev.revoked_at \in Nat
        BY <1>2, Zenon DEF Inv, TypeOK
    <3>5. ASSUME ~(rev.revoked_at <= knownAt) PROVE FALSE
      <4>1. \A v : NotRevokedCondition(v, revocations', knownAt)
                     <=> NotRevokedCondition(v, revocations, knownAt)
        BY <2>1, <3>2, <3>5, NullAssumption DEF NotRevokedCondition
      <4> QED
        BY <3>1, <4>1, Zenon DEF Answer, FactsValidAt, ValidAtCondition
    <3> QED
        BY <3>3, <3>5, Zenon
  <2> QED
    BY <1>2, <2>2, <2>3, CommitChains, Zenon DEF Inv
<1>3. Inv /\ [Next]_vars => [Stable]_vars
    BY <1>1, <1>2, TablesStep, Zenon
<1> QED
    BY <1>3, Invariance, PTL DEF Spec, HistoryStable

-----------------------------------------------------------------------------
(* The reads of TemporalQueries tell one story.                            *)

\* Hiding an end changes neither the id nor the number of a version.
LEMMA AsKnownIdentity ==
    ASSUME NEW v \in VersionType, NEW knownAt
    PROVE  AsKnown(v, knownAt).id = v.id /\ AsKnown(v, knownAt).version = v.version
BY Zenon DEF AsKnown, VersionType

\* The entries of the timeline are the known versions.
LEMMA TimelineEntries ==
    ASSUME NEW knownAt, NEW e
    PROVE  e \in EntityTimeline(knownAt) <=>
              \E f \in Facts : \E i \in HistoryAsKnown(versions[f], knownAt) :
                  e = [fact |-> f, version |-> AsKnown(versions[f][i], knownAt)]
<1>1. ASSUME NEW p PROVE p \in EntityVersions(knownAt) <=>
                          \E f \in Facts : \E i \in HistoryAsKnown(versions[f], knownAt) : p = <<f, i>>
    BY DEF EntityVersions
<1>2. ASSUME NEW f, NEW i PROVE <<f, i>>[1] = f /\ <<f, i>>[2] = i
    OBVIOUS
<1>3. ASSUME e \in EntityTimeline(knownAt)
      PROVE  \E f \in Facts : \E i \in HistoryAsKnown(versions[f], knownAt) :
                 e = [fact |-> f, version |-> AsKnown(versions[f][i], knownAt)]
  <2>1. PICK p \in EntityVersions(knownAt) :
            e = [fact |-> p[1], version |-> AsKnown(versions[p[1]][p[2]], knownAt)]
    BY <1>3, Zenon DEF EntityTimeline
  <2>2. PICK f \in Facts : \E i \in HistoryAsKnown(versions[f], knownAt) : p = <<f, i>>
    BY <1>1, Zenon
  <2>3. PICK i \in HistoryAsKnown(versions[f], knownAt) : p = <<f, i>>
    BY <2>2, Zenon
  <2>4. p[1] = f /\ p[2] = i
    BY <2>3, <1>2, Zenon
  <2> QED
    BY <2>1, <2>4, Zenon
<1>4. ASSUME NEW f \in Facts, NEW i \in HistoryAsKnown(versions[f], knownAt),
             e = [fact |-> f, version |-> AsKnown(versions[f][i], knownAt)]
      PROVE  e \in EntityTimeline(knownAt)
  <2>1. PICK p : p = <<f, i>>
    BY Zenon
  <2>2. p \in EntityVersions(knownAt) /\ p[1] = f /\ p[2] = i
    BY <1>1, <1>2, <2>1, Zenon
  <2> QED
    BY <1>4, <2>2, Zenon DEF EntityTimeline
<1> QED
    BY <1>3, <1>4, Zenon

\* An entry, taken apart.
LEMMA EntryFields ==
    ASSUME Inv, NEW knownAt \in Nat \cup {NULL}, NEW e \in EntityTimeline(knownAt)
    PROVE  \E f \in Facts : \E i \in DOMAIN versions[f] :
              /\ versions[f] \in Seq(VersionType) /\ ChainOK(versions[f])
              /\ versions[f][i] \in VersionType /\ IsKnown(versions[f][i], knownAt)
              /\ e = [fact |-> f, version |-> AsKnown(versions[f][i], knownAt)]
              /\ e.fact = f /\ e.version = AsKnown(versions[f][i], knownAt)
              /\ e.version.version = i /\ e.version.id = versions[f][i].id
              /\ e.version.valid_from = versions[f][i].valid_from
<1>1. PICK f \in Facts : \E i \in HistoryAsKnown(versions[f], knownAt) :
          e = [fact |-> f, version |-> AsKnown(versions[f][i], knownAt)]
    BY TimelineEntries, Zenon
<1>2. PICK i \in HistoryAsKnown(versions[f], knownAt) :
          e = [fact |-> f, version |-> AsKnown(versions[f][i], knownAt)]
    BY <1>1, Zenon
<1>3. i \in DOMAIN versions[f] /\ IsKnown(versions[f][i], knownAt)
    BY <1>2, Zenon DEF HistoryAsKnown
<1>4. versions[f] \in Seq(VersionType) /\ ChainOK(versions[f])
    BY Zenon DEF Inv, TypeOK, ChainsOK
<1>5. versions[f][i] \in VersionType
    BY <1>3, <1>4
<1>6. e.fact = f /\ e.version = AsKnown(versions[f][i], knownAt)
    BY <1>2, Zenon
<1>7. versions[f][i].version = i
    BY <1>3, <1>4, ChainRow, Zenon
<1>8. /\ e.version.version = i /\ e.version.id = versions[f][i].id
      /\ e.version.valid_from = versions[f][i].valid_from
  <2> PICK v : v = AsKnown(versions[f][i], knownAt)
    BY Zenon
  <2>1. v.id = versions[f][i].id /\ v.version = versions[f][i].version
    BY <1>5, AsKnownIdentity, Zenon
  <2>2. v.valid_from = versions[f][i].valid_from
    BY <1>5, AsKnownFields, Zenon
  <2>3. e.version = v
    BY <1>6, Zenon
  <2> QED
    BY <1>7, <2>1, <2>2, <2>3, Zenon
<1> QED
    BY <1>2, <1>3, <1>4, <1>5, <1>6, <1>8, Zenon

\* The same revocations concern a version and what was known of it.
LEMMA RevokedAsKnown ==
    ASSUME NEW v \in VersionType, NEW revs, NEW knownAt
    PROVE  NotRevokedCondition(AsKnown(v, knownAt), revs, knownAt) <=> NotRevokedCondition(v, revs, knownAt)
BY AsKnownIdentity, Zenon DEF NotRevokedCondition

\* What facts_at reports is in the timeline; what it leaves out is revoked.
LEMMA TimelineAgreesAlways == Inv => TimelineAgrees
<1> SUFFICES ASSUME Inv, NEW knownAt \in KnownAts, NEW validAt \in Instants
             PROVE  /\ FactsAt(validAt, knownAt) \subseteq EntityTimeline(knownAt)
                    /\ \A e \in EntityTimeline(knownAt) \ FactsAt(validAt, knownAt) :
                         IsValidAt(e.version, validAt) =>
                             ~NotRevokedCondition(e.version, revocations, knownAt)
    BY Zenon DEF TimelineAgrees
<1>0. validAt \in Nat /\ knownAt \in Nat \cup {NULL}
    BY LedgerAssumption, Zenon DEF KnownAts
<1>1. ASSUME NEW f \in Facts
      PROVE  /\ versions[f] \in Seq(VersionType) /\ ChainOK(versions[f])
             /\ \A i \in DOMAIN versions[f] : versions[f][i] \in VersionType
             /\ \A i \in DOMAIN versions[f] :
                   i \in Answer(f, validAt, knownAt) <=>
                      /\ i \in Resolve(versions[f], validAt, knownAt)
                      /\ NotRevokedCondition(versions[f][i], revocations, knownAt)
  <2>1. versions[f] \in Seq(VersionType) /\ ChainOK(versions[f])
    BY Zenon DEF Inv, TypeOK, ChainsOK
  <2>2. \A i \in DOMAIN versions[f] : versions[f][i] \in VersionType
    BY <2>1
  <2>3. \A i \in DOMAIN versions[f] :
            ValidAtCondition(versions[f][i], revocations, validAt, knownAt) <=>
              /\ IsKnown(versions[f][i], knownAt)
              /\ IsValidAt(AsKnown(versions[f][i], knownAt), validAt)
              /\ NotRevokedCondition(versions[f][i], revocations, knownAt)
    BY <1>0, <2>1, <2>2, ChainRow, SqlRow, Zenon
  <2> QED
    BY <2>1, <2>2, <2>3, Zenon DEF Answer, FactsValidAt, Resolve, HistoryAsKnown
<1>2. ASSUME NEW e \in FactsAt(validAt, knownAt) PROVE e \in EntityTimeline(knownAt)
  <2>1. PICK f \in Facts : \E i \in TopAnswer(f, validAt, knownAt) :
            e = [fact |-> f, version |-> AsKnown(versions[f][i], knownAt)]
    BY <1>2, Zenon DEF FactsAt
  <2>2. PICK i \in TopAnswer(f, validAt, knownAt) :
            e = [fact |-> f, version |-> AsKnown(versions[f][i], knownAt)]
    BY <2>1, Zenon
  <2>3. i \in DOMAIN versions[f] /\ i \in Answer(f, validAt, knownAt)
    BY Zenon DEF TopAnswer, Answer, FactsValidAt
  <2>4. i \in HistoryAsKnown(versions[f], knownAt)
    BY <1>1, <2>3, Zenon DEF Resolve
  <2> QED
    BY <2>2, <2>4, TimelineEntries, Zenon
<1>3. ASSUME NEW e \in EntityTimeline(knownAt), IsValidAt(e.version, validAt),
             NotRevokedCondition(e.version, revocations, knownAt)
      PROVE  e \in FactsAt(validAt, knownAt)
  <2>1. PICK f \in Facts : \E i \in DOMAIN versions[f] :
              /\ versions[f][i] \in VersionType /\ IsKnown(versions[f][i], knownAt)
              /\ e = [fact |-> f, version |-> AsKnown(versions[f][i], knownAt)]
              /\ e.version = AsKnown(versions[f][i], knownAt)
    BY <1>0, EntryFields, Zenon
  <2>2. PICK i \in DOMAIN versions[f] :
              /\ versions[f][i] \in VersionType /\ IsKnown(versions[f][i], knownAt)
              /\ e = [fact |-> f, version |-> AsKnown(versions[f][i], knownAt)]
              /\ e.version = AsKnown(versions[f][i], knownAt)
    BY <2>1, Zenon
  <2>3. i \in Resolve(versions[f], validAt, knownAt)
    BY <1>3, <2>2, Zenon DEF Resolve, HistoryAsKnown
  <2>4. NotRevokedCondition(versions[f][i], revocations, knownAt)
    BY <1>3, <2>2, RevokedAsKnown, Zenon
  <2>5. i \in Answer(f, validAt, knownAt)
    BY <1>1, <2>3, <2>4, Zenon
  <2>6. ASSUME NEW j \in Answer(f, validAt, knownAt) PROVE j = i
    <3>1. j \in DOMAIN versions[f]
      BY Zenon DEF Answer, FactsValidAt
    <3> QED
      BY <1>0, <1>1, <2>3, <3>1, ResolveUnique, Zenon
  <2>7. i \in Nat
    BY <1>1
  <2>8. i <= i
    BY <2>7
  <2>9. i \in TopAnswer(f, validAt, knownAt)
    BY <2>5, <2>6, <2>8, Zenon DEF TopAnswer
  <2> QED
    BY <2>2, <2>9 DEF FactsAt
<1> QED
    BY <1>2, <1>3, Zenon

\* The numbers the sort key compares.
LEMMA EntryNumbers ==
    ASSUME NEW v \in VersionType
    PROVE  /\ v.valid_from \in Nat /\ v.recorded_at \in Nat
           /\ v.valid_until \in Nat \cup {NULL}
           /\ v.valid_until_recorded_at \in Nat \cup {NULL}
BY Zenon DEF VersionType

\* Two known versions of one fact: the earlier has ended, visibly, when the
\* later begins.
LEMMA KnownPair ==
    ASSUME NEW chain \in Seq(VersionType), ChainOK(chain), NEW knownAt \in Nat \cup {NULL},
           NEW i \in DOMAIN chain, NEW j \in DOMAIN chain, i < j, IsKnown(chain[j], knownAt)
    PROVE  /\ IsKnown(chain[i], knownAt)
           /\ AsKnown(chain[i], knownAt).valid_until # NULL
           /\ AsKnown(chain[i], knownAt).valid_until <= chain[j].valid_from
           /\ chain[i].valid_from < chain[j].valid_from
<1>1. chain[i] \in VersionType /\ chain[j] \in VersionType
    OBVIOUS
<1> PICK vi : vi = chain[i]
    BY Zenon
<1> PICK vj : vj = chain[j]
    BY Zenon
<1>2. /\ vi.valid_until # NULL /\ vi.valid_until <= vj.valid_from
      /\ vi.recorded_at < vj.recorded_at /\ vi.valid_until_recorded_at <= vj.recorded_at
    BY ChainPair, Zenon
<1>3. vi.valid_until_recorded_at # NULL /\ vi.valid_from < vi.valid_until
    BY <1>2, ChainRow, Zenon
<1>4. /\ vi.valid_from \in Nat /\ vi.recorded_at \in Nat /\ vi.valid_until \in Nat
      /\ vi.valid_until_recorded_at \in Nat
      /\ vj.valid_from \in Nat /\ vj.recorded_at \in Nat
    BY <1>1, <1>2, <1>3, EntryNumbers, Zenon
<1>5. knownAt = NULL \/ (knownAt \in Nat /\ vj.recorded_at <= knownAt)
    BY Zenon DEF IsKnown
<1>6. /\ knownAt = NULL \/ vi.recorded_at <= knownAt
      /\ knownAt = NULL \/ vi.valid_until_recorded_at <= knownAt
      /\ vi.valid_from < vj.valid_from
    BY <1>2, <1>3, <1>4, <1>5
<1>7. AsKnown(chain[i], knownAt).valid_until = vi.valid_until
    BY <1>1, <1>6, AsKnownFields, Zenon
<1>8. IsKnown(chain[i], knownAt)
    BY <1>6, Zenon DEF IsKnown
<1> QED
    BY <1>2, <1>6, <1>7, <1>8, Zenon

\* The sort key of the timeline, on two entries.
LEMMA TimelinePair ==
    ASSUME Inv, NEW knownAt \in Nat \cup {NULL},
           NEW a \in EntityTimeline(knownAt), NEW b \in EntityTimeline(knownAt)
    PROVE  /\ a = b \/ EarlierEntry(a, b) \/ EarlierEntry(b, a)
           /\ EarlierEntry(a, b) => ~EarlierEntry(b, a)
           /\ a.fact = b.fact /\ EarlierEntry(a, b) =>
                 /\ a.version.version < b.version.version
                 /\ a.version.valid_until # NULL
                 /\ a.version.valid_until <= b.version.valid_from
<1>1. PICK f \in Facts : \E i \in DOMAIN versions[f] :
              /\ versions[f] \in Seq(VersionType) /\ ChainOK(versions[f])
              /\ versions[f][i] \in VersionType /\ IsKnown(versions[f][i], knownAt)
              /\ a = [fact |-> f, version |-> AsKnown(versions[f][i], knownAt)]
              /\ a.fact = f /\ a.version = AsKnown(versions[f][i], knownAt)
              /\ a.version.version = i /\ a.version.valid_from = versions[f][i].valid_from
    BY EntryFields, Zenon
<1>2. PICK i \in DOMAIN versions[f] :
              /\ versions[f] \in Seq(VersionType) /\ ChainOK(versions[f])
              /\ versions[f][i] \in VersionType /\ IsKnown(versions[f][i], knownAt)
              /\ a = [fact |-> f, version |-> AsKnown(versions[f][i], knownAt)]
              /\ a.fact = f /\ a.version = AsKnown(versions[f][i], knownAt)
              /\ a.version.version = i /\ a.version.valid_from = versions[f][i].valid_from
    BY <1>1, Zenon
<1>3. PICK g \in Facts : \E j \in DOMAIN versions[g] :
              /\ versions[g] \in Seq(VersionType) /\ ChainOK(versions[g])
              /\ versions[g][j] \in VersionType /\ IsKnown(versions[g][j], knownAt)
              /\ b = [fact |-> g, version |-> AsKnown(versions[g][j], knownAt)]
              /\ b.fact = g /\ b.version = AsKnown(versions[g][j], knownAt)
              /\ b.version.version = j /\ b.version.valid_from = versions[g][j].valid_from
    BY EntryFields, Zenon
<1>4. PICK j \in DOMAIN versions[g] :
              /\ versions[g] \in Seq(VersionType) /\ ChainOK(versions[g])
              /\ versions[g][j] \in VersionType /\ IsKnown(versions[g][j], knownAt)
              /\ b = [fact |-> g, version |-> AsKnown(versions[g][j], knownAt)]
              /\ b.fact = g /\ b.version = AsKnown(versions[g][j], knownAt)
              /\ b.version.version = j /\ b.version.valid_from = versions[g][j].valid_from
    BY <1>3, Zenon
<1>5. i \in Nat /\ j \in Nat
    BY <1>2, <1>4
<1>6. versions[f][i].valid_from \in Nat /\ versions[g][j].valid_from \in Nat
    BY <1>2, <1>4, EntryNumbers, Zenon
<1>7. /\ PropertyRank[f] \in Nat /\ PropertyRank[g] \in Nat
      /\ PropertyRank[f] = PropertyRank[g] => f = g
    BY PropertiesAssumption, Zenon
<1>8. f = g /\ i = j => a = b
    BY <1>2, <1>4, Zenon
<1> DEFINE va == versions[f][i].valid_from
           vb == versions[g][j].valid_from
<1>9. /\ EarlierEntry(a, b) <=>
            va < vb \/ (va = vb /\ (PropertyRank[f] < PropertyRank[g] \/ (f = g /\ i < j)))
      /\ EarlierEntry(b, a) <=>
            vb < va \/ (vb = va /\ (PropertyRank[g] < PropertyRank[f] \/ (g = f /\ j < i)))
    BY <1>2, <1>4, Zenon DEF EarlierEntry
<1>10. a = b \/ EarlierEntry(a, b) \/ EarlierEntry(b, a)
  <2> HIDE DEF va, vb
  <2>1. va \in Nat /\ vb \in Nat
    BY <1>6, Zenon DEF va, vb
  <2>2. \/ f = g /\ i = j
        \/ va < vb \/ (va = vb /\ (PropertyRank[f] < PropertyRank[g] \/ (f = g /\ i < j)))
        \/ vb < va \/ (vb = va /\ (PropertyRank[g] < PropertyRank[f] \/ (g = f /\ j < i)))
    BY <1>5, <1>7, <2>1
  <2> QED
    BY <1>8, <1>9, <2>2, Zenon
<1>11. EarlierEntry(a, b) => ~EarlierEntry(b, a)
  <2> HIDE DEF va, vb
  <2>1. va \in Nat /\ vb \in Nat
    BY <1>6, Zenon DEF va, vb
  <2> QED
    BY <1>5, <1>7, <1>9, <2>1
<1>12. ASSUME f = g, EarlierEntry(a, b)
       PROVE  /\ a.version.version < b.version.version
              /\ a.version.valid_until # NULL
              /\ a.version.valid_until <= b.version.valid_from
  <2>1. j < i => vb < va
    BY <1>2, <1>4, <1>12, KnownPair, Zenon
  <2>2. i < j
    <3> HIDE DEF va, vb
    <3>1. va \in Nat /\ vb \in Nat
      BY <1>6, Zenon DEF va, vb
    <3>2. i = j => va = vb
      BY <1>12, Zenon DEF va, vb
    <3> QED
      BY <1>5, <1>7, <1>9, <1>12, <2>1, <3>1, <3>2
  <2>3. /\ AsKnown(versions[f][i], knownAt).valid_until # NULL
        /\ AsKnown(versions[f][i], knownAt).valid_until <= versions[g][j].valid_from
    BY <1>2, <1>4, <1>12, <2>2, KnownPair, Zenon
  <2> QED
    BY <1>2, <1>4, <2>2, <2>3, Zenon
<1> QED
    BY <1>2, <1>4, <1>10, <1>11, <1>12, Zenon

\* The timeline is in order, whole and made of the histories of its facts.
LEMMA TimelineInOrderAlways == Inv => TimelineInOrder
<1> SUFFICES ASSUME Inv, NEW knownAt \in KnownAts
             PROVE  /\ \A a \in EntityTimeline(knownAt) : \A n \in 1 .. a.version.version :
                        \E b \in EntityTimeline(knownAt) : b.fact = a.fact /\ b.version.version = n
                    /\ \A f \in Facts :
                        History(f, knownAt) =
                            {e.version : e \in {x \in EntityTimeline(knownAt) : x.fact = f}}
  <2>1. \A knownAt \in KnownAts : knownAt \in Nat \cup {NULL}
    BY LedgerAssumption, Zenon DEF KnownAts
  <2> QED
    BY <2>1, TimelinePair, Zenon DEF TimelineInOrder
<1>0. knownAt \in Nat \cup {NULL}
    BY LedgerAssumption, Zenon DEF KnownAts
<1>1. ASSUME NEW a \in EntityTimeline(knownAt), NEW n \in 1 .. a.version.version
      PROVE  \E b \in EntityTimeline(knownAt) : b.fact = a.fact /\ b.version.version = n
  <2>1. PICK f \in Facts : \E i \in DOMAIN versions[f] :
              /\ versions[f] \in Seq(VersionType) /\ ChainOK(versions[f])
              /\ versions[f][i] \in VersionType /\ IsKnown(versions[f][i], knownAt)
              /\ a = [fact |-> f, version |-> AsKnown(versions[f][i], knownAt)]
              /\ a.fact = f /\ a.version = AsKnown(versions[f][i], knownAt)
              /\ a.version.version = i /\ a.version.valid_from = versions[f][i].valid_from
    BY <1>0, EntryFields, Zenon
  <2>2. PICK i \in DOMAIN versions[f] :
              /\ versions[f] \in Seq(VersionType) /\ ChainOK(versions[f])
              /\ versions[f][i] \in VersionType /\ IsKnown(versions[f][i], knownAt)
              /\ a = [fact |-> f, version |-> AsKnown(versions[f][i], knownAt)]
              /\ a.fact = f /\ a.version = AsKnown(versions[f][i], knownAt)
              /\ a.version.version = i /\ a.version.valid_from = versions[f][i].valid_from
    BY <2>1, Zenon
  <2>3. n \in 1 .. i
    BY <2>2, Zenon
  <2>4. n \in DOMAIN versions[f] /\ (n = i \/ n < i)
    BY <2>2, <2>3
  <2>5. IsKnown(versions[f][n], knownAt)
    BY <1>0, <2>2, <2>4, KnownPair, Zenon
  <2>6. versions[f][n] \in VersionType
    BY <2>2, <2>4
  <2>7. versions[f][n].version = n
    BY <2>2, <2>4, ChainRow, Zenon
  <2>8. PICK b : b = [fact |-> f, version |-> AsKnown(versions[f][n], knownAt)]
    BY Zenon
  <2>9. b \in EntityTimeline(knownAt)
    BY <2>4, <2>5, <2>8, TimelineEntries, Zenon DEF HistoryAsKnown
  <2>10. b.fact = f /\ b.version = AsKnown(versions[f][n], knownAt)
    BY <2>8, Zenon
  <2>11. b.version.version = n
    <3> PICK w : w = AsKnown(versions[f][n], knownAt)
      BY Zenon
    <3>1. w.version = versions[f][n].version
      BY <2>6, AsKnownIdentity, Zenon
    <3> QED
      BY <2>7, <2>10, <3>1, Zenon
  <2> QED
    BY <2>2, <2>9, <2>10, <2>11, Zenon
<1>2. ASSUME NEW f \in Facts, NEW v
      PROVE  v \in History(f, knownAt) <=>
                \E e \in EntityTimeline(knownAt) : e.fact = f /\ v = e.version
  <2>1. ASSUME NEW i \in HistoryAsKnown(versions[f], knownAt),
               v = AsKnown(versions[f][i], knownAt)
        PROVE  \E e \in EntityTimeline(knownAt) : e.fact = f /\ v = e.version
    <3>1. PICK e : e = [fact |-> f, version |-> AsKnown(versions[f][i], knownAt)]
      BY Zenon
    <3>2. e \in EntityTimeline(knownAt)
      BY <3>1, TimelineEntries, Zenon
    <3>3. e.fact = f /\ e.version = AsKnown(versions[f][i], knownAt)
      BY <3>1, Zenon
    <3> QED
      BY <2>1, <3>2, <3>3, Zenon
  <2>2. ASSUME NEW e \in EntityTimeline(knownAt), e.fact = f, v = e.version
        PROVE  \E i \in HistoryAsKnown(versions[f], knownAt) : v = AsKnown(versions[f][i], knownAt)
    <3>1. PICK g \in Facts : \E i \in DOMAIN versions[g] :
              /\ IsKnown(versions[g][i], knownAt)
              /\ e.fact = g /\ e.version = AsKnown(versions[g][i], knownAt)
      BY <1>0, EntryFields, Zenon
    <3> QED
      BY <2>2, <3>1, Zenon DEF HistoryAsKnown
  <2> QED
    BY <2>1, <2>2, Zenon DEF History
<1>3. ASSUME NEW f \in Facts
      PROVE  History(f, knownAt) = {e.version : e \in {x \in EntityTimeline(knownAt) : x.fact = f}}
    BY <1>2, Zenon
<1> QED
    BY <1>1, <1>3, Zenon

\* The rows of one fact, by number.
LEMMA ChainRows ==
    ASSUME Inv, NEW f \in Facts
    PROVE  /\ versions[f] \in Seq(VersionType) /\ ChainOK(versions[f])
           /\ Rows(f) = 1 .. Len(versions[f]) /\ Len(versions[f]) \in Nat
           /\ \A i \in Rows(f) : /\ versions[f][i] \in VersionType
                                 /\ versions[f][i].version = i
                                 /\ versions[f][i].id # NULL
                                 /\ versions[f][i].supersedes_id =
                                      IF i = 1 THEN NULL ELSE versions[f][i - 1].id
           /\ \A i, j \in Rows(f) : versions[f][i].id = versions[f][j].id => i = j
<1>1. versions[f] \in Seq(VersionType) /\ ChainOK(versions[f])
    BY Zenon DEF Inv, TypeOK, ChainsOK
<1>2. Rows(f) = 1 .. Len(versions[f]) /\ Len(versions[f]) \in Nat
    BY <1>1 DEF Rows
<1>3. \A i \in Rows(f) : versions[f][i] \in VersionType
    BY <1>1 DEF Rows
<1>4. \A i \in Rows(f) : versions[f][i].id # NULL
    BY <1>3, LedgerAssumption, Zenon DEF VersionType
<1>5. \A i \in Rows(f) : /\ versions[f][i].version = i
                         /\ versions[f][i].supersedes_id =
                              IF i = 1 THEN NULL ELSE versions[f][i - 1].id
    BY <1>1, ChainRow, Zenon DEF Rows
<1>6. \A i, j \in Rows(f) : versions[f][i].id = versions[f][j].id => i = j
    BY Zenon DEF Inv, CommittedOnce
<1> QED
    BY <1>1, <1>2, <1>3, <1>4, <1>5, <1>6, Zenon

\* The ancestors of a version are the rows below it.
LEMMA AncestorRows ==
    ASSUME Inv, NEW f \in Facts, NEW i \in Rows(f), NEW v
    PROVE  v \in Lineage(f, i).ancestors <=> \E j \in Rows(f) : j < i /\ v = versions[f][j]
<1>1. \A j \in Rows(f) : versions[f][j].version = j
    BY ChainRows, Zenon
<1>2. Lineage(f, i).ancestors = {w \in Chain(f) : w.version < versions[f][i].version}
    BY Zenon DEF Lineage
<1>3. v \in Lineage(f, i).ancestors <=> v \in Chain(f) /\ v.version < i
    BY <1>1, <1>2, Zenon
<1>4. v \in Chain(f) <=> \E j \in Rows(f) : v = versions[f][j]
    BY Zenon DEF Chain
<1> QED
    BY <1>1, <1>3, <1>4, Zenon

\* The descendants of a version are the rows above it.
LEMMA DescendantRows ==
    ASSUME Inv, NEW f \in Facts, NEW i \in Rows(f), NEW d \in Lineage(f, i).descendants
    PROVE  \E j \in Rows(f) : i < j /\ d = versions[f][j]
<1>1. \A j \in Rows(f) : versions[f][j].version = j /\ j \in Nat
    BY ChainRows
<1>2. Lineage(f, i).descendants = {w \in Chain(f) : w.version > versions[f][i].version}
    BY Zenon DEF Lineage
<1>3. d \in Chain(f) /\ d.version > i
    BY <1>1, <1>2, Zenon
<1>4. PICK j \in Rows(f) : d = versions[f][j]
    BY <1>3, Zenon DEF Chain
<1>5. j > i
    BY <1>1, <1>3, <1>4, Zenon
<1>6. i < j
    BY <1>1, <1>5
<1> QED
    BY <1>4, <1>6, Zenon

\* Lineage is the closure of supersedes_id.
LEMMA LineageAlways == Inv => LineageIsSupersession
<1> SUFFICES ASSUME Inv, NEW f \in Facts, NEW i \in Rows(f)
             PROVE  /\ Lineage(f, i).ancestors =
                        UNION {{p} \cup Lineage(f, p.version).ancestors :
                                  p \in {q \in Chain(f) : q.id = versions[f][i].supersedes_id}}
                    /\ \A d \in Lineage(f, i).descendants :
                          versions[f][i] \in Lineage(f, d.version).ancestors
    BY Zenon DEF LineageIsSupersession
<1>1. /\ Rows(f) = 1 .. Len(versions[f]) /\ Len(versions[f]) \in Nat
      /\ \A j \in Rows(f) : /\ versions[f][j].version = j
                            /\ versions[f][j].id # NULL
                            /\ versions[f][j].supersedes_id =
                                 IF j = 1 THEN NULL ELSE versions[f][j - 1].id
      /\ \A j, k \in Rows(f) : versions[f][j].id = versions[f][k].id => j = k
    BY ChainRows, Zenon
<1> DEFINE parents == {q \in Chain(f) : q.id = versions[f][i].supersedes_id}
<1>2. ASSUME NEW p
      PROVE  p \in parents <=> (i # 1 /\ p = versions[f][i - 1])
  <2>1. p \in Chain(f) <=> \E j \in Rows(f) : p = versions[f][j]
    BY Zenon DEF Chain
  <2>2. CASE i = 1
    <3>1. versions[f][i].supersedes_id = NULL
      BY <1>1, <2>2, Zenon
    <3>2. p \notin parents
      BY <1>1, <2>1, <3>1, Zenon
    <3> QED
      BY <2>2, <3>2, Zenon
  <2>3. CASE i # 1
    <3>1. i - 1 \in Rows(f)
      BY <1>1, <2>3
    <3>2. versions[f][i].supersedes_id = versions[f][i - 1].id
      BY <1>1, <2>3, Zenon
    <3> QED
      BY <1>1, <2>1, <2>3, <3>1, <3>2, ZenonT(40)
  <2> QED
    BY <2>2, <2>3, Zenon
<1>3. ASSUME NEW v
      PROVE  v \in Lineage(f, i).ancestors <=>
                \E p \in parents : v = p \/ v \in Lineage(f, p.version).ancestors
  <2> HIDE DEF parents
  <2>1. CASE i = 1
    <3>1. ~\E j \in Rows(f) : j < i
      BY <1>1, <2>1
    <3> QED
      BY <1>2, <2>1, <3>1, AncestorRows, Zenon
  <2>2. CASE i # 1
    <3>1. i - 1 \in Rows(f) /\ \A j \in Rows(f) : j < i <=> (j = i - 1 \/ j < i - 1)
      BY <1>1, <2>2
    <3>2. PICK k \in Rows(f) : k = i - 1
      BY <3>1, Zenon
    <3>3. versions[f][k].version = k
      BY <1>1, Zenon
    <3>4. v \in Lineage(f, k).ancestors <=> \E j \in Rows(f) : j < k /\ v = versions[f][j]
      BY AncestorRows
    <3>5. v \in Lineage(f, i).ancestors <=> \E j \in Rows(f) : j < i /\ v = versions[f][j]
      BY AncestorRows
    <3>6. \A j \in Rows(f) : j < i <=> (j = k \/ j < k)
      BY <3>1, <3>2, Zenon
    <3>7. v \in Lineage(f, i).ancestors <=>
              (v = versions[f][k] \/ v \in Lineage(f, k).ancestors)
      BY <3>4, <3>5, <3>6, Zenon
    <3>8. \A p : p \in parents <=> p = versions[f][k]
      BY <1>2, <2>2, <3>2, Zenon
    <3>9. (\E p \in parents : v = p \/ v \in Lineage(f, p.version).ancestors) <=>
              (v = versions[f][k] \/ v \in Lineage(f, versions[f][k].version).ancestors)
      BY <3>8, Zenon
    <3> QED
      BY <3>3, <3>7, <3>9, Zenon
  <2> QED
    BY <2>1, <2>2, Zenon
<1>4. Lineage(f, i).ancestors = UNION {{p} \cup Lineage(f, p.version).ancestors : p \in parents}
  <2> HIDE DEF parents
  <2>1. ASSUME NEW v
        PROVE  v \in UNION {{p} \cup Lineage(f, p.version).ancestors : p \in parents} <=>
                  \E p \in parents : v = p \/ v \in Lineage(f, p.version).ancestors
    OBVIOUS
  <2> QED
    BY <1>3, <2>1, Zenon
<1>5. ASSUME NEW d \in Lineage(f, i).descendants
      PROVE  versions[f][i] \in Lineage(f, d.version).ancestors
  <2>1. PICK j \in Rows(f) : i < j /\ d = versions[f][j]
    BY DescendantRows, Zenon
  <2>2. d.version = j
    BY <1>1, <2>1, Zenon
  <2> QED
    BY <2>1, <2>2, AncestorRows, Zenon
<1> QED
    BY <1>4, <1>5, Zenon

\* When a version counts as a transition, and when it answers at an instant.
LEMMA ResolveTransition ==
    ASSUME NEW chain \in Seq(VersionType), NEW knownAt \in Nat \cup {NULL},
           NEW s \in Nat, NEW t \in Nat, s < t,
           NEW i \in HistoryAsKnown(chain, knownAt),
           ~(s < chain[i].valid_from /\ chain[i].valid_from <= t)
    PROVE  i \in Resolve(chain, t, knownAt) => i \in Resolve(chain, s, knownAt)
<1>1. i \in DOMAIN chain
    BY Zenon DEF HistoryAsKnown
<1>2. chain[i] \in VersionType
    BY <1>1
<1> PICK w : w = AsKnown(chain[i], knownAt)
    BY Zenon
<1>3. w.valid_from = chain[i].valid_from /\ w.valid_from \in Nat
    BY <1>2, AsKnownFields, EntryNumbers, Zenon
<1>4. w.valid_until \in Nat \cup {NULL}
    BY <1>2, AsKnownFields, EntryNumbers, Zenon
<1>5. IsValidAt(w, t) => IsValidAt(w, s)
    BY <1>3, <1>4 DEF IsValidAt
<1> QED
    BY <1>5, Zenon DEF Resolve

\* A version that has ended stays ended.
LEMMA ResolveEnds ==
    ASSUME NEW chain \in Seq(VersionType), NEW knownAt \in Nat \cup {NULL},
           NEW r \in Nat, NEW s \in Nat, NEW t \in Nat, r < s, s < t,
           NEW i \in Resolve(chain, r, knownAt), i \notin Resolve(chain, s, knownAt)
    PROVE  i \notin Resolve(chain, t, knownAt)
<1>1. i \in DOMAIN chain
    BY Zenon DEF Resolve, HistoryAsKnown
<1>2. chain[i] \in VersionType
    BY <1>1
<1> PICK w : w = AsKnown(chain[i], knownAt)
    BY Zenon
<1>3. w.valid_from \in Nat /\ w.valid_until \in Nat \cup {NULL}
    BY <1>2, AsKnownFields, EntryNumbers, Zenon
<1>4. IsValidAt(w, r) /\ ~IsValidAt(w, s)
    BY Zenon DEF Resolve
<1>5. ~IsValidAt(w, t)
    BY <1>3, <1>4 DEF IsValidAt
<1> QED
    BY <1>5, Zenon DEF Resolve

\* What changes_between compares, on one chain.
Transitions(chain, start, end, knownAt) ==
    {i \in HistoryAsKnown(chain, knownAt) :
        start < chain[i].valid_from /\ chain[i].valid_from <= end}

Changed(chain, start, end, knownAt) ==
    \/ Resolve(chain, start, knownAt) # Resolve(chain, end, knownAt)
    \/ Transitions(chain, start, end, knownAt) # {}

\* The transitions of a period are those of its two parts.
LEMMA TransitionsCompose ==
    ASSUME NEW chain \in Seq(VersionType), NEW knownAt \in Nat \cup {NULL},
           NEW a \in Nat, NEW b \in Nat, NEW c \in Nat, a < b, b < c
    PROVE  Transitions(chain, a, c, knownAt) =
              Transitions(chain, a, b, knownAt) \cup Transitions(chain, b, c, knownAt)
<1>1. ASSUME NEW i \in HistoryAsKnown(chain, knownAt)
      PROVE  i \in Transitions(chain, a, c, knownAt) <=>
                i \in Transitions(chain, a, b, knownAt) \/ i \in Transitions(chain, b, c, knownAt)
  <2>1. i \in DOMAIN chain
    BY Zenon DEF HistoryAsKnown
  <2>2. chain[i] \in VersionType
    BY <2>1
  <2>3. PICK n \in Nat : n = chain[i].valid_from
    BY <2>2, EntryNumbers, Zenon
  <2>4. (a < n /\ n <= c) <=> ((a < n /\ n <= b) \/ (b < n /\ n <= c))
    OBVIOUS
  <2> QED
    BY <2>3, <2>4, Zenon DEF Transitions
<1>2. /\ Transitions(chain, a, c, knownAt) \subseteq HistoryAsKnown(chain, knownAt)
      /\ Transitions(chain, a, b, knownAt) \subseteq HistoryAsKnown(chain, knownAt)
      /\ Transitions(chain, b, c, knownAt) \subseteq HistoryAsKnown(chain, knownAt)
    BY Zenon DEF Transitions
<1> QED
    BY <1>1, <1>2, Zenon

\* A chain changes over a period exactly if it changes over one of its parts.
LEMMA ChangedComposes ==
    ASSUME NEW chain \in Seq(VersionType), NEW knownAt \in Nat \cup {NULL},
           NEW a \in Nat, NEW b \in Nat, NEW c \in Nat, a < b, b < c
    PROVE  Changed(chain, a, c, knownAt) <=>
              Changed(chain, a, b, knownAt) \/ Changed(chain, b, c, knownAt)
<1> DEFINE A == Resolve(chain, a, knownAt)
           B == Resolve(chain, b, knownAt)
           C == Resolve(chain, c, knownAt)
<1>1. Transitions(chain, a, c, knownAt) =
          Transitions(chain, a, b, knownAt) \cup Transitions(chain, b, c, knownAt)
    BY TransitionsCompose
<1>2. ASSUME Changed(chain, a, c, knownAt)
      PROVE  Changed(chain, a, b, knownAt) \/ Changed(chain, b, c, knownAt)
    BY <1>1, <1>2, Zenon DEF Changed
<1>3. ASSUME Changed(chain, a, b, knownAt) \/ Changed(chain, b, c, knownAt),
             Transitions(chain, a, c, knownAt) = {}
      PROVE  A # C
  <2>1. /\ Transitions(chain, a, b, knownAt) = {}
        /\ Transitions(chain, b, c, knownAt) = {}
    BY <1>1, <1>3, Zenon
  <2>2. A # B \/ B # C
    BY <1>3, <2>1, Zenon DEF Changed
  <2>3. A \subseteq HistoryAsKnown(chain, knownAt) /\ B \subseteq HistoryAsKnown(chain, knownAt)
        /\ C \subseteq HistoryAsKnown(chain, knownAt)
    BY Zenon DEF Resolve
  <2>4. ASSUME NEW i \in HistoryAsKnown(chain, knownAt)
        PROVE  /\ ~(a < chain[i].valid_from /\ chain[i].valid_from <= b)
               /\ ~(b < chain[i].valid_from /\ chain[i].valid_from <= c)
    BY <2>1, Zenon DEF Transitions
  <2>5. B \subseteq A
    BY <2>3, <2>4, ResolveTransition, Zenon
  <2>6. C \subseteq B
    BY <2>3, <2>4, ResolveTransition, Zenon
  <2>7. ASSUME NEW i \in A, i \notin B PROVE i \notin C
    BY <2>7, ResolveEnds, Zenon
  <2> HIDE DEF A, B, C
  <2> QED
    BY <2>2, <2>5, <2>6, <2>7, Zenon
<1> QED
    BY <1>2, <1>3, Zenon DEF Changed

\* What changes_between reports.
LEMMA ChangeEntries ==
    ASSUME NEW start, NEW end, NEW knownAt, NEW x
    PROVE  x \in ChangesBetween(start, end, knownAt) <=>
              \E f \in Facts :
                 /\ Changed(versions[f], start, end, knownAt)
                 /\ x = [fact |-> f, change |-> ChangeBetween(versions[f], start, end, knownAt)]
<1>1. ASSUME NEW f
      PROVE  f \in {e[1] : e \in EntityVersions(knownAt)} <=>
                f \in Facts /\ HistoryAsKnown(versions[f], knownAt) # {}
  <2>1. ASSUME NEW p
        PROVE  p \in EntityVersions(knownAt) <=>
                  \E g \in Facts : \E i \in HistoryAsKnown(versions[g], knownAt) : p = <<g, i>>
    BY DEF EntityVersions
  <2>2. ASSUME NEW g, NEW i PROVE <<g, i>>[1] = g
    OBVIOUS
  <2>3. ASSUME f \in Facts, HistoryAsKnown(versions[f], knownAt) # {}
        PROVE  \E e \in EntityVersions(knownAt) : f = e[1]
    <3>1. PICK i \in HistoryAsKnown(versions[f], knownAt) : TRUE
      BY <2>3, Zenon
    <3>2. PICK p : p = <<f, i>>
      BY Zenon
    <3> QED
      BY <2>1, <2>2, <2>3, <3>2, Zenon
  <2>4. ASSUME NEW e \in EntityVersions(knownAt), f = e[1]
        PROVE  f \in Facts /\ HistoryAsKnown(versions[f], knownAt) # {}
    <3>1. PICK g \in Facts : \E i \in HistoryAsKnown(versions[g], knownAt) : e = <<g, i>>
      BY <2>1, Zenon
    <3> QED
      BY <2>2, <2>4, <3>1, Zenon
  <2> QED
    BY <2>3, <2>4, Zenon
<1>2. ASSUME NEW f
      PROVE  /\ Changed(versions[f], start, end, knownAt) <=>
                   LET c == ChangeBetween(versions[f], start, end, knownAt)
                   IN  c.before # c.after \/ c.transitions # {}
             /\ Changed(versions[f], start, end, knownAt) =>
                   HistoryAsKnown(versions[f], knownAt) # {}
  <2>1. PICK c : c = ChangeBetween(versions[f], start, end, knownAt)
    BY Zenon
  <2>2. /\ c.before = Resolve(versions[f], start, knownAt)
        /\ c.after = Resolve(versions[f], end, knownAt)
        /\ c.transitions = Transitions(versions[f], start, end, knownAt)
    BY <2>1, Zenon DEF ChangeBetween, Transitions
  <2>3. Changed(versions[f], start, end, knownAt) =>
                   HistoryAsKnown(versions[f], knownAt) # {}
    BY Zenon DEF Changed, Resolve, Transitions
  <2> QED
    BY <2>1, <2>2, <2>3, Zenon DEF Changed
<1>3. ASSUME NEW f, x = [fact |-> f, change |-> ChangeBetween(versions[f], start, end, knownAt)]
      PROVE  x.change = ChangeBetween(versions[f], start, end, knownAt)
    BY <1>3, Zenon
<1>4. x \in ComparedFacts(start, end, knownAt) <=>
          \E f \in {e[1] : e \in EntityVersions(knownAt)} :
              x = [fact |-> f, change |-> ChangeBetween(versions[f], start, end, knownAt)]
    BY Zenon DEF ComparedFacts
<1>5. ASSUME x \in ChangesBetween(start, end, knownAt)
      PROVE  \E f \in Facts :
                 /\ Changed(versions[f], start, end, knownAt)
                 /\ x = [fact |-> f, change |-> ChangeBetween(versions[f], start, end, knownAt)]
  <2>1. /\ x \in ComparedFacts(start, end, knownAt)
        /\ x.change.before # x.change.after \/ x.change.transitions # {}
    BY <1>5, Zenon DEF ChangesBetween
  <2>2. PICK f \in {e[1] : e \in EntityVersions(knownAt)} :
            x = [fact |-> f, change |-> ChangeBetween(versions[f], start, end, knownAt)]
    BY <1>4, <2>1, Zenon
  <2>3. f \in Facts
    BY <1>1, Zenon
  <2>4. Changed(versions[f], start, end, knownAt)
    BY <1>2, <1>3, <2>1, <2>2, Zenon
  <2> QED
    BY <2>2, <2>3, <2>4, Zenon
<1>6. ASSUME NEW f \in Facts, Changed(versions[f], start, end, knownAt),
             x = [fact |-> f, change |-> ChangeBetween(versions[f], start, end, knownAt)]
      PROVE  x \in ChangesBetween(start, end, knownAt)
  <2>1. x \in ComparedFacts(start, end, knownAt)
    BY <1>1, <1>2, <1>4, <1>6, Zenon
  <2>2. x.change.before # x.change.after \/ x.change.transitions # {}
    BY <1>2, <1>3, <1>6, Zenon
  <2> QED
    BY <2>1, <2>2, Zenon DEF ChangesBetween
<1> QED
    BY <1>5, <1>6, Zenon

\* A reported change x of the fact f, taken apart.
ReportsChange(x, f, start, end, knownAt) ==
    /\ f \in Facts
    /\ x.change.before = Resolve(versions[f], start, knownAt)
    /\ x.change.after = Resolve(versions[f], end, knownAt)
    /\ x.change.transitions = Transitions(versions[f], start, end, knownAt)

LEMMA ChangeFields ==
    ASSUME NEW start, NEW end, NEW knownAt, NEW x \in ChangesBetween(start, end, knownAt),
           NEW f, f = x.fact
    PROVE  ReportsChange(x, f, start, end, knownAt)
<1>1. PICK g \in Facts :
          x = [fact |-> g, change |-> ChangeBetween(versions[g], start, end, knownAt)]
    BY ChangeEntries
<1>2. PICK c : c = ChangeBetween(versions[g], start, end, knownAt)
    BY Zenon
<1>3. x.fact = g /\ x.change = c
    BY <1>1, <1>2, Zenon
<1>4. /\ c.before = Resolve(versions[g], start, knownAt)
      /\ c.after = Resolve(versions[g], end, knownAt)
      /\ c.transitions = Transitions(versions[g], start, end, knownAt)
    BY <1>2, Zenon DEF ChangeBetween, Transitions
<1>5. f = g
    BY <1>3, Zenon
<1> QED
    BY <1>3, <1>4, <1>5, Zenon DEF ReportsChange

\* The facts reported are those whose chain changed.
LEMMA ChangedFactsAre ==
    ASSUME NEW start, NEW end, NEW knownAt, NEW f
    PROVE  f \in ChangedFacts(ChangesBetween(start, end, knownAt)) <=>
              f \in Facts /\ Changed(versions[f], start, end, knownAt)
<1>1. ASSUME NEW x \in ChangesBetween(start, end, knownAt), f = x.fact
      PROVE  f \in Facts /\ Changed(versions[f], start, end, knownAt)
  <2>1. PICK g \in Facts :
            /\ Changed(versions[g], start, end, knownAt)
            /\ x = [fact |-> g, change |-> ChangeBetween(versions[g], start, end, knownAt)]
    BY ChangeEntries
  <2>2. x.fact = g
    BY <2>1, Zenon
  <2> QED
    BY <1>1, <2>1, <2>2, Zenon
<1>2. ASSUME f \in Facts, Changed(versions[f], start, end, knownAt)
      PROVE  \E x \in ChangesBetween(start, end, knownAt) : f = x.fact
  <2>1. PICK x : x = [fact |-> f, change |-> ChangeBetween(versions[f], start, end, knownAt)]
    BY Zenon
  <2>2. x \in ChangesBetween(start, end, knownAt)
    BY <1>2, <2>1, ChangeEntries, Zenon
  <2>3. x.fact = f
    BY <2>1, Zenon
  <2> QED
    BY <2>2, <2>3, Zenon
<1> QED
    BY <1>1, <1>2, Zenon DEF ChangedFacts

\* The changes of a period are made of the changes of its parts.
LEMMA ChangesComposeAlways == Inv => ChangesCompose
<1> SUFFICES ASSUME Inv, NEW knownAt \in KnownAts, NEW a \in Instants, NEW b \in Instants,
                    NEW c \in Instants, a < b, b < c
             PROVE  /\ ChangedFacts(ChangesBetween(a, c, knownAt)) =
                          ChangedFacts(ChangesBetween(a, b, knownAt)) \cup ChangedFacts(ChangesBetween(b, c, knownAt))
                    /\ \A x \in ChangesBetween(a, b, knownAt), y \in ChangesBetween(b, c, knownAt),
                          z \in ChangesBetween(a, c, knownAt) :
                            x.fact = y.fact /\ y.fact = z.fact =>
                                /\ x.change.after = y.change.before
                                /\ z.change.before = x.change.before
                                /\ z.change.after = y.change.after
                                /\ z.change.transitions = x.change.transitions \cup y.change.transitions
    BY DEF ChangesCompose
<1>1. a \in Nat /\ b \in Nat /\ c \in Nat /\ knownAt \in Nat \cup {NULL}
    BY LedgerAssumption, Zenon DEF KnownAts
<1>2. \A f \in Facts : versions[f] \in Seq(VersionType)
    BY Zenon DEF Inv, TypeOK
<1>3. ASSUME NEW f \in Facts
      PROVE  Changed(versions[f], a, c, knownAt) <=>
                Changed(versions[f], a, b, knownAt) \/ Changed(versions[f], b, c, knownAt)
    BY <1>1, <1>2, ChangedComposes, Zenon
<1>4. ChangedFacts(ChangesBetween(a, c, knownAt)) =
          ChangedFacts(ChangesBetween(a, b, knownAt)) \cup ChangedFacts(ChangesBetween(b, c, knownAt))
  <2>1. ASSUME NEW f
        PROVE  f \in ChangedFacts(ChangesBetween(a, c, knownAt)) <=>
                  f \in ChangedFacts(ChangesBetween(a, b, knownAt)) \/ f \in ChangedFacts(ChangesBetween(b, c, knownAt))
    <3>1. /\ f \in ChangedFacts(ChangesBetween(a, c, knownAt)) <=>
                f \in Facts /\ Changed(versions[f], a, c, knownAt)
          /\ f \in ChangedFacts(ChangesBetween(a, b, knownAt)) <=>
                f \in Facts /\ Changed(versions[f], a, b, knownAt)
          /\ f \in ChangedFacts(ChangesBetween(b, c, knownAt)) <=>
                f \in Facts /\ Changed(versions[f], b, c, knownAt)
      BY ChangedFactsAre
    <3> QED
      BY <1>3, <3>1, Zenon
  <2> QED
    BY <2>1, Zenon
<1>5. ASSUME NEW x \in ChangesBetween(a, b, knownAt), NEW y \in ChangesBetween(b, c, knownAt),
             NEW z \in ChangesBetween(a, c, knownAt), x.fact = y.fact, y.fact = z.fact
      PROVE  /\ x.change.after = y.change.before
             /\ z.change.before = x.change.before /\ z.change.after = y.change.after
             /\ z.change.transitions = x.change.transitions \cup y.change.transitions
  <2> PICK f : f = x.fact
    BY Zenon
  <2>1. f = x.fact /\ f = y.fact /\ f = z.fact
    BY <1>5, Zenon
  <2>2. ReportsChange(x, f, a, b, knownAt)
    BY <2>1, ChangeFields, Zenon
  <2>3. ReportsChange(y, f, b, c, knownAt)
    BY <2>1, ChangeFields, Zenon
  <2>4. ReportsChange(z, f, a, c, knownAt)
    BY <2>1, ChangeFields, Zenon
  <2>0. f \in Facts
    BY <2>2, Zenon DEF ReportsChange
  <2>5. Transitions(versions[f], a, c, knownAt) =
            Transitions(versions[f], a, b, knownAt) \cup Transitions(versions[f], b, c, knownAt)
    <3>1. PICK chain \in Seq(VersionType) : chain = versions[f]
      BY <1>2, <2>0, Zenon
    <3>2. Transitions(chain, a, c, knownAt) =
              Transitions(chain, a, b, knownAt) \cup Transitions(chain, b, c, knownAt)
      BY <1>1, TransitionsCompose
    <3> QED
      BY <3>1, <3>2, Zenon
  <2> QED
    BY <2>2, <2>3, <2>4, <2>5, Zenon DEF ReportsChange
<1> QED
    BY <1>4, <1>5

\* facts_at gives the one version that the reference resolves to, unless revoked.
LEMMA TopAnswerIs ==
    ASSUME Inv, NEW f \in Facts, NEW validAt \in Instants, NEW knownAt \in KnownAts
    PROVE  TopAnswer(f, validAt, knownAt) =
              {i \in Resolve(versions[f], validAt, knownAt) :
                  NotRevokedCondition(versions[f][i], revocations, knownAt)}
<1> DEFINE A == Answer(f, validAt, knownAt)
<1>1. A = {i \in Resolve(versions[f], validAt, knownAt) :
              NotRevokedCondition(versions[f][i], revocations, knownAt)}
    BY SqlMatches, Zenon DEF SqlMatchesReference, KnownAts
<1>2. \A i, j \in A : i = j
    BY <1>1, ResolvesOnce, Zenon DEF UniqueResolution, KnownAts
<1>3. \A i \in A : i <= i
  <2>1. versions[f] \in Seq(VersionType)
    BY Zenon DEF Inv, TypeOK
  <2>2. \A i \in DOMAIN versions[f] : i <= i
    BY <2>1
  <2> QED
    BY <2>2, Zenon DEF Answer, FactsValidAt
<1>4. TopAnswer(f, validAt, knownAt) = {i \in A : \A j \in A : j <= i}
    BY Zenon DEF TopAnswer
<1> HIDE DEF A
<1>5. {i \in A : \A j \in A : j <= i} = A
    BY <1>2, <1>3, Zenon
<1> QED
    BY <1>1, <1>4, <1>5, Zenon

\* A fact that did not change over a period resolves alike at each of its instants.
LEMMA UnchangedResolves ==
    ASSUME NEW chain \in Seq(VersionType), NEW knownAt \in Nat \cup {NULL},
           NEW a \in Nat, NEW b \in Nat, NEW t \in Nat, a < b, a <= t, t <= b,
           ~Changed(chain, a, b, knownAt)
    PROVE  Resolve(chain, t, knownAt) = Resolve(chain, a, knownAt)
<1>1. \A u \in Nat : ~Changed(chain, a, u, knownAt) => Resolve(chain, u, knownAt) = Resolve(chain, a, knownAt)
    BY Zenon DEF Changed
<1>2. CASE t = a
    BY <1>2
<1>3. CASE t = b
    BY <1>1, <1>3, Zenon
<1>4. CASE a < t /\ t < b
    BY <1>1, <1>4, ChangedComposes, Zenon
<1> QED
    BY <1>2, <1>3, <1>4

\* changes_between explains every difference between two answers of facts_at.
LEMMA ChangesExplainAlways == Inv => ChangesExplainAnswers
<1> DEFINE Standing(f, rows, knownAt) ==
               {i \in rows : NotRevokedCondition(versions[f][i], revocations, knownAt)}
<1> SUFFICES ASSUME Inv, NEW knownAt \in KnownAts, NEW start \in Instants, NEW end \in Instants,
                    start < end
             PROVE  /\ \A x \in ChangesBetween(start, end, knownAt) :
                          /\ TopAnswer(x.fact, start, knownAt) = Standing(x.fact, x.change.before, knownAt)
                          /\ TopAnswer(x.fact, end, knownAt) = Standing(x.fact, x.change.after, knownAt)
                    /\ \A f \in Facts \ ChangedFacts(ChangesBetween(start, end, knownAt)), t \in Instants :
                          start <= t /\ t <= end => TopAnswer(f, t, knownAt) = TopAnswer(f, start, knownAt)
    BY Zenon DEF ChangesExplainAnswers
<1>1. start \in Nat /\ end \in Nat /\ Instants \subseteq Nat /\ knownAt \in Nat \cup {NULL}
    BY LedgerAssumption, Zenon DEF KnownAts
<1>2. ASSUME NEW x \in ChangesBetween(start, end, knownAt)
      PROVE  /\ TopAnswer(x.fact, start, knownAt) = Standing(x.fact, x.change.before, knownAt)
             /\ TopAnswer(x.fact, end, knownAt) = Standing(x.fact, x.change.after, knownAt)
  <2>1. PICK f : f = x.fact
    BY Zenon
  <2>2. ReportsChange(x, f, start, end, knownAt)
    BY <2>1, ChangeFields, Zenon
  <2>3. /\ f \in Facts /\ x.change.before = Resolve(versions[f], start, knownAt)
        /\ x.change.after = Resolve(versions[f], end, knownAt)
    BY <2>2, Zenon DEF ReportsChange
  <2>4. /\ TopAnswer(f, start, knownAt) = Standing(f, Resolve(versions[f], start, knownAt), knownAt)
        /\ TopAnswer(f, end, knownAt) = Standing(f, Resolve(versions[f], end, knownAt), knownAt)
    BY <2>3, TopAnswerIs, Zenon
  <2> HIDE DEF Standing
  <2> QED
    BY <2>1, <2>3, <2>4, Zenon
<1>3. ASSUME NEW f \in Facts \ ChangedFacts(ChangesBetween(start, end, knownAt)), NEW t \in Instants,
             start <= t, t <= end
      PROVE  TopAnswer(f, t, knownAt) = TopAnswer(f, start, knownAt)
  <2>1. ~Changed(versions[f], start, end, knownAt)
    BY ChangedFactsAre, Zenon
  <2>2. versions[f] \in Seq(VersionType) /\ t \in Nat
    BY <1>1, Zenon DEF Inv, TypeOK
  <2>3. Resolve(versions[f], t, knownAt) = Resolve(versions[f], start, knownAt)
    BY <1>1, <1>3, <2>1, <2>2, UnchangedResolves, Zenon
  <2>4. /\ TopAnswer(f, t, knownAt) = Standing(f, Resolve(versions[f], t, knownAt), knownAt)
        /\ TopAnswer(f, start, knownAt) = Standing(f, Resolve(versions[f], start, knownAt), knownAt)
    BY TopAnswerIs, Zenon
  <2> HIDE DEF Standing
  <2> QED
    BY <2>3, <2>4, Zenon
<1> QED
    BY <1>2, <1>3, Zenon

\* The reads of TemporalService (facts_at, timeline, history, lineage,
\* changes_between) agree with each other in every state of the ledger, whatever
\* requests interleave and however often the clock steps back: what each hides
\* of a version not known yet is the same, though one does it in SQL and the
\* others in Python; they differ by the revoked versions only, which facts_at
\* leaves out.
THEOREM ReadsAlwaysAgree == Spec => []ReadsAgree
<1>1. Inv => ReadsAgree
    BY TimelineAgreesAlways, TimelineInOrderAlways, LineageAlways, ChangesComposeAlways,
       ChangesExplainAlways, Zenon DEF ReadsAgree
<1> QED
    BY <1>1, Invariance, PTL

-----------------------------------------------------------------------------
(* The ledger under the decisions.                                         *)

\* Every step of agents and handlers is a step of the ledger, or none.
LEMMA LedgerStep == [DecisionsNext]_allVars => [Next]_vars
BY Zenon DEF DecisionsNext, allVars, HandlerStep, RevokeAndAssess, CommitRequest, RollbackRequest,
       DecisionsFinished, Next, Serve

\* Behaviours with decisions are behaviours of the ledger.
LEMMA LedgerUnderneath == DecisionsSpec => Spec
<1>1. DecisionsInit => Init
    BY Zenon DEF DecisionsInit
<1> QED
    BY <1>1, LedgerStep, PTL DEF DecisionsSpec, Spec

\* So everything that is proved of the ledger holds under decisions as well.
LEMMA LedgerInvariance == DecisionsSpec => []Inv
BY LedgerUnderneath, Invariance, PTL

-----------------------------------------------------------------------------
(* Committed versions, as snapshots refer to them.                         *)

\* The row of a committed version is a row of its fact, with its id.
LEMMA RowFound ==
    ASSUME Inv, NEW id \in Requests, Recorded(id)
    PROVE  /\ job[id].fact \in Facts
           /\ \E i \in DOMAIN versions[job[id].fact] :
                /\ versions[job[id].fact][i].id = id
                /\ Row(id) = versions[job[id].fact][i]
                /\ \A j \in DOMAIN versions[job[id].fact] :
                      versions[job[id].fact][j].id = id => j = i
<1> DEFINE f == job[id].fact
<1>1. f \in Facts
    BY JobFields, Zenon DEF Inv, LocksOK, Recorded
<1>2. PICK i \in DOMAIN versions[f] : versions[f][i].id = id
  <2>1. CommittedOnce
    BY Zenon DEF Inv
  <2> QED
    BY <2>1, Zenon DEF CommittedOnce, Recorded, Rows
<1>3. \A j \in DOMAIN versions[f] : versions[f][j].id = id => j = i
  <2>1. CommittedOnce
    BY Zenon DEF Inv
  <2>2. \A k, j \in DOMAIN versions[f] : versions[f][j].id = versions[f][k].id => k = j
    BY <1>1, <2>1, ZenonT(40) DEF CommittedOnce, Rows
  <2> QED
    BY <1>2, <2>2, Zenon
<1>4. (CHOOSE j \in DOMAIN versions[f] : versions[f][j].id = id) = i
    BY <1>2, <1>3, Zenon
<1>5. Row(id) = versions[f][i]
    BY <1>4, Zenon DEF Row, Rows
<1> QED
    BY <1>1, <1>2, <1>3, <1>5, Zenon

\* What is recorded stays recorded, with the value it was recorded with.
LEMMA RecordedStays ==
    ASSUME Inv, Inv', [Next]_vars, NEW id \in Requests, Recorded(id)
    PROVE  Recorded(id)' /\ Row(id)'.value = Row(id).value
<1> DEFINE f == job[id].fact
<1>1. Recorded(id)' /\ job'[id] = job[id]
    BY CommittedStable, Zenon DEF Inv, Recorded
<1>2. f \in Facts
    BY RowFound, Zenon
<1>3. PICK i \in DOMAIN versions[f] : versions[f][i].id = id /\ Row(id) = versions[f][i]
    BY RowFound, Zenon
<1>4. versions[f] \in Seq(VersionType)
    BY <1>2, Zenon DEF Inv, TypeOK
<1>5. versions[f][i] \in VersionType
    BY <1>3, <1>4
<1>6. /\ i \in DOMAIN versions'[f]
      /\ versions'[f][i].id = versions[f][i].id /\ versions'[f][i].value = versions[f][i].value
  <2>1. CASE UNCHANGED tables
    BY <1>3, <2>1, Zenon DEF tables
  <2>2. ASSUME NEW r \in Requests, Commit(r)
        PROVE  /\ i \in DOMAIN versions'[f]
               /\ versions'[f][i].id = versions[f][i].id
               /\ versions'[f][i].value = versions[f][i].value
    <3> DEFINE v == versions[f][i]
               w == versions'[f][i]
    <3>1. /\ i \in DOMAIN versions'[f]
          /\ \/ w = v
             \/ w = [v EXCEPT !.valid_until = w.valid_until,
                             !.valid_until_recorded_at = w.valid_until_recorded_at]
        BY <1>2, <1>3, <2>2, CommitKeepsRow, Zenon
    <3> HIDE DEF v, w
    <3>2. v \in VersionType
        BY <1>5, Zenon DEF v
    <3>3. w.id = v.id /\ w.value = v.value
        BY <3>1, <3>2, Zenon DEF VersionType
    <3> QED
        BY <3>1, <3>3, Zenon DEF v, w
  <2> QED
    BY <2>1, <2>2, TablesStep, Zenon
<1>7. \A j \in DOMAIN versions'[f] : versions'[f][j].id = id => j = i
  <2>1. CommittedOnce'
    BY Zenon DEF Inv
  <2>2. \A k, j \in DOMAIN versions'[f] : versions'[f][j].id = versions'[f][k].id => k = j
    BY <1>2, <2>1, ZenonT(40) DEF CommittedOnce, Rows
  <2> QED
    BY <1>3, <1>6, <2>2, Zenon
<1>8. (CHOOSE j \in DOMAIN versions'[f] : versions'[f][j].id = id) = i
    BY <1>3, <1>6, <1>7, Zenon
<1>9. Row(id)' = versions'[f][i]
    BY <1>1, <1>8, Zenon DEF Row, Rows
<1> QED
    BY <1>1, <1>3, <1>6, <1>9, Zenon

-----------------------------------------------------------------------------
(* What agents store is stored once.                                       *)

\* A step of the ledger alone leaves the agents alone.
LEMMA AgentOrNot ==
    ASSUME [DecisionsNext]_allVars
    PROVE  \/ UNCHANGED agentVars
           \/ \E a \in Agents : AgentNext(a) /\ UNCHANGED <<vars, impacts, assessed>>
BY Zenon DEF DecisionsNext, allVars, decisionVars, HandlerStep, RevokeAndAssess, CommitRequest,
       RollbackRequest, DecisionsFinished

\* A stored snapshot and a committed decision never change.
LEMMA StoredStays ==
    ASSUME DecisionsTypeOK, ContextsOK, DecisionsOK, [DecisionsNext]_allVars, NEW a \in Agents
    PROVE  /\ snapshots[a] # NULL => snapshots'[a] = snapshots[a]
           /\ decisions[a] # NULL => decisions'[a] = decisions[a]
<1>1. CASE UNCHANGED agentVars
    BY <1>1, Zenon DEF agentVars
<1>2. ASSUME NEW b \in Agents, AgentNext(b)
      PROVE  /\ snapshots[a] # NULL => snapshots'[a] = snapshots[a]
             /\ decisions[a] # NULL => decisions'[a] = decisions[a]
  <2> USE DEF DecisionsTypeOK
  <2>1. CASE PinContext(b) \/ SearchContext(b) \/ RecordDecision(b) \/ AgentFails(b)
    BY <2>1, Zenon DEF PinContext, SearchContext, RecordDecision, AgentFails
  <2>2. CASE StoreSnapshot(b)
    BY <2>2, Zenon DEF StoreSnapshot, ContextsOK
  <2>3. CASE CommitDecision(b)
    BY <2>3, Zenon DEF CommitDecision, DecisionsOK
  <2> QED
    BY <1>2, <2>1, <2>2, <2>3, Zenon DEF AgentNext
<1> QED
    BY <1>1, <1>2, AgentOrNot, Zenon

\* The content of a decision on a stored snapshot is the same ever after.
LEMMA ContentStays ==
    ASSUME Inv, Inv', [Next]_vars, NEW s, NEW decidedAt, NEW reliedOn, NEW outcome,
           snapshots'[s] = snapshots[s], snapshots[s].facts \subseteq Requests,
           \A id \in snapshots[s].facts : Recorded(id)
    PROVE  Content(s, decidedAt, reliedOn, outcome)' = Content(s, decidedAt, reliedOn, outcome)
<1>1. \A id \in snapshots[s].facts : Row(id)'.value = Row(id).value
    BY RecordedStays, Zenon
<1>2. {[fact_version_id |-> id, value |-> Row(id)'.value] : id \in snapshots'[s].facts} =
      {[fact_version_id |-> id, value |-> Row(id).value] : id \in snapshots[s].facts}
    BY <1>1, Zenon
<1> QED
    BY <1>2, Zenon DEF Content

\* A decision that is sealed stays sealed.
LEMMA SealedStays ==
    ASSUME Inv, Inv', DecisionsTypeOK, ContextsOK, DecisionsOK, [DecisionsNext]_allVars,
           NEW d \in DecisionType, Sealed(d)
    PROVE  Sealed(d)'
<1> DEFINE s == d.snapshot_id
<1>1. s \in Agents
    BY Zenon DEF DecisionType
<1>2. [Next]_vars
    BY LedgerStep, Zenon
<1>3. snapshots[s] # NULL /\ snapshots'[s] = snapshots[s]
    BY <1>1, StoredStays, Zenon DEF Sealed
<1>4. snapshots[s].facts \subseteq Requests
    BY <1>1, <1>3, Zenon DEF DecisionsTypeOK, SnapshotType
<1>5. \A id \in snapshots[s].facts : Recorded(id)
    BY <1>1, <1>3, Zenon DEF ContextsOK
<1>6. Content(s, d.decided_at, d.relied_on, d.receipt_sha256.outcome)' =
      Content(s, d.decided_at, d.relied_on, d.receipt_sha256.outcome)
    BY <1>2, <1>3, <1>4, <1>5, ContentStays, Zenon
<1> QED
    BY <1>3, <1>6, Zenon DEF Sealed

-----------------------------------------------------------------------------
(* The inductive invariant of Decisions.                                   *)

\* Nothing is stored at first.
LEMMA DecisionsInitInv == DecisionsInit => DecisionsInv
<1> SUFFICES ASSUME DecisionsInit PROVE DecisionsInv
    BY Zenon
<1>1. [valid_at |-> 0, known_at |-> 0] \in PointType
    BY Zenon DEF PointType
<1>2. DecisionsTypeOK
    BY <1>1, Zenon DEF DecisionsInit, DecisionsTypeOK, AgentSteps
<1>3. ContextsOK /\ DecisionsOK /\ AssessedOK /\ ImpactsTrue
    BY Zenon DEF DecisionsInit, ContextsOK, DecisionsOK, AssessedOK, ImpactsTrue
<1> QED
    BY <1>2, <1>3, Zenon DEF DecisionsInv

\* Search finds committed versions only.
LEMMA CandidatesRecorded ==
    ASSUME Inv, NEW validAt, NEW knownAt, NEW id \in Candidates(validAt, knownAt)
    PROVE  id \in Requests /\ Recorded(id)
<1>0. PICK f \in Facts : \E i \in Answer(f, validAt, knownAt) : id = versions[f][i].id
    BY Zenon DEF Candidates
<1>1. PICK i \in Answer(f, validAt, knownAt) : id = versions[f][i].id
    BY <1>0, Zenon
<1>2. i \in DOMAIN versions[f] /\ versions[f] \in Seq(VersionType)
    BY <1>1, Zenon DEF Answer, FactsValidAt, Inv, TypeOK
<1>3. versions[f][i] \in VersionType
    BY <1>2
<1>4. Recorded(versions[f][i].id)
    BY <1>2, SMTT(30) DEF Inv, CommittedOnce, Recorded, Rows
<1> QED
    BY <1>1, <1>3, <1>4, Zenon DEF VersionType

\* The digested document has its type.
LEMMA ContentTyped ==
    ASSUME Inv, DecisionsTypeOK, ContextsOK, NEW s \in Agents, snapshots[s] # NULL,
           NEW decidedAt \in Nat, NEW reliedOn \in SUBSET Requests,
           NEW outcome \in Outcomes
    PROVE  Content(s, decidedAt, reliedOn, outcome) \in ContentType
<1>1. snapshots[s].at \in PointType /\ snapshots[s].facts \subseteq Requests
    BY Zenon DEF DecisionsTypeOK, SnapshotType
<1>2. ASSUME NEW id \in snapshots[s].facts
      PROVE  [fact_version_id |-> id, value |-> Row(id).value] \in
                [fact_version_id: Requests, value: STRING]
  <2>1. id \in Requests /\ Recorded(id)
    BY <1>1, Zenon DEF ContextsOK
  <2>2. PICK i \in DOMAIN versions[job[id].fact] : Row(id) = versions[job[id].fact][i]
    BY <2>1, RowFound, Zenon
  <2>3. versions[job[id].fact] \in Seq(VersionType)
    BY <2>1, RowFound, Zenon DEF Inv, TypeOK
  <2>4. Row(id) \in VersionType
    BY <2>2, <2>3
  <2> QED
    BY <2>1, <2>4, Zenon DEF VersionType
<1>3. {[fact_version_id |-> id, value |-> Row(id).value] : id \in snapshots[s].facts}
        \subseteq [fact_version_id: Requests, value: STRING]
    BY <1>2, Zenon
<1> QED
    BY <1>1, <1>3, Zenon DEF Content, ContentType

\* Agents and revoke requests store rows of the right type.
LEMMA DecisionsTypeStep ==
    ASSUME Inv, Inv', DecisionsTypeOK, ContextsOK, [DecisionsNext]_allVars
    PROVE  DecisionsTypeOK'
<1> USE DEF DecisionsTypeOK
<1>1. ASSUME NEW a \in Agents, PinContext(a), UNCHANGED <<vars, impacts, assessed>>
      PROVE  DecisionsTypeOK'
  <2>1. PICK k \in KnownAtChoices, v \in ValidAtChoices :
            pinned' = [pinned EXCEPT ![a] =
                 [valid_at |-> IF v = NULL THEN IF k = NULL THEN clock ELSE k ELSE v,
                  known_at |-> IF k = NULL THEN clock ELSE k]]
    BY <1>1, Zenon DEF PinContext
  <2>2. clock \in Nat /\ (k # NULL => k \in Nat) /\ (v # NULL => v \in Nat)
    BY DecisionsAssumption, LedgerAssumption, Zenon DEF Inv, TypeOK
  <2>3. [valid_at |-> IF v = NULL THEN IF k = NULL THEN clock ELSE k ELSE v,
         known_at |-> IF k = NULL THEN clock ELSE k] \in PointType
    BY <2>2, Zenon DEF PointType
  <2> QED
    BY <1>1, <2>1, <2>3, Zenon DEF PinContext, AgentSteps
<1>2. ASSUME NEW a \in Agents, SearchContext(a), UNCHANGED <<vars, impacts, assessed>>
      PROVE  DecisionsTypeOK'
  <2>1. PICK ids \in SUBSET Candidates(pinned[a].valid_at, pinned[a].known_at) :
            found' = [found EXCEPT ![a] = ids]
    BY <1>2, Zenon DEF SearchContext
  <2>2. ids \in SUBSET Requests
    BY <2>1, CandidatesRecorded, Zenon
  <2> QED
    BY <1>2, <2>1, <2>2, Zenon DEF SearchContext, AgentSteps
<1>3. ASSUME NEW a \in Agents, StoreSnapshot(a), UNCHANGED <<vars, impacts, assessed>>
      PROVE  DecisionsTypeOK'
  <2>1. [at |-> pinned[a], facts |-> found[a]] \in SnapshotType
    BY Zenon DEF SnapshotType
  <2> QED
    BY <1>3, <2>1, Zenon DEF StoreSnapshot, AgentSteps
<1>4. ASSUME NEW a \in Agents, RecordDecision(a), UNCHANGED <<vars, impacts, assessed>>
      PROVE  DecisionsTypeOK'
  <2>0. PICK s \in {b \in Agents : snapshots[b] # NULL}, given \in Outcomes :
            \E reliedOn \in SUBSET snapshots[s].facts :
               draft' = [draft EXCEPT ![a] =
                 [snapshot_id |-> s, decided_at |-> clock, relied_on |-> reliedOn, outcome |-> Jsonb[given],
                  receipt_sha256 |-> Content(s, clock, reliedOn, given)]]
    BY <1>4, Zenon DEF RecordDecision
  <2>1. PICK reliedOn \in SUBSET snapshots[s].facts :
            draft' = [draft EXCEPT ![a] =
                 [snapshot_id |-> s, decided_at |-> clock, relied_on |-> reliedOn, outcome |-> Jsonb[given],
                  receipt_sha256 |-> Content(s, clock, reliedOn, given)]]
    BY <2>0, Zenon
  <2>2. reliedOn \in SUBSET Requests /\ clock \in Nat /\ Jsonb[given] \in Outcomes
    BY <2>1, DecisionsAssumption, Zenon DEF SnapshotType, Inv, TypeOK
  <2>3. Content(s, clock, reliedOn, given) \in ContentType
    BY <2>1, <2>2, ContentTyped, Zenon
  <2>4. [snapshot_id |-> s, decided_at |-> clock, relied_on |-> reliedOn, outcome |-> Jsonb[given],
         receipt_sha256 |-> Content(s, clock, reliedOn, given)] \in DecisionType
    BY <2>1, <2>2, <2>3, Zenon DEF DecisionType
  <2> QED
    BY <1>4, <2>1, <2>4, Zenon DEF RecordDecision, AgentSteps
<1>5. ASSUME NEW a \in Agents, CommitDecision(a) \/ AgentFails(a), UNCHANGED <<vars, impacts, assessed>>
      PROVE  DecisionsTypeOK'
    BY <1>5, Zenon DEF CommitDecision, AgentFails, AgentSteps
<1>6. ASSUME NEW r \in Requests, RevokeAndAssess(r) PROVE DecisionsTypeOK'
  <2>1. ASSUME NEW rev \in work'[r].revocations, NEW m \in ImpactRows(rev.fact_version_id)
        PROVE  m \in ImpactType
    <3>0. work'[r].revocations \subseteq RevocationType
        BY Zenon DEF Inv, TypeOK, WorkType
    <3>1. rev.fact_version_id \in Requests
        BY <3>0, Zenon DEF RevocationType
    <3>2. PICK a \in DecisionsWith(rev.fact_version_id) :
            m = [fact_version_id |-> rev.fact_version_id, decision_id |-> a,
                 relied_on |-> rev.fact_version_id \in decisions[a].relied_on]
        BY <2>1, Zenon DEF ImpactRows
    <3>3. a \in Agents
        BY Zenon DEF DecisionsWith
    <3>4. (rev.fact_version_id \in decisions[a].relied_on) \in BOOLEAN
        OBVIOUS
    <3> QED
        BY <3>1, <3>2, <3>3, <3>4, Zenon DEF ImpactType
  <2>2. (UNION {ImpactRows(rev.fact_version_id) : rev \in work'[r].revocations}) \subseteq ImpactType
    BY <2>1, Zenon
  <2> QED
    BY <1>6, <2>2, Zenon DEF RevokeAndAssess, agentVars
<1>7. ASSUME NEW r \in Requests, CommitRequest(r) \/ RollbackRequest(r) PROVE DecisionsTypeOK'
    BY <1>7, Zenon DEF CommitRequest, RollbackRequest, agentVars
<1>8. CASE UNCHANGED decisionVars
    BY <1>8, Zenon DEF decisionVars, agentVars
<1> QED
    BY <1>1, <1>2, <1>3, <1>4, <1>5, <1>6, <1>7, <1>8, Zenon
    DEF DecisionsNext, AgentNext, HandlerStep, DecisionsFinished, allVars

\* Snapshots hold committed versions, which stay committed.
LEMMA ContextsStep ==
    ASSUME Inv, Inv', DecisionsTypeOK, ContextsOK, [DecisionsNext]_allVars
    PROVE  ContextsOK'
<1> USE DEF DecisionsTypeOK
<1>0. ASSUME NEW id \in Requests, Recorded(id) PROVE Recorded(id)'
    BY <1>0, LedgerStep, RecordedStays, Zenon
<1> DEFINE Context(a) ==
               /\ \A id \in found'[a] : Recorded(id)'
               /\ snapshots'[a] # NULL => \A id \in snapshots'[a].facts : Recorded(id)'
               /\ step'[a] \in {"idle", "pinned", "searched"} => snapshots'[a] = NULL
               /\ step'[a] # "searched" => found'[a] = {}
<1>a. ASSUME NEW a \in Agents, NEW id \in found[a] PROVE Recorded(id)'
    BY <1>0, Zenon DEF ContextsOK
<1>b. ASSUME NEW a \in Agents, snapshots[a] # NULL, NEW id \in snapshots[a].facts
      PROVE  Recorded(id)'
    BY <1>0, <1>b, Zenon DEF ContextsOK, SnapshotType
<1>c. ASSUME NEW a \in Agents, snapshots'[a] = snapshots[a], found'[a] = found[a], step'[a] = step[a]
      PROVE  Context(a)
    BY <1>a, <1>b, <1>c, Zenon DEF ContextsOK
<1>1. CASE UNCHANGED agentVars
    BY <1>1, <1>c, Zenon DEF agentVars, ContextsOK
<1>2. ASSUME NEW b \in Agents, AgentNext(b), UNCHANGED <<vars, impacts, assessed>>, NEW a \in Agents
      PROVE  Context(a)
  <2>1. CASE a # b
    BY <1>2, <1>c, <2>1, Zenon DEF AgentNext, PinContext, SearchContext, StoreSnapshot,
           RecordDecision, CommitDecision, AgentFails
  <2>2. CASE a = b /\ SearchContext(b)
    <3>1. PICK ids \in SUBSET Candidates(pinned[a].valid_at, pinned[a].known_at) :
            found' = [found EXCEPT ![a] = ids]
        BY <2>2, Zenon DEF SearchContext
    <3>2. \A id \in found'[a] : Recorded(id)'
        BY <1>0, <3>1, CandidatesRecorded, Zenon
    <3> QED
        BY <2>2, <3>2, Zenon DEF SearchContext, ContextsOK
  <2>3. CASE a = b /\ StoreSnapshot(b)
    <3>1. snapshots'[a].facts = found[a] /\ found'[a] = {} /\ step'[a] = "captured"
        BY <2>3, Zenon DEF StoreSnapshot
    <3> QED
        BY <1>a, <3>1, Zenon
  <2>4. CASE a = b /\ (PinContext(b) \/ RecordDecision(b) \/ CommitDecision(b) \/ AgentFails(b))
    <3>1. snapshots'[a] = snapshots[a] /\ (found'[a] = found[a] \/ found'[a] = {})
        BY <2>4, Zenon DEF PinContext, RecordDecision, CommitDecision, AgentFails
    <3>2. /\ step'[a] \in {"idle", "pinned", "searched"} => snapshots'[a] = NULL
          /\ found'[a] = {}
        BY <2>4, <3>1, Zenon DEF PinContext, RecordDecision, CommitDecision, AgentFails, ContextsOK
    <3> QED
        BY <1>b, <3>1, <3>2, Zenon
  <2> QED
    BY <1>2, <2>1, <2>2, <2>3, <2>4, Zenon DEF AgentNext
<1>3. CASE \A a \in Agents : Context(a)
    BY <1>3, Zenon DEF ContextsOK
<1> QED
    BY <1>1, <1>2, <1>3, AgentOrNot, Zenon

\* A decision is committed as it was drafted, and its content stays.
LEMMA DecisionsStep ==
    ASSUME Inv, Inv', DecisionsTypeOK, DecisionsTypeOK', ContextsOK, DecisionsOK,
           [DecisionsNext]_allVars
    PROVE  DecisionsOK'
<1> USE DEF DecisionsTypeOK
<1>a. ASSUME NEW d \in DecisionType, Sealed(d) PROVE Sealed(d)'
    BY <1>a, SealedStays, Zenon
<1>b. ASSUME NEW a \in Agents, draft'[a] = draft[a], draft'[a] # NULL PROVE Sealed(draft[a])'
  <2>1. PICK d \in DecisionType : d = draft[a] /\ d = draft'[a]
    BY <1>b, Zenon
  <2>2. Sealed(d)
    BY <1>b, <2>1, Zenon DEF DecisionsOK
  <2>3. Sealed(d)'
    BY <1>a, <2>2, Zenon
  <2> QED
    BY <2>1, <2>3, Zenon DEF Sealed
<1>c. ASSUME NEW a \in Agents, decisions[a] # NULL
      PROVE  decisions'[a] = decisions[a] /\ Sealed(decisions[a])'
  <2>0. decisions'[a] = decisions[a]
    BY <1>c, StoredStays, Zenon
  <2>1. PICK d \in DecisionType : d = decisions[a] /\ d = decisions'[a]
    BY <1>c, <2>0, Zenon
  <2>2. Sealed(d)
    BY <1>c, <2>1, Zenon DEF DecisionsOK
  <2>3. Sealed(d)'
    BY <1>a, <2>2, Zenon
  <2> QED
    BY <2>0, <2>1, <2>3, Zenon DEF Sealed
<1>d. ASSUME NEW b \in Agents, RecordDecision(b), UNCHANGED vars PROVE Sealed(draft[b])'
  <2>0. PICK s \in {c \in Agents : snapshots[c] # NULL}, given \in Outcomes :
            \E reliedOn \in SUBSET snapshots[s].facts :
               draft' = [draft EXCEPT ![b] =
                 [snapshot_id |-> s, decided_at |-> clock, relied_on |-> reliedOn, outcome |-> Jsonb[given],
                  receipt_sha256 |-> Content(s, clock, reliedOn, given)]]
    BY <1>d, Zenon DEF RecordDecision
  <2>1. PICK reliedOn \in SUBSET snapshots[s].facts :
            draft' = [draft EXCEPT ![b] =
                 [snapshot_id |-> s, decided_at |-> clock, relied_on |-> reliedOn, outcome |-> Jsonb[given],
                  receipt_sha256 |-> Content(s, clock, reliedOn, given)]]
    BY <2>0, Zenon
  <2>2. snapshots' = snapshots /\ UNCHANGED <<versions, job>>
    BY <1>d, Zenon DEF RecordDecision, vars, tables
  <2>3. PICK now : now = clock
    BY Zenon
  <2>4. PICK content : content = Content(s, now, reliedOn, given)
    BY Zenon
  <2>b. content.outcome = given
    BY <2>4, Zenon DEF Content
  <2>a. content = Content(s, now, reliedOn, given)'
    <3>1. /\ [Next]_vars /\ snapshots'[s] = snapshots[s] /\ snapshots[s].facts \subseteq Requests
          /\ \A id \in snapshots[s].facts : Recorded(id)
        BY <2>2, LedgerStep, Zenon DEF ContextsOK, SnapshotType
    <3> QED
        BY <2>4, <3>1, ContentStays, Zenon
  <2>5. /\ draft'[b].snapshot_id = s /\ draft'[b].decided_at = now
        /\ draft'[b].relied_on = reliedOn /\ draft'[b].receipt_sha256 = content
        /\ draft'[b].outcome = Jsonb[given] /\ draft'[b].receipt_sha256.outcome = given
    BY <2>b, <2>1, <2>3, <2>4, Zenon
  <2>6. content = Content(draft[b].snapshot_id, draft[b].decided_at, draft[b].relied_on,
                          draft[b].receipt_sha256.outcome)'
    BY <2>a, <2>5, Zenon DEF Content
  <2> QED
    BY <2>1, <2>2, <2>5, <2>6, Zenon DEF Sealed
<1>e. ASSUME NEW b \in Agents, CommitDecision(b), decisions'[b] # NULL PROVE Sealed(decisions[b])'
  <2>1. PICK d \in DecisionType : d = draft[b] /\ d = decisions'[b]
    BY <1>e, Zenon DEF CommitDecision
  <2>2. Sealed(d)
    BY <1>e, <2>1, ZenonT(40) DEF DecisionsOK, CommitDecision
  <2>3. Sealed(d)'
    BY <1>a, <2>2, Zenon
  <2> QED
    BY <2>1, <2>3, Zenon DEF Sealed
<1>1. CASE UNCHANGED agentVars
    BY <1>1, <1>b, <1>c, Zenon DEF agentVars, DecisionsOK
<1>2. ASSUME NEW b \in Agents, AgentNext(b), UNCHANGED <<vars, impacts, assessed>>
      PROVE  DecisionsOK'
  <2>1. ASSUME NEW a \in Agents, draft'[a] # NULL PROVE Sealed(draft[a])'
    <3>1. CASE a # b
        BY <1>2, <1>b, <2>1, <3>1, Zenon DEF AgentNext, PinContext, SearchContext, StoreSnapshot,
               RecordDecision, CommitDecision, AgentFails
    <3>2. CASE a = b /\ RecordDecision(b)
        BY <1>2, <1>d, <3>2, Zenon
    <3>3. CASE a = b /\ (CommitDecision(b) \/ AgentFails(b))
        BY <2>1, <3>3, Zenon DEF CommitDecision, AgentFails
    <3>4. CASE a = b /\ (PinContext(b) \/ SearchContext(b) \/ StoreSnapshot(b))
        BY <1>b, <2>1, <3>4, Zenon DEF PinContext, SearchContext, StoreSnapshot
    <3> QED
        BY <1>2, <3>1, <3>2, <3>3, <3>4, Zenon DEF AgentNext
  <2>2. ASSUME NEW a \in Agents, decisions'[a] # NULL PROVE Sealed(decisions[a])' /\ step'[a] = "decided"
    <3>1. CASE decisions[a] # NULL
      <4>1. step[a] = "decided"
        BY <3>1, Zenon DEF DecisionsOK
      <4>2. step'[a] = "decided"
        BY <1>2, <4>1, Zenon DEF AgentNext, PinContext, SearchContext, StoreSnapshot,
               RecordDecision, CommitDecision, AgentFails
      <4> QED
        BY <1>c, <3>1, <4>2, Zenon
    <3>2. CASE decisions[a] = NULL
      <4>1. a = b /\ CommitDecision(b)
        BY <1>2, <2>2, <3>2, Zenon DEF AgentNext, PinContext, SearchContext, StoreSnapshot,
               RecordDecision, CommitDecision, AgentFails
      <4>2. step'[b] = "decided"
        BY <4>1, Zenon DEF CommitDecision
      <4> QED
        BY <1>e, <2>2, <4>1, <4>2, Zenon
    <3> QED
        BY <3>1, <3>2, Zenon
  <2> QED
    BY <2>1, <2>2, Zenon DEF DecisionsOK
<1> QED
    BY <1>1, <1>2, AgentOrNot, Zenon

\* The decisions with a version in their context only grow in number.
LEMMA DecisionsWithGrow ==
    ASSUME DecisionsTypeOK, ContextsOK, DecisionsOK, [DecisionsNext]_allVars,
           NEW id, NEW a \in DecisionsWith(id)
    PROVE  a \in DecisionsWith(id)' /\ decisions'[a] = decisions[a]
<1>1. a \in Agents /\ decisions[a] # NULL
    BY Zenon DEF DecisionsWith
<1>2. decisions'[a] = decisions[a]
    BY <1>1, StoredStays, Zenon
<1>3. decisions[a].snapshot_id \in Agents /\ snapshots[decisions[a].snapshot_id] # NULL
    BY <1>1, Zenon DEF DecisionsOK, Sealed, DecisionsTypeOK, DecisionType
<1>4. snapshots'[decisions[a].snapshot_id] = snapshots[decisions[a].snapshot_id]
    BY <1>3, StoredStays, Zenon
<1> QED
    BY <1>1, <1>2, <1>4, Zenon DEF DecisionsWith

\* The impact rows a revoke request holds stay true until it commits them.
LEMMA AssessedStep ==
    ASSUME Inv, Inv', DecisionsTypeOK, DecisionsTypeOK', ContextsOK, DecisionsOK, AssessedOK,
           [DecisionsNext]_allVars
    PROVE  AssessedOK'
<1> DEFINE Impact(r, m) ==
               /\ phase'[r] = "written"
               /\ \E rev \in work'[r].revocations : rev.fact_version_id = m.fact_version_id
               /\ m.decision_id \in DecisionsWith(m.fact_version_id)'
               /\ m.relied_on = (m.fact_version_id \in decisions'[m.decision_id].relied_on)
<1>1. SUFFICES ASSUME NEW r \in Requests, NEW m \in assessed'[r] PROVE Impact(r, m)
    BY Zenon DEF AssessedOK
<1>2. ASSUME m \in assessed[r], phase'[r] = phase[r], work'[r] = work[r] PROVE Impact(r, m)
  <2>1. /\ phase[r] = "written"
        /\ \E rev \in work[r].revocations : rev.fact_version_id = m.fact_version_id
        /\ m.decision_id \in DecisionsWith(m.fact_version_id)
        /\ m.relied_on = (m.fact_version_id \in decisions[m.decision_id].relied_on)
    BY <1>2, Zenon DEF AssessedOK
  <2>2. /\ m.decision_id \in DecisionsWith(m.fact_version_id)'
        /\ decisions'[m.decision_id] = decisions[m.decision_id]
    BY <2>1, DecisionsWithGrow, Zenon
  <2> QED
    BY <1>2, <2>1, <2>2, Zenon
<1>3. CASE \E a \in Agents : AgentNext(a) /\ UNCHANGED <<vars, impacts, assessed>>
    BY <1>2, <1>3, Zenon DEF vars
<1>4. CASE RevokeAndAssess(r)
  <2>1. assessed'[r] = UNION {ImpactRows(rev.fact_version_id) : rev \in work'[r].revocations}
    BY <1>4, Zenon DEF RevokeAndAssess, DecisionsTypeOK
  <2>2. PICK rev \in work'[r].revocations : m \in ImpactRows(rev.fact_version_id)
    BY <2>1, Zenon
  <2>3. PICK a \in DecisionsWith(rev.fact_version_id) :
            m = [fact_version_id |-> rev.fact_version_id, decision_id |-> a,
                 relied_on |-> rev.fact_version_id \in decisions[a].relied_on]
    BY <2>2, Zenon DEF ImpactRows
  <2>4. a \in DecisionsWith(rev.fact_version_id)' /\ decisions'[a] = decisions[a]
    BY <2>3, DecisionsWithGrow, Zenon
  <2>5. phase'[r] = "written"
    BY <1>4, Zenon DEF RevokeAndAssess, RevokeVersion, Inv, TypeOK
  <2>6. /\ m.fact_version_id = rev.fact_version_id /\ m.decision_id = a
        /\ m.relied_on = (rev.fact_version_id \in decisions[a].relied_on)
    BY <2>3, Zenon
  <2> QED
    BY <2>2, <2>4, <2>5, <2>6, Zenon
<1>5. CASE CommitRequest(r) \/ RollbackRequest(r)
    BY <1>5, Zenon DEF CommitRequest, RollbackRequest, DecisionsTypeOK
<1>6. ASSUME NEW s \in Requests, s # r,
             RevokeAndAssess(s) \/ CommitRequest(s) \/ RollbackRequest(s)
      PROVE  Impact(r, m)
  <2>1. assessed'[r] = assessed[r]
    BY <1>6, Zenon DEF RevokeAndAssess, CommitRequest, RollbackRequest, DecisionsTypeOK
  <2>2. phase'[r] = phase[r] /\ work'[r] = work[r]
    BY <1>6, ZenonT(40) DEF RevokeAndAssess, CommitRequest, RollbackRequest, RevokeVersion, Commit,
           Rollback, End, Inv, TypeOK
  <2> QED
    BY <1>2, <2>1, <2>2, Zenon
<1>7. CASE /\ UNCHANGED decisionVars
           /\ \E s \in Requests : Begin(s) \/ RefuseMissing(s) \/ LockFact(s) \/ RecordVersion(s) \/ Refuse(s)
  <2>1. m \in assessed[r]
    BY <1>7, Zenon DEF decisionVars
  <2>2. phase[r] = "written"
    BY <2>1, Zenon DEF AssessedOK
  <2>3. phase'[r] = phase[r] /\ work'[r] = work[r]
    <3>1. PICK s \in Requests :
              Begin(s) \/ RefuseMissing(s) \/ LockFact(s) \/ RecordVersion(s) \/ Refuse(s)
        BY <1>7, Zenon
    <3>2. s # r
        BY <2>2, <3>1, Zenon DEF Begin, RefuseMissing, LockFact, RecordVersion, Refuse
    <3>3. phase \in [Requests -> Phases] /\ work \in [Requests -> WorkType]
        BY Zenon DEF Inv, TypeOK
    <3>4. phase'[r] = phase[r]
        BY <3>1, <3>2, <3>3, Zenon DEF Begin, RefuseMissing, LockFact, RecordVersion, Refuse, End
    <3>5. work'[r] = work[r]
        BY <3>1, <3>2, <3>3, Zenon DEF Begin, RefuseMissing, LockFact, RecordVersion, Refuse, End
    <3> QED
        BY <3>4, <3>5, Zenon
  <2> QED
    BY <1>2, <2>1, <2>3, Zenon
<1>8. CASE UNCHANGED decisionVars /\ (Tick \/ StepBack \/ UNCHANGED vars)
    BY <1>2, <1>8, Zenon DEF decisionVars, Tick, StepBack, vars
<1> QED
    BY <1>3, <1>4, <1>5, <1>6, <1>7, <1>8, Zenon
    DEF DecisionsNext, HandlerStep, DecisionsFinished, allVars

\* Impact rows are committed with their revocation.
LEMMA ImpactsStep ==
    ASSUME Inv, Inv', DecisionsTypeOK, ContextsOK, DecisionsOK, AssessedOK, ImpactsTrue,
           [DecisionsNext]_allVars
    PROVE  ImpactsTrue'
<1>1. SUFFICES ASSUME NEW m \in impacts'
               PROVE  /\ m.decision_id \in DecisionsWith(m.fact_version_id)'
                      /\ m.relied_on = (m.fact_version_id \in decisions'[m.decision_id].relied_on)
                      /\ AlreadyRevoked(m.fact_version_id)'
    BY Zenon DEF ImpactsTrue
<1>2. revocations \subseteq revocations'
    BY LedgerStep, TablesStep, Zenon DEF tables, Commit
<1>3. /\ m.decision_id \in DecisionsWith(m.fact_version_id)
      /\ m.relied_on = (m.fact_version_id \in decisions[m.decision_id].relied_on)
      /\ AlreadyRevoked(m.fact_version_id)'
  <2>1. CASE m \in impacts
    BY <1>2, <2>1, Zenon DEF ImpactsTrue, AlreadyRevoked
  <2>2. ASSUME NEW r \in Requests, CommitRequest(r), m \in assessed[r]
        PROVE  /\ m.decision_id \in DecisionsWith(m.fact_version_id)
               /\ m.relied_on = (m.fact_version_id \in decisions[m.decision_id].relied_on)
               /\ AlreadyRevoked(m.fact_version_id)'
    <3>1. /\ \E rev \in work[r].revocations : rev.fact_version_id = m.fact_version_id
          /\ m.decision_id \in DecisionsWith(m.fact_version_id)
          /\ m.relied_on = (m.fact_version_id \in decisions[m.decision_id].relied_on)
        BY <2>2, Zenon DEF AssessedOK
    <3>2. work[r].revocations \subseteq revocations'
        BY <2>2, Zenon DEF CommitRequest, Commit
    <3> QED
        BY <3>1, <3>2, Zenon DEF AlreadyRevoked
  <2>3. m \in impacts \/ \E r \in Requests : CommitRequest(r) /\ m \in assessed[r]
    BY Zenon DEF DecisionsNext, HandlerStep, DecisionsFinished, allVars, decisionVars,
           RevokeAndAssess, CommitRequest, RollbackRequest
  <2> QED
    BY <2>1, <2>2, <2>3, Zenon
<1>4. /\ m.decision_id \in DecisionsWith(m.fact_version_id)'
      /\ decisions'[m.decision_id] = decisions[m.decision_id]
    BY <1>3, DecisionsWithGrow, Zenon
<1> QED
    BY <1>3, <1>4, Zenon

\* The invariant of decisions holds of every behaviour.
LEMMA DecisionsInvariance == DecisionsSpec => []DecisionsInv
<1>1. ASSUME Inv, Inv', DecisionsInv, [DecisionsNext]_allVars PROVE DecisionsInv'
  <2>1. DecisionsTypeOK'
    BY <1>1, DecisionsTypeStep, Zenon DEF DecisionsInv
  <2> QED
    BY <1>1, <2>1, ContextsStep, DecisionsStep, AssessedStep, ImpactsStep, Zenon DEF DecisionsInv
<1> QED
    BY <1>1, DecisionsInitInv, LedgerInvariance, PTL DEF DecisionsSpec

\* receipt() finds the stored hash equal to the one it recomputes, whatever was
\* closed, superseded or revoked since the decision, exactly when JSONB gives
\* the digested outcome back.
THEOREM ReceiptsAlwaysVerify == DecisionsSpec => []ReceiptsVerify
<1>1. DecisionsInv => ReceiptsVerify
  <2> SUFFICES ASSUME DecisionsInv, NEW a \in Agents, decisions[a] # NULL
               PROVE  IntegrityVerified(a) <=> Jsonb[Digested(a)] = Digested(a)
    BY Zenon DEF ReceiptsVerify
  <2>1. PICK d : d = decisions[a] /\ Sealed(d)
    BY Zenon DEF DecisionsInv, DecisionsOK
  <2>2. \A x : Content(d.snapshot_id, d.decided_at, d.relied_on, x).outcome = x
    BY Zenon DEF Content
  <2>3. d.receipt_sha256 = Content(d.snapshot_id, d.decided_at, d.relied_on, d.outcome)
            <=> d.outcome = d.receipt_sha256.outcome
    BY <2>1, <2>2, Zenon DEF Sealed
  <2> QED
    BY <2>1, <2>3, Zenon DEF Sealed, IntegrityVerified, Digested
<1> QED
    BY <1>1, DecisionsInvariance, PTL

\* _assess() stores rows that are true of the decisions they name, and they are
\* committed only with the revocation they belong to.
THEOREM ImpactsAlwaysTrue == DecisionsSpec => []ImpactsTrue
<1>1. DecisionsInv => ImpactsTrue
    BY Zenon DEF DecisionsInv
<1> QED
    BY <1>1, DecisionsInvariance, PTL

-----------------------------------------------------------------------------
(* The impact of a revocation is complete.                                 *)

\* A decision with version id in its context is in the impact rows of every
\* revocation of it, committed or not.
Covered(a, id) ==
    /\ a \in DecisionsWith(id)
    /\ AlreadyRevoked(id) => \E m \in impacts : m.fact_version_id = id /\ m.decision_id = a
    /\ \A r \in Requests : (\E rev \in work[r].revocations : rev.fact_version_id = id) =>
          \E m \in assessed[r] : m.fact_version_id = id /\ m.decision_id = a

\* The assessment reads the decisions under the fact's lock, and its rows are
\* committed with the revocation.
LEMMA CoveredStays ==
    ASSUME Inv, DecisionsInv, [DecisionsNext]_allVars, NEW a \in Agents, NEW id \in Requests,
           Covered(a, id)
    PROVE  Covered(a, id)'
<1>1. a \in DecisionsWith(id)'
    BY DecisionsWithGrow, Zenon DEF Covered, DecisionsInv
<1>2. ASSUME AlreadyRevoked(id)'
      PROVE  \E m \in impacts' : m.fact_version_id = id /\ m.decision_id = a
  <2>1. CASE UNCHANGED revocations /\ impacts' = impacts
    BY <1>2, <2>1, Zenon DEF Covered, AlreadyRevoked
  <2>2. ASSUME NEW r \in Requests, CommitRequest(r)
        PROVE  \E m \in impacts' : m.fact_version_id = id /\ m.decision_id = a
    <3>1. revocations' = revocations \cup work[r].revocations /\ impacts' = impacts \cup assessed[r]
        BY <2>2, Zenon DEF CommitRequest, Commit
    <3> QED
        BY <1>2, <3>1, Zenon DEF Covered, AlreadyRevoked
  <2>3. \/ UNCHANGED revocations /\ impacts' = impacts
        \/ \E r \in Requests : CommitRequest(r)
    BY Zenon DEF DecisionsNext, HandlerStep, DecisionsFinished, allVars, decisionVars, vars, tables,
           RevokeAndAssess, RollbackRequest, Begin, RefuseMissing, LockFact, RecordVersion,
           RevokeVersion, Refuse, Rollback, Tick, StepBack
  <2> QED
    BY <2>1, <2>2, <2>3, Zenon
<1>3. ASSUME NEW r \in Requests, NEW rev \in work'[r].revocations, rev.fact_version_id = id
      PROVE  \E m \in assessed'[r] : m.fact_version_id = id /\ m.decision_id = a
  <2>1. CASE work'[r] = work[r] /\ assessed'[r] = assessed[r]
    BY <1>3, <2>1, Zenon DEF Covered
  <2>2. CASE work'[r].revocations = {}
    BY <1>3, <2>2, Zenon
  <2>3. CASE RevokeAndAssess(r)
    <3>1. assessed'[r] = UNION {ImpactRows(k.fact_version_id) : k \in work'[r].revocations}
        BY <2>3, Zenon DEF RevokeAndAssess, DecisionsInv, DecisionsTypeOK
    <3>2. ImpactRows(id) \subseteq assessed'[r]
        BY <1>3, <3>1, Zenon
    <3>3. [fact_version_id |-> id, decision_id |-> a,
           relied_on |-> id \in decisions[a].relied_on] \in ImpactRows(id)
        BY Zenon DEF Covered, ImpactRows
    <3> QED
        BY <3>2, <3>3, Zenon
  <2>4. \/ work'[r] = work[r] /\ assessed'[r] = assessed[r]
        \/ work'[r].revocations = {}
        \/ RevokeAndAssess(r)
    <3>1. work \in [Requests -> WorkType] /\ assessed \in [Requests -> SUBSET ImpactType]
        BY Zenon DEF Inv, TypeOK, DecisionsInv, DecisionsTypeOK
    <3>2. CASE UNCHANGED <<work, assessed>>
        BY <3>2, Zenon
    <3>3. ASSUME NEW s \in Requests, RevokeAndAssess(s), s # r
          PROVE  work'[r] = work[r] /\ assessed'[r] = assessed[r]
        BY <3>1, <3>3, Zenon DEF RevokeAndAssess, RevokeVersion
    <3>4. ASSUME NEW s \in Requests, CommitRequest(s) \/ RollbackRequest(s)
          PROVE  \/ work'[r] = work[r] /\ assessed'[r] = assessed[r]
                 \/ work'[r].revocations = {}
      <4>1. /\ work' = [work EXCEPT ![s] = NoWork]
            /\ assessed' = [assessed EXCEPT ![s] = {}]
        BY <3>4, Zenon DEF CommitRequest, RollbackRequest, Commit, Rollback, End
      <4> QED
        BY <3>1, <4>1, Zenon DEF NoWork
    <3>5. ASSUME NEW s \in Requests, RecordVersion(s) \/ Refuse(s), UNCHANGED assessed
          PROVE  \/ work'[r] = work[r] /\ assessed'[r] = assessed[r]
                 \/ work'[r].revocations = {}
      <4>1. \E w : work' = [work EXCEPT ![s] = w] /\ w.revocations = {}
        <5>1. CASE RecordVersion(s)
          <6>1. PICK chain, conflicts, linked :
                    work' = [work EXCEPT ![s] = [chain |-> chain, revocations |-> {},
                                                 contradictions |-> conflicts, links |-> linked]]
            BY <5>1, Zenon DEF RecordVersion
          <6>2. [chain |-> chain, revocations |-> {}, contradictions |-> conflicts,
                 links |-> linked].revocations = {}
            BY Zenon
          <6> QED
            BY <6>1, <6>2, Zenon
        <5>2. CASE Refuse(s)
          <6>1. work' = [work EXCEPT ![s] = NoWork]
            BY <5>2, Zenon DEF Refuse, End
          <6>2. NoWork.revocations = {}
            BY Zenon DEF NoWork
          <6> QED
            BY <6>1, <6>2, Zenon
        <5> QED
            BY <3>5, <5>1, <5>2, Zenon
      <4> QED
        BY <3>1, <3>5, <4>1, Zenon
    <3> QED
        BY <3>2, <3>3, <3>4, <3>5, Zenon DEF DecisionsNext, HandlerStep, DecisionsFinished, allVars,
               decisionVars, vars, Begin, RefuseMissing, LockFact, Tick, StepBack
  <2> QED
    BY <2>1, <2>2, <2>3, <2>4, Zenon
<1> QED
    BY <1>1, <1>2, <1>3, Zenon DEF Covered

\* A decision that is committed before revoke() assesses the impact is in the
\* stored impact rows from the moment the revocation is visible.
THEOREM ImpactsAlwaysComplete == DecisionsSpec => ImpactsComplete
<1>1. ASSUME NEW a \in Agents, NEW id \in Requests
      PROVE  DecisionsSpec =>
               [](/\ a \in DecisionsWith(id)
                  /\ ~AlreadyRevoked(id)
                  /\ \A r \in Requests : \A rev \in work[r].revocations : rev.fact_version_id # id
                  => [](AlreadyRevoked(id) =>
                          \E m \in impacts : m.fact_version_id = id /\ m.decision_id = a))
  <2>1. /\ a \in DecisionsWith(id)
        /\ ~AlreadyRevoked(id)
        /\ \A r \in Requests : \A rev \in work[r].revocations : rev.fact_version_id # id
        => Covered(a, id)
    BY Zenon DEF Covered
  <2>2. Covered(a, id) =>
            (AlreadyRevoked(id) => \E m \in impacts : m.fact_version_id = id /\ m.decision_id = a)
    BY Zenon DEF Covered
  <2>3. Inv /\ DecisionsInv /\ [DecisionsNext]_allVars /\ Covered(a, id) => Covered(a, id)'
    BY CoveredStays, Zenon
  <2> QED
    BY <2>1, <2>2, <2>3, LedgerInvariance, DecisionsInvariance, PTL DEF DecisionsSpec
<1> QED
    BY <1>1, Zenon DEF ImpactsComplete

-----------------------------------------------------------------------------
(* A revoked version stays out of later contexts.                          *)

\* While the server clock runs forward, now() of a transaction, and with it
\* revoked_at, is never ahead of it.
LEMMA ClockStep ==
    ASSUME ~ClockStepsBack, Inv, ClockOK, [Next]_vars
    PROVE  ClockOK'
<1> USE DEF ClockOK
<1>0. /\ clock \in Nat /\ started \in [Requests -> Nat] /\ work \in [Requests -> WorkType]
    BY Zenon DEF Inv, TypeOK
<1>1. CASE UNCHANGED <<clock, revocations, started, work>>
    BY <1>1, Zenon
<1>2. ASSUME Tick PROVE ClockOK'
  <2>1. clock' = clock + 1 /\ UNCHANGED <<revocations, started, work>>
    BY <1>2, Zenon DEF Tick, tables
  <2>2. \A t \in Nat : t <= clock => t <= clock'
    BY <1>0, <2>1
  <2>3. /\ \A rev \in revocations : rev.revoked_at \in Nat
        /\ \A r \in Requests : started[r] \in Nat
        /\ \A r \in Requests : \A rev \in work[r].revocations : rev.revoked_at \in Nat
    <3>1. revocations \subseteq RevocationType
        BY Zenon DEF Inv, TypeOK
    <3>2. \A r \in Requests : work[r].revocations \subseteq RevocationType
        BY <1>0, Zenon DEF WorkType
    <3>3. \A rev \in RevocationType : rev.revoked_at \in Nat
        BY Zenon DEF RevocationType
    <3> QED
        BY <1>0, <3>1, <3>2, <3>3, Zenon
  <2> QED
    BY <2>1, <2>2, <2>3, Zenon
<1>3. ASSUME NEW r \in Requests, Begin(r) PROVE ClockOK'
  <2>1. clock' = clock /\ started' = [started EXCEPT ![r] = clock] /\ UNCHANGED <<revocations, work>>
    BY <1>3, Zenon DEF Begin, tables
  <2>2. clock <= clock
    BY <1>0
  <2> QED
    BY <1>0, <2>1, <2>2, Zenon
<1>4. ASSUME NEW r \in Requests, RecordVersion(r) \/ RevokeVersion(r) PROVE ClockOK'
  <2>1. UNCHANGED <<clock, revocations, started>>
    BY <1>4, Zenon DEF RecordVersion, RevokeVersion, tables
  <2>2. ASSUME NEW q \in Requests, NEW rev \in work'[q].revocations PROVE rev.revoked_at <= clock
    <3>1. CASE q # r
        BY <1>0, <1>4, <2>2, <3>1, Zenon DEF RecordVersion, RevokeVersion
    <3>2. CASE q = r
      <4>1. /\ q = r /\ RevokeVersion(r)
            /\ \E id : work'[r].revocations = {[fact_version_id |-> id, revoked_at |-> started[r]]}
        <5>1. CASE RecordVersion(r)
          <6>1. PICK chain, conflicts, linked :
                    work' = [work EXCEPT ![r] = [chain |-> chain, revocations |-> {},
                                                 contradictions |-> conflicts, links |-> linked]]
            BY <5>1, Zenon DEF RecordVersion
          <6> QED
            BY <1>0, <2>2, <3>2, <6>1, Zenon
        <5>2. CASE RevokeVersion(r)
          <6>1. PICK chain, id :
                    work' = [work EXCEPT ![r] = [chain |-> chain,
                                revocations |-> {[fact_version_id |-> id, revoked_at |-> started[r]]},
                                contradictions |-> {}, links |-> {}]]
            BY <5>2, Zenon DEF RevokeVersion
          <6> QED
            BY <1>0, <3>2, <5>2, <6>1, Zenon
        <5> QED
            BY <1>4, <5>1, <5>2, Zenon
      <4>2. started[r] <= clock
        BY Zenon
      <4>3. PICK id : work'[r].revocations = {[fact_version_id |-> id, revoked_at |-> started[r]]}
        BY <4>1, Zenon
      <4>4. rev = [fact_version_id |-> id, revoked_at |-> started[r]]
        BY <2>2, <4>1, <4>3, Zenon
      <4> QED
        BY <4>2, <4>4, Zenon
    <3> QED
        BY <3>1, <3>2, Zenon
  <2> QED
    BY <2>1, <2>2, Zenon
<1>5. ASSUME NEW r \in Requests, NEW outcome, End(r, outcome),
             revocations' \subseteq revocations \cup work[r].revocations
      PROVE  ClockOK'
  <2>1. /\ clock' = clock /\ started' = [started EXCEPT ![r] = 0]
        /\ work' = [work EXCEPT ![r] = NoWork]
    BY <1>5, Zenon DEF End
  <2>2. 0 <= clock /\ NoWork.revocations = {}
    BY <1>0 DEF NoWork
  <2>3. \A q \in Requests : started'[q] <= clock'
    BY <1>0, <2>1, <2>2, Zenon
  <2>4. \A q \in Requests : \A rev \in work'[q].revocations : rev.revoked_at <= clock'
    BY <1>0, <2>1, <2>2, Zenon
  <2>5. \A rev \in revocations' : rev.revoked_at <= clock'
    BY <1>5, <2>1, Zenon
  <2> QED
    BY <2>3, <2>4, <2>5, Zenon
<1>6. ASSUME NEW r \in Requests, Commit(r) \/ Rollback(r) \/ Refuse(r) PROVE ClockOK'
  <2>1. CASE Commit(r)
    BY <1>5, <2>1, Zenon DEF Commit
  <2>2. CASE Rollback(r) \/ Refuse(r)
    BY <1>5, <2>2, Zenon DEF Rollback, Refuse, tables
  <2> QED
    BY <1>6, <2>1, <2>2, Zenon
<1> QED
    BY <1>1, <1>2, <1>3, <1>4, <1>6, Zenon
    DEF Next, Serve, RefuseMissing, LockFact, StepBack, Finished, vars, tables

\* Search does not find a version whose revocation is dated at or before known_at.
LEMMA CandidatesNotRevoked ==
    ASSUME NEW validAt, NEW knownAt, NEW id, NEW rev \in revocations,
           rev.fact_version_id = id, rev.revoked_at <= knownAt
    PROVE  id \notin Candidates(validAt, knownAt)
BY Zenon DEF Candidates, Answer, FactsValidAt, ValidAtCondition, NotRevokedCondition

\* What is true of version id and the context of agent a once id is revoked.
StaysOut(a, id) ==
    /\ AlreadyRevoked(id)
    /\ step[a] # "idle" => \E rev \in revocations :
          rev.fact_version_id = id /\ rev.revoked_at <= pinned[a].known_at
    /\ id \notin found[a]
    /\ snapshots[a] # NULL => id \notin snapshots[a].facts

\* The capture pins known_at after the revocation, and searches at known_at.
LEMMA StaysOutStep ==
    ASSUME KnownAtChoices = {NULL}, Inv, DecisionsInv, ClockOK, [DecisionsNext]_allVars,
           NEW a \in Agents, NEW id \in Requests, StaysOut(a, id)
    PROVE  StaysOut(a, id)'
<1> USE DEF DecisionsInv, DecisionsTypeOK
<1>1. revocations \subseteq revocations'
    BY LedgerStep, TablesStep, Zenon DEF tables, Commit
<1>2. AlreadyRevoked(id)'
    BY <1>1, Zenon DEF StaysOut, AlreadyRevoked
<1>3. ASSUME UNCHANGED <<step[a], pinned[a], found[a], snapshots[a]>> PROVE StaysOut(a, id)'
    BY <1>1, <1>2, <1>3, Zenon DEF StaysOut
<1>4. CASE UNCHANGED agentVars
    BY <1>3, <1>4, Zenon DEF agentVars
<1>5. ASSUME NEW b \in Agents, AgentNext(b), b # a PROVE StaysOut(a, id)'
    BY <1>3, <1>5, Zenon DEF AgentNext, PinContext, SearchContext, StoreSnapshot, RecordDecision,
           CommitDecision, AgentFails
<1>6. ASSUME PinContext(a) PROVE StaysOut(a, id)'
  <2>0. PICK v \in ValidAtChoices :
            pinned' = [pinned EXCEPT ![a] =
                 [valid_at |-> IF v = NULL THEN clock ELSE v, known_at |-> clock]]
    <3>1. PICK k \in KnownAtChoices, v \in ValidAtChoices :
            pinned' = [pinned EXCEPT ![a] =
                 [valid_at |-> IF v = NULL THEN IF k = NULL THEN clock ELSE k ELSE v,
                  known_at |-> IF k = NULL THEN clock ELSE k]]
        BY <1>6, Zenon DEF PinContext
    <3>2. k = NULL
        BY Zenon
    <3> QED
        BY <3>1, <3>2, Zenon
  <2>1. pinned'[a].known_at = clock /\ UNCHANGED <<found, snapshots>>
    BY <1>6, <2>0, Zenon DEF PinContext
  <2>2. \E rev \in revocations : rev.fact_version_id = id /\ rev.revoked_at <= clock
    BY Zenon DEF ClockOK, StaysOut, AlreadyRevoked
  <2> QED
    BY <1>1, <1>2, <2>1, <2>2, Zenon DEF StaysOut
<1>7. ASSUME SearchContext(a) PROVE StaysOut(a, id)'
  <2>1. PICK ids \in SUBSET Candidates(pinned[a].valid_at, pinned[a].known_at) :
            found' = [found EXCEPT ![a] = ids]
    BY <1>7, Zenon DEF SearchContext
  <2>2. \E rev \in revocations : rev.fact_version_id = id /\ rev.revoked_at <= pinned[a].known_at
    BY <1>7, Zenon DEF SearchContext, StaysOut
  <2>3. id \notin found'[a]
    BY <2>1, <2>2, CandidatesNotRevoked, Zenon
  <2>4. UNCHANGED <<pinned, snapshots>>
    BY <1>7, Zenon DEF SearchContext
  <2> QED
    BY <1>1, <1>2, <2>2, <2>3, <2>4, Zenon DEF StaysOut
<1>8. ASSUME StoreSnapshot(a) PROVE StaysOut(a, id)'
  <2>1. snapshots'[a].facts = found[a] /\ found'[a] = {} /\ pinned' = pinned /\ step[a] # "idle"
    BY <1>8, Zenon DEF StoreSnapshot
  <2> QED
    BY <1>1, <1>2, <2>1, Zenon DEF StaysOut
<1>9. ASSUME RecordDecision(a) \/ CommitDecision(a) \/ AgentFails(a) PROVE StaysOut(a, id)'
  <2>1. /\ UNCHANGED <<snapshots, pinned>> /\ step[a] # "idle"
        /\ found'[a] = found[a] \/ found'[a] = {}
    BY <1>9, Zenon DEF RecordDecision, CommitDecision, AgentFails
  <2> QED
    BY <1>1, <1>2, <2>1, Zenon DEF StaysOut
<1> QED
    BY <1>4, <1>5, <1>6, <1>7, <1>8, <1>9, AgentOrNot, Zenon DEF AgentNext

\* A context captured after a revocation was committed does not hold the revoked
\* version, when known_at is left to the database clock and the clock runs forward.
THEOREM RevokedAlwaysStaysOut ==
    ASSUME KnownAtChoices = {NULL}, ~ClockStepsBack
    PROVE  DecisionsSpec => RevokedStaysOut
<1>1. DecisionsSpec => []ClockOK
  <2>1. DecisionsInit => ClockOK
    <3>1. 0 <= 0 /\ NoWork.revocations = {}
        BY DEF NoWork
    <3> QED
        BY <3>1, Zenon DEF DecisionsInit, Init, ClockOK
  <2>2. Inv /\ ClockOK /\ [DecisionsNext]_allVars => ClockOK'
    BY LedgerStep, ClockStep, Zenon
  <2> QED
    BY <2>1, <2>2, LedgerInvariance, PTL DEF DecisionsSpec
<1>2. ASSUME NEW a \in Agents, NEW id \in Requests
      PROVE  DecisionsSpec =>
               []((step[a] = "idle" /\ AlreadyRevoked(id)) =>
                    [](snapshots[a] # NULL => id \notin snapshots[a].facts))
  <2>1. DecisionsInv /\ step[a] = "idle" /\ AlreadyRevoked(id) => StaysOut(a, id)
    BY Zenon DEF StaysOut, DecisionsInv, ContextsOK
  <2>2. StaysOut(a, id) => (snapshots[a] # NULL => id \notin snapshots[a].facts)
    BY Zenon DEF StaysOut
  <2>3. /\ Inv /\ DecisionsInv /\ ClockOK /\ [DecisionsNext]_allVars
        /\ StaysOut(a, id)
        => StaysOut(a, id)'
    BY StaysOutStep, Zenon
  <2> QED
    BY <1>1, <2>1, <2>2, <2>3, LedgerInvariance, DecisionsInvariance, PTL DEF DecisionsSpec
<1> QED
    BY <1>2, Zenon DEF RevokedStaysOut
=============================================================================
