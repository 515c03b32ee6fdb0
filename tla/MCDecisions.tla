----------------------------- MODULE MCDecisions -----------------------------
(* Small instances of Decisions for TLC. *)
EXTENDS Decisions, TLC

Command(source, value, from, until, observed) ==
    [source |-> source, value |-> value, valid_from |-> from, valid_until |-> until,
     observed_at |-> observed, trust |-> 1, evidence_ids |-> {}]

\* Two open claims, the second of which ends the first.
MCCommands == {Command("crm", "a", 0, NULL, 0), Command("docs", "b", 1, NULL, 1)}

NoEvidence == {}

\* An outcome that JSONB keeps, and one with a number that it keeps otherwise.
RoundTrip == [kept |-> "kept", float |-> "kept"]

RequestSymmetry == Permutations(Requests)
=============================================================================
