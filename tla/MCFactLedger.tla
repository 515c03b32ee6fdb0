---------------------------- MODULE MCFactLedger ----------------------------
(* Small instances of FactLedger and the TemporalQueries over it, for TLC. *)
EXTENDS TemporalQueries, TLC

CONSTANT f1

Command(source, value, from, until, observed, trust, evidence) ==
    [source |-> source, value |-> value, valid_from |-> from, valid_until |-> until,
     observed_at |-> observed, trust |-> trust, evidence_ids |-> evidence]

\* An open claim observed well after it starts, a later one of another source
\* that contradicts it, a claim with a fixed end observed after that end, one
\* that starts exactly there, and one that cites an unknown evidence item.
MCCommands ==
    {Command("crm",  "a", 1, NULL, 2, 1, {"e1"}),
     Command("docs", "b", 2, NULL, 2, 2, {}),
     Command("docs", "b", 1, 3,    3, 1, {}),
     Command("crm",  "a", 3, NULL, 3, 0, {"e9"}),
     Command("crm",  "c", 3, NULL, 3, 1, {})}

MCEvidence == {"e1"}

RequestSymmetry == Permutations(Requests)

\* One property.
OneRank == [f \in {f1} |-> 1]
=============================================================================
