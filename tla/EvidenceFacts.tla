---------------------------- MODULE EvidenceFacts ----------------------------
(***************************************************************************)
(* The rows of the evidence tables and the order among them, shared by the *)
(* ledger of a sync (EvidenceLedger) and what it promises                  *)
(* (PrecedenceLedger).                                                     *)
(*                                                                         *)
(* A Key is one (entity_type, entity_id, field).  A fact stands for a row  *)
(* of the facts table; a row that refers to a fact by id holds the fact.   *)
(* Raw records, verification labels and confirmation times are left out.   *)
(***************************************************************************)
EXTENDS Naturals, FiniteSets

CONSTANTS
    Source,      \* the catalog sources, each synced under its own lock
    Key,         \* the observed fields
    Value,       \* the observed values
    None,        \* no row, or a NULL column
    Rate         \* Rate[k][v]: what equal_values compares of v as a value of k

Fact == [src : Source, key : Key, value : Value,
         step : Nat, auth : Nat, at : Nat]
MaybeFact == Fact \cup {None}
Event == [key : Key, old : Fact, new : Fact, at : Nat]

ASSUME FactsAssumption ==
    /\ Rate \in [Key -> [Value -> Nat]]
    /\ None \notin Value
    /\ None \notin Fact

\* equal_values: formatting-only differences of a price are no difference.
SameValue(k, v, w) == Rate[k][v] = Rate[k][w]

\* Mutant: the previous observation is not hashed into the id.
NextStepUnchained(previous) == 1

\* The position of a new observation in the chain that digest() hashes.
NextStep(previous) == IF previous = None THEN 1 ELSE previous.step + 1

\* Primary keys: digest(source_key, record.id, value, previous.id) and
\* digest("change", old.id, winner.id).
FactId(f) == <<f.src, f.key, f.value, f.step>>
EventId(e) == <<FactId(e.old), FactId(e.new)>>

\* The order of max(..., key=(authority, observed_at, id)); observed_at
\* differs between syncs, so the id never decides.
Beats(f, g) == \/ f.auth > g.auth
               \/ f.auth = g.auth /\ f.at > g.at

\* The observations for k among the claims c, one per source.
ClaimsOn(c, k) == {c[s][k] : s \in Source} \ {None}

Selected(c, k, f) == /\ f \in ClaimsOn(c, k)
                     /\ \A g \in ClaimsOn(c, k) : ~Beats(g, f)

NoClaims == [s \in Source |-> [k \in Key |-> None]]
NoFacts == [k \in Key |-> None]
=============================================================================
