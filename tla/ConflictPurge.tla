---------------------------- MODULE ConflictPurge ----------------------------
(***************************************************************************)
(* The repair of an old defect: purge_concurrent_conflict_artifacts        *)
(* (fener/maintenance.py), run once by a migration.                        *)
(*                                                                         *)
(* Before observe_once, a source that lists a model under several keys     *)
(* observed the same field several times in one sync, and each observation *)
(* overwrote the one before at the same instant.  The tables below are     *)
(* those of one priced field, as that writer (observe of evidence.py       *)
(* without the guard) leaves them.                                         *)
(***************************************************************************)
EXTENDS Naturals, FiniteSets

CONSTANTS
    Source,     \* the sources that price the field
    Authority,  \* Authority[s]: the authority of s for it
    Value,      \* the values observed
    None,       \* no row, no source
    MaxKeys,    \* bound on the keys under which a source lists a model
    MaxSyncs    \* bound on the syncs before the repair

ASSUME PurgeAssumption ==
    /\ IsFiniteSet(Source)
    /\ Authority \in [Source -> Nat]
    /\ None \notin Source
    /\ MaxKeys \in Nat
    /\ MaxSyncs \in Nat

VARIABLES
    db,      \* the rows: facts, prices, claim[s], current, conflicts, events
    clock,   \* the syncs so far, their observed_at
    legacy,  \* the source whose sync is open, or None, and the keys it has met
    before   \* history: db as the repair found it, or None

purgeVars == <<db, clock, legacy, before>>

-----------------------------------------------------------------------------
NoSync == [src |-> None, met |-> 0]

PurgeInit == /\ db = [facts |-> {}, prices |-> {}, claim |-> [s \in Source |-> None],
                      current |-> None, conflicts |-> {}, events |-> {}]
             /\ clock = 0
             /\ legacy = NoSync
             /\ before = None

Beats(f, g) == \/ Authority[f.src] > Authority[g.src]
               \/ Authority[f.src] = Authority[g.src] /\ f.at > g.at

\* observe: a value that differs from the source's last one becomes a fact
\* with a price row; it is claimed, compared and selected, and an event tells
\* of a new selected value.
Observe(d, s, v, at) ==
    LET last == d.claim[s]
        f == [src |-> s, value |-> v, at |-> at,
              step |-> IF last = None THEN 1 ELSE last.step + 1]
        claimed == [d.claim EXCEPT ![s] = f]
        others == {d.claim[t] : t \in Source \ {s}} \ {None}
        best == CHOOSE g \in others \cup {f} : \A h \in others \cup {f} : ~Beats(h, g)
    IN
    IF last # None /\ last.value = v THEN d
    ELSE [facts |-> d.facts \cup {f},
          prices |-> d.prices \cup {f},
          claim |-> claimed,
          current |-> best,
          conflicts |-> d.conflicts \cup {{g, f} : g \in {h \in others : h.value # v}},
          events |-> IF d.current = None \/ d.current.value = best.value THEN d.events
                     ELSE d.events \cup {[old |-> d.current, new |-> best, at |-> at]}]

\* A sync of s is one transaction: it begins, meets the model under key after
\* key, and commits.
LegacyBegin(s) ==
    /\ before = None
    /\ legacy = NoSync
    /\ clock < MaxSyncs
    /\ clock' = clock + 1
    /\ legacy' = [src |-> s, met |-> 0]
    /\ UNCHANGED <<db, before>>

LegacyMeet(v) ==
    /\ legacy.src # None
    /\ legacy.met < MaxKeys
    /\ db' = Observe(db, legacy.src, v, clock)
    /\ legacy' = [legacy EXCEPT !.met = @ + 1]
    /\ UNCHANGED <<clock, before>>

LegacyCommit ==
    /\ legacy.src # None
    /\ legacy' = NoSync
    /\ UNCHANGED <<db, clock, before>>

-----------------------------------------------------------------------------
\* The observations of one instant that do not agree.
Conflicted == {f \in db.facts : \E g \in db.facts : g.at = f.at /\ g.value # f.value}

\* The displayed value survives.
Removed == Conflicted \ {db.current}

Survivors == db.facts \ Removed

\* The earliest survivors; the code takes the first its set yields.
Earliest == {f \in Survivors : \A g \in Survivors : f.at <= g.at}

\* Mutant: claims are left alone.
NotRepointed(f, survivor) == f

\* A pointer to a removed observation moves to the survivor.
Repointed(f, survivor) == IF f \in Removed THEN survivor ELSE f

\* An event that announces the value of a removed observation of its instant.
Announced(e) == \E f \in Removed : f.at = e.at /\ f.value = e.new.value

Purge(survivor) ==
    /\ before = None
    /\ legacy = NoSync
    /\ db.facts # {}
    /\ survivor \in Earliest
    /\ before' = db
    /\ db' = [facts |-> Survivors,
              prices |-> db.prices \ Removed,
              claim |-> [s \in Source |-> Repointed(db.claim[s], survivor)],
              current |-> Repointed(db.current, survivor),
              conflicts |-> {c \in db.conflicts : c \cap Removed = {}},
              events |-> {e \in db.events : ~Announced(e)}]
    /\ UNCHANGED <<clock, legacy>>

PurgeNext == \/ \E s \in Source : LegacyBegin(s)
             \/ \E v \in Value : LegacyMeet(v)
             \/ LegacyCommit
             \/ \E survivor \in db.facts : Purge(survivor)

PurgeSpec == PurgeInit /\ [][PurgeNext]_purgeVars

-----------------------------------------------------------------------------
\* The repair settles the tables: every row still refers to an observation
\* there is, the displayed value stays, observations that were alone at their
\* instant stay, each instant keeps one value, an event that is kept tells of
\* no observation that went, and a second repair finds nothing to do
\* (maintenance.py, lines 33-39; tests/test_maintenance.py, line 87).
PurgeSettles ==
    before # None =>
        /\ {db.claim[s] : s \in Source} \cup {db.current} \subseteq db.facts \cup {None}
        /\ UNION db.conflicts \subseteq db.facts
        /\ db.prices = db.facts
        /\ db.current = before.current
        /\ \A f \in before.facts : (\A g \in before.facts : g.at = f.at => g.value = f.value)
                                       => f \in db.facts
        /\ \A e \in db.events : \A f \in before.facts :
              e.new.value = f.value /\ e.at = f.at => f \in db.facts
        /\ Removed = {}
=============================================================================
