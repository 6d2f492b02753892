--------------------------- MODULE EvidenceLedger ---------------------------
(***************************************************************************)
(* The evidence pipeline of a catalog sync: fener/evidence.py driven by    *)
(* CatalogWriter.observe_once (sources/persist.py) inside the single       *)
(* normalisation transaction of _sync (sources/ingestion.py).              *)
(*                                                                         *)
(* A sync of source s loads the evidence tables into private caches, one   *)
(* SELECT after the other, then observes fields against those caches and   *)
(* commits everything at once.  The database runs at READ COMMITTED and    *)
(* the ORM writes back absolute values of the attributes it changed, so    *)
(* two sources that sync at the same time do not see each other.           *)
(***************************************************************************)
EXTENDS EvidenceFacts

CONSTANTS
    Projected,   \* the keys copied to a column of models or deployments
    Offer,       \* Offer[s][k]: the values s may hold for k, with their authority
    Concurrent,  \* TRUE when syncs of different sources may overlap
    MaxSyncs     \* bound on the syncs of a behaviour

ASSUME LedgerAssumption ==
    /\ Projected \subseteq Key
    /\ Offer \in [Source -> [Key -> SUBSET [value : Value, auth : Nat]]]
    /\ Concurrent \in BOOLEAN
    /\ MaxSyncs \in Nat

VARIABLES
    facts,      \* facts: the append-only observations
    claim,      \* source_claims: claim[s][k], the observation s stands by
    current,    \* current_facts: current[k], the selected observation
    shown,      \* shown[k], the projected column
    conflicts,  \* conflicts: the pairs of observations in disagreement
    events,     \* market_events of type *_change
    clock,      \* the number of syncs started, their observed_at
    writer      \* writer[s]: the open transaction of the sync of s

committed == <<facts, claim, current, shown, conflicts, events>>
vars == <<facts, claim, current, shown, conflicts, events, clock, writer>>

-----------------------------------------------------------------------------
Phase == {"idle", "begun", "facts", "claims", "current", "open"}

\* No transaction: the caches are empty and nothing is pending.
Idle == [phase |-> "idle", at |-> 0, facts |-> {}, claim |-> NoClaims,
         current |-> NoFacts, loaded |-> NoFacts,
         shown |-> NoFacts, column |-> NoFacts,
         conflicts |-> {}, events |-> {}, seen |-> {}]

Init == /\ facts = {}
        /\ claim = NoClaims
        /\ current = NoFacts
        /\ shown = NoFacts
        /\ conflicts = {}
        /\ events = {}
        /\ clock = 0
        /\ writer = [s \in Source |-> Idle]

\* _sync reaches CatalogWriter(session, source_id, utcnow()).
Begin(s) ==
    /\ writer[s].phase = "idle"
    /\ Concurrent \/ \A t \in Source : writer[t].phase = "idle"
    /\ clock < MaxSyncs
    /\ clock' = clock + 1
    /\ writer' = [writer EXCEPT ![s] =
         [writer[s] EXCEPT !.phase = "begun", !.at = clock + 1]]
    /\ UNCHANGED committed

\* EvidenceWriter.__init__, self.facts.
LoadFacts(s) ==
    /\ writer[s].phase = "begun"
    /\ writer' = [writer EXCEPT ![s] =
         [writer[s] EXCEPT !.phase = "facts", !.facts = facts]]
    /\ UNCHANGED <<committed, clock>>

\* self.claims and by_field: a claim on a fact committed after the facts
\* were read is a KeyError, and the sync can only fail.
LoadClaims(s) ==
    /\ writer[s].phase = "facts"
    /\ \A k \in Key : ClaimsOn(claim, k) \subseteq writer[s].facts
    /\ writer' = [writer EXCEPT ![s] =
         [writer[s] EXCEPT !.phase = "claims", !.claim = claim]]
    /\ UNCHANGED <<committed, clock>>

\* self.current.  The conflict ids read next only guard against inserting a
\* pair again, and a new pair always holds a new fact.
LoadCurrent(s) ==
    /\ writer[s].phase = "claims"
    /\ writer' = [writer EXCEPT ![s] =
         [writer[s] EXCEPT !.phase = "current",
                           !.current = current, !.loaded = current]]
    /\ UNCHANGED <<committed, clock>>

\* CatalogWriter.__init__ reads models and deployments, with their columns.
LoadColumns(s) ==
    /\ writer[s].phase = "current"
    /\ writer' = [writer EXCEPT ![s] =
         [writer[s] EXCEPT !.phase = "open",
                           !.shown = shown, !.column = shown]]
    /\ UNCHANGED <<committed, clock>>

-----------------------------------------------------------------------------
\* Mutant: no sync_values guard.
FirstSightUnguarded(w, k) == TRUE

\* observe_once lets a field through once per sync.
FirstSight(w, k) == k \notin w.seen

\* Mutant: the stored form is compared instead of the rate.
ConfirmsExactly(w, s, k, v) == /\ w.claim[s][k] # None
                               /\ w.claim[s][k].value = v

\* observe: the early return for a value equal to the source's last one.
Confirms(w, s, k, v) == /\ w.claim[s][k] # None
                        /\ SameValue(k, w.claim[s][k].value, v)

NewFact(w, s, k, v, a) ==
    [src |-> s, key |-> k, value |-> v,
     step |-> NextStep(w.claim[s][k]), auth |-> a, at |-> w.at]

\* Mutant: the new fact is selected only when no other source has one.
ContendersOthers(w, s, f) ==
    LET others == {w.claim[t][f.key] : t \in Source \ {s}} \ {None}
    IN  IF others = {} THEN {f} ELSE others

\* by_field[key].values() once it holds the new fact.
Contenders(w, s, f) == ClaimsOn([w.claim EXCEPT ![s][f.key] = f], f.key)

\* Mutant: the column takes the value just observed.
ColumnObserved(w, f, best) ==
    IF f.key \in Projected THEN f.value ELSE w.shown[f.key]

\* setattr(entity, field, winner.value) for a projected field.
Column(w, f, best) ==
    IF f.key \in Projected THEN best.value ELSE w.shown[f.key]

\* Mutant: only a tie in authority is kept as a conflict.
NewConflictsOfEquals(w, s, f) ==
    {{g, f} : g \in {h \in {w.claim[t][f.key] : t \in Source \ {s}} \ {None} :
                        h.auth = f.auth /\ ~SameValue(f.key, h.value, f.value)}}

\* Mutant: the source's own previous claim counts as a competitor.
NewConflictsWithSelf(w, s, f) ==
    {{g, f} : g \in {h \in ClaimsOn(w.claim, f.key) :
                        ~SameValue(f.key, h.value, f.value)}}

\* One conflict row with each other source whose claim differs.
NewConflicts(w, s, f) ==
    {{g, f} : g \in {h \in {w.claim[t][f.key] : t \in Source \ {s}} \ {None} :
                        ~SameValue(f.key, h.value, f.value)}}

\* Mutant: a first selection is a change too.
NewEventsFromNothing(w, k, best) ==
    IF w.current[k] = None \/ ~SameValue(k, w.current[k].value, best.value)
    THEN {[key |-> k, old |-> w.current[k], new |-> best, at |-> w.at]}
    ELSE {}

\* Mutant: no event when the selection falls back to another source.
NewEventsOfOwnFact(w, k, best) ==
    IF /\ w.current[k] # None
       /\ best.at = w.at
       /\ ~SameValue(k, w.current[k].value, best.value)
    THEN {[key |-> k, old |-> w.current[k], new |-> best, at |-> w.at]}
    ELSE {}

\* The change event, when the selected value moved.
NewEvents(w, k, best) ==
    IF w.current[k] # None /\ ~SameValue(k, w.current[k].value, best.value)
    THEN {[key |-> k, old |-> w.current[k], new |-> best, at |-> w.at]}
    ELSE {}

Confirm(s, k, v) ==
    LET w == writer[s] IN
    /\ w.phase = "open"
    /\ FirstSight(w, k)
    /\ Confirms(w, s, k, v)
    /\ writer' = [writer EXCEPT ![s] = [w EXCEPT !.seen = w.seen \cup {k}]]
    /\ UNCHANGED <<committed, clock>>

\* The caches and the session once f is added and best selected.
Observed(w, s, f, best) ==
    [w EXCEPT !.facts = w.facts \cup {f},
              !.claim = [w.claim EXCEPT ![s][f.key] = f],
              !.conflicts = w.conflicts \cup NewConflicts(w, s, f),
              !.shown = [w.shown EXCEPT ![f.key] = Column(w, f, best)],
              !.current = [w.current EXCEPT ![f.key] = best],
              !.events = w.events \cup NewEvents(w, f.key, best),
              !.seen = w.seen \cup {f.key}]

\* The rest of observe, everything pending in the session.
Observe(s, k, v, a) ==
    LET w == writer[s]
        f == NewFact(w, s, k, v, a)
    IN
    /\ w.phase = "open"
    /\ FirstSight(w, k)
    /\ ~Confirms(w, s, k, v)
    /\ \A g \in w.facts : FactId(g) # FactId(f)             \* flush
    /\ w.current[k] # None => w.current[k] \in w.facts      \* no KeyError
    /\ \E best \in Contenders(w, s, f) :
        /\ \A g \in Contenders(w, s, f) : ~Beats(g, best)
        /\ writer' = [writer EXCEPT ![s] = Observed(w, s, f, best)]
    /\ UNCHANGED <<committed, clock>>

\* An INSERT that another committed row refuses: a current_facts row first
\* made by an overlapping sync, or a change event that exists already.
Clashes(s) ==
    \/ \E k \in Key : /\ writer[s].loaded[k] = None
                      /\ writer[s].current[k] # None
                      /\ current[k] # None
    \/ \E e \in writer[s].events, d \in events : EventId(e) = EventId(d)

\* The ORM updates the attributes whose value differs from the loaded one.
Flushed(now, loaded, mine) ==
    [k \in Key |-> IF mine[k] # loaded[k] THEN mine[k] ELSE now[k]]

Commit(s) ==
    LET w == writer[s] IN
    /\ w.phase = "open"
    /\ ~Clashes(s)
    /\ facts' = facts \cup {f \in w.facts : f.src = s}
    /\ claim' = [claim EXCEPT ![s] = w.claim[s]]
    /\ current' = Flushed(current, w.loaded, w.current)
    /\ shown' = Flushed(shown, w.column, w.shown)
    /\ conflicts' = conflicts \cup w.conflicts
    /\ events' = events \cup w.events
    /\ writer' = [writer EXCEPT ![s] = Idle]
    /\ UNCHANGED clock

\* Mutant: a failing sync leaves its claims behind.
RollbackLosesClaims(s) ==
    /\ writer[s].phase = "open"
    /\ claim' = [claim EXCEPT ![s] = writer[s].claim[s]]
    /\ writer' = [writer EXCEPT ![s] = Idle]
    /\ UNCHANGED <<facts, current, shown, conflicts, events, clock>>

\* Any exception, a refused INSERT, a deadlock victim or a crash: rollback.
Rollback(s) ==
    /\ writer[s].phase # "idle"
    /\ writer' = [writer EXCEPT ![s] = Idle]
    /\ UNCHANGED <<committed, clock>>

Next == \E s \in Source :
            \/ Begin(s)
            \/ LoadFacts(s)
            \/ LoadClaims(s)
            \/ LoadCurrent(s)
            \/ LoadColumns(s)
            \/ \E k \in Key : \E o \in Offer[s][k] :
                    \/ Confirm(s, k, o.value)
                    \/ Observe(s, k, o.value, o.auth)
            \/ Commit(s)
            \/ Rollback(s)

Spec == Init /\ [][Next]_vars

-----------------------------------------------------------------------------
(* Types.                                                                  *)

Writer == [phase : Phase, at : Nat, facts : SUBSET Fact,
           claim : [Source -> [Key -> MaybeFact]],
           current : [Key -> MaybeFact], loaded : [Key -> MaybeFact],
           shown : [Key -> Value \cup {None}],
           column : [Key -> Value \cup {None}],
           conflicts : SUBSET (SUBSET Fact), events : SUBSET Event,
           seen : SUBSET Key]

\* Every table and every cache holds rows of its own kind.
TypeOK == /\ facts \subseteq Fact
          /\ claim \in [Source -> [Key -> MaybeFact]]
          /\ current \in [Key -> MaybeFact]
          /\ shown \in [Key -> Value \cup {None}]
          /\ conflicts \subseteq SUBSET Fact
          /\ events \subseteq Event
          /\ clock \in Nat
          /\ writer \in [Source -> Writer]

-----------------------------------------------------------------------------
(* Safety.                                                                 *)

KeySelected(k) == ClaimsOn(claim, k) # {} => Selected(claim, k, current[k])

\* Fact-scoped precedence: the current fact of a key is a claim some source
\* makes now and no other source's claim outranks it (observe, lines 130-162).
CurrentIsSelected == \A k \in Key : KeySelected(k)

\* The column a query reads is the value of the selected observation
\* (observe, lines 149-152 against 153-162).
ProjectionFollowsSelection ==
    \A k \in Projected : current[k] # None => shown[k] = current[k].value

\* Competing current claims are retained: two sources that disagree now have
\* a conflict row for exactly the observations they stand by (lines 105-127).
DisagreementsRecorded ==
    \A k \in Key : \A f, g \in ClaimsOn(claim, k) :
        ~SameValue(k, f.value, g.value) => {f, g} \in conflicts

\* No conflict row joins observations that agree, or of one source.
ConflictsAreDisagreements ==
    \A c \in conflicts : \E f, g \in c :
        /\ c = {f, g}
        /\ f.src # g.src
        /\ f.key = g.key
        /\ ~SameValue(f.key, f.value, g.value)

EventsOn(k) == {e \in events : e.key = k}

\* The change feed replays: each event of a key starts from the value the one
\* before it ended in, and the last one ends in the current value
\* (lines 153-190).  One sync changes a field once: several upstream rows that
\* resolve to one deployment cannot emit contradictory events (persist.py,
\* lines 50-78).
FeedReplays ==
    \A k \in Key : \A e \in EventsOn(k) :
        LET later == {d \in EventsOn(k) : d.at > e.at} IN
        /\ \A d \in EventsOn(k) : d.at = e.at => d = e
        /\ \/ later = {} /\ SameValue(k, e.new.value, current[k].value)
           \/ \E d \in later : /\ SameValue(k, e.new.value, d.old.value)
                               /\ \A x \in later : x.at >= d.at

\* The observations of a source on a key form one chain, in time order, in
\* which no two neighbours say the same, and the claim is its end
\* (lines 74-104).
ChainOf(s, k) == {f \in facts : f.src = s /\ f.key = k}
ChainsIntact ==
    \A s \in Source, k \in Key :
        LET chain == ChainOf(s, k) IN
        /\ {f.step : f \in chain} = 1..Cardinality(chain)
        /\ \A f, g \in chain :
              g.step = f.step + 1 =>
                f.at < g.at /\ ~SameValue(k, f.value, g.value)
        /\ chain # {} => /\ claim[s][k] \in chain
                         /\ claim[s][k].step = Cardinality(chain)

\* A sync whose input is valid is never refused.  No lookup of a claim or a
\* selection misses its fact, no value it may still observe has the primary
\* key of a stored fact, and nothing pending meets a committed row.
\* A -> B -> A stays three observations (lines 52, 70, 76-87 and 154).
NeverRefused ==
    \A s \in Source :
        LET w == writer[s] IN
        /\ w.phase = "facts" => \A k \in Key : ClaimsOn(claim, k) \subseteq w.facts
        /\ w.phase = "open" =>
            /\ \A k \in Key : ClaimsOn(w.claim, k) \cup ({w.current[k]} \ {None})
                                 \subseteq w.facts
            /\ \A k \in Key \ w.seen : \A o \in Offer[s][k] :
                  ~Confirms(w, s, k, o.value) =>
                    FactId(NewFact(w, s, k, o.value, o.auth))
                        \notin {FactId(f) : f \in w.facts}
            /\ ~Clashes(s)

\* Even when syncs overlap, one whose view of a key was still the committed
\* one when it ended leaves the key it changed correctly selected: a stale
\* selection lasts only until the next undisturbed change.
Undisturbed(s, k) ==
    \A t \in Source \ {s} : writer[s].claim[t][k] = claim[t][k]
FreshChangeRepairs ==
    [][\A s \in Source, k \in Key :
          claim'[s][k] # claim[s][k] /\ Undisturbed(s, k) => KeySelected(k)']_vars

\* What the overlap can never corrupt: a selection names a committed
\* observation of its key, and every event and conflict committed facts.
ReferencesHold ==
    /\ \A k \in Key : current[k] # None => current[k] \in facts /\ current[k].key = k
    /\ \A s \in Source, k \in Key : claim[s][k] # None => claim[s][k] \in ChainOf(s, k)
    /\ \A c \in conflicts : c \subseteq facts
    /\ \A e \in events : e.old \in facts /\ e.new \in facts

-----------------------------------------------------------------------------
\* With one sync at a time the ledger is the promise of PrecedenceLedger: a
\* sync takes effect whole, at its commit, on an up-to-date selection.
Promise == INSTANCE PrecedenceLedger WITH
    Source <- Source, Key <- Key, Value <- Value, None <- None, Rate <- Rate,
    claim <- claim, current <- current, events <- events

ImplementsPromise == Promise!Spec
=============================================================================
