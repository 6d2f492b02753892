----------------------- MODULE EvidenceLedger_proofs ------------------------
(***************************************************************************)
(* Machine-checked facts about EvidenceLedger for every set of sources,    *)
(* keys, values and authorities and any number of syncs.  First, for syncs *)
(* that never overlap, the selection, its projection and the conflicts.    *)
(* Then what no overlap can corrupt: the chains of observations, the       *)
(* references among the rows, and the selection of a key that is changed   *)
(* undisturbed.  Then, without overlap again, the change feed, the absence *)
(* of refused syncs, and the refinement of the promise of PrecedenceLedger.*)
(***************************************************************************)
EXTENDS EvidenceLedger, FiniteSetTheorems, TLAPS

-----------------------------------------------------------------------------
(* Types.                                                                  *)

\* What a source offers of a key is a value and an authority.
LEMMA OfferType ==
    \A s \in Source, k \in Key : \A o \in Offer[s][k] :
        o.value \in Value /\ o.auth \in Nat
  BY LedgerAssumption

\* The fact an observation makes is a fact.
LEMMA NewFactType ==
    ASSUME NEW w \in Writer, NEW s \in Source, NEW k \in Key,
           NEW v \in Value, NEW a \in Nat
    PROVE  NewFact(w, s, k, v, a) \in Fact
<1>1. a \in Nat
  OBVIOUS
<1>2. w.at \in Nat /\ w.claim[s][k] \in MaybeFact
  BY DEF Writer
<1>3. NextStep(w.claim[s][k]) \in Nat
  BY <1>2 DEF NextStep, MaybeFact, Fact
<1> QED
  BY <1>1, <1>2, <1>3 DEF NewFact, Fact

\* The claims that compete are claims of the key.
LEMMA ContendersType ==
    ASSUME NEW w \in Writer, NEW s \in Source, NEW f \in Fact
    PROVE  Contenders(w, s, f) \subseteq Fact
<1> DEFINE c == [w.claim EXCEPT ![s][f.key] = f]
<1>1. w.claim \in [Source -> [Key -> MaybeFact]] /\ f.key \in Key
  BY DEF Writer, Fact
<1>2. c \in [Source -> [Key -> MaybeFact]]
  BY <1>1 DEF MaybeFact
<1> QED
  BY <1>1, <1>2 DEF Contenders, ClaimsOn, MaybeFact

\* The conflicts an observation records are conflicts.
LEMMA NewConflictsType ==
    ASSUME NEW w \in Writer, NEW s \in Source, NEW f \in Fact
    PROVE  NewConflicts(w, s, f) \subseteq SUBSET Fact
<1>1. w.claim \in [Source -> [Key -> MaybeFact]] /\ f.key \in Key
  BY DEF Writer, Fact
<1> QED
  BY <1>1 DEF NewConflicts, MaybeFact

\* The events it records are events.
LEMMA NewEventsType ==
    ASSUME NEW w \in Writer, NEW k \in Key, NEW best \in Fact
    PROVE  NewEvents(w, k, best) \subseteq Event
<1>1. w.current[k] \in MaybeFact /\ w.at \in Nat
  BY DEF Writer
<1> QED
  BY <1>1 DEF NewEvents, Event, MaybeFact

\* An observation keeps the caches of a sync well formed.
LEMMA ObservedType ==
    ASSUME NEW w \in Writer, NEW s \in Source, NEW f \in Fact,
           NEW best \in Fact
    PROVE  Observed(w, s, f, best) \in Writer
<1>1. f.key \in Key /\ f.value \in Value /\ best.value \in Value
  BY DEF Fact
<1>2. NewConflicts(w, s, f) \subseteq SUBSET Fact
  BY NewConflictsType
<1>3. NewEvents(w, f.key, best) \subseteq Event
  BY <1>1, NewEventsType
<1>4. Column(w, f, best) \in Value \cup {None}
  BY <1>1 DEF Column, Writer
<1>5. [w.claim EXCEPT ![s][f.key] = f] \in [Source -> [Key -> MaybeFact]]
  <2>1. w.claim \in [Source -> [Key -> MaybeFact]]
    BY DEF Writer
  <2> QED
    BY <1>1, <2>1 DEF MaybeFact
<1>6. /\ [w.shown EXCEPT ![f.key] = Column(w, f, best)]
           \in [Key -> Value \cup {None}]
      /\ [w.current EXCEPT ![f.key] = best] \in [Key -> MaybeFact]
  BY <1>1, <1>4 DEF Writer, MaybeFact
<1>7. /\ w.facts \cup {f} \subseteq Fact
      /\ w.conflicts \cup NewConflicts(w, s, f) \subseteq SUBSET Fact
      /\ w.events \cup NewEvents(w, f.key, best) \subseteq Event
      /\ w.seen \cup {f.key} \subseteq Key
  BY <1>1, <1>2, <1>3 DEF Writer
<1> QED
  BY <1>5, <1>6, <1>7 DEF Observed, Writer

\* What the steps of a transaction write into its caches.
LEMMA CachesType ==
    ASSUME NEW w \in Writer
    PROVE  /\ \A n \in Nat :
                 [w EXCEPT !.phase = "begun", !.at = n] \in Writer
           /\ \A F \in SUBSET Fact :
                 [w EXCEPT !.phase = "facts", !.facts = F] \in Writer
           /\ \A c \in [Source -> [Key -> MaybeFact]] :
                 [w EXCEPT !.phase = "claims", !.claim = c] \in Writer
           /\ \A c \in [Key -> MaybeFact] :
                 [w EXCEPT !.phase = "current",
                           !.current = c, !.loaded = c] \in Writer
           /\ \A c \in [Key -> Value \cup {None}] :
                 [w EXCEPT !.phase = "open",
                           !.shown = c, !.column = c] \in Writer
           /\ \A k \in Key : [w EXCEPT !.seen = w.seen \cup {k}] \in Writer
<1>1. ASSUME NEW n \in Nat
      PROVE  [w EXCEPT !.phase = "begun", !.at = n] \in Writer
  BY DEF Writer, Phase
<1>2. ASSUME NEW F \in SUBSET Fact
      PROVE  [w EXCEPT !.phase = "facts", !.facts = F] \in Writer
  BY DEF Writer, Phase
<1>3. ASSUME NEW c \in [Source -> [Key -> MaybeFact]]
      PROVE  [w EXCEPT !.phase = "claims", !.claim = c] \in Writer
  BY DEF Writer, Phase
<1>4. ASSUME NEW c \in [Key -> MaybeFact]
      PROVE  [w EXCEPT !.phase = "current", !.current = c, !.loaded = c] \in Writer
  BY DEF Writer, Phase
<1>5. ASSUME NEW c \in [Key -> Value \cup {None}]
      PROVE  [w EXCEPT !.phase = "open", !.shown = c, !.column = c] \in Writer
  BY DEF Writer, Phase
<1>6. ASSUME NEW k \in Key
      PROVE  [w EXCEPT !.seen = w.seen \cup {k}] \in Writer
  BY DEF Writer, Phase
<1> QED
  BY <1>1, <1>2, <1>3, <1>4, <1>5, <1>6

\* A sync that has not begun has well-formed, empty caches.
LEMMA IdleType == Idle \in Writer
  BY DEF Idle, Writer, Phase, NoClaims, NoFacts, MaybeFact

\* The empty tables are well formed.
LEMMA InitType == Init => TypeOK
  BY IdleType DEF Init, TypeOK, NoClaims, NoFacts, MaybeFact

\* Replacing one writer by a well-typed one.
LEMMA WriterStep ==
    ASSUME writer \in [Source -> Writer], NEW s \in Source,
           NEW r \in Writer, writer' = [writer EXCEPT ![s] = r]
    PROVE  writer' \in [Source -> Writer]
  OBVIOUS

\* Every step keeps the tables and the caches well formed.
LEMMA NextType == TypeOK /\ [Next]_vars => TypeOK'
<1> SUFFICES ASSUME TypeOK, [Next]_vars PROVE TypeOK'
  OBVIOUS
<1>0. /\ facts \subseteq Fact
      /\ claim \in [Source -> [Key -> MaybeFact]]
      /\ current \in [Key -> MaybeFact]
      /\ shown \in [Key -> Value \cup {None}]
      /\ conflicts \subseteq SUBSET Fact
      /\ events \subseteq Event
      /\ clock \in Nat
      /\ writer \in [Source -> Writer]
      /\ \A s \in Source : writer[s] \in Writer
  BY DEF TypeOK
<1>1. ASSUME NEW s \in Source, Begin(s) PROVE TypeOK'
  <2>0. writer[s] \in Writer /\ clock + 1 \in Nat
    BY <1>0
  <2>1. [writer[s] EXCEPT !.phase = "begun", !.at = clock + 1] \in Writer
    BY <2>0, CachesType
  <2>2. writer' \in [Source -> Writer]
    BY <1>1, <1>0, <2>1, WriterStep DEF Begin
  <2> QED
    BY <1>1, <1>0, <2>2 DEF Begin, committed, TypeOK
<1>2. ASSUME NEW s \in Source, LoadFacts(s) PROVE TypeOK'
  <2>1. [writer[s] EXCEPT !.phase = "facts", !.facts = facts] \in Writer
    BY <1>0, CachesType
  <2>2. writer' \in [Source -> Writer]
    BY <1>2, <1>0, <2>1, WriterStep DEF LoadFacts
  <2> QED
    BY <1>2, <1>0, <2>2 DEF LoadFacts, committed, TypeOK
<1>3. ASSUME NEW s \in Source, LoadClaims(s) PROVE TypeOK'
  <2>1. [writer[s] EXCEPT !.phase = "claims", !.claim = claim] \in Writer
    BY <1>0, CachesType
  <2>2. writer' \in [Source -> Writer]
    BY <1>3, <1>0, <2>1, WriterStep DEF LoadClaims
  <2> QED
    BY <1>3, <1>0, <2>2 DEF LoadClaims, committed, TypeOK
<1>4. ASSUME NEW s \in Source, LoadCurrent(s) PROVE TypeOK'
  <2>1. [writer[s] EXCEPT !.phase = "current",
                          !.current = current, !.loaded = current] \in Writer
    BY <1>0, CachesType
  <2>2. writer' \in [Source -> Writer]
    BY <1>4, <1>0, <2>1, WriterStep DEF LoadCurrent
  <2> QED
    BY <1>4, <1>0, <2>2 DEF LoadCurrent, committed, TypeOK
<1>5. ASSUME NEW s \in Source, LoadColumns(s) PROVE TypeOK'
  <2>1. [writer[s] EXCEPT !.phase = "open",
                          !.shown = shown, !.column = shown] \in Writer
    BY <1>0, CachesType
  <2>2. writer' \in [Source -> Writer]
    BY <1>5, <1>0, <2>1, WriterStep DEF LoadColumns
  <2> QED
    BY <1>5, <1>0, <2>2 DEF LoadColumns, committed, TypeOK
<1>6. ASSUME NEW s \in Source, NEW k \in Key, NEW v \in Value,
             Confirm(s, k, v)
      PROVE TypeOK'
  <2>1. [writer[s] EXCEPT !.seen = writer[s].seen \cup {k}] \in Writer
    BY <1>0, CachesType
  <2>2. writer' \in [Source -> Writer]
    BY <1>6, <1>0, <2>1, WriterStep DEF Confirm
  <2> QED
    BY <1>6, <1>0, <2>2 DEF Confirm, committed, TypeOK
<1>7. ASSUME NEW s \in Source, NEW k \in Key, NEW v \in Value,
             NEW a \in Nat, Observe(s, k, v, a)
      PROVE TypeOK'
  <2> DEFINE w == writer[s]
             f == NewFact(w, s, k, v, a)
  <2>1. w \in Writer
    BY <1>0
  <2>2. f \in Fact
    BY <2>1, NewFactType
  <2>3. PICK best \in Contenders(w, s, f) :
          writer' = [writer EXCEPT ![s] = Observed(w, s, f, best)]
    BY <1>7 DEF Observe
  <2>4. best \in Fact
    BY <2>1, <2>2, <2>3, ContendersType
  <2>5. Observed(w, s, f, best) \in Writer
    BY <2>1, <2>2, <2>4, ObservedType
  <2>6. writer' \in [Source -> Writer]
    BY <1>0, <2>3, <2>5, WriterStep
  <2> QED
    BY <1>7, <1>0, <2>6 DEF Observe, committed, TypeOK
<1>8. ASSUME NEW s \in Source, Commit(s) PROVE TypeOK'
  <2>1. /\ writer[s].facts \subseteq Fact
        /\ writer[s].claim \in [Source -> [Key -> MaybeFact]]
        /\ writer[s].current \in [Key -> MaybeFact]
        /\ writer[s].shown \in [Key -> Value \cup {None}]
        /\ writer[s].conflicts \subseteq SUBSET Fact
        /\ writer[s].events \subseteq Event
    BY <1>0 DEF Writer
  <2>2. /\ claim' \in [Source -> [Key -> MaybeFact]]
        /\ facts' \subseteq Fact
        /\ conflicts' \subseteq SUBSET Fact
        /\ events' \subseteq Event
    BY <1>8, <1>0, <2>1 DEF Commit
  <2>3. current' \in [Key -> MaybeFact]
    BY <1>8, <1>0, <2>1 DEF Commit, Flushed
  <2>4. shown' \in [Key -> Value \cup {None}]
    BY <1>8, <1>0, <2>1 DEF Commit, Flushed
  <2>5. writer' \in [Source -> Writer]
    BY <1>8, <1>0, IdleType, WriterStep DEF Commit
  <2> QED
    BY <1>8, <1>0, <2>2, <2>3, <2>4, <2>5 DEF Commit, TypeOK
<1>9. ASSUME NEW s \in Source, Rollback(s) PROVE TypeOK'
  <2>1. writer' \in [Source -> Writer]
    BY <1>9, <1>0, IdleType, WriterStep DEF Rollback
  <2> QED
    BY <1>9, <1>0, <2>1 DEF Rollback, committed, TypeOK
<1>10. CASE UNCHANGED vars
  BY <1>10, <1>0 DEF vars, TypeOK
<1> QED
  BY <1>1, <1>2, <1>3, <1>4, <1>5, <1>6, <1>7, <1>8, <1>9, <1>10, OfferType DEF Next

\* The tables and every sync's caches keep their types.
THEOREM LedgerTypes == Spec => []TypeOK
  BY InitType, NextType, PTL DEF Spec

-----------------------------------------------------------------------------
(* One sync at a time.  The selection, the projection and the conflicts    *)
(* are right after every commit because the open transaction already has   *)
(* them right in its caches, and its caches differ from the tables only in *)
(* what the transaction itself will write.                                 *)

Alone == \A s, t \in Source :
             writer[s].phase # "idle" /\ writer[t].phase # "idle" => s = t

\* w's view of the tables, as far as it has been loaded.
UpToDate(w, s) ==
    /\ w.phase \in {"claims", "current"} => w.claim = claim
    /\ w.phase = "current" => w.current = current /\ w.loaded = current
    /\ w.phase = "open" => /\ w.loaded = current
                           /\ w.column = shown
                           /\ \A t \in Source \ {s} : w.claim[t] = claim[t]

SelectedIn(c, cur) ==
    \A k \in Key : ClaimsOn(c, k) # {} => Selected(c, k, cur[k])
ProjectedIn(cur, col) ==
    \A k \in Projected : cur[k] # None => col[k] = cur[k].value
RecordedIn(c, pairs) ==
    \A k \in Key : \A f, g \in ClaimsOn(c, k) :
        ~SameValue(k, f.value, g.value) => {f, g} \in pairs

Consistent(c, cur, col, pairs) == /\ SelectedIn(c, cur)
                                  /\ ProjectedIn(cur, col)
                                  /\ RecordedIn(c, pairs)

Pending(w) ==
    w.phase = "open" =>
        Consistent(w.claim, w.current, w.shown, conflicts \cup w.conflicts)

\* The strengthening: the three properties of the tables, and of the caches
\* of the one open transaction.
SerialInv ==
    /\ Alone
    /\ Consistent(claim, current, shown, conflicts)
    /\ \A s \in Source : UpToDate(writer[s], s) /\ Pending(writer[s])

\* On its own field only the observing source's claim is replaced.
LEMMA ClaimsHere ==
    ASSUME NEW c \in [Source -> [Key -> MaybeFact]], NEW s \in Source,
           NEW k \in Key, NEW f
    PROVE  ClaimsOn([c EXCEPT ![s][k] = f], k)
               \subseteq {f} \cup ({c[t][k] : t \in Source \ {s}} \ {None})
<1>1. \A t \in Source : [c EXCEPT ![s][k] = f][t][k] = IF t = s THEN f ELSE c[t][k]
  OBVIOUS
<1> QED
  BY <1>1 DEF ClaimsOn

\* observe keeps the caches consistent: it selects among the claims the new
\* one joins, projects what it selected and records every disagreement.
LEMMA ObservedConsistent ==
    ASSUME NEW w \in Writer, NEW s \in Source, NEW f \in Fact, NEW pairs,
           NEW best \in Contenders(w, s, f),
           \A g \in Contenders(w, s, f) : ~Beats(g, best),
           Consistent(w.claim, w.current, w.shown, pairs)
    PROVE  LET o == Observed(w, s, f, best) IN
           Consistent(o.claim, o.current, o.shown,
                      pairs \cup NewConflicts(w, s, f))
<1> DEFINE c == [w.claim EXCEPT ![s][f.key] = f]
           cur == [w.current EXCEPT ![f.key] = best]
           col == [w.shown EXCEPT ![f.key] = Column(w, f, best)]
<1>1. /\ w.claim \in [Source -> [Key -> MaybeFact]]
      /\ w.current \in [Key -> MaybeFact]
      /\ w.shown \in [Key -> Value \cup {None}]
      /\ f.key \in Key
  BY DEF Writer, Fact
<1>2. \A j \in Key \ {f.key} : ClaimsOn(c, j) = ClaimsOn(w.claim, j)
  <2> SUFFICES ASSUME NEW j \in Key \ {f.key}
               PROVE  ClaimsOn(c, j) = ClaimsOn(w.claim, j)
    OBVIOUS
  <2>1. \A t \in Source : c[t][j] = w.claim[t][j]
    BY <1>1
  <2> QED
    BY <2>1 DEF ClaimsOn
<1>3. SelectedIn(c, cur)
  <2> SUFFICES ASSUME NEW k \in Key, ClaimsOn(c, k) # {}
               PROVE  Selected(c, k, cur[k])
    BY DEF SelectedIn
  <2>1. CASE k = f.key
    BY <2>1, <1>1 DEF Contenders, Selected
  <2>2. CASE k # f.key
    <3>1. Selected(w.claim, k, w.current[k])
      BY <2>2, <1>2 DEF Consistent, SelectedIn
    <3>2. cur[k] = w.current[k] /\ ClaimsOn(c, k) = ClaimsOn(w.claim, k)
      BY <2>2, <1>1, <1>2
    <3> QED
      BY <3>1, <3>2 DEF Selected
  <2> QED
    BY <2>1, <2>2
<1>4. ProjectedIn(cur, col)
  <2> SUFFICES ASSUME NEW k \in Projected, cur[k] # None
               PROVE  col[k] = cur[k].value
    BY DEF ProjectedIn
  <2>1. k \in Key
    BY LedgerAssumption
  <2>2. CASE k = f.key
    BY <2>2, <1>1 DEF Column
  <2>3. CASE k # f.key
    BY <2>1, <2>3, <1>1 DEF Consistent, ProjectedIn
  <2> QED
    BY <2>2, <2>3
<1>5. RecordedIn(c, pairs \cup NewConflicts(w, s, f))
  <2> SUFFICES ASSUME NEW k \in Key, NEW g \in ClaimsOn(c, k),
                      NEW h \in ClaimsOn(c, k), ~SameValue(k, g.value, h.value)
               PROVE  {g, h} \in pairs \cup NewConflicts(w, s, f)
    BY DEF RecordedIn
  <2>1. CASE k # f.key
    BY <2>1, <1>2 DEF Consistent, RecordedIn
  <2>2. CASE k = f.key
    <3> DEFINE others == {w.claim[t][k] : t \in Source \ {s}} \ {None}
    <3>0. ClaimsOn(c, f.key)
              \subseteq {f} \cup ({w.claim[t][f.key] : t \in Source \ {s}} \ {None})
      BY <1>1, ClaimsHere, Zenon
    <3>1. g \in {f} \cup others /\ h \in {f} \cup others
      <4> HIDE DEF c
      <4> QED
        BY <2>2, <3>0
    <3>2. others \subseteq ClaimsOn(w.claim, k)
      BY DEF ClaimsOn
    <3>3. ~SameValue(k, h.value, g.value)
      BY DEF SameValue
    <3>4. CASE g \in others /\ h \in others
      BY <3>2, <3>4 DEF Consistent, RecordedIn
    <3>5. CASE g = f
      <4>1. h \in others
        BY <3>1, <3>5 DEF SameValue
      <4> QED
        BY <2>2, <3>3, <3>5, <4>1 DEF NewConflicts
    <3>6. CASE h = f
      <4>1. g \in others
        BY <3>1, <3>6 DEF SameValue
      <4> QED
        BY <2>2, <3>6, <4>1 DEF NewConflicts
    <3> QED
      BY <3>1, <3>4, <3>5, <3>6
  <2> QED
    BY <2>1, <2>2
<1>6. LET o == Observed(w, s, f, best) IN
      o.claim = c /\ o.current = cur /\ o.shown = col
  BY DEF Observed
<1> QED
  BY <1>3, <1>4, <1>5, <1>6 DEF Consistent

\* The serial invariant holds of the empty tables.
LEMMA SerialInit == Init => SerialInv
<1> SUFFICES ASSUME Init PROVE SerialInv
  OBVIOUS
<1>1. \A k \in Key : ClaimsOn(NoClaims, k) = {}
  BY DEF ClaimsOn, NoClaims
<1>2. Consistent(claim, current, shown, conflicts)
  <2>1. SelectedIn(claim, current) /\ RecordedIn(claim, conflicts)
    BY <1>1 DEF Init, SelectedIn, RecordedIn
  <2>2. ProjectedIn(current, shown)
    BY LedgerAssumption DEF Init, ProjectedIn, NoFacts
  <2> QED
    BY <2>1, <2>2 DEF Consistent
<1>3. \A s \in Source : writer[s].phase = "idle"
  BY DEF Init, Idle
<1> QED
  BY <1>2, <1>3 DEF SerialInv, Alone, UpToDate, Pending

\* A transaction step of s that leaves the tables alone, with the other
\* transactions idle.
LEMMA LocalStep ==
    ASSUME SerialInv, NEW s \in Source, UNCHANGED committed,
           \A t \in Source \ {s} : writer[t].phase = "idle"
                                  /\ writer'[t] = writer[t],
           (UpToDate(writer[s], s) /\ Pending(writer[s]))'
    PROVE  SerialInv'
<1>1. \A t \in Source \ {s} : writer'[t].phase = "idle"
  OBVIOUS
<1>2. Consistent(claim, current, shown, conflicts)'
  BY DEF SerialInv, committed, Consistent, SelectedIn, ProjectedIn, RecordedIn
<1>3. Alone'
  BY <1>1 DEF Alone
<1>4. \A t \in Source \ {s} : (UpToDate(writer[t], t) /\ Pending(writer[t]))'
  BY <1>1 DEF UpToDate, Pending
<1> QED
  BY <1>2, <1>3, <1>4 DEF SerialInv

\* Every step keeps it when syncs do not overlap.
LEMMA SerialNext ==
    ASSUME ~Concurrent, TypeOK, SerialInv, [Next]_vars
    PROVE  SerialInv'
<1>1. ASSUME NEW s \in Source, writer[s].phase # "idle"
      PROVE  \A t \in Source \ {s} : writer[t].phase = "idle"
  BY <1>1 DEF SerialInv, Alone
<1>2. ASSUME NEW s \in Source
      PROVE  UpToDate(writer[s], s) /\ Pending(writer[s]) /\ writer[s] \in Writer
  BY <1>2 DEF SerialInv, TypeOK
<1>3. ASSUME NEW s \in Source, NEW w, writer' = [writer EXCEPT ![s] = w]
      PROVE  writer'[s] = w /\ \A t \in Source \ {s} : writer'[t] = writer[t]
  BY <1>3 DEF TypeOK
<1>4. ASSUME NEW s \in Source, Begin(s) PROVE SerialInv'
  <2> DEFINE w == [writer[s] EXCEPT !.phase = "begun", !.at = clock + 1]
  <2>1. w.phase = "begun"
    BY <1>2 DEF Writer
  <2>2. writer'[s] = w /\ \A t \in Source \ {s} : writer'[t] = writer[t]
    BY <1>3, <1>4 DEF Begin
  <2>3. (UpToDate(writer[s], s) /\ Pending(writer[s]))'
    BY <2>1, <2>2 DEF UpToDate, Pending
  <2> QED
    BY <1>4, <2>2, <2>3, LocalStep DEF Begin
<1>5. ASSUME NEW s \in Source, LoadFacts(s) PROVE SerialInv'
  <2> DEFINE w == [writer[s] EXCEPT !.phase = "facts", !.facts = facts]
  <2>1. w.phase = "facts"
    BY <1>2 DEF Writer
  <2>2. writer'[s] = w /\ \A t \in Source \ {s} : writer'[t] = writer[t]
    BY <1>3, <1>5 DEF LoadFacts
  <2>3. (UpToDate(writer[s], s) /\ Pending(writer[s]))'
    BY <2>1, <2>2 DEF UpToDate, Pending
  <2> QED
    BY <1>5, <1>1, <2>2, <2>3, LocalStep DEF LoadFacts
<1>6. ASSUME NEW s \in Source, LoadClaims(s) PROVE SerialInv'
  <2> DEFINE w == [writer[s] EXCEPT !.phase = "claims", !.claim = claim]
  <2>1. w.phase = "claims" /\ w.claim = claim
    BY <1>2 DEF Writer
  <2>2. writer'[s] = w /\ \A t \in Source \ {s} : writer'[t] = writer[t]
    BY <1>3, <1>6 DEF LoadClaims
  <2>3. (UpToDate(writer[s], s) /\ Pending(writer[s]))'
    BY <1>6, <2>1, <2>2 DEF UpToDate, Pending, LoadClaims, committed
  <2> QED
    BY <1>6, <1>1, <2>2, <2>3, LocalStep DEF LoadClaims
<1>7. ASSUME NEW s \in Source, LoadCurrent(s) PROVE SerialInv'
  <2> DEFINE w == [writer[s] EXCEPT !.phase = "current",
                                    !.current = current, !.loaded = current]
  <2>1. /\ w.phase = "current" /\ w.current = current /\ w.loaded = current
        /\ w.claim = writer[s].claim
    BY <1>2 DEF Writer
  <2>2. writer'[s] = w /\ \A t \in Source \ {s} : writer'[t] = writer[t]
    BY <1>3, <1>7 DEF LoadCurrent
  <2>3. writer[s].claim = claim
    BY <1>2, <1>7 DEF UpToDate, LoadCurrent
  <2>4. (UpToDate(writer[s], s) /\ Pending(writer[s]))'
    BY <1>7, <2>1, <2>2, <2>3 DEF UpToDate, Pending, LoadCurrent, committed
  <2> QED
    BY <1>7, <1>1, <2>2, <2>4, LocalStep DEF LoadCurrent
<1>8. ASSUME NEW s \in Source, LoadColumns(s) PROVE SerialInv'
  <2> DEFINE w == [writer[s] EXCEPT !.phase = "open",
                                    !.shown = shown, !.column = shown]
  <2>1. /\ w.phase = "open" /\ w.shown = shown /\ w.column = shown
        /\ w.claim = writer[s].claim
        /\ w.current = writer[s].current /\ w.loaded = writer[s].loaded
    BY <1>2 DEF Writer
  <2>2. writer'[s] = w /\ \A t \in Source \ {s} : writer'[t] = writer[t]
    BY <1>3, <1>8 DEF LoadColumns
  <2>3. /\ writer[s].claim = claim
        /\ writer[s].current = current /\ writer[s].loaded = current
    BY <1>2, <1>8 DEF UpToDate, LoadColumns
  <2>4. Consistent(w.claim, w.current, w.shown, conflicts \cup w.conflicts)
    BY <2>1, <2>3 DEF SerialInv, Consistent, RecordedIn
  <2>5. (UpToDate(writer[s], s) /\ Pending(writer[s]))'
    BY <1>8, <2>1, <2>2, <2>3, <2>4 DEF UpToDate, Pending, LoadColumns, committed
  <2> QED
    BY <1>8, <1>1, <2>2, <2>5, LocalStep DEF LoadColumns
<1>9. ASSUME NEW s \in Source, NEW k \in Key, NEW v \in Value,
             Confirm(s, k, v)
      PROVE  SerialInv'
  <2> DEFINE w == [writer[s] EXCEPT !.seen = writer[s].seen \cup {k}]
  <2>1. /\ w.phase = "open" /\ w.shown = writer[s].shown
        /\ w.column = writer[s].column /\ w.claim = writer[s].claim
        /\ w.current = writer[s].current /\ w.loaded = writer[s].loaded
        /\ w.conflicts = writer[s].conflicts
    BY <1>2, <1>9 DEF Writer, Confirm
  <2>2. writer'[s] = w /\ \A t \in Source \ {s} : writer'[t] = writer[t]
    BY <1>3, <1>9 DEF Confirm
  <2>3. UpToDate(writer[s], s) /\ Pending(writer[s]) /\ writer[s].phase = "open"
    BY <1>2, <1>9 DEF Confirm
  <2>4. (UpToDate(writer[s], s) /\ Pending(writer[s]))'
    BY <1>9, <2>1, <2>2, <2>3 DEF UpToDate, Pending, Confirm, committed
  <2> QED
    BY <1>9, <1>1, <2>2, <2>4, LocalStep DEF Confirm
<1>10. ASSUME NEW s \in Source, NEW k \in Key, NEW v \in Value,
              NEW a \in Nat, Observe(s, k, v, a)
       PROVE  SerialInv'
  <2> DEFINE w == writer[s]
             f == NewFact(w, s, k, v, a)
  <2>1. w \in Writer /\ f \in Fact
    BY <1>2, NewFactType
  <2>2. PICK best \in Contenders(w, s, f) :
          /\ \A g \in Contenders(w, s, f) : ~Beats(g, best)
          /\ writer' = [writer EXCEPT ![s] = Observed(w, s, f, best)]
    BY <1>10 DEF Observe
  <2> DEFINE o == Observed(w, s, f, best)
  <2>3. writer'[s] = o /\ \A t \in Source \ {s} : writer'[t] = writer[t]
    BY <1>3, <2>2
  <2>4. UpToDate(w, s) /\ Pending(w) /\ w.phase = "open"
    BY <1>2, <1>10 DEF Observe
  <2>5. Consistent(o.claim, o.current, o.shown,
                   (conflicts \cup w.conflicts) \cup NewConflicts(w, s, f))
    BY <2>1, <2>2, <2>4, ObservedConsistent DEF Pending
  <2>6. /\ o.phase = "open" /\ o.loaded = w.loaded /\ o.column = w.column
        /\ o.conflicts = w.conflicts \cup NewConflicts(w, s, f)
        /\ \A t \in Source \ {s} : o.claim[t] = w.claim[t]
    BY <2>1, <2>4 DEF Observed, Writer
  <2> HIDE DEF f
  <2>7. conflicts \cup o.conflicts
          = (conflicts \cup w.conflicts) \cup NewConflicts(w, s, f)
    BY <2>6
  <2> HIDE DEF w, o
  <2>8. UNCHANGED committed
    BY <1>10 DEF Observe
  <2>9. UpToDate(writer[s], s)'
    BY <2>3, <2>4, <2>6, <2>8 DEF UpToDate, committed
  <2>10. Pending(writer[s])'
    BY <2>3, <2>5, <2>6, <2>7, <2>8 DEF Pending, committed
  <2> QED
    BY <1>10, <1>1, <2>3, <2>8, <2>9, <2>10, LocalStep DEF Observe
<1>11. ASSUME NEW s \in Source, Rollback(s) PROVE SerialInv'
  <2>1. writer'[s] = Idle /\ \A t \in Source \ {s} : writer'[t] = writer[t]
    BY <1>3, <1>11 DEF Rollback
  <2>2. (UpToDate(writer[s], s) /\ Pending(writer[s]))'
    BY <2>1 DEF UpToDate, Pending, Idle
  <2> QED
    BY <1>11, <1>1, <2>1, <2>2, LocalStep DEF Rollback
<1>12. ASSUME NEW s \in Source, Commit(s) PROVE SerialInv'
  <2> DEFINE w == writer[s]
  <2>1. w \in Writer /\ w.phase = "open" /\ UpToDate(w, s) /\ Pending(w)
    BY <1>2, <1>12 DEF Commit
  <2>2. w.loaded = current /\ w.column = shown
        /\ \A t \in Source \ {s} : w.claim[t] = claim[t]
    BY <2>1 DEF UpToDate
  <2>3. claim' = w.claim
    <3>1. claim \in [Source -> [Key -> MaybeFact]]
          /\ w.claim \in [Source -> [Key -> MaybeFact]]
      BY <2>1 DEF Writer, TypeOK
    <3>2. claim' = [claim EXCEPT ![s] = w.claim[s]]
      BY <1>12 DEF Commit
    <3>3. \A t \in Source : claim'[t] = w.claim[t]
      BY <3>1, <3>2, <2>2
    <3> QED
      BY <3>1, <3>2, <3>3
  <2>4. current' = w.current
    <3>1. current \in [Key -> MaybeFact] /\ w.current \in [Key -> MaybeFact]
      BY <2>1 DEF Writer, TypeOK
    <3> QED
      BY <1>12, <2>2, <3>1 DEF Commit, Flushed
  <2>5. shown' = w.shown
    <3>1. shown \in [Key -> Value \cup {None}]
          /\ w.shown \in [Key -> Value \cup {None}]
      BY <2>1 DEF Writer, TypeOK
    <3> QED
      BY <1>12, <2>2, <3>1 DEF Commit, Flushed
  <2>6. conflicts' = conflicts \cup w.conflicts
    BY <1>12 DEF Commit
  <2>7. Consistent(claim, current, shown, conflicts)'
    BY <2>1, <2>3, <2>4, <2>5, <2>6 DEF Pending
  <2>8. \A t \in Source : writer'[t].phase = "idle"
    <3>1. writer'[s] = Idle /\ \A t \in Source \ {s} : writer'[t] = writer[t]
      BY <1>3, <1>12 DEF Commit
    <3> QED
      BY <1>1, <2>1, <3>1 DEF Idle
  <2>9. Alone' /\ \A t \in Source : (UpToDate(writer[t], t) /\ Pending(writer[t]))'
    BY <2>8 DEF Alone, UpToDate, Pending
  <2> QED
    BY <2>7, <2>9 DEF SerialInv
<1>13. CASE UNCHANGED vars
  BY <1>13 DEF vars, SerialInv, Alone, Consistent, SelectedIn, ProjectedIn,
               RecordedIn, UpToDate, Pending
<1> QED
  BY <1>4, <1>5, <1>6, <1>7, <1>8, <1>9, <1>10, <1>11, <1>12, <1>13,
     OfferType DEF Next

\* It implies the three safety properties.
LEMMA SerialSafe == SerialInv => /\ CurrentIsSelected
                                 /\ ProjectionFollowsSelection
                                 /\ DisagreementsRecorded
  BY DEF SerialInv, Consistent, SelectedIn, ProjectedIn, RecordedIn,
         CurrentIsSelected, KeySelected, ProjectionFollowsSelection,
         DisagreementsRecorded

\* It holds in every state when syncs do not overlap.
LEMMA SerialInvariant == ASSUME ~Concurrent PROVE Spec => []SerialInv
<1>1. TypeOK /\ SerialInv /\ [Next]_vars => SerialInv'
  BY SerialNext
<1> QED
  BY LedgerTypes, SerialInit, <1>1, PTL DEF Spec

\* While syncs never overlap, the current fact of every field is a claim no
\* other claim outranks.
THEOREM SerialSelection == ASSUME ~Concurrent PROVE Spec => []CurrentIsSelected
  BY SerialInvariant, SerialSafe, PTL

\* While syncs never overlap, a projected column shows the selected value.
THEOREM SerialProjection ==
    ASSUME ~Concurrent PROVE Spec => []ProjectionFollowsSelection
  BY SerialInvariant, SerialSafe, PTL

\* While syncs never overlap, every two claims that disagree have their
\* conflict row.
THEOREM SerialConflicts ==
    ASSUME ~Concurrent PROVE Spec => []DisagreementsRecorded
  BY SerialInvariant, SerialSafe, PTL

-----------------------------------------------------------------------------
(* Syncs may overlap.  A transaction is wrong about the rest of the world  *)
(* only in ways that do not matter: what it has cached of the other        *)
(* sources is old but committed, and on its own source it is exact,        *)
(* because no other transaction writes there.                              *)

ChainIn(F, s, k) == {f \in F : f.src = s /\ f.key = k}

\* chain is the history of one source on k, and c its end.
Chained(chain, c, k) ==
    /\ IsFiniteSet(chain)
    /\ c = None => chain = {}
    /\ c # None => c \in chain /\ c.step = Cardinality(chain)
    /\ {f.step : f \in chain} = 1..Cardinality(chain)
    /\ \A f, g \in chain : f.step = g.step => f = g
    /\ \A f, g \in chain :
          g.step = f.step + 1 => f.at < g.at /\ ~SameValue(k, f.value, g.value)

Disagreement(c) == \E f, g \in c : /\ c = {f, g}
                                   /\ f.src # g.src
                                   /\ f.key = g.key
                                   /\ ~SameValue(f.key, f.value, g.value)

Tables == /\ ReferencesHold
          /\ \A c \in conflicts : Disagreement(c)
          /\ \A s \in Source, k \in Key : Chained(ChainIn(facts, s, k), claim[s][k], k)
          /\ \A f \in facts : f.at <= clock

\* Everything s has committed lies in its past.
Timely(w, s) == w.phase # "idle" => /\ w.at <= clock
                                    /\ \A f \in facts : f.src = s => f.at < w.at

\* Nothing is pending before the caches are complete.
Quiet(w) == w.phase # "open" => w.seen = {} /\ w.conflicts = {} /\ w.events = {}

\* A cached fact is committed or made by this sync; none of its own is missing.
FactsCached(w, s) ==
    /\ \A f \in facts : f.src = s => f \in w.facts
    /\ \A f \in w.facts : \/ f \in facts
                          \/ f.src = s /\ f.key \in w.seen /\ f.at = w.at

\* A cached claim is on a cached fact; the source's own are the committed
\* ones or made by this sync, and end the source's chain.
ClaimsCached(w, s) ==
    /\ \A t \in Source, k \in Key :
          w.claim[t][k] # None => w.claim[t][k] \in ChainIn(w.facts, t, k)
    /\ \A k \in Key : \/ w.claim[s][k] = claim[s][k]
                      \/ /\ k \in w.seen
                         /\ w.claim[s][k] # None
                         /\ w.claim[s][k].at = w.at
    /\ \A k \in Key : Chained(ChainIn(w.facts, s, k), w.claim[s][k], k)

\* A selection moved exactly where the claim did, and was then the best of
\* the cached claims; if no cached claim is stale it started from the truth.
CurrentCached(w, s) ==
    \A k \in Key :
        /\ w.current[k] # None =>
              w.current[k] \in facts \cup w.facts /\ w.current[k].key = k
        /\ w.claim[s][k] = claim[s][k] => w.current[k] = w.loaded[k]
        /\ w.claim[s][k] # claim[s][k] => Selected(w.claim, k, w.current[k])
        /\ (\A t \in Source \ {s} : w.claim[t][k] = claim[t][k])
              => w.loaded[k] = current[k]

\* What the transaction will insert refers to facts it has cached.
PendingSound(w) ==
    /\ \A c \in w.conflicts : c \subseteq w.facts /\ Disagreement(c)
    /\ \A e \in w.events : e.old \in w.facts /\ e.new \in w.facts

View(w, s) ==
    /\ Timely(w, s)
    /\ Quiet(w)
    /\ w.phase \notin {"idle", "begun"} => FactsCached(w, s)
    /\ w.phase \in {"claims", "current", "open"} => ClaimsCached(w, s)
    /\ w.phase \in {"current", "open"} => CurrentCached(w, s)
    /\ PendingSound(w)

OverlapInv == Tables /\ \A s \in Source : View(writer[s], s)

-----------------------------------------------------------------------------
\* A chain without facts.
LEMMA ChainEmpty == ASSUME NEW k PROVE Chained({}, None, k)
<1>1. IsFiniteSet({}) /\ Cardinality({}) = 0
  BY FS_EmptySet
<1>2. 1..0 = {}
  OBVIOUS
<1> QED
  BY <1>1, <1>2 DEF Chained

\* A chain grows by one observation that follows its end.
LEMMA ChainExtends ==
    ASSUME NEW chain \in SUBSET Fact, NEW c, NEW k, NEW f \in Fact,
           Chained(chain, c, k), f.step = NextStep(c),
           \A g \in chain : g.at < f.at,
           c # None => ~SameValue(k, c.value, f.value)
    PROVE  Chained(chain \cup {f}, f, k)
<1> DEFINE n == Cardinality(chain)
           more == chain \cup {f}
<1>1. /\ IsFiniteSet(chain) /\ n \in Nat
      /\ {g.step : g \in chain} = 1..n
      /\ \A g \in chain : g.step \in 1..n
  <2>1. IsFiniteSet(chain) /\ {g.step : g \in chain} = 1..n
    BY DEF Chained
  <2>2. n \in Nat
    BY <2>1, FS_CardinalityType
  <2> QED
    BY <2>1, <2>2
<1>2. f.step = n + 1
  <2>1. CASE c = None
    <3>1. chain = {}
      BY <2>1 DEF Chained
    <3>2. n = 0
      BY <3>1, FS_EmptySet
    <3> QED
      BY <2>1, <3>2 DEF NextStep
  <2>2. CASE c # None
    BY <2>2 DEF Chained, NextStep
  <2> QED
    BY <2>1, <2>2
<1>3. f \notin chain
  BY <1>1, <1>2
<1>4. IsFiniteSet(more) /\ Cardinality(more) = n + 1
  BY <1>1, <1>3, FS_AddElement
<1>5. {g.step : g \in more} = 1..(n + 1)
  <2>1. {g.step : g \in more} = {g.step : g \in chain} \cup {f.step}
    OBVIOUS
  <2>2. 1..(n + 1) = 1..n \cup {n + 1}
    BY <1>1
  <2> HIDE DEF n, more
  <2> QED
    BY <1>1, <1>2, <2>1, <2>2
<1>6. \A g, h \in more : g.step = h.step => g = h
  BY <1>1, <1>2 DEF Chained
<1>7. \A g, h \in more :
         h.step = g.step + 1 => g.at < h.at /\ ~SameValue(k, g.value, h.value)
  <2> SUFFICES ASSUME NEW g \in more, NEW h \in more, h.step = g.step + 1
               PROVE  g.at < h.at /\ ~SameValue(k, g.value, h.value)
    OBVIOUS
  <2>1. CASE g \in chain /\ h \in chain
    BY <2>1 DEF Chained
  <2>2. CASE g \in chain /\ h = f
    <3>1. g.step = n /\ c # None /\ c \in chain /\ c.step = n
      BY <1>1, <1>2, <2>2 DEF Chained
    <3>2. g = c
      BY <2>2, <3>1 DEF Chained
    <3> QED
      BY <2>2, <3>1, <3>2
  <2>3. CASE g = f
    <3>1. g.step = n + 1
      BY <2>3, <1>2
    <3>2. h.step \in 1..(n + 1)
      BY <1>1, <1>2
    <3> QED
      BY <3>1, <3>2, <1>1
  <2> QED
    BY <2>1, <2>2, <2>3
<1>8. f # None /\ f \in more /\ f.step = Cardinality(more)
  BY <1>2, <1>4, FactsAssumption
<1> HIDE DEF n
<1> QED
  BY <1>2, <1>4, <1>5, <1>6, <1>7, <1>8 DEF Chained

\* The fields of the caches after an observation.
LEMMA ObservedFields ==
    ASSUME NEW w \in Writer, NEW s \in Source, NEW f \in Fact, NEW best
    PROVE  LET o == Observed(w, s, f, best) IN
           /\ o.phase = w.phase /\ o.at = w.at /\ o.loaded = w.loaded
           /\ o.column = w.column
           /\ o.facts = w.facts \cup {f}
           /\ o.seen = w.seen \cup {f.key}
           /\ o.conflicts = w.conflicts \cup NewConflicts(w, s, f)
           /\ o.events = w.events \cup NewEvents(w, f.key, best)
           /\ \A t \in Source, k \in Key :
                 o.claim[t][k] = IF t = s /\ k = f.key THEN f ELSE w.claim[t][k]
           /\ \A k \in Key :
                 o.current[k] = IF k = f.key THEN best ELSE w.current[k]
           /\ o.claim = [w.claim EXCEPT ![s][f.key] = f]
<1> DEFINE o == Observed(w, s, f, best)
<1>1. w.claim \in [Source -> [Key -> MaybeFact]] /\ w.current \in [Key -> MaybeFact]
  BY DEF Writer
<1>2. /\ o.phase = w.phase /\ o.at = w.at /\ o.loaded = w.loaded
      /\ o.column = w.column
      /\ o.facts = w.facts \cup {f}
      /\ o.seen = w.seen \cup {f.key}
      /\ o.conflicts = w.conflicts \cup NewConflicts(w, s, f)
      /\ o.events = w.events \cup NewEvents(w, f.key, best)
      /\ o.claim = [w.claim EXCEPT ![s][f.key] = f]
      /\ o.current = [w.current EXCEPT ![f.key] = best]
  BY DEF Observed, Writer
<1> HIDE DEF o
<1>3. \A t \in Source, k \in Key :
         o.claim[t][k] = IF t = s /\ k = f.key THEN f ELSE w.claim[t][k]
  BY <1>1, <1>2
<1>4. \A k \in Key : o.current[k] = IF k = f.key THEN best ELSE w.current[k]
  BY <1>1, <1>2
<1> QED
  BY <1>2, <1>3, <1>4 DEF o

\* The empty tables satisfy the overlap invariant.
LEMMA OverlapInit == Init => OverlapInv
<1> SUFFICES ASSUME Init PROVE OverlapInv
  OBVIOUS
<1>1. Tables
  <2>1. \A s \in Source, k \in Key : ChainIn(facts, s, k) = {} /\ claim[s][k] = None
    BY DEF Init, ChainIn, NoClaims
  <2>2. \A s \in Source, k \in Key : Chained(ChainIn(facts, s, k), claim[s][k], k)
    BY <2>1, ChainEmpty
  <2>3. ReferencesHold
    BY <2>1 DEF Init, ReferencesHold, NoFacts
  <2> QED
    BY <2>2, <2>3 DEF Init, Tables
<1>2. \A s \in Source : View(writer[s], s)
  BY DEF Init, Idle, View, Timely, Quiet, PendingSound
<1> QED
  BY <1>1, <1>2 DEF OverlapInv

\* A transaction that is rolled back or committed has nothing to keep.
LEMMA IdleView == \A s : View(Idle, s)
  BY DEF Idle, View, Timely, Quiet, PendingSound

\* A step of s in its own caches is no concern of the other transactions.
LEMMA LocalView ==
    ASSUME TypeOK, OverlapInv, NEW s \in Source, UNCHANGED committed,
           clock' \in Nat, clock <= clock',
           \A t \in Source \ {s} : writer'[t] = writer[t],
           View(writer[s], s)'
    PROVE  OverlapInv'
<1>1. /\ UNCHANGED <<facts, claim, current, conflicts, events>>
      /\ clock \in Nat /\ \A f \in facts : f.at \in Nat
      /\ \A t \in Source : writer[t].at \in Nat
  BY DEF committed, TypeOK, Fact, Writer
<1>2. Tables'
  BY <1>1 DEF OverlapInv, Tables, ReferencesHold, ChainOf
<1>3. ASSUME NEW t \in Source \ {s} PROVE View(writer[t], t)'
  <2>1. writer'[t] = writer[t] /\ View(writer[t], t)
    BY DEF OverlapInv
  <2>2. Timely(writer[t], t)'
    BY <1>1, <2>1 DEF View, Timely
  <2>3. Quiet(writer[t])' /\ PendingSound(writer[t])'
    BY <2>1 DEF View, Quiet, PendingSound
  <2>4. (writer[t].phase \notin {"idle", "begun"} => FactsCached(writer[t], t))'
    BY <1>1, <2>1 DEF View, FactsCached
  <2>5. (writer[t].phase \in {"claims", "current", "open"} => ClaimsCached(writer[t], t))'
    BY <1>1, <2>1 DEF View, ClaimsCached
  <2>6. (writer[t].phase \in {"current", "open"} => CurrentCached(writer[t], t))'
    BY <1>1, <2>1 DEF View, CurrentCached
  <2> QED
    BY <2>2, <2>3, <2>4, <2>5, <2>6 DEF View
<1> QED
  BY <1>2, <1>3 DEF OverlapInv

\* A sync begins after everything its source has committed.
LEMMA BeginOverlap ==
    ASSUME TypeOK, OverlapInv, NEW s \in Source, Begin(s) PROVE OverlapInv'
<1> DEFINE w == [writer[s] EXCEPT !.phase = "begun", !.at = clock + 1]
<1>0. /\ writer[s] \in Writer /\ View(writer[s], s) /\ writer[s].phase = "idle"
      /\ clock \in Nat /\ \A f \in facts : f.at \in Nat /\ f.at <= clock
  BY DEF TypeOK, OverlapInv, Tables, Begin, Fact
<1>1. /\ w.phase = "begun" /\ w.at = clock + 1 /\ w.facts = writer[s].facts
      /\ w.seen = {} /\ w.conflicts = {} /\ w.events = {}
  BY <1>0 DEF Writer, View, Quiet
<1>2. /\ writer'[s] = w /\ \A t \in Source \ {s} : writer'[t] = writer[t]
      /\ clock' = clock + 1 /\ UNCHANGED committed
  BY DEF TypeOK, Begin
<1> HIDE DEF w
<1>3. View(writer[s], s)'
  <2>1. Timely(writer[s], s)'
    BY <1>0, <1>1, <1>2 DEF Timely, committed
  <2>2. Quiet(writer[s])' /\ PendingSound(writer[s])'
    BY <1>1, <1>2 DEF Quiet, PendingSound
  <2> QED
    BY <1>1, <1>2, <2>1, <2>2 DEF View
<1>4. clock' \in Nat /\ clock <= clock'
  BY <1>0, <1>2
<1> QED
  BY <1>2, <1>3, <1>4, LocalView

\* The facts read are the committed ones.
LEMMA LoadFactsOverlap ==
    ASSUME TypeOK, OverlapInv, NEW s \in Source, LoadFacts(s) PROVE OverlapInv'
<1> DEFINE w == [writer[s] EXCEPT !.phase = "facts", !.facts = facts]
<1>0. /\ writer[s] \in Writer /\ View(writer[s], s) /\ writer[s].phase = "begun"
      /\ clock \in Nat
  BY DEF TypeOK, OverlapInv, LoadFacts
<1>1. /\ w.phase = "facts" /\ w.at = writer[s].at /\ w.facts = facts
      /\ w.seen = {} /\ w.conflicts = {} /\ w.events = {}
  BY <1>0 DEF Writer, View, Quiet
<1>2. /\ writer'[s] = w /\ \A t \in Source \ {s} : writer'[t] = writer[t]
      /\ UNCHANGED <<committed, clock>>
  BY DEF TypeOK, LoadFacts
<1> HIDE DEF w
<1>3. View(writer[s], s)'
  <2>1. Timely(writer[s], s)'
    BY <1>0, <1>1, <1>2 DEF Timely, View, committed
  <2>2. Quiet(writer[s])' /\ PendingSound(writer[s])'
    BY <1>1, <1>2 DEF Quiet, PendingSound
  <2>3. FactsCached(writer[s], s)'
    BY <1>1, <1>2 DEF FactsCached, committed
  <2> QED
    BY <1>1, <1>2, <2>1, <2>2, <2>3 DEF View
<1> QED
  BY <1>0, <1>2, <1>3, LocalView

\* The claims read are on facts already read, or the sync has failed.
LEMMA LoadClaimsOverlap ==
    ASSUME TypeOK, OverlapInv, NEW s \in Source, LoadClaims(s) PROVE OverlapInv'
<1> DEFINE w == [writer[s] EXCEPT !.phase = "claims", !.claim = claim]
<1>0. /\ writer[s] \in Writer /\ View(writer[s], s) /\ writer[s].phase = "facts"
      /\ clock \in Nat
      /\ \A k \in Key : ClaimsOn(claim, k) \subseteq writer[s].facts
  BY DEF TypeOK, OverlapInv, LoadClaims
<1>1. /\ w.phase = "claims" /\ w.at = writer[s].at /\ w.facts = writer[s].facts
      /\ w.claim = claim
      /\ w.seen = {} /\ w.conflicts = {} /\ w.events = {}
  BY <1>0 DEF Writer, View, Quiet
<1>2. /\ writer'[s] = w /\ \A t \in Source \ {s} : writer'[t] = writer[t]
      /\ UNCHANGED <<committed, clock>>
  BY DEF TypeOK, LoadClaims
<1> HIDE DEF w
<1>3. FactsCached(w, s) /\ writer[s].seen = {}
  BY <1>0, <1>1 DEF View, FactsCached, Quiet
<1>4. ClaimsCached(w, s)
  <2>1. \A t \in Source, k \in Key :
           w.claim[t][k] # None => w.claim[t][k] \in ChainIn(w.facts, t, k)
    BY <1>0, <1>1 DEF OverlapInv, Tables, ReferencesHold, ChainOf, ChainIn, ClaimsOn
  <2>2. \A k \in Key : ChainIn(w.facts, s, k) = ChainIn(facts, s, k)
    BY <1>1, <1>3 DEF FactsCached, ChainIn
  <2>3. \A k \in Key : Chained(ChainIn(w.facts, s, k), w.claim[s][k], k)
    BY <1>1, <2>2 DEF OverlapInv, Tables
  <2> QED
    BY <1>1, <2>1, <2>3 DEF ClaimsCached
<1>5. View(writer[s], s)'
  <2>1. Timely(writer[s], s)'
    BY <1>0, <1>1, <1>2 DEF Timely, View, committed
  <2>2. Quiet(writer[s])' /\ PendingSound(writer[s])'
    BY <1>1, <1>2 DEF Quiet, PendingSound
  <2>3. FactsCached(writer[s], s)'
    BY <1>2, <1>3 DEF FactsCached, committed
  <2>4. ClaimsCached(writer[s], s)'
    BY <1>2, <1>4 DEF ClaimsCached, committed
  <2> QED
    BY <1>1, <1>2, <2>1, <2>2, <2>3, <2>4 DEF View
<1> QED
  BY <1>0, <1>2, <1>5, LocalView

\* The selection read may be newer than the claims, but is committed.
LEMMA LoadCurrentOverlap ==
    ASSUME TypeOK, OverlapInv, NEW s \in Source, LoadCurrent(s) PROVE OverlapInv'
<1> DEFINE w == [writer[s] EXCEPT !.phase = "current",
                                  !.current = current, !.loaded = current]
<1>0. /\ writer[s] \in Writer /\ View(writer[s], s) /\ writer[s].phase = "claims"
      /\ clock \in Nat
  BY DEF TypeOK, OverlapInv, LoadCurrent
<1>1. /\ w.phase = "current" /\ w.at = writer[s].at /\ w.facts = writer[s].facts
      /\ w.claim = writer[s].claim /\ w.current = current /\ w.loaded = current
      /\ w.seen = {} /\ w.conflicts = {} /\ w.events = {}
  BY <1>0 DEF Writer, View, Quiet
<1>2. /\ writer'[s] = w /\ \A t \in Source \ {s} : writer'[t] = writer[t]
      /\ UNCHANGED <<committed, clock>>
  BY DEF TypeOK, LoadCurrent
<1> HIDE DEF w
<1>3. FactsCached(w, s) /\ ClaimsCached(w, s)
  BY <1>0, <1>1 DEF View, FactsCached, ClaimsCached, Quiet
<1>4. CurrentCached(w, s)
  BY <1>1, <1>3 DEF ClaimsCached, CurrentCached, OverlapInv, Tables, ReferencesHold
<1>5. View(writer[s], s)'
  <2>1. Timely(writer[s], s)'
    BY <1>0, <1>1, <1>2 DEF Timely, View, committed
  <2>2. Quiet(writer[s])' /\ PendingSound(writer[s])'
    BY <1>1, <1>2 DEF Quiet, PendingSound
  <2>3. FactsCached(writer[s], s)'
    BY <1>2, <1>3 DEF FactsCached, committed
  <2>4. ClaimsCached(writer[s], s)'
    BY <1>2, <1>3 DEF ClaimsCached, committed
  <2>5. CurrentCached(writer[s], s)'
    BY <1>2, <1>4 DEF CurrentCached, committed
  <2> QED
    BY <1>1, <1>2, <2>1, <2>2, <2>3, <2>4, <2>5 DEF View
<1> QED
  BY <1>0, <1>2, <1>5, LocalView

\* Reading the columns, or confirming a value, leaves the evidence as it is.
LEMMA QuietOverlap ==
    ASSUME TypeOK, OverlapInv, NEW s \in Source,
           \/ LoadColumns(s)
           \/ \E k \in Key, v \in Value : Confirm(s, k, v)
    PROVE  OverlapInv'
<1>0. /\ writer[s] \in Writer /\ View(writer[s], s) /\ clock \in Nat
      /\ writer[s].phase \in {"current", "open"}
  BY DEF TypeOK, OverlapInv, LoadColumns, Confirm
<1>1. PICK w :
        /\ w.phase = "open" /\ w.at = writer[s].at /\ w.facts = writer[s].facts
        /\ w.claim = writer[s].claim /\ w.current = writer[s].current
        /\ w.loaded = writer[s].loaded /\ writer[s].seen \subseteq w.seen
        /\ w.conflicts = writer[s].conflicts /\ w.events = writer[s].events
        /\ writer'[s] = w
  <2>1. CASE LoadColumns(s)
    <3> DEFINE o == [writer[s] EXCEPT !.phase = "open",
                                      !.shown = shown, !.column = shown]
    <3>1. /\ o.phase = "open" /\ o.at = writer[s].at /\ o.facts = writer[s].facts
          /\ o.claim = writer[s].claim /\ o.current = writer[s].current
          /\ o.loaded = writer[s].loaded /\ writer[s].seen \subseteq o.seen
          /\ o.conflicts = writer[s].conflicts /\ o.events = writer[s].events
      BY <1>0 DEF Writer
    <3>2. writer'[s] = o
      BY <2>1 DEF LoadColumns, TypeOK
    <3> QED
      BY <3>1, <3>2
  <2>2. ASSUME NEW k \in Key, NEW v \in Value, Confirm(s, k, v)
        PROVE  writer[s].phase = "open"
               /\ writer'[s] = [writer[s] EXCEPT !.seen = writer[s].seen \cup {k}]
    BY <2>2 DEF Confirm, TypeOK
  <2>3. ASSUME NEW k \in Key, NEW v \in Value, Confirm(s, k, v)
        PROVE  /\ writer'[s].phase = "open" /\ writer'[s].at = writer[s].at
               /\ writer'[s].facts = writer[s].facts
               /\ writer'[s].claim = writer[s].claim
               /\ writer'[s].current = writer[s].current
               /\ writer'[s].loaded = writer[s].loaded
               /\ writer[s].seen \subseteq writer'[s].seen
               /\ writer'[s].conflicts = writer[s].conflicts
               /\ writer'[s].events = writer[s].events
    <3>1. writer[s].phase = "open"
          /\ writer'[s] = [writer[s] EXCEPT !.seen = writer[s].seen \cup {k}]
      BY <2>2, <2>3
    <3> QED
      BY <1>0, <3>1 DEF Writer
  <2> QED
    BY <2>1, <2>3
<1>2. /\ \A t \in Source \ {s} : writer'[t] = writer[t]
      /\ UNCHANGED <<committed, clock>>
  BY DEF TypeOK, LoadColumns, Confirm
<1>3. View(writer[s], s)'
  <2>1. Timely(writer[s], s)'
    BY <1>0, <1>1, <1>2 DEF Timely, View, committed
  <2>2. Quiet(writer[s])' /\ PendingSound(writer[s])'
    BY <1>0, <1>1, <1>2 DEF Quiet, PendingSound, View
  <2>3. FactsCached(writer[s], s)'
    <3>1. FactsCached(writer[s], s)
      BY <1>0 DEF View
    <3> QED
      BY <1>1, <1>2, <3>1 DEF FactsCached, committed
  <2>4. ClaimsCached(writer[s], s)'
    <3>1. ClaimsCached(writer[s], s)
      BY <1>0 DEF View
    <3> QED
      BY <1>1, <1>2, <3>1 DEF ClaimsCached, committed
  <2>5. CurrentCached(writer[s], s)'
    BY <1>0, <1>1, <1>2 DEF View, CurrentCached, committed
  <2> QED
    BY <1>1, <2>1, <2>2, <2>3, <2>4, <2>5 DEF View
<1> QED
  BY <1>0, <1>2, <1>3, LocalView

\* A rollback leaves the tables as they were.
LEMMA RollbackOverlap ==
    ASSUME TypeOK, OverlapInv, NEW s \in Source, Rollback(s) PROVE OverlapInv'
<1>1. /\ writer'[s] = Idle /\ \A t \in Source \ {s} : writer'[t] = writer[t]
      /\ UNCHANGED <<committed, clock>> /\ clock \in Nat
  BY DEF TypeOK, Rollback
<1>2. View(writer[s], s)'
  BY <1>1 DEF Idle, View, Timely, Quiet, PendingSound
<1> QED
  BY <1>1, <1>2, LocalView

\* An observation extends the chain of its source and selects among the
\* cached claims; whatever it makes pending refers to cached facts.
LEMMA ObserveView ==
    ASSUME TypeOK, OverlapInv, NEW s \in Source, NEW k \in Key, NEW v \in Value,
           NEW a \in Nat, Observe(s, k, v, a)
    PROVE  /\ View(writer[s], s)'
           /\ \A t \in Source \ {s} : writer'[t] = writer[t]
<1> DEFINE w == writer[s]
           f == NewFact(w, s, k, v, a)
<1>0. /\ w \in Writer /\ View(w, s) /\ w.phase = "open" /\ clock \in Nat
      /\ k \notin w.seen
      /\ w.claim[s][k] # None => ~SameValue(k, w.claim[s][k].value, v)
      /\ w.current[k] # None => w.current[k] \in w.facts
  BY DEF TypeOK, OverlapInv, Observe, FirstSight, Confirms
<1>1. /\ f \in Fact /\ f.src = s /\ f.key = k /\ f.value = v /\ f.at = w.at
      /\ f.step = NextStep(w.claim[s][k]) /\ f # None
  <2>1. f \in Fact
    BY <1>0, NewFactType
  <2> QED
    BY <2>1, FactsAssumption DEF NewFact
<1>2. PICK best \in Contenders(w, s, f) :
        /\ \A g \in Contenders(w, s, f) : ~Beats(g, best)
        /\ writer' = [writer EXCEPT ![s] = Observed(w, s, f, best)]
  BY DEF Observe
<1> HIDE DEF f
<1> DEFINE o == Observed(w, s, f, best)
<1>3. /\ writer'[s] = o /\ \A t \in Source \ {s} : writer'[t] = writer[t]
      /\ UNCHANGED <<committed, clock>>
  BY <1>2 DEF TypeOK, Observe
<1>4. /\ o.phase = "open" /\ o.at = w.at /\ o.loaded = w.loaded
      /\ o.facts = w.facts \cup {f}
      /\ o.seen = w.seen \cup {k}
      /\ o.conflicts = w.conflicts \cup NewConflicts(w, s, f)
      /\ o.events = w.events \cup NewEvents(w, k, best)
      /\ \A t \in Source, j \in Key :
            o.claim[t][j] = IF t = s /\ j = k THEN f ELSE w.claim[t][j]
      /\ \A j \in Key : o.current[j] = IF j = k THEN best ELSE w.current[j]
      /\ o.claim = [w.claim EXCEPT ![s][k] = f]
  BY <1>0, <1>1, ObservedFields
<1> HIDE DEF o
<1>5. FactsCached(w, s) /\ ClaimsCached(w, s) /\ CurrentCached(w, s)
      /\ PendingSound(w) /\ Timely(w, s)
  BY <1>0 DEF View
<1>6. FactsCached(o, s)
  BY <1>1, <1>4, <1>5 DEF FactsCached
<1>7. ClaimsCached(o, s)
  <2>1. \A t \in Source, j \in Key :
           o.claim[t][j] # None => o.claim[t][j] \in ChainIn(o.facts, t, j)
    BY <1>1, <1>4, <1>5 DEF ClaimsCached, ChainIn
  <2>2. \A j \in Key : \/ o.claim[s][j] = claim[s][j]
                       \/ /\ j \in o.seen
                          /\ o.claim[s][j] # None
                          /\ o.claim[s][j].at = o.at
    BY <1>1, <1>4, <1>5 DEF ClaimsCached
  <2>3. ASSUME NEW j \in Key
        PROVE  Chained(ChainIn(o.facts, s, j), o.claim[s][j], j)
    <3>1. CASE j # k
      <4>1. ChainIn(o.facts, s, j) = ChainIn(w.facts, s, j)
        BY <1>1, <1>4, <3>1 DEF ChainIn
      <4> QED
        BY <1>4, <1>5, <3>1, <4>1 DEF ClaimsCached
    <3>2. CASE j = k
      <4> DEFINE chain == ChainIn(w.facts, s, k)
      <4>1. Chained(chain, w.claim[s][k], k) /\ chain \in SUBSET Fact
        BY <1>0, <1>5 DEF ClaimsCached, ChainIn, Writer
      <4>2. ChainIn(o.facts, s, j) = chain \cup {f}
        BY <1>1, <1>4, <3>2 DEF ChainIn
      <4>3. \A g \in chain : g.at < f.at
        BY <1>0, <1>1, <1>5 DEF FactsCached, ChainIn, Timely
      <4>4. w.claim[s][k] # None => ~SameValue(k, w.claim[s][k].value, f.value)
        BY <1>0, <1>1
      <4>5. Chained(chain \cup {f}, f, k)
        <5> HIDE DEF chain, w
        <5> QED
          BY <1>1, <4>1, <4>3, <4>4, ChainExtends
      <4> QED
        BY <1>4, <3>2, <4>2, <4>5
    <3> QED
      BY <3>1, <3>2
  <2> QED
    BY <2>1, <2>2, <2>3 DEF ClaimsCached
<1>8. PICK t0 \in Source : best = o.claim[t0][k] /\ best # None
  BY <1>1, <1>2, <1>4 DEF Contenders, ClaimsOn
<1>9. best \in o.facts /\ best.key = k
  BY <1>7, <1>8 DEF ClaimsCached, ChainIn
<1>10. CurrentCached(o, s)
  <2> SUFFICES ASSUME NEW j \in Key
               PROVE  /\ o.current[j] # None =>
                            o.current[j] \in facts \cup o.facts /\ o.current[j].key = j
                      /\ o.claim[s][j] = claim[s][j] => o.current[j] = o.loaded[j]
                      /\ o.claim[s][j] # claim[s][j]
                            => Selected(o.claim, j, o.current[j])
                      /\ (\A t \in Source \ {s} : o.claim[t][j] = claim[t][j])
                            => o.loaded[j] = current[j]
    BY DEF CurrentCached
  <2>1. CASE j = k
    <3>1. o.claim[s][j] = f /\ o.current[j] = best
      BY <1>4, <2>1
    <3>2. f # claim[s][j]
      <4>1. claim[s][j] # None => claim[s][j] \in facts /\ claim[s][j].src = s
        BY DEF OverlapInv, Tables, ReferencesHold, ChainOf
      <4>2. claim[s][j] # None => claim[s][j].at < w.at
        BY <1>0, <1>5, <4>1 DEF Timely
      <4>3. w.at \in Nat
        BY <1>0 DEF Writer
      <4> QED
        BY <1>1, <4>2, <4>3
    <3>3. Selected(o.claim, j, best)
      BY <1>1, <1>2, <1>4, <2>1 DEF Selected, Contenders
    <3>4. (\A t \in Source \ {s} : o.claim[t][j] = claim[t][j])
             => o.loaded[j] = current[j]
      BY <1>4, <1>5 DEF CurrentCached
    <3> QED
      BY <1>9, <2>1, <3>1, <3>2, <3>3, <3>4
  <2>2. CASE j # k
    <3>1. /\ \A t \in Source : o.claim[t][j] = w.claim[t][j]
          /\ o.current[j] = w.current[j]
      BY <1>4, <2>2
    <3>2. ClaimsOn(o.claim, j) = ClaimsOn(w.claim, j)
      BY <3>1 DEF ClaimsOn
    <3> QED
      BY <1>4, <1>5, <3>1, <3>2 DEF CurrentCached, Selected
  <2> QED
    BY <2>1, <2>2
<1>11. PendingSound(o)
  <2>1. ASSUME NEW c \in NewConflicts(w, s, f)
        PROVE  c \subseteq o.facts /\ Disagreement(c)
    <3>1. PICK t \in Source \ {s} :
            /\ w.claim[t][k] # None
            /\ ~SameValue(k, w.claim[t][k].value, f.value)
            /\ c = {w.claim[t][k], f}
      BY <1>1, <2>1 DEF NewConflicts
    <3>2. /\ w.claim[t][k] \in w.facts
          /\ w.claim[t][k].src = t /\ w.claim[t][k].key = k
      BY <1>5, <3>1 DEF ClaimsCached, ChainIn
    <3> QED
      BY <1>1, <1>4, <3>1, <3>2 DEF Disagreement
  <2>2. ASSUME NEW e \in NewEvents(w, k, best)
        PROVE  e.old \in o.facts /\ e.new \in o.facts
    BY <1>0, <1>4, <1>9 DEF NewEvents
  <2>3. w.facts \subseteq o.facts
    BY <1>4
  <2> QED
    BY <1>4, <1>5, <2>1, <2>2, <2>3 DEF PendingSound
<1>12. View(writer[s], s)'
  <2>1. Timely(writer[s], s)'
    BY <1>3, <1>4, <1>5, <1>0 DEF Timely, committed
  <2>2. Quiet(writer[s])' /\ PendingSound(writer[s])'
    BY <1>3, <1>4, <1>11 DEF Quiet, PendingSound
  <2>3. FactsCached(writer[s], s)'
    BY <1>3, <1>6 DEF FactsCached, committed
  <2>4. ClaimsCached(writer[s], s)'
    BY <1>3, <1>7 DEF ClaimsCached, committed
  <2>5. CurrentCached(writer[s], s)'
    BY <1>3, <1>10 DEF CurrentCached, committed
  <2> QED
    BY <2>1, <2>2, <2>3, <2>4, <2>5 DEF View
<1> QED
  BY <1>3, <1>12

LEMMA ObserveOverlap ==
    ASSUME TypeOK, OverlapInv, NEW s \in Source, NEW k \in Key, NEW v \in Value,
           NEW a \in Nat, Observe(s, k, v, a)
    PROVE  OverlapInv'
<1>1. UNCHANGED <<committed, clock>> /\ clock \in Nat
  BY DEF Observe, TypeOK
<1> QED
  BY <1>1, ObserveView, LocalView

\* What a commit writes, fact by fact and field by field.
LEMMA CommitWrites ==
    ASSUME TypeOK, OverlapInv, NEW s \in Source, Commit(s)
    PROVE  LET w == writer[s] IN
           /\ \A f \in Fact : f \in facts' <=> f \in facts \/ (f \in w.facts /\ f.src = s)
           /\ w.facts \subseteq facts'
           /\ facts \subseteq facts' /\ facts' \subseteq Fact
           /\ claim'[s] = w.claim[s]
           /\ \A t \in Source \ {s} : claim'[t] = claim[t]
           /\ \A k \in Key : current'[k] = IF w.current[k] # w.loaded[k]
                                           THEN w.current[k] ELSE current[k]
           /\ writer'[s] = Idle
           /\ \A t \in Source \ {s} : writer'[t] = writer[t]
           /\ clock' = clock
           /\ \A k \in Key :
                 IF w.claim[s][k] = claim[s][k]
                 THEN current'[k] = current[k] /\ claim'[s][k] = claim[s][k]
                 ELSE claim'[s][k] # None /\ claim'[s][k].at = w.at
<1> DEFINE w == writer[s]
<1>0. /\ w \in Writer /\ View(w, s) /\ w.phase = "open"
      /\ facts \subseteq Fact /\ w.facts \subseteq Fact
  BY DEF TypeOK, OverlapInv, Commit, Writer
<1>1. FactsCached(w, s) /\ ClaimsCached(w, s) /\ CurrentCached(w, s)
  BY <1>0 DEF View
<1>2. facts' = facts \cup {f \in w.facts : f.src = s}
  BY DEF Commit
<1>3. /\ \A f \in Fact : f \in facts' <=> f \in facts \/ (f \in w.facts /\ f.src = s)
      /\ facts \subseteq facts' /\ facts' \subseteq Fact
  BY <1>0, <1>2
<1>4. w.facts \subseteq facts'
  BY <1>1, <1>2 DEF FactsCached
<1>5. /\ claim'[s] = w.claim[s]
      /\ \A t \in Source \ {s} : claim'[t] = claim[t]
      /\ writer'[s] = Idle
      /\ \A t \in Source \ {s} : writer'[t] = writer[t]
      /\ clock' = clock
  BY DEF Commit, TypeOK
<1>6. \A k \in Key : current'[k] = IF w.current[k] # w.loaded[k]
                                   THEN w.current[k] ELSE current[k]
  BY DEF Commit, Flushed
<1>7. \A k \in Key :
         IF w.claim[s][k] = claim[s][k]
         THEN current'[k] = current[k] /\ claim'[s][k] = claim[s][k]
         ELSE claim'[s][k] # None /\ claim'[s][k].at = w.at
  BY <1>1, <1>5, <1>6 DEF ClaimsCached, CurrentCached
<1> QED
  BY <1>3, <1>4, <1>5, <1>6, <1>7

\* The tables stay sound over a commit.
LEMMA CommitTables ==
    ASSUME TypeOK, OverlapInv, NEW s \in Source, Commit(s) PROVE Tables'
<1> DEFINE w == writer[s]
<1>0. /\ w \in Writer /\ View(w, s) /\ w.phase = "open"
      /\ facts \subseteq Fact /\ w.facts \subseteq Fact /\ clock \in Nat /\ w.at \in Nat
  BY DEF TypeOK, OverlapInv, Commit, Writer
<1>1. /\ FactsCached(w, s) /\ ClaimsCached(w, s) /\ CurrentCached(w, s)
      /\ PendingSound(w) /\ Timely(w, s) /\ Tables
  BY <1>0 DEF View, OverlapInv
<1>2. /\ \A f \in Fact : f \in facts' <=> f \in facts \/ (f \in w.facts /\ f.src = s)
      /\ w.facts \subseteq facts'
      /\ facts \subseteq facts' /\ facts' \subseteq Fact
      /\ claim'[s] = w.claim[s]
      /\ \A t \in Source \ {s} : claim'[t] = claim[t]
      /\ \A k \in Key : current'[k] = IF w.current[k] # w.loaded[k]
                                      THEN w.current[k] ELSE current[k]
      /\ clock' = clock
      /\ conflicts' = conflicts \cup w.conflicts
      /\ events' = events \cup w.events
  BY CommitWrites DEF Commit
<1> HIDE DEF w
<1>3. \A k \in Key : current'[k] # None => current'[k] \in facts' /\ current'[k].key = k
  BY <1>1, <1>2 DEF Tables, ReferencesHold, CurrentCached
<1>4. ASSUME NEW t \in Source, NEW k \in Key, claim'[t][k] # None
      PROVE  claim'[t][k] \in ChainIn(facts', t, k)
  <2>1. CASE t = s
    BY <2>1, <1>1, <1>2, <1>4 DEF ClaimsCached, ChainIn
  <2>2. CASE t # s
    BY <2>2, <1>1, <1>2, <1>4 DEF Tables, ReferencesHold, ChainOf, ChainIn
  <2> QED
    BY <2>1, <2>2
<1>5. ReferencesHold'
  <2>1. \A c \in conflicts' : c \subseteq facts'
    BY <1>1, <1>2 DEF Tables, ReferencesHold, PendingSound
  <2>2. \A e \in events' : e.old \in facts' /\ e.new \in facts'
    BY <1>1, <1>2 DEF Tables, ReferencesHold, PendingSound
  <2> QED
    BY <1>3, <1>4, <2>1, <2>2 DEF ReferencesHold, ChainOf, ChainIn
<1>6. \A c \in conflicts' : Disagreement(c)
  BY <1>1, <1>2 DEF Tables, PendingSound
<1>7. ASSUME NEW t \in Source, NEW k \in Key
      PROVE  Chained(ChainIn(facts', t, k), claim'[t][k], k)
  <2>1. CASE t = s
    <3>1. ChainIn(facts', t, k) = ChainIn(w.facts, s, k)
      BY <2>1, <1>0, <1>1, <1>2 DEF ChainIn, FactsCached
    <3> QED
      BY <2>1, <3>1, <1>1, <1>2 DEF ClaimsCached
  <2>2. CASE t # s
    <3>1. ChainIn(facts', t, k) = ChainIn(facts, t, k)
      BY <2>2, <1>0, <1>2 DEF ChainIn
    <3> QED
      BY <2>2, <3>1, <1>1, <1>2 DEF Tables
  <2> QED
    BY <2>1, <2>2
<1>8. \A f \in facts' : f.at <= clock'
  <2> SUFFICES ASSUME NEW f \in facts' PROVE f.at <= clock
    BY <1>2
  <2>1. CASE f \in facts
    BY <2>1, <1>1 DEF Tables
  <2>2. CASE f \notin facts
    <3>1. f.at = w.at
      BY <2>2, <1>1, <1>2 DEF FactsCached
    <3> QED
      BY <3>1, <1>0, <1>1 DEF Timely
  <2> QED
    BY <2>1, <2>2
<1> QED
  BY <1>5, <1>6, <1>7, <1>8 DEF Tables

\* The commit of s does not disturb the caches of another transaction: what
\* it changed there shows as a stale claim.
LEMMA CommitOther ==
    ASSUME TypeOK, OverlapInv, NEW s \in Source, Commit(s),
           NEW t \in Source \ {s}
    PROVE  View(writer[t], t)'
<1>w. PICK w : w = writer[s]
  OBVIOUS
<1>x. PICK x : x = writer[t]
  OBVIOUS
<1>0. /\ w \in Writer /\ View(w, s) /\ w.phase = "open" /\ w.at \in Nat
      /\ x \in Writer /\ View(x, t) /\ x.facts \subseteq Fact /\ facts \subseteq Fact
  BY <1>w, <1>x DEF TypeOK, OverlapInv, Commit, Writer
<1>1. Timely(w, s)
  BY <1>0 DEF View
<1>2. /\ \A f \in Fact : f \in facts' <=> f \in facts \/ (f \in w.facts /\ f.src = s)
      /\ facts \subseteq facts' /\ facts' \subseteq Fact
      /\ claim'[t] = claim[t]
      /\ \A r \in Source \ {s} : claim'[r] = claim[r]
      /\ writer'[t] = x /\ clock' = clock
      /\ \A k \in Key :
            IF w.claim[s][k] = claim[s][k]
            THEN current'[k] = current[k] /\ claim'[s][k] = claim[s][k]
            ELSE claim'[s][k] # None /\ claim'[s][k].at = w.at
  BY <1>w, <1>x, CommitWrites
<1>3. Timely(x, t)'
  BY <1>0, <1>2 DEF View, Timely
<1>4. FactsCached(x, t) => FactsCached(x, t)'
  BY <1>0, <1>2 DEF FactsCached
<1>5. ClaimsCached(x, t) => ClaimsCached(x, t)'
  BY <1>2 DEF ClaimsCached
<1>6. ASSUME FactsCached(x, t), ClaimsCached(x, t), CurrentCached(x, t)
      PROVE  CurrentCached(x, t)'
  <2> SUFFICES ASSUME NEW k \in Key
               PROVE  /\ x.current[k] # None =>
                            x.current[k] \in facts' \cup x.facts /\ x.current[k].key = k
                      /\ x.claim[t][k] = claim'[t][k] => x.current[k] = x.loaded[k]
                      /\ x.claim[t][k] # claim'[t][k]
                            => Selected(x.claim, k, x.current[k])
                      /\ (\A r \in Source \ {t} : x.claim[r][k] = claim'[r][k])
                            => x.loaded[k] = current'[k]
    BY DEF CurrentCached
  <2>1. CASE w.claim[s][k] = claim[s][k]
    <3>1. \A r \in Source : claim'[r][k] = claim[r][k]
      BY <1>2, <2>1
    <3> QED
      BY <1>2, <1>6, <2>1, <3>1 DEF CurrentCached
  <2>2. CASE w.claim[s][k] # claim[s][k]
    <3>1. x.claim[s][k] # claim'[s][k]
      <4>1. x.claim[s][k] # None =>
               /\ x.claim[s][k] \in x.facts /\ x.claim[s][k].src = s
        BY <1>6 DEF ClaimsCached, ChainIn
      <4>2. x.claim[s][k] # None => x.claim[s][k] \in facts /\ x.claim[s][k].src = s
        BY <1>6, <4>1 DEF FactsCached
      <4>3. x.claim[s][k] # None => x.claim[s][k].at < w.at
        BY <1>0, <1>1, <4>2 DEF Timely
      <4> QED
        BY <1>0, <1>2, <2>2, <4>3
    <3> QED
      BY <1>2, <1>6, <3>1 DEF CurrentCached
  <2> QED
    BY <2>1, <2>2
<1>7. (Quiet(x) => Quiet(x)') /\ (PendingSound(x) => PendingSound(x)')
  BY DEF Quiet, PendingSound
<1> QED
  BY <1>0, <1>2, <1>3, <1>4, <1>5, <1>6, <1>7 DEF View

LEMMA CommitOverlap ==
    ASSUME TypeOK, OverlapInv, NEW s \in Source, Commit(s) PROVE OverlapInv'
<1>1. writer'[s] = Idle
  BY CommitWrites
<1>2. View(writer[s], s)'
  BY <1>1 DEF Idle, View, Timely, Quiet, PendingSound
<1> QED
  BY <1>2, CommitTables, CommitOther DEF OverlapInv

\* Every step keeps the overlap invariant.
LEMMA OverlapNext == TypeOK /\ OverlapInv /\ [Next]_vars => OverlapInv'
<1> SUFFICES ASSUME TypeOK, OverlapInv, [Next]_vars PROVE OverlapInv'
  OBVIOUS
<1>1. CASE UNCHANGED vars
  BY <1>1 DEF vars, OverlapInv, Tables, ReferencesHold, ChainOf, View, Timely,
              Quiet, FactsCached, ClaimsCached, CurrentCached, PendingSound
<1>2. ASSUME NEW s \in Source,
             \/ Begin(s) \/ LoadFacts(s) \/ LoadClaims(s) \/ LoadCurrent(s)
             \/ Commit(s) \/ Rollback(s)
      PROVE  OverlapInv'
  BY <1>2, BeginOverlap, LoadFactsOverlap, LoadClaimsOverlap, LoadCurrentOverlap,
     CommitOverlap, RollbackOverlap
<1>3. ASSUME NEW s \in Source,
             \/ LoadColumns(s)
             \/ \E k \in Key, v \in Value : Confirm(s, k, v)
      PROVE  OverlapInv'
  BY <1>3, QuietOverlap
<1>4. ASSUME NEW s \in Source, NEW k \in Key, NEW v \in Value, NEW a \in Nat,
             Observe(s, k, v, a)
      PROVE  OverlapInv'
  BY <1>4, ObserveOverlap
<1> QED
  BY <1>1, <1>2, <1>3, <1>4, OfferType DEF Next

\* It holds in every state, however syncs overlap.
LEMMA OverlapInvariant == Spec => []OverlapInv
<1>1. Init => OverlapInv
  BY OverlapInit
<1>2. TypeOK /\ OverlapInv /\ [Next]_vars => OverlapInv'
  BY OverlapNext
<1> QED
  BY LedgerTypes, <1>1, <1>2, PTL DEF Spec

\* However syncs overlap, every selection, claim, conflict and event refers
\* to committed observations of its own key (evidence.py, lines 74-190).
THEOREM References == Spec => []ReferencesHold
<1>1. OverlapInv => ReferencesHold
  BY DEF OverlapInv, Tables
<1> QED
  BY OverlapInvariant, <1>1, PTL

\* However syncs overlap, the observations of one source on a field form one
\* chain in time order that ends in its claim (evidence.py, lines 74-104).
THEOREM Chains == Spec => []ChainsIntact
<1>1. OverlapInv => ChainsIntact
  BY DEF OverlapInv, Tables, Chained, ChainIn, ChainsIntact, ChainOf
<1> QED
  BY OverlapInvariant, <1>1, PTL

\* However syncs overlap, a conflict row joins two observations of different
\* sources that disagree (evidence.py, lines 105-127).
THEOREM Disagreements == Spec => []ConflictsAreDisagreements
<1>1. OverlapInv => ConflictsAreDisagreements
  BY DEF OverlapInv, Tables, Disagreement, ConflictsAreDisagreements
<1> QED
  BY OverlapInvariant, <1>1, PTL

\* A commit that changes a claim no other sync has disturbed leaves the key
\* selected among the committed claims.
LEMMA CommitSelects ==
    ASSUME TypeOK, OverlapInv, NEW s \in Source, NEW k \in Key, Commit(s),
           claim'[s][k] # claim[s][k], Undisturbed(s, k)
    PROVE  KeySelected(k)'
<1>w. PICK w : w = writer[s]
  OBVIOUS
<1>1. CurrentCached(w, s)
  BY <1>w DEF Commit, OverlapInv, View
<1>2. /\ claim'[s] = w.claim[s]
      /\ \A t \in Source \ {s} : claim'[t] = claim[t]
      /\ current'[k] = IF w.current[k] # w.loaded[k] THEN w.current[k] ELSE current[k]
  BY <1>w, CommitWrites
<1>3. \A t \in Source : claim'[t][k] = w.claim[t][k]
  BY <1>w, <1>2 DEF Undisturbed
<1>4. ClaimsOn(claim', k) = ClaimsOn(w.claim, k)
  BY <1>3 DEF ClaimsOn
<1>5. current'[k] = w.current[k]
  BY <1>w, <1>1, <1>2 DEF CurrentCached, Undisturbed
<1>6. Selected(w.claim, k, w.current[k])
  BY <1>1, <1>2 DEF CurrentCached
<1>7. Selected(claim', k, current'[k])
  BY <1>4, <1>5, <1>6 DEF Selected
<1> QED
  BY <1>7 DEF KeySelected

\* Even when syncs overlap, a stale selection lasts only until the next
\* change of the key by a sync that was not disturbed on it
\* (evidence.py, lines 130-162).
THEOREM FreshChanges == Spec => FreshChangeRepairs
<1>1. ASSUME TypeOK, OverlapInv, [Next]_vars
      PROVE  [\A s \in Source, k \in Key :
                claim'[s][k] # claim[s][k] /\ Undisturbed(s, k) => KeySelected(k)']_vars
  <2> SUFFICES ASSUME Next, NEW s \in Source, NEW k \in Key,
                      claim'[s][k] # claim[s][k], Undisturbed(s, k)
               PROVE  KeySelected(k)'
    BY <1>1
  <2>1. Commit(s)
    <3>1. PICK t \in Source : Commit(t)
      BY DEF Next, Begin, LoadFacts, LoadClaims, LoadCurrent, LoadColumns, Confirm,
             Observe, Rollback, committed
    <3>2. claim' = [claim EXCEPT ![t] = writer[t].claim[t]]
      BY <3>1 DEF Commit
    <3>3. claim \in [Source -> [Key -> MaybeFact]]
      BY <1>1 DEF TypeOK
    <3>4. s = t
      BY <3>2, <3>3
    <3> QED
      BY <3>1, <3>4
  <2> QED
    BY <1>1, <2>1, CommitSelects
<1> QED
  BY <1>1, LedgerTypes, OverlapInvariant, PTL DEF Spec, FreshChangeRepairs

-----------------------------------------------------------------------------
(* One sync at a time.  The open transaction knows the tables, so the      *)
(* events it holds are exactly those its selections owe, and the feed it   *)
(* appends to is the one it has read.                                      *)

\* The events of a transaction that moved w.loaded to w.current.
EventsOwed(w) ==
    {[key |-> k, old |-> w.loaded[k], new |-> w.current[k], at |-> w.at] :
        k \in {c \in Key : /\ w.loaded[c] # None
                           /\ ~SameValue(c, w.loaded[c].value, w.current[c].value)}}

\* A date belongs to one source.
Dated(F) == \A f, g \in F : f.at = g.at => f.src = g.src

\* An event cannot happen twice: its old observation lost to the new one, or
\* is no claim any more.
Settled(d, c) == Beats(d.new, d.old) \/ c[d.old.src][d.key] # d.old

Feed == /\ Dated(facts)
        /\ \A d \in events : /\ d.at <= clock
                             /\ d.old.key = d.key /\ d.new.key = d.key
                             /\ current[d.key] # None
                             /\ Settled(d, claim)
        /\ FeedReplays

\* The open transaction is later than all that is committed, knows every
\* committed fact, and changed a claim only to say something else.
FeedView(w, s) ==
    /\ w.phase # "idle" => /\ \A f \in facts : f.at < w.at
                           /\ \A d \in events : d.at < w.at
    /\ w.phase \notin {"idle", "begun"} => facts \subseteq w.facts
    /\ w.phase = "open" =>
         /\ w.events = EventsOwed(w)
         /\ \A k \in Key : w.loaded[k] # None => w.current[k] # None
         /\ \A k \in Key : w.claim[s][k] # claim[s][k] /\ claim[s][k] # None
               => ~SameValue(k, w.claim[s][k].value, claim[s][k].value)

FeedInv == Feed /\ \A s \in Source : FeedView(writer[s], s)

\* The four parts a step starts from.
SerialState == TypeOK /\ SerialInv /\ OverlapInv /\ FeedInv

LEMMA FeedInit == Init => FeedInv
  BY DEF Init, FeedInv, Feed, Dated, FeedReplays, EventsOn, FeedView, Idle

\* The other transactions of a serial step are idle.
LEMMA OthersIdle ==
    ASSUME SerialInv, NEW s \in Source, writer[s].phase # "idle"
    PROVE  \A t \in Source \ {s} : writer[t].phase = "idle"
  BY DEF SerialInv, Alone

\* A step in the caches of s while the others are idle.
LEMMA LocalFeed ==
    ASSUME TypeOK, FeedInv, NEW s \in Source, UNCHANGED committed,
           clock' \in Nat, clock <= clock',
           \A t \in Source \ {s} : /\ writer[t].phase = "idle"
                                   /\ writer'[t] = writer[t],
           FeedView(writer[s], s)'
    PROVE  FeedInv'
<1>1. /\ UNCHANGED <<facts, claim, current, conflicts, events>>
      /\ clock \in Nat /\ \A d \in events : d.at \in Nat
  BY DEF committed, TypeOK, Event
<1>2. Feed'
  <2>1. FeedReplays'
    BY <1>1 DEF FeedInv, Feed, FeedReplays, EventsOn
  <2>2. Dated(facts')
    BY <1>1 DEF FeedInv, Feed
  <2>3. ASSUME NEW d \in events
        PROVE  /\ d.at <= clock' /\ d.old.key = d.key /\ d.new.key = d.key
               /\ current[d.key] # None /\ Settled(d, claim)
    BY <1>1 DEF FeedInv, Feed
  <2> QED
    BY <1>1, <2>1, <2>2, <2>3 DEF Feed
<1>3. ASSUME NEW t \in Source \ {s} PROVE FeedView(writer[t], t)'
  BY DEF FeedView
<1> QED
  BY <1>2, <1>3 DEF FeedInv

LEMMA BeginFeed ==
    ASSUME ~Concurrent, SerialState, NEW s \in Source, Begin(s) PROVE FeedInv'
<1> DEFINE w == [writer[s] EXCEPT !.phase = "begun", !.at = clock + 1]
<1>0. /\ writer[s] \in Writer
      /\ clock \in Nat /\ \A f \in facts : f.at \in Nat /\ f.at <= clock
      /\ \A d \in events : d.at \in Nat /\ d.at <= clock
      /\ \A t \in Source : writer[t].phase = "idle"
  BY DEF SerialState, TypeOK, OverlapInv, Tables, Begin, Fact, Event, FeedInv, Feed
<1>1. w.phase = "begun" /\ w.at = clock + 1
  BY <1>0 DEF Writer
<1>2. /\ writer'[s] = w /\ \A t \in Source \ {s} : writer'[t] = writer[t]
      /\ clock' = clock + 1 /\ UNCHANGED committed
  BY DEF SerialState, TypeOK, Begin
<1> HIDE DEF w
<1>3. FeedView(writer[s], s)'
  BY <1>0, <1>1, <1>2 DEF FeedView, committed
<1>4. clock' \in Nat /\ clock <= clock'
  BY <1>0, <1>2
<1> QED
  BY <1>0, <1>2, <1>3, <1>4, LocalFeed DEF SerialState

\* The loads: each reads committed rows while nobody else writes.
LEMMA LoadFeed ==
    ASSUME SerialState, NEW s \in Source,
           LoadFacts(s) \/ LoadClaims(s) \/ LoadCurrent(s)
    PROVE  FeedInv'
<1>0. /\ writer[s] \in Writer /\ FeedView(writer[s], s) /\ clock \in Nat
      /\ writer[s].phase \in {"begun", "facts", "claims"}
  BY DEF SerialState, TypeOK, FeedInv, LoadFacts, LoadClaims, LoadCurrent
<1>1. \A t \in Source \ {s} : writer[t].phase = "idle"
  BY <1>0, OthersIdle DEF SerialState
<1>2. PICK w : /\ w.phase \in {"facts", "claims", "current"}
               /\ w.at = writer[s].at /\ facts \subseteq w.facts
               /\ writer'[s] = w
  <2>1. CASE LoadFacts(s)
    <3> DEFINE o == [writer[s] EXCEPT !.phase = "facts", !.facts = facts]
    <3>1. o.phase = "facts" /\ o.at = writer[s].at /\ o.facts = facts
      BY <1>0 DEF Writer
    <3>2. writer'[s] = o
      BY <2>1 DEF LoadFacts, SerialState, TypeOK
    <3> HIDE DEF o
    <3> QED
      BY <3>1, <3>2
  <2>2. CASE LoadClaims(s)
    <3> DEFINE o == [writer[s] EXCEPT !.phase = "claims", !.claim = claim]
    <3>1. /\ o.phase = "claims" /\ o.at = writer[s].at
          /\ o.facts = writer[s].facts /\ facts \subseteq writer[s].facts
      BY <1>0, <2>2 DEF Writer, FeedView, LoadClaims
    <3>2. writer'[s] = o
      BY <2>2 DEF LoadClaims, SerialState, TypeOK
    <3> HIDE DEF o
    <3> QED
      BY <3>1, <3>2
  <2>3. CASE LoadCurrent(s)
    <3> DEFINE o == [writer[s] EXCEPT !.phase = "current",
                                      !.current = current, !.loaded = current]
    <3>1. /\ o.phase = "current" /\ o.at = writer[s].at
          /\ o.facts = writer[s].facts /\ facts \subseteq writer[s].facts
      BY <1>0, <2>3 DEF Writer, FeedView, LoadCurrent
    <3>2. writer'[s] = o
      BY <2>3 DEF LoadCurrent, SerialState, TypeOK
    <3> HIDE DEF o
    <3> QED
      BY <3>1, <3>2
  <2> QED
    BY <2>1, <2>2, <2>3
<1>3. /\ \A t \in Source \ {s} : writer'[t] = writer[t]
      /\ UNCHANGED <<committed, clock>>
  BY DEF SerialState, TypeOK, LoadFacts, LoadClaims, LoadCurrent
<1>4. FeedView(writer[s], s)'
  BY <1>0, <1>2, <1>3 DEF FeedView, committed
<1> QED
  BY <1>0, <1>1, <1>3, <1>4, LocalFeed DEF SerialState

\* Reading the columns opens the transaction with nothing to say.
LEMMA ColumnsFeed ==
    ASSUME SerialState, NEW s \in Source, LoadColumns(s) PROVE FeedInv'
<1> DEFINE w == [writer[s] EXCEPT !.phase = "open", !.shown = shown, !.column = shown]
<1>0. /\ writer[s] \in Writer /\ FeedView(writer[s], s) /\ clock \in Nat
      /\ writer[s].phase = "current" /\ UpToDate(writer[s], s)
      /\ View(writer[s], s)
  BY DEF SerialState, TypeOK, FeedInv, LoadColumns, SerialInv, OverlapInv
<1>1. \A t \in Source \ {s} : writer[t].phase = "idle"
  BY <1>0, OthersIdle DEF SerialState
<1>2. /\ w.phase = "open" /\ w.at = writer[s].at /\ w.facts = writer[s].facts
      /\ w.claim = claim /\ w.current = current /\ w.loaded = current
      /\ w.events = {}
  BY <1>0 DEF Writer, UpToDate, View, Quiet
<1>3. /\ writer'[s] = w /\ \A t \in Source \ {s} : writer'[t] = writer[t]
      /\ UNCHANGED <<committed, clock>>
  BY DEF SerialState, TypeOK, LoadColumns
<1> HIDE DEF w
<1>4. EventsOwed(w) = {}
  BY <1>2 DEF EventsOwed, SameValue
<1>5. FeedView(w, s)
  BY <1>0, <1>2, <1>4 DEF FeedView
<1>6. FeedView(writer[s], s)'
  BY <1>3, <1>5 DEF FeedView, committed
<1> QED
  BY <1>0, <1>1, <1>3, <1>6, LocalFeed DEF SerialState

LEMMA ConfirmFeed ==
    ASSUME SerialState, NEW s \in Source, NEW k \in Key, NEW v \in Value,
           Confirm(s, k, v)
    PROVE  FeedInv'
<1> DEFINE w == [writer[s] EXCEPT !.seen = writer[s].seen \cup {k}]
<1>0. /\ writer[s] \in Writer /\ FeedView(writer[s], s) /\ clock \in Nat
      /\ writer[s].phase = "open"
  BY DEF SerialState, TypeOK, FeedInv, Confirm
<1>1. \A t \in Source \ {s} : writer[t].phase = "idle"
  BY <1>0, OthersIdle DEF SerialState
<1>2. /\ w.phase = "open" /\ w.at = writer[s].at /\ w.facts = writer[s].facts
      /\ w.claim = writer[s].claim /\ w.current = writer[s].current
      /\ w.loaded = writer[s].loaded /\ w.events = writer[s].events
  BY <1>0 DEF Writer
<1>3. /\ writer'[s] = w /\ \A t \in Source \ {s} : writer'[t] = writer[t]
      /\ UNCHANGED <<committed, clock>>
  BY DEF SerialState, TypeOK, Confirm
<1> HIDE DEF w
<1>4. EventsOwed(w) = EventsOwed(writer[s])
  BY <1>2 DEF EventsOwed
<1>5. FeedView(w, s)
  BY <1>0, <1>2, <1>4 DEF FeedView
<1>6. FeedView(writer[s], s)'
  BY <1>3, <1>5 DEF FeedView, committed
<1> QED
  BY <1>0, <1>1, <1>3, <1>6, LocalFeed DEF SerialState

\* A first observation of a key in a sync owes the event it makes, no other.
LEMMA OwedByObserving ==
    ASSUME NEW w \in Writer, NEW o \in Writer, NEW k \in Key, NEW best \in Fact,
           o.at = w.at, o.loaded = w.loaded, w.current[k] = w.loaded[k],
           \A j \in Key : o.current[j] = IF j = k THEN best ELSE w.current[j]
    PROVE  EventsOwed(o) = EventsOwed(w) \cup NewEvents(w, k, best)
<1> DEFINE Owes(x) == {c \in Key : /\ x.loaded[c] # None
                                   /\ ~SameValue(c, x.loaded[c].value, x.current[c].value)}
           event(x, c) == [key |-> c, old |-> x.loaded[c], new |-> x.current[c], at |-> x.at]
<1>1. \A c \in Owes(w) : c # k
  BY DEF SameValue
<1>2. Owes(o) = Owes(w) \cup (IF w.current[k] # None
                                  /\ ~SameValue(k, w.current[k].value, best.value)
                               THEN {k} ELSE {})
  BY <1>1 DEF SameValue
<1>3. \A c \in Owes(w) : event(o, c) = event(w, c)
  BY <1>1
<1>4. event(o, k) = [key |-> k, old |-> w.current[k], new |-> best, at |-> w.at]
  OBVIOUS
<1>5. EventsOwed(o) = {event(o, c) : c \in Owes(o)}
      /\ EventsOwed(w) = {event(w, c) : c \in Owes(w)}
  BY DEF EventsOwed
<1> HIDE DEF Owes, event
<1> QED
  BY <1>2, <1>3, <1>4, <1>5 DEF NewEvents

LEMMA ObserveFeed ==
    ASSUME SerialState, NEW s \in Source, NEW k \in Key, NEW v \in Value,
           NEW a \in Nat, Observe(s, k, v, a)
    PROVE  FeedInv'
<1>w. PICK w : w = writer[s]
  OBVIOUS
<1>f. PICK f : f = NewFact(w, s, k, v, a)
  OBVIOUS
<1>0. /\ w \in Writer /\ FeedView(w, s) /\ View(w, s) /\ clock \in Nat
      /\ w.phase = "open" /\ k \notin w.seen
      /\ w.claim[s][k] # None => ~SameValue(k, w.claim[s][k].value, v)
  BY <1>w DEF SerialState, TypeOK, FeedInv, OverlapInv, Observe, FirstSight, Confirms
<1>1. \A t \in Source \ {s} : writer[t].phase = "idle"
  BY <1>w, <1>0, OthersIdle DEF SerialState
<1>2. /\ f \in Fact /\ f.key = k /\ f.value = v
  <2>1. f \in Fact
    BY <1>0, <1>f, NewFactType
  <2> QED
    BY <1>f, <2>1 DEF NewFact
<1>3. PICK best \in Contenders(w, s, f) :
        writer' = [writer EXCEPT ![s] = Observed(w, s, f, best)]
  BY <1>w, <1>f DEF Observe
<1>4. best \in Fact
  BY <1>0, <1>2, ContendersType
<1>o. PICK o : o = Observed(w, s, f, best)
  OBVIOUS
<1>5. /\ o \in Writer
      /\ o.phase = w.phase /\ o.at = w.at /\ o.loaded = w.loaded
      /\ o.facts = w.facts \cup {f}
      /\ o.events = w.events \cup NewEvents(w, k, best)
      /\ \A t \in Source, j \in Key :
            o.claim[t][j] = IF t = s /\ j = k THEN f ELSE w.claim[t][j]
      /\ \A j \in Key : o.current[j] = IF j = k THEN best ELSE w.current[j]
  <2>1. o \in Writer
    BY <1>0, <1>2, <1>4, <1>o, ObservedType
  <2>2. /\ o.phase = w.phase /\ o.at = w.at /\ o.loaded = w.loaded
        /\ o.facts = w.facts \cup {f}
        /\ o.events = w.events \cup NewEvents(w, f.key, best)
        /\ \A t \in Source, j \in Key :
              o.claim[t][j] = IF t = s /\ j = f.key THEN f ELSE w.claim[t][j]
        /\ \A j \in Key : o.current[j] = IF j = f.key THEN best ELSE w.current[j]
    <3> DEFINE d == Observed(w, s, f, best)
    <3>1. w \in Writer /\ f \in Fact
      BY <1>0, <1>2
    <3>2. /\ d.phase = w.phase /\ d.at = w.at /\ d.loaded = w.loaded
          /\ d.column = w.column
          /\ d.facts = w.facts \cup {f}
          /\ d.seen = w.seen \cup {f.key}
          /\ d.conflicts = w.conflicts \cup NewConflicts(w, s, f)
          /\ d.events = w.events \cup NewEvents(w, f.key, best)
          /\ \A t \in Source, j \in Key :
                d.claim[t][j] = IF t = s /\ j = f.key THEN f ELSE w.claim[t][j]
          /\ \A j \in Key : d.current[j] = IF j = f.key THEN best ELSE w.current[j]
          /\ d.claim = [w.claim EXCEPT ![s][f.key] = f]
      BY <3>1, ObservedFields
    <3>3. o = d
      BY <1>o
    <3> HIDE DEF d
    <3> QED
      BY <3>2, <3>3
  <2> QED
    BY <1>2, <2>1, <2>2
<1>6. /\ writer'[s] = o /\ \A t \in Source \ {s} : writer'[t] = writer[t]
      /\ UNCHANGED <<committed, clock>>
  BY <1>3, <1>o DEF SerialState, TypeOK, Observe
<1>7. w.claim[s][k] = claim[s][k] /\ w.current[k] = w.loaded[k]
  BY <1>0 DEF View, ClaimsCached, CurrentCached
<1>8. o.events = EventsOwed(o)
  <2>1. w.events = EventsOwed(w)
    BY <1>0 DEF FeedView
  <2> QED
    BY <1>0, <1>4, <1>5, <1>7, <2>1, OwedByObserving
<1>9. \A j \in Key : o.loaded[j] # None => o.current[j] # None
  BY <1>0, <1>4, <1>5, FactsAssumption DEF FeedView
<1>10. \A j \in Key : o.claim[s][j] # claim[s][j] /\ claim[s][j] # None
          => ~SameValue(j, o.claim[s][j].value, claim[s][j].value)
  BY <1>0, <1>2, <1>5, <1>7 DEF FeedView, SameValue
<1>11. FeedView(o, s)
  BY <1>0, <1>5, <1>8, <1>9, <1>10 DEF FeedView
<1>12. FeedView(writer[s], s)'
  BY <1>6, <1>11 DEF FeedView, committed
<1> QED
  BY <1>0, <1>1, <1>6, <1>12, LocalFeed DEF SerialState

LEMMA RollbackFeed ==
    ASSUME SerialState, NEW s \in Source, Rollback(s) PROVE FeedInv'
<1>1. \A t \in Source \ {s} : writer[t].phase = "idle"
  BY OthersIdle DEF SerialState, Rollback
<1>2. /\ writer'[s] = Idle /\ \A t \in Source \ {s} : writer'[t] = writer[t]
      /\ UNCHANGED <<committed, clock>> /\ clock \in Nat
  BY DEF SerialState, TypeOK, Rollback
<1>3. FeedView(writer[s], s)'
  BY <1>2 DEF FeedView, Idle
<1> QED
  BY <1>1, <1>2, <1>3, LocalFeed DEF SerialState

\* What a transaction that runs alone knows, and what it commits.
LEMMA SerialCommit ==
    ASSUME SerialState, NEW s \in Source, writer[s].phase = "open"
    PROVE  LET w == writer[s] IN
           /\ w \in Writer
           /\ w.loaded = current
           /\ \A t \in Source \ {s} : w.claim[t] = claim[t]
           /\ SelectedIn(w.claim, w.current)
           /\ FactsCached(w, s) /\ ClaimsCached(w, s) /\ CurrentCached(w, s)
           /\ FeedView(w, s)
           /\ Dated(w.facts)
           /\ Commit(s) => /\ claim' = w.claim
                           /\ current' = w.current
                           /\ events' = events \cup EventsOwed(w)
<1>w. PICK w : w = writer[s]
  OBVIOUS
<1>0. /\ w \in Writer /\ UpToDate(w, s) /\ Pending(w) /\ View(w, s)
      /\ FeedView(w, s) /\ w.phase = "open"
  BY <1>w DEF SerialState, TypeOK, SerialInv, OverlapInv, FeedInv
<1>1. /\ w.loaded = current /\ \A t \in Source \ {s} : w.claim[t] = claim[t]
      /\ SelectedIn(w.claim, w.current)
      /\ FactsCached(w, s) /\ ClaimsCached(w, s) /\ CurrentCached(w, s)
  BY <1>0 DEF UpToDate, Pending, Consistent, View
<1>2. Dated(w.facts)
  <2>1. Dated(facts) /\ \A f \in facts : f.at \in Nat /\ f.at < w.at
    BY <1>0 DEF SerialState, FeedInv, Feed, FeedView, TypeOK, Fact
  <2>2. \A f \in w.facts : f \in facts \/ (f.src = s /\ f.at = w.at)
    BY <1>1 DEF FactsCached
  <2> QED
    BY <2>1, <2>2 DEF Dated
<1>3. ASSUME Commit(s)
      PROVE  /\ claim' = w.claim /\ current' = w.current
             /\ events' = events \cup EventsOwed(w)
  <2>1. claim' = w.claim
    <3>1. claim \in [Source -> [Key -> MaybeFact]]
          /\ w.claim \in [Source -> [Key -> MaybeFact]]
      BY <1>0 DEF Writer, SerialState, TypeOK
    <3>2. claim' = [claim EXCEPT ![s] = w.claim[s]]
      BY <1>w, <1>3 DEF Commit
    <3>3. \A t \in Source : claim'[t] = w.claim[t]
      BY <3>1, <3>2, <1>1
    <3> QED
      BY <3>1, <3>2, <3>3
  <2>2. current' = w.current
    <3>1. current \in [Key -> MaybeFact] /\ w.current \in [Key -> MaybeFact]
      BY <1>0 DEF Writer, SerialState, TypeOK
    <3> QED
      BY <1>w, <1>1, <1>3, <3>1 DEF Commit, Flushed
  <2>3. events' = events \cup EventsOwed(w)
    BY <1>w, <1>0, <1>3 DEF Commit, FeedView
  <2> QED
    BY <2>1, <2>2, <2>3
<1> QED
  BY <1>w, <1>0, <1>1, <1>2, <1>3

\* A selection that moved went to a claim that outranks the old one, or the
\* old one is no claim any more.
LEMMA MoveSettles ==
    ASSUME SerialState, NEW s \in Source, NEW w, w = writer[s], w.phase = "open",
           NEW k \in Key, w.loaded[k] # None,
           ~SameValue(k, w.loaded[k].value, w.current[k].value),
           w.claim[w.loaded[k].src][k] = w.loaded[k]
    PROVE  Beats(w.current[k], w.loaded[k])
<1> DEFINE old == w.loaded[k]
           new == w.current[k]
<1>0. /\ w \in Writer /\ w.loaded = current
      /\ SelectedIn(w.claim, w.current) /\ ClaimsCached(w, s)
      /\ CurrentCached(w, s) /\ Dated(w.facts)
  BY SerialCommit
<1>1. new # old
  BY DEF SameValue
<1>2. old \in Fact /\ old.src \in Source /\ w.claim[old.src][k] # None
  BY <1>0 DEF Writer, MaybeFact, Fact
<1>3. old \in ClaimsOn(w.claim, k)
  BY <1>2 DEF ClaimsOn
<1>4. new \in ClaimsOn(w.claim, k) /\ ~Beats(old, new)
  BY <1>0, <1>3 DEF SelectedIn, Selected
<1>5. PICK t \in Source : new = w.claim[t][k] /\ new # None
  BY <1>4 DEF ClaimsOn
<1>6. new \in w.facts /\ new.src = t /\ old \in w.facts
  BY <1>0, <1>2, <1>5 DEF ClaimsCached, ChainIn
<1>7. old.src # new.src
  BY <1>1, <1>5, <1>6
<1>8. old.at # new.at
  BY <1>0, <1>6, <1>7 DEF Dated
<1>9. old.at \in Nat /\ new.at \in Nat /\ old.auth \in Nat /\ new.auth \in Nat
  BY <1>0, <1>6 DEF Writer, Fact
<1> HIDE DEF old, new
<1> QED
  BY <1>4, <1>8, <1>9 DEF Beats, old, new

\* The feed goes on replaying when a commit appends the events it owes.
LEMMA CommitReplays ==
    ASSUME SerialState, NEW s \in Source, Commit(s) PROVE FeedReplays'
<1>w. PICK w : w = writer[s]
  OBVIOUS
<1>0. /\ w.loaded = current /\ current' = w.current
      /\ events' = events \cup EventsOwed(w)
      /\ FeedView(w, s) /\ w.phase = "open" /\ w \in Writer
  BY <1>w, SerialCommit DEF Commit
<1>1. /\ \A d \in events : /\ d.at < w.at /\ current[d.key] # None
                           /\ d.at \in Nat /\ d.key \in Key
      /\ FeedReplays
      /\ w.at \in Nat
  BY <1>0 DEF SerialState, FeedInv, Feed, FeedView, TypeOK, Event, Writer
<1>2. \A d \in EventsOwed(w) :
         /\ d.at = w.at /\ d.old = current[d.key] /\ d.new = current'[d.key]
         /\ d.key \in Key
  BY <1>0 DEF EventsOwed
<1> SUFFICES ASSUME NEW k \in Key, NEW e \in events', e.key = k
             PROVE  LET all == {d \in events' : d.key = k}
                        later == {d \in all : d.at > e.at} IN
                    /\ \A d \in all : d.at = e.at => d = e
                    /\ \/ later = {} /\ SameValue(k, e.new.value, current'[k].value)
                       \/ \E d \in later : /\ SameValue(k, e.new.value, d.old.value)
                                           /\ \A x \in later : x.at >= d.at
  BY DEF FeedReplays, EventsOn
<1> DEFINE was == {d \in events : d.key = k}
           all == {d \in events' : d.key = k}
           later == {d \in all : d.at > e.at}
<1>3. \A c, d \in EventsOwed(w) : c.key = k /\ d.key = k => c = d
  BY DEF EventsOwed
<1>4. CASE e \in EventsOwed(w)
  <2>1. later = {}
    BY <1>0, <1>1, <1>2, <1>4
  <2>2. \A d \in all : d.at = e.at => d = e
    BY <1>0, <1>1, <1>2, <1>3, <1>4
  <2>3. SameValue(k, e.new.value, current'[k].value)
    BY <1>2, <1>4 DEF SameValue
  <2> QED
    BY <2>1, <2>2, <2>3
<1>5. CASE e \in events
  <2> DEFINE before == {d \in was : d.at > e.at}
  <2>1. /\ \A d \in was : d.at = e.at => d = e
        /\ \/ before = {} /\ SameValue(k, e.new.value, current[k].value)
           \/ \E d \in before : /\ SameValue(k, e.new.value, d.old.value)
                                /\ \A x \in before : x.at >= d.at
    BY <1>1, <1>5 DEF FeedReplays, EventsOn
  <2>2. \A d \in all : d.at = e.at => d = e
    BY <1>0, <1>1, <1>2, <1>5, <2>1
  <2>3. CASE \E n \in EventsOwed(w) : n.key = k
    <3>1. PICK n \in EventsOwed(w) : n.key = k
      BY <2>3
    <3>2. later = before \cup {n}
      BY <1>0, <1>1, <1>2, <1>3, <1>5, <3>1
    <3>3. CASE before = {} /\ SameValue(k, e.new.value, current[k].value)
      <4>1. SameValue(k, e.new.value, n.old.value) /\ later = {n}
        BY <1>2, <3>1, <3>2, <3>3
      <4>2. n.at >= n.at
        BY <1>1, <1>2
      <4> QED
        BY <2>2, <4>1, <4>2
    <3>4. ASSUME NEW d \in before, SameValue(k, e.new.value, d.old.value),
                 \A x \in before : x.at >= d.at
          PROVE  \A x \in later : x.at >= d.at
      BY <1>1, <1>2, <3>2, <3>4
    <3> QED
      BY <2>1, <2>2, <3>2, <3>3, <3>4
  <2>4. CASE ~\E n \in EventsOwed(w) : n.key = k
    <3>1. later = before
      BY <1>0, <2>4
    <3>2. SameValue(k, current[k].value, current'[k].value)
      <4>1. current[k] # None
        BY <1>1, <1>5
      <4>2. ASSUME ~SameValue(k, current[k].value, current'[k].value)
            PROVE  FALSE
        <5> DEFINE n == [key |-> k, old |-> w.loaded[k],
                         new |-> w.current[k], at |-> w.at]
        <5>1. n \in EventsOwed(w)
          BY <1>0, <4>1, <4>2 DEF EventsOwed
        <5>2. n.key = k
          OBVIOUS
        <5> QED
          BY <2>4, <5>1, <5>2
      <4> QED
        BY <4>2
    <3>3. SameValue(k, e.new.value, current[k].value)
             => SameValue(k, e.new.value, current'[k].value)
      BY <3>2 DEF SameValue
    <3> QED
      BY <2>1, <2>2, <3>1, <3>3
  <2> QED
    BY <2>3, <2>4
<1> QED
  BY <1>0, <1>4, <1>5

LEMMA CommitFeed ==
    ASSUME SerialState, NEW s \in Source, Commit(s) PROVE FeedInv'
<1>w. PICK w : w = writer[s]
  OBVIOUS
<1>0. /\ w \in Writer /\ w.phase = "open" /\ w.at \in Nat
      /\ w.loaded = current /\ current' = w.current /\ claim' = w.claim
      /\ \A t \in Source \ {s} : w.claim[t] = claim[t]
      /\ events' = events \cup EventsOwed(w)
      /\ ClaimsCached(w, s) /\ CurrentCached(w, s) /\ Dated(w.facts)
      /\ FeedView(w, s)
  BY <1>w, SerialCommit DEF Commit, Writer
<1>1. /\ clock' = clock /\ writer'[s] = Idle
      /\ \A t \in Source \ {s} : writer'[t] = writer[t]
      /\ facts' = facts \cup {f \in w.facts : f.src = s}
  BY <1>w DEF Commit, SerialState, TypeOK
<1>2. /\ Tables /\ Timely(w, s) /\ facts \subseteq Fact /\ events \subseteq Event
      /\ \A d \in events : /\ d.at <= clock
                           /\ d.old.key = d.key /\ d.new.key = d.key
                           /\ current[d.key] # None
                           /\ Settled(d, claim)
  BY <1>w, <1>0 DEF SerialState, OverlapInv, View, TypeOK, FeedInv, Feed
<1>3. Dated(facts')
  BY <1>0, <1>1 DEF FeedView, Dated
<1>4. ASSUME NEW d \in events
      PROVE  /\ d.at <= clock' /\ d.old.key = d.key /\ d.new.key = d.key
             /\ current'[d.key] # None /\ Settled(d, claim')
  <2>1. d.key \in Key /\ d.old \in facts /\ d.old.src \in Source
        /\ d.old.at < w.at /\ d.old.at \in Nat
    BY <1>0, <1>2 DEF Tables, ReferencesHold, FeedView, Event, Fact
  <2>2. current'[d.key] # None
    BY <1>0, <1>2, <2>1 DEF FeedView
  <2>3. claim[d.old.src][d.key] # d.old => w.claim[d.old.src][d.key] # d.old
    BY <1>0, <2>1 DEF ClaimsCached
  <2> QED
    BY <1>0, <1>1, <1>2, <2>2, <2>3 DEF Settled
<1>5. ASSUME NEW d \in EventsOwed(w)
      PROVE  /\ d.at <= clock' /\ d.old.key = d.key /\ d.new.key = d.key
             /\ current'[d.key] # None /\ Settled(d, claim')
  <2>1. PICK k \in Key : /\ w.loaded[k] # None
                         /\ ~SameValue(k, w.loaded[k].value, w.current[k].value)
                         /\ d = [key |-> k, old |-> w.loaded[k],
                                 new |-> w.current[k], at |-> w.at]
    BY DEF EventsOwed
  <2>2. d.key = k /\ d.old = w.loaded[k] /\ d.new = w.current[k] /\ d.at = w.at
    BY <2>1
  <2>3. w.current[k] # None /\ w.current[k].key = k /\ w.loaded[k].key = k
    BY <1>0, <1>2, <2>1 DEF FeedView, CurrentCached, Tables, ReferencesHold
  <2>4. w.claim[w.loaded[k].src][k] = w.loaded[k]
           => Beats(w.current[k], w.loaded[k])
    BY <1>w, <1>0, <2>1, MoveSettles
  <2> QED
    BY <1>0, <1>1, <1>2, <2>2, <2>3, <2>4 DEF Settled, Timely
<1>6. FeedReplays'
  BY CommitReplays
<1>7. Feed'
  BY <1>0, <1>3, <1>4, <1>5, <1>6 DEF Feed
<1>8. \A t \in Source : writer'[t].phase = "idle"
  <2>1. \A t \in Source \ {s} : writer[t].phase = "idle"
    BY <1>w, <1>0, OthersIdle DEF SerialState
  <2> QED
    BY <1>1, <2>1 DEF Idle
<1>9. \A t \in Source : FeedView(writer[t], t)'
  BY <1>8 DEF FeedView
<1> QED
  BY <1>7, <1>9 DEF FeedInv

\* Every step keeps the feed invariant when syncs do not overlap.
LEMMA FeedNext == ~Concurrent /\ SerialState /\ [Next]_vars => FeedInv'
<1> SUFFICES ASSUME ~Concurrent, SerialState, [Next]_vars PROVE FeedInv'
  OBVIOUS
<1>1. CASE UNCHANGED vars
  BY <1>1 DEF vars, SerialState, FeedInv, Feed, Dated, FeedReplays, EventsOn,
              Settled, FeedView
<1>2. ASSUME NEW s \in Source,
             \/ Begin(s) \/ LoadFacts(s) \/ LoadClaims(s) \/ LoadCurrent(s)
             \/ LoadColumns(s) \/ Commit(s) \/ Rollback(s)
      PROVE  FeedInv'
  BY <1>2, BeginFeed, LoadFeed, ColumnsFeed, CommitFeed, RollbackFeed
<1>3. ASSUME NEW s \in Source, NEW k \in Key, NEW v \in Value, NEW a \in Nat,
             Confirm(s, k, v) \/ Observe(s, k, v, a)
      PROVE  FeedInv'
  BY <1>3, ConfirmFeed, ObserveFeed
<1> QED
  BY <1>1, <1>2, <1>3, OfferType DEF Next

\* It holds in every state when syncs do not overlap.
LEMMA FeedInvariant == ASSUME ~Concurrent PROVE Spec => []SerialState
<1>1. Init => FeedInv
  BY FeedInit
<1>2. SerialState /\ [Next]_vars => FeedInv'
  BY FeedNext
<1>3. SerialState <=> TypeOK /\ SerialInv /\ OverlapInv /\ FeedInv
  BY DEF SerialState
<1>4. TypeOK /\ SerialInv /\ OverlapInv /\ FeedInv /\ [Next]_vars => FeedInv'
  BY <1>2, <1>3
<1>5. [](TypeOK /\ SerialInv /\ OverlapInv /\ FeedInv) => []SerialState
  BY <1>3, PTL
<1> QED
  BY <1>1, <1>4, <1>5, LedgerTypes, SerialInvariant, OverlapInvariant, PTL DEF Spec

\* While syncs never overlap, the change feed of every field replays: each
\* event starts where the one before it ended, the last one in the current
\* value (evidence.py, lines 153-190).
THEOREM FeedsReplay == ASSUME ~Concurrent PROVE Spec => []FeedReplays
<1>1. SerialState => FeedReplays
  BY DEF SerialState, FeedInv, Feed
<1> QED
  BY FeedInvariant, <1>1, PTL

\* The primary key of a fact names its source, key and place in the chain.
LEMMA IdFields ==
    ASSUME NEW f, NEW g, FactId(f) = FactId(g)
    PROVE  f.src = g.src /\ f.key = g.key /\ f.step = g.step
<1>1. /\ FactId(f)[1] = f.src /\ FactId(f)[2] = f.key /\ FactId(f)[4] = f.step
      /\ FactId(g)[1] = g.src /\ FactId(g)[2] = g.key /\ FactId(g)[4] = g.step
  BY DEF FactId
<1> QED
  BY <1>1

\* No two observations a transaction knows of share a primary key.
LEMMA SameId ==
    ASSUME SerialState, NEW s \in Source, writer[s].phase = "open",
           NEW f \in writer[s].facts, NEW g \in writer[s].facts,
           FactId(f) = FactId(g)
    PROVE  f = g
<1>w. PICK w : w = writer[s]
  OBVIOUS
<1>0. /\ w \in Writer /\ FactsCached(w, s) /\ ClaimsCached(w, s) /\ Tables
      /\ f \in w.facts /\ g \in w.facts
  BY <1>w, SerialCommit DEF SerialState, OverlapInv
<1>1. f.src = g.src /\ f.key = g.key /\ f.step = g.step
  BY IdFields
<1>2. f.src \in Source /\ f.key \in Key
  BY <1>0 DEF Writer, Fact
<1>3. CASE f.src = s
  <2>1. Chained(ChainIn(w.facts, s, f.key), w.claim[s][f.key], f.key)
    BY <1>0, <1>2 DEF ClaimsCached
  <2>2. f \in ChainIn(w.facts, s, f.key) /\ g \in ChainIn(w.facts, s, f.key)
    BY <1>0, <1>1, <1>3 DEF ChainIn
  <2> QED
    BY <1>1, <2>1, <2>2 DEF Chained
<1>4. CASE f.src # s
  <2>1. Chained(ChainIn(facts, f.src, f.key), claim[f.src][f.key], f.key)
    BY <1>0, <1>2 DEF Tables
  <2>2. f \in ChainIn(facts, f.src, f.key) /\ g \in ChainIn(facts, f.src, f.key)
    BY <1>0, <1>1, <1>4 DEF ChainIn, FactsCached
  <2> QED
    BY <1>1, <2>1, <2>2 DEF Chained
<1> QED
  BY <1>3, <1>4

\* An event that is owed has not been committed before.
LEMMA OwedIsNew ==
    ASSUME SerialState, NEW s \in Source, writer[s].phase = "open",
           NEW e \in EventsOwed(writer[s]), NEW d \in events
    PROVE  EventId(e) # EventId(d)
<1> SUFFICES ASSUME EventId(e) = EventId(d) PROVE FALSE
  OBVIOUS
<1>w. PICK w : w = writer[s]
  OBVIOUS
<1>0. /\ w \in Writer /\ w.loaded = current /\ w.phase = "open" /\ w.at \in Nat
      /\ \A t \in Source \ {s} : w.claim[t] = claim[t]
      /\ SelectedIn(w.claim, w.current) /\ FactsCached(w, s)
      /\ ClaimsCached(w, s) /\ CurrentCached(w, s) /\ FeedView(w, s)
  BY <1>w, SerialCommit DEF Writer
<1>1. /\ Tables /\ SelectedIn(claim, current) /\ Settled(d, claim)
      /\ facts \subseteq Fact /\ d \in Event
      /\ d.old.key = d.key /\ d.new.key = d.key
      /\ d.old \in facts /\ d.new \in facts
      /\ facts \subseteq w.facts
  BY <1>0 DEF SerialState, OverlapInv, Tables, SerialInv, Consistent, FeedInv,
              Feed, TypeOK, ReferencesHold, FeedView
<1>2. FactId(e.old) = FactId(d.old) /\ FactId(e.new) = FactId(d.new)
  <2>1. /\ EventId(e)[1] = FactId(e.old) /\ EventId(e)[2] = FactId(e.new)
        /\ EventId(d)[1] = FactId(d.old) /\ EventId(d)[2] = FactId(d.new)
    BY DEF EventId
  <2> QED
    BY <2>1
<1>3. PICK k \in Key : /\ current[k] # None
                       /\ ~SameValue(k, current[k].value, w.current[k].value)
                       /\ e = [key |-> k, old |-> current[k],
                               new |-> w.current[k], at |-> w.at]
  BY <1>w, <1>0 DEF EventsOwed
<1>4. e.old = current[k] /\ e.new = w.current[k] /\ current[k] # w.current[k]
  BY <1>3 DEF SameValue
<1>5. current[k] \in facts /\ current[k].key = k
  BY <1>1, <1>3 DEF Tables, ReferencesHold
<1>6. d.old = current[k] /\ d.key = k
  <2>1. d.old = current[k]
    BY <1>w, <1>0, <1>1, <1>2, <1>4, <1>5, SameId
  <2> QED
    BY <1>1, <1>5, <2>1
<1>7. /\ w.claim[s][k] # claim[s][k]
      /\ w.current[k] \in ClaimsOn(w.claim, k)
  BY <1>0, <1>3, <1>4 DEF CurrentCached, Selected
<1>8. PICK t \in Source : w.current[k] = w.claim[t][k] /\ w.current[k] # None
  BY <1>7 DEF ClaimsOn
<1>9. w.current[k] \in w.facts /\ w.current[k].src = t
  BY <1>0, <1>8 DEF ClaimsCached, ChainIn
<1>10. d.new = w.current[k]
  BY <1>w, <1>0, <1>1, <1>2, <1>4, <1>9, SameId
<1>11. t # s
  <2>1. w.claim[s][k].at = w.at /\ w.claim[s][k] # None
    BY <1>0, <1>7 DEF ClaimsCached
  <2>2. d.new.at < w.at /\ d.new.at \in Nat
    BY <1>0, <1>1 DEF FeedView, Fact
  <2> QED
    BY <1>0, <1>8, <1>10, <2>1, <2>2
<1>12. w.current[k] \in ClaimsOn(claim, k)
  BY <1>0, <1>8, <1>11 DEF ClaimsOn
<1>13. current[k] \in ClaimsOn(claim, k) /\ ~Beats(w.current[k], current[k])
  BY <1>1, <1>12 DEF SelectedIn, Selected
<1>14. claim[current[k].src][k] = current[k]
  <2>1. PICK r \in Source : current[k] = claim[r][k]
    BY <1>13 DEF ClaimsOn
  <2>2. current[k].src = r
    BY <1>1, <1>3, <2>1 DEF Tables, ReferencesHold, ChainOf
  <2> QED
    BY <2>1, <2>2
<1> QED
  BY <1>1, <1>6, <1>10, <1>13, <1>14 DEF Settled

\* While syncs never overlap, no valid sync is refused: its caches name only
\* facts it has loaded, nothing it may still insert has the primary key of a
\* stored row, so A -> B -> A stays three observations, and nothing pending
\* meets a committed row (evidence.py, lines 52, 70, 76-87 and 154).
THEOREM SyncsAreNeverRefused == ASSUME ~Concurrent PROVE Spec => []NeverRefused
<1>1. ASSUME SerialState PROVE NeverRefused
  <2> SUFFICES ASSUME NEW s \in Source, NEW w, w = writer[s]
               PROVE  /\ w.phase = "facts" => \A k \in Key : ClaimsOn(claim, k) \subseteq w.facts
                      /\ w.phase = "open" =>
                           /\ \A k \in Key :
                                 ClaimsOn(w.claim, k) \cup ({w.current[k]} \ {None})
                                    \subseteq w.facts
                           /\ \A k \in Key \ w.seen : \A o \in Offer[s][k] :
                                 ~Confirms(w, s, k, o.value) =>
                                   FactId(NewFact(w, s, k, o.value, o.auth))
                                     \notin {FactId(f) : f \in w.facts}
                           /\ ~Clashes(s)
    BY DEF NeverRefused
  <2>f. w.phase \notin {"idle", "begun"} => facts \subseteq w.facts
    BY <1>1 DEF SerialState, FeedInv, FeedView
  <2>a. ASSUME w.phase = "facts", NEW k \in Key PROVE ClaimsOn(claim, k) \subseteq w.facts
    <3>1. \A t \in Source : claim[t][k] # None => claim[t][k] \in facts
      BY <1>1 DEF SerialState, OverlapInv, Tables, ReferencesHold, ChainOf
    <3>2. facts \subseteq w.facts
      BY <2>a, <2>f
    <3> QED
      BY <3>1, <3>2 DEF ClaimsOn
  <2> SUFFICES ASSUME w.phase = "open"
               PROVE  /\ \A k \in Key :
                            ClaimsOn(w.claim, k) \cup ({w.current[k]} \ {None}) \subseteq w.facts
                      /\ \A k \in Key \ w.seen : \A o \in Offer[s][k] :
                            ~Confirms(w, s, k, o.value) =>
                              FactId(NewFact(w, s, k, o.value, o.auth))
                                \notin {FactId(f) : f \in w.facts}
                      /\ ~Clashes(s)
    BY <2>a
  <2>w. w = writer[s]
    OBVIOUS
  <2>0. /\ w \in Writer /\ w.loaded = current /\ w.events = EventsOwed(w)
        /\ ClaimsCached(w, s) /\ CurrentCached(w, s)
    BY <1>1, <2>w, SerialCommit DEF FeedView
  <2>b. ASSUME NEW k \in Key
        PROVE  ClaimsOn(w.claim, k) \cup ({w.current[k]} \ {None}) \subseteq w.facts
    <3>1. \A t \in Source : w.claim[t][k] # None => w.claim[t][k] \in w.facts
      BY <2>0 DEF ClaimsCached, ChainIn
    <3>2. w.current[k] # None => w.current[k] \in w.facts
      BY <2>0, <2>f DEF CurrentCached
    <3> QED
      BY <3>1, <3>2 DEF ClaimsOn
  <2>1. ~Clashes(s)
    BY <1>1, <2>w, <2>0, OwedIsNew DEF Clashes
  <2>2. ASSUME NEW k \in Key, NEW v \in Value, NEW a \in Nat, NEW g \in w.facts,
               FactId(g) = FactId(NewFact(w, s, k, v, a))
        PROVE  FALSE
    <3> DEFINE n == NewFact(w, s, k, v, a)
               chain == ChainIn(w.facts, s, k)
    <3>1. n.src = s /\ n.key = k /\ n.step = NextStep(w.claim[s][k])
      BY DEF NewFact
    <3>2. g \in chain /\ g.step = NextStep(w.claim[s][k])
      <4>1. g.src = n.src /\ g.key = n.key /\ g.step = n.step
        BY <2>2, IdFields
      <4> QED
        BY <3>1, <4>1 DEF ChainIn
    <3>3. Chained(chain, w.claim[s][k], k)
      BY <2>0 DEF ClaimsCached
    <3>4. w.claim[s][k] # None /\ NextStep(w.claim[s][k]) = Cardinality(chain) + 1
      BY <3>2, <3>3 DEF Chained, NextStep
    <3>5. Cardinality(chain) \in Nat /\ g.step \in 1..Cardinality(chain)
      BY <3>2, <3>3, FS_CardinalityType DEF Chained
    <3> QED
      BY <3>2, <3>4, <3>5
  <2> QED
    BY <2>b, <2>1, <2>2, OfferType
<1> QED
  BY FeedInvariant, <1>1, PTL

-----------------------------------------------------------------------------
(* The refinement: a commit publishes, every other step is a stutter.      *)

LEMMA PromiseInit == Init => Promise!Init
  BY DEF Init, Promise!Init, Promise!NoClaims, Promise!NoFacts, NoClaims, NoFacts

\* A commit that changed no claim changed nothing a reader of the promise
\* sees; one that did publishes exactly the fields it changed.
LEMMA CommitPublishes ==
    ASSUME SerialState, NEW s \in Source, Commit(s)
    PROVE  Promise!Publish(s) \/ UNCHANGED <<claim, current, events>>
<1>w. PICK w : w = writer[s]
  OBVIOUS
<1>0. /\ w \in Writer /\ w.loaded = current /\ w.phase = "open"
      /\ current' = w.current /\ claim' = w.claim
      /\ events' = events \cup EventsOwed(w)
      /\ \A t \in Source \ {s} : w.claim[t] = claim[t]
      /\ ClaimsCached(w, s) /\ CurrentCached(w, s) /\ FeedView(w, s)
  BY <1>w, SerialCommit DEF Commit
<1>1. /\ current \in [Key -> MaybeFact] /\ w.current \in [Key -> MaybeFact]
      /\ claim \in [Source -> [Key -> MaybeFact]]
      /\ w.claim \in [Source -> [Key -> MaybeFact]]
  BY <1>0 DEF SerialState, TypeOK, Writer
<1> DEFINE changed == {k \in Key : w.claim[s][k] # claim[s][k]}
<1>2. \A k \in Key \ changed : w.current[k] = current[k]
  BY <1>0 DEF CurrentCached
<1>3. EventsOwed(w)
        = {[key |-> k, old |-> current[k], new |-> w.current[k], at |-> w.at] :
              k \in {c \in changed :
                        /\ current[c] # None
                        /\ ~SameValue(c, current[c].value, w.current[c].value)}}
  BY <1>0, <1>2 DEF EventsOwed, SameValue
<1>4. CASE changed = {}
  <2>1. current' = current
    BY <1>0, <1>1, <1>2, <1>4
  <2>2. claim' = claim
    <3>1. \A t \in Source : w.claim[t] = claim[t]
      <4>1. \A k \in Key : w.claim[s][k] = claim[s][k]
        BY <1>4
      <4>2. w.claim[s] = claim[s]
        BY <1>1, <4>1
      <4> QED
        BY <1>0, <4>2
    <3> QED
      BY <1>0, <1>1, <3>1
  <2>3. events' = events
    BY <1>0, <1>3, <1>4
  <2> QED
    BY <2>1, <2>2, <2>3
<1>5. CASE changed # {}
  <2>1. Promise!Changed(s) = changed
    BY <1>0 DEF Promise!Changed
  <2>2. \A t \in Source \ {s} : claim'[t] = claim[t]
    BY <1>0
  <2>3. ASSUME NEW k \in changed
        PROVE  Promise!NewClaim(s, k) /\ Promise!Selected(claim', k, current'[k])
    <3>1. w.claim[s][k] # None
      BY <1>0, <2>3 DEF ClaimsCached
    <3>2. claim'[s][k] \in Promise!Fact
      BY <1>0, <1>1, <3>1 DEF MaybeFact, Promise!Fact, Fact
    <3>3. claim[s][k] # None =>
            ~Promise!SameValue(k, claim'[s][k].value, claim[s][k].value)
      BY <1>0 DEF FeedView, SameValue, Promise!SameValue
    <3>4. Selected(w.claim, k, w.current[k])
      BY <1>0 DEF CurrentCached
    <3>5. Promise!Selected(claim', k, current'[k])
      BY <1>0, <3>4 DEF Selected, ClaimsOn, Beats,
                        Promise!Selected, Promise!ClaimsOn, Promise!Beats
    <3> QED
      BY <3>2, <3>3, <3>5 DEF Promise!NewClaim
  <2>4. {c \in changed : Promise!Moved(c)}
          = {c \in changed : /\ current[c] # None
                             /\ ~SameValue(c, current[c].value, w.current[c].value)}
    BY <1>0 DEF Promise!Moved, SameValue, Promise!SameValue
  <2>5. events' = events \cup
           {[key |-> k, old |-> current[k], new |-> current'[k], at |-> w.at] :
               k \in {c \in changed : Promise!Moved(c)}}
    BY <1>0, <1>3, <2>4
  <2>6. w.at \in {claim'[s][k].at : k \in changed}
    <3>1. PICK k \in changed : TRUE
      BY <1>5
    <3>2. claim'[s][k].at = w.at
      BY <1>0, <3>1 DEF ClaimsCached
    <3> QED
      BY <3>2
  <2> HIDE DEF changed
  <2> QED
    BY <1>0, <1>2, <2>1, <2>2, <2>3, <2>5, <2>6 DEF Promise!Publish, changed
<1> QED
  BY <1>4, <1>5

\* While syncs never overlap, the ledger implements PrecedenceLedger: a sync
\* takes effect whole, at its commit, and an event is published for exactly
\* the fields whose selected value moved (evidence.py, lines 66-190).
THEOREM Refinement == ASSUME ~Concurrent PROVE Spec => ImplementsPromise
<1>1. ASSUME SerialState, [Next]_vars
      PROVE  [Promise!Next]_(Promise!pvars)
  <2>1. CASE UNCHANGED vars
    BY <2>1 DEF vars, Promise!pvars
  <2>2. ASSUME NEW s \in Source, Commit(s)
        PROVE  Promise!Next \/ UNCHANGED Promise!pvars
    BY <1>1, <2>2, CommitPublishes DEF Promise!Next, Promise!pvars
  <2>3. ASSUME NEW s \in Source,
               \/ Begin(s) \/ LoadFacts(s) \/ LoadClaims(s) \/ LoadCurrent(s)
               \/ LoadColumns(s) \/ Rollback(s)
               \/ \E k \in Key, v \in Value : Confirm(s, k, v)
               \/ \E k \in Key, v \in Value, a \in Nat : Observe(s, k, v, a)
        PROVE  UNCHANGED Promise!pvars
    BY <2>3 DEF Begin, LoadFacts, LoadClaims, LoadCurrent, LoadColumns, Rollback,
                Confirm, Observe, committed, Promise!pvars
  <2> QED
    BY <1>1, <2>1, <2>2, <2>3, OfferType DEF Next
<1> QED
  BY PromiseInit, FeedInvariant, <1>1, PTL
     DEF Spec, ImplementsPromise, Promise!Spec
=============================================================================
