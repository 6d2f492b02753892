----------------------- MODULE WatchlistNotify_proofs -----------------------
(***************************************************************************)
(* Machine-checked facts about WatchlistNotify for every catalog, window,  *)
(* and number of syncs and failures.                                       *)
(***************************************************************************)
EXTENDS WatchlistNotify, FiniteSetTheorems, TLAPS

-----------------------------------------------------------------------------
(* Events are ordered, and a finite set of them has a last one.            *)

LEMMA BeforeOrder ==
    /\ \A d \in Event : ~Before(d, d)
    /\ \A c, d, e \in Event : Before(c, d) /\ Before(d, e) => Before(c, e)
  BY DEF Before, Event

\* What comes after the minimal such set is empty: strict inclusion of finite
\* sets is well founded.
LEMMA LastExists ==
    ASSUME NEW E \in SUBSET Event, IsFiniteSet(E), E # {}
    PROVE  \E e \in E : \A d \in E : ~Before(e, d)
<1> DEFINE After(e) == {d \in E : Before(e, d)}
           T == {After(e) : e \in E}
<1>1. IsWellFoundedOn(StrictSubsetOrdering(E), FiniteSubsetsOf(E))
  BY FS_StrictSubsetOrderingWellFounded
<1>2. T \subseteq FiniteSubsetsOf(E)
  <2>1. \A e \in E : After(e) \in SUBSET E
    OBVIOUS
  <2>2. \A S \in SUBSET E : IsFiniteSet(S)
    BY FS_Subset
  <2> QED
    BY <2>1, <2>2 DEF FiniteSubsetsOf
<1>3. T # {}
  OBVIOUS
<1> HIDE DEF T
<1>4. PICK S \in T : \A R \in T : ~(<<R, S>> \in StrictSubsetOrdering(E))
  BY <1>1, <1>2, <1>3, WFMin
<1>5. PICK e \in E : S = After(e)
  BY <1>4 DEF T
<1>6. ASSUME NEW d \in E, Before(e, d) PROVE FALSE
  <2>1. After(d) \in T
    BY DEF T
  <2>2. After(d) \subseteq After(e) /\ After(d) # After(e)
    <3>1. d \in After(e) /\ d \notin After(d)
      BY <1>6, BeforeOrder
    <3>2. After(d) \subseteq After(e)
      BY <1>6, BeforeOrder
    <3> QED
      BY <3>1, <3>2
  <2>3. After(d) \in SUBSET E /\ After(e) \in SUBSET E
    OBVIOUS
  <2> HIDE DEF After
  <2>4. <<After(d), After(e)>> \in StrictSubsetOrdering(E)
    BY <2>2, <2>3 DEF StrictSubsetOrdering
  <2> QED
    BY <1>4, <1>5, <2>1, <2>4
<1> QED
  BY <1>6

\* The watermark a pass reaches is the instant of its last event.
LEMMA LatestIsLast ==
    ASSUME NEW E \in SUBSET Event, IsFiniteSet(E), E # {}
    PROVE  /\ Latest(E) \in Nat
           /\ \A e \in E : e.at <= Latest(E)
           /\ \E e \in E : e.at = Latest(E)
<1>1. PICK l \in E : \A d \in E : ~Before(l, d)
  BY LastExists
<1>2. \A e \in E : l.at >= e.at
  BY <1>1 DEF Before, Event
<1>3. \E i \in {e.at : e \in E} : \A e \in E : i >= e.at
  BY <1>2
<1>4. Latest(E) \in {e.at : e \in E} /\ \A e \in E : Latest(E) >= e.at
  BY <1>3 DEF Latest
<1> QED
  BY <1>4 DEF Event

\* A change that is no noise leaves a move of its series at least as late.
LEMMA MoveExists ==
    ASSUME NEW E \in SUBSET Event, IsFiniteSet(E), NEW e \in E, ~e.noise
    PROVE  \E m \in Moves(E) : m.series = e.series /\ ~Before(m, e)
<1> DEFINE real == {d \in E : ~d.noise}
           same == {d \in real : d.series = e.series}
<1>1. IsFiniteSet(same) /\ same \in SUBSET Event /\ e \in same
  <2>1. same \in SUBSET E
    OBVIOUS
  <2> QED
    BY <2>1, FS_Subset
<1>2. PICK m \in same : \A d \in same : ~Before(m, d)
  BY <1>1, LastExists
<1>3. m \in Moves(E)
  BY <1>2 DEF Moves
<1> QED
  BY <1>1, <1>2, <1>3

\* The events a sync commits are events, and finitely many.
LEMMA NewEvents ==
    ASSUME NEW B \in SUBSET Series, NEW i \in Nat,
           NEW ids \in Bijection(B, 1..Cardinality(B))
    PROVE  LET new == {[series |-> x, at |-> i, id |-> ids[x], noise |-> FALSE] : x \in B}
           IN  new \subseteq Event /\ IsFiniteSet(new)
<1> DEFINE event == [x \in B |-> [series |-> x, at |-> i, id |-> ids[x], noise |-> FALSE]]
           new == {[series |-> x, at |-> i, id |-> ids[x], noise |-> FALSE] : x \in B}
<1>1. IsFiniteSet(B) /\ Cardinality(B) \in Nat
  <2>1. IsFiniteSet(B)
    BY WatchlistAssumption, FS_Subset
  <2> QED
    BY <2>1, FS_CardinalityType
<1>2. \A x \in B : ids[x] \in Nat
  <2>1. ids \in [B -> 1..Cardinality(B)]
    BY DEF Bijection, Injection
  <2> QED
    BY <1>1, <2>1
<1>3. new \subseteq Event
  <2>1. \A x \in B : [series |-> x, at |-> i, id |-> ids[x], noise |-> FALSE] \in Event
    BY <1>2 DEF Event
  <2> QED
    BY <2>1
<1>4. event \in Surjection(B, new)
  BY DEF Surjection
<1> QED
  BY <1>1, <1>3, <1>4, FS_Surjection

-----------------------------------------------------------------------------
(* Types, and what a pass holds.                                           *)

\* Rows are what the query found: never none, and all later than the mark.
PassInv == \A w \in Worker :
    /\ pass[w].phase \in {"idle", "marked"} => pass[w].rows = {}
    /\ pass[w].phase \in {"fetched", "sent"} =>
         /\ pass[w].rows # {}
         /\ pass[w].rows \subseteq feed
         /\ \A e \in pass[w].rows : e.at > pass[w].mark

\* What a digest announces, it announces before the watermark moves.
SentInv == \A w \in Worker :
    pass[w].phase = "sent" => \A m \in Moves(pass[w].rows) : Told(m)

TypeInv == TypeOK /\ IsFiniteSet(feed) /\ PassInv

-----------------------------------------------------------------------------
(* What is passed over.                                                    *)

OwedInv == \A e \in owed : ModelOf[e.series] \in watched

Excused(e) == \/ e \in scanned
              \/ e \in tardy
              \/ \E d \in scanned : d.at = e.at /\ Before(d, e)

\* What is at or before a mark is excused, and what a fetch has reached is in
\* its rows, or came too late for them, or follows one of its instant.
ReachInv == \A w \in Worker, e \in owed :
    /\ pass[w].phase # "idle" /\ e.at <= pass[w].mark => Excused(e)
    /\ pass[w].phase \in {"fetched", "sent"} /\ pass[w].mark < e.at =>
         \A l \in pass[w].rows : e.at <= l.at =>
           \/ e \in pass[w].rows
           \/ e \in tardy
           \/ \E d \in pass[w].rows : d.at = e.at /\ Before(d, e)

-----------------------------------------------------------------------------
(* What is told twice.                                                     *)

\* One process runs the worker loop, as the compose file starts it.
OneWorker == \A v, w \in Worker : v = w

\* The only worker's mark is the watermark.
MarkInv == \A w \in Worker : pass[w].phase # "idle" => pass[w].mark = cursor

\* Since the last failed pass, digests only told of what the watermark has
\* reached, or what the pass that is about to move it holds.
NewsInv == \A i \in DOMAIN digests :
    /\ digests[i].faults <= faults
    /\ digests[i].faults = faults => \A d \in digests[i].moves :
         \/ d.at <= cursor
         \/ \E w \in Worker : pass[w].phase = "sent" /\ d \in pass[w].rows

-----------------------------------------------------------------------------
(* Types.                                                                  *)

LEMMA RowsFound ==
    ASSUME TypeInv, NEW mark \in Nat
    PROVE  /\ Rows(mark) \in SUBSET feed
           /\ Rows(mark) \in SUBSET Event
           /\ \A e \in Rows(mark) : e.at > mark
  BY DEF TypeInv, TypeOK, Rows, First

\* What a pass holds is finite, so its watermark is well defined.
LEMMA RowsFinite ==
    ASSUME TypeInv, NEW w \in Worker
    PROVE  /\ pass[w].rows \in SUBSET Event
           /\ IsFiniteSet(pass[w].rows)
           /\ pass[w].mark \in Nat
<1>1. pass[w].rows \in SUBSET Event /\ pass[w].mark \in Nat
  BY DEF TypeInv, TypeOK
<1>2. pass[w].rows = {} \/ pass[w].rows \subseteq feed
  BY DEF TypeInv, TypeOK, PassInv
<1> QED
  BY <1>1, <1>2, FS_EmptySet, FS_Subset DEF TypeInv

LEMMA CommitTypes ==
    ASSUME TypeInv, NEW i \in open, NEW B \in SUBSET Series,
           NEW ids \in Bijection(B, 1..Cardinality(B)), CommitSync(i, B, ids)
    PROVE  TypeInv'
<1>1. PICK new : new = {[series |-> x, at |-> i, id |-> ids[x], noise |-> FALSE] : x \in B}
  OBVIOUS
<1>2. i \in Nat
  BY DEF TypeInv, TypeOK
<1>3. new \subseteq Event /\ IsFiniteSet(new)
  BY <1>1, <1>2, NewEvents
<1>4. /\ open' = open \ {i}
      /\ feed' = feed \cup new
      /\ owed' = owed \cup {e \in new : ModelOf[e.series] \in watched}
      /\ tardy' = IF Behind(i) THEN tardy \cup new ELSE tardy
      /\ UNCHANGED <<clock, watched, cursor, pass, digests, scanned, faults>>
  BY <1>1 DEF CommitSync
<1>5. TypeOK'
  BY <1>3, <1>4 DEF TypeInv, TypeOK
<1>6. IsFiniteSet(feed')
  BY <1>3, <1>4, FS_Union DEF TypeInv
<1>7. PassInv'
  BY <1>4 DEF TypeInv, PassInv
<1> QED
  BY <1>5, <1>6, <1>7 DEF TypeInv

LEMMA PassTypes ==
    ASSUME TypeInv, NEW w \in Worker, Pass(w) \/ Fail(w)
    PROVE  TypeInv'
<1> USE DEF NoPass
<1>1. CASE ReadMark(w)
  <2>1. TypeOK'
    BY <1>1 DEF ReadMark, TypeInv, TypeOK
  <2>2. PassInv' /\ IsFiniteSet(feed')
    BY <1>1 DEF ReadMark, TypeInv, TypeOK, PassInv
  <2> QED
    BY <2>1, <2>2 DEF TypeInv
<1>2. CASE Fetch(w)
  <2>1. PICK rows : rows = Rows(pass[w].mark)
    OBVIOUS
  <2>2. /\ rows \in SUBSET feed
        /\ rows \in SUBSET Event
        /\ pass[w].mark \in Nat
        /\ \A e \in rows : e.at > pass[w].mark
    BY <2>1, RowsFound, RowsFinite
  <2>3. /\ pass' = [pass EXCEPT ![w] =
              IF rows = {} THEN NoPass
              ELSE [phase |-> "fetched", mark |-> pass[w].mark, rows |-> rows]]
        /\ UNCHANGED <<clock, open, feed, watched, cursor, digests, scanned, owed, tardy, faults>>
    BY <1>2, <2>1 DEF Fetch
  <2>4. TypeOK'
    BY <2>2, <2>3 DEF TypeInv, TypeOK
  <2>5. PassInv' /\ IsFiniteSet(feed')
    BY <2>2, <2>3 DEF TypeInv, TypeOK, PassInv
  <2> QED
    BY <2>4, <2>5 DEF TypeInv
<1>3. CASE Send(w)
  <2>1. [moves |-> Moves(pass[w].rows), faults |-> faults] \in Digest
    BY RowsFinite DEF TypeInv, TypeOK, Digest, Moves
  <2>2. digests' \in Seq(Digest)
    BY <1>3, <2>1 DEF Send, TypeInv, TypeOK
  <2>3. TypeOK'
    BY <1>3, <2>2 DEF Send, TypeInv, TypeOK
  <2>4. PassInv' /\ IsFiniteSet(feed')
    BY <1>3 DEF Send, TypeInv, TypeOK, PassInv
  <2> QED
    BY <2>3, <2>4 DEF TypeInv
<1>4. CASE Advance(w)
  <2>1. pass[w].rows # {} /\ pass[w].rows \subseteq feed
    BY <1>4 DEF Advance, TypeInv, PassInv
  <2>2. Latest(pass[w].rows) \in Nat
    BY <2>1, RowsFinite, LatestIsLast
  <2>3. TypeOK'
    BY <1>4, <2>1, <2>2 DEF Advance, TypeInv, TypeOK
  <2>4. PassInv' /\ IsFiniteSet(feed')
    BY <1>4 DEF Advance, TypeInv, TypeOK, PassInv
  <2> QED
    BY <2>3, <2>4 DEF TypeInv
<1>5. CASE Fail(w)
  <2>1. TypeOK'
    BY <1>5 DEF Fail, TypeInv, TypeOK
  <2>2. PassInv' /\ IsFiniteSet(feed')
    BY <1>5 DEF Fail, TypeInv, TypeOK, PassInv
  <2> QED
    BY <2>1, <2>2 DEF TypeInv
<1> QED
  BY <1>1, <1>2, <1>3, <1>4, <1>5 DEF Pass

LEMMA InitTypes == Init => TypeInv
<1> SUFFICES ASSUME Init PROVE TypeInv
  OBVIOUS
<1>1. IsFiniteSet(feed)
  <2>1. feed = {} \/ \E e : feed = {e}
    BY DEF Init
  <2> QED
    BY <2>1, FS_EmptySet, FS_Singleton
<1>2. feed \subseteq Event
  <2>1. \A x \in Series : [series |-> x, at |-> 1, id |-> 1, noise |-> TRUE] \in Event
    BY DEF Event
  <2> QED
    BY <2>1 DEF Init
<1>3. TypeOK
  BY <1>2 DEF Init, TypeOK, NoPass
<1>4. PassInv
  BY DEF Init, PassInv, NoPass
<1> QED
  BY <1>1, <1>3, <1>4 DEF TypeInv

LEMMA NextTypes == TypeInv /\ [Next]_vars => TypeInv'
<1> SUFFICES ASSUME TypeInv, [Next]_vars PROVE TypeInv'
  OBVIOUS
<1>1. CASE BeginSync
  BY <1>1 DEF BeginSync, TypeInv, TypeOK, PassInv
<1>2. ASSUME NEW i \in open, NEW B \in SUBSET Series,
             NEW ids \in Bijection(B, 1..Cardinality(B)), CommitSync(i, B, ids)
      PROVE  TypeInv'
  BY <1>2, CommitTypes
<1>3. ASSUME NEW m \in Model, WatchAdd(m) \/ WatchRemove(m) PROVE TypeInv'
  <2>1. /\ watched' \subseteq Model
        /\ owed' \subseteq owed
        /\ UNCHANGED <<clock, open, feed, cursor, pass, digests, scanned, tardy, faults>>
    BY <1>3 DEF WatchAdd, WatchRemove, TypeInv, TypeOK
  <2> QED
    BY <2>1 DEF TypeInv, TypeOK, PassInv
<1>4. ASSUME NEW w \in Worker, Pass(w) \/ Fail(w) PROVE TypeInv'
  BY <1>4, PassTypes
<1>5. CASE UNCHANGED vars
  BY <1>5 DEF vars, TypeInv, TypeOK, PassInv
<1> QED
  BY <1>1, <1>2, <1>3, <1>4, <1>5 DEF Next

LEMMA TypesHold == Spec => []TypeInv
  BY InitTypes, NextTypes, PTL DEF Spec

\* For any number of workers, and however syncs overlap.
THEOREM Types == Spec => []TypeOK
<1>1. TypeInv => TypeOK
  BY DEF TypeInv
<1> QED
  BY <1>1, TypesHold, PTL

-----------------------------------------------------------------------------
(* The last word on a series is told.                                      *)

\* A digest is never taken back.
LEMMA ToldGrows ==
    ASSUME TypeInv, NEW w \in Worker, Send(w)
    PROVE  /\ \A e : Told(e) => Told(e)'
           /\ \A m \in Moves(pass[w].rows) : Told(m)'
<1> DEFINE d == [moves |-> Moves(pass[w].rows), faults |-> faults]
<1>1. digests \in Seq(Digest) /\ digests' = Append(digests, d)
  BY DEF TypeInv, TypeOK, Send
<1>2. d.moves = Moves(pass[w].rows)
  OBVIOUS
<1> HIDE DEF d
<1>3. /\ \A i \in DOMAIN digests : i \in DOMAIN digests' /\ digests'[i] = digests[i]
      /\ Len(digests) + 1 \in DOMAIN digests' /\ digests'[Len(digests) + 1] = d
  BY <1>1
<1> QED
  BY <1>2, <1>3 DEF Told

LEMMA InitLast == Init => SentInv /\ LastWordTold
  BY DEF Init, NoPass, SentInv, LastWordTold

LEMMA AdvanceTells ==
    ASSUME TypeInv, SentInv, LastWordTold, NEW w \in Worker, Advance(w)
    PROVE  LastWordTold'
<1>1. /\ scanned' = scanned \cup pass[w].rows
      /\ feed' = feed /\ digests' = digests
  BY DEF Advance
<1>2. pass[w].rows \subseteq feed
  BY DEF Advance, TypeInv, TypeOK, PassInv
<1>3. ASSUME NEW e \in pass[w].rows, ~e.noise
      PROVE  \E d \in feed : Told(d) /\ d.series = e.series /\ ~Before(d, e)
  <2>1. PICK m \in Moves(pass[w].rows) : m.series = e.series /\ ~Before(m, e)
    BY <1>3, RowsFinite, MoveExists
  <2>2. Told(m)
    BY <2>1 DEF Advance, SentInv
  <2>3. m \in feed
    BY <1>2, <2>1 DEF Moves
  <2> QED
    BY <2>1, <2>2, <2>3
<1>4. ASSUME NEW e \in scanned, ~e.noise
      PROVE  \E d \in feed : Told(d) /\ d.series = e.series /\ ~Before(d, e)
  BY <1>4 DEF LastWordTold
<1>5. \A e \in scanned' : ~e.noise =>
         \E d \in feed : Told(d) /\ d.series = e.series /\ ~Before(d, e)
  BY <1>1, <1>3, <1>4
<1> QED
  BY <1>1, <1>5 DEF LastWordTold, Told

LEMMA NextLast == TypeInv /\ SentInv /\ LastWordTold /\ [Next]_vars
                    => SentInv' /\ LastWordTold'
<1> SUFFICES ASSUME TypeInv, SentInv, LastWordTold, [Next]_vars
             PROVE  SentInv' /\ LastWordTold'
  OBVIOUS
\* Neither the syncs nor the operator touch what was told or fetched.
<1>1. ASSUME feed \subseteq feed', UNCHANGED <<pass, digests, scanned>>
      PROVE  SentInv' /\ LastWordTold'
  BY <1>1 DEF SentInv, LastWordTold, Told
<1>2. CASE BeginSync
  BY <1>1, <1>2 DEF BeginSync
<1>3. ASSUME NEW i \in open, NEW B \in SUBSET Series,
             NEW ids \in Bijection(B, 1..Cardinality(B)), CommitSync(i, B, ids)
      PROVE  SentInv' /\ LastWordTold'
  BY <1>1, <1>3 DEF CommitSync
<1>4. ASSUME NEW m \in Model, WatchAdd(m) \/ WatchRemove(m)
      PROVE  SentInv' /\ LastWordTold'
  BY <1>1, <1>4 DEF WatchAdd, WatchRemove
<1>5. ASSUME NEW w \in Worker, Pass(w) \/ Fail(w)
      PROVE  SentInv' /\ LastWordTold'
  <2> USE DEF NoPass
  <2>1. CASE ReadMark(w) \/ Fetch(w) \/ Fail(w)
    <3>1. /\ UNCHANGED <<feed, digests, scanned>>
          /\ \A v \in Worker : pass'[v].phase = "sent" => pass'[v] = pass[v]
      BY <2>1 DEF ReadMark, Fetch, Fail, TypeInv, TypeOK
    <3> QED
      BY <3>1 DEF SentInv, LastWordTold, Told
  <2>2. CASE Send(w)
    <3>1. /\ feed' = feed /\ scanned' = scanned
          /\ \A v \in Worker : pass'[v].rows = pass[v].rows
          /\ \A v \in Worker \ {w} : pass'[v] = pass[v]
      BY <2>2 DEF Send, TypeInv, TypeOK
    <3>2. \A e : Told(e) => Told(e)'
      BY <2>2, ToldGrows
    <3>3. \A m \in Moves(pass[w].rows) : Told(m)'
      BY <2>2, ToldGrows
    <3>4. SentInv'
      <4> SUFFICES ASSUME NEW v \in Worker, pass'[v].phase = "sent",
                          NEW m \in Moves(pass'[v].rows)
                   PROVE  Told(m)'
        BY DEF SentInv
      <4> QED
        BY <3>1, <3>2, <3>3 DEF SentInv
    <3>5. LastWordTold'
      <4> SUFFICES ASSUME NEW e \in scanned', ~e.noise
                   PROVE  \E d \in feed' : Told(d)' /\ d.series = e.series /\ ~Before(d, e)
        BY DEF LastWordTold
      <4> QED
        BY <3>1, <3>2 DEF LastWordTold
    <3> QED
      BY <3>4, <3>5
  <2>3. CASE Advance(w)
    <3>1. /\ digests' = digests
          /\ \A v \in Worker : pass'[v].phase = "sent" => pass'[v] = pass[v]
      BY <2>3 DEF Advance, TypeInv, TypeOK
    <3>2. SentInv'
      BY <3>1 DEF SentInv, Told
    <3> QED
      BY <2>3, <3>2, AdvanceTells
  <2> QED
    BY <1>5, <2>1, <2>2, <2>3 DEF Pass
<1>6. CASE UNCHANGED vars
  BY <1>1, <1>6 DEF vars
<1> QED
  BY <1>2, <1>3, <1>4, <1>5, <1>6 DEF Next

\* For any number of workers: whatever the watermark has passed by fetching it
\* is announced, or a later change of its series is.
THEOREM News == Spec => []LastWordTold
<1>1. Init => SentInv /\ LastWordTold
  BY InitLast
<1>2. TypeInv /\ SentInv /\ LastWordTold /\ [Next]_vars => SentInv' /\ LastWordTold'
  BY NextLast
<1> QED
  BY <1>1, <1>2, TypesHold, PTL DEF Spec

-----------------------------------------------------------------------------
(* Nothing is passed over without a reason.                                *)

\* The window is closed to the front: it keeps what is not after its rows.
LEMMA WindowIsPrefix ==
    ASSUME NEW E \in SUBSET Event, IsFiniteSet(E), NEW n \in Nat,
           NEW e \in E, NEW l \in First(n, E), ~Before(l, e)
    PROVE  e \in First(n, E)
<1> DEFINE Ahead(x) == {d \in E : Before(d, x)}
<1>1. Ahead(e) \subseteq Ahead(l)
  BY DEF Before, Event, First
<1>2. IsFiniteSet(Ahead(l)) /\ IsFiniteSet(Ahead(e))
  <2>1. Ahead(l) \subseteq E /\ Ahead(e) \subseteq E
    OBVIOUS
  <2> HIDE DEF Ahead
  <2> QED
    BY <2>1, FS_Subset
<1>3. Cardinality(Ahead(l)) < n
  BY DEF First
<1> HIDE DEF Ahead
<1>4. Cardinality(Ahead(e)) <= Cardinality(Ahead(l))
  BY <1>1, <1>2, FS_Subset
<1>5. Cardinality(Ahead(e)) \in Nat /\ Cardinality(Ahead(l)) \in Nat
  BY <1>2, FS_CardinalityType
<1>6. Cardinality(Ahead(e)) < n
  BY <1>3, <1>4, <1>5
<1> QED
  BY <1>6 DEF First, Ahead

CauseInv == TypeInv /\ OwedInv /\ ReachInv /\ PassedOverForCause

LEMMA CommitReach ==
    ASSUME CauseInv, NEW i \in open, NEW B \in SUBSET Series,
           NEW ids \in Bijection(B, 1..Cardinality(B)), CommitSync(i, B, ids)
    PROVE  OwedInv' /\ ReachInv' /\ PassedOverForCause'
<1>1. PICK new : new = {[series |-> x, at |-> i, id |-> ids[x], noise |-> FALSE] : x \in B}
  OBVIOUS
<1>2. \A e \in new : e.at = i
  BY <1>1
<1>3. /\ owed' = owed \cup {e \in new : ModelOf[e.series] \in watched}
      /\ tardy' = IF Behind(i) THEN tardy \cup new ELSE tardy
      /\ UNCHANGED <<clock, watched, cursor, pass, digests, scanned, faults>>
  BY <1>1 DEF CommitSync
<1>4. OwedInv'
  BY <1>3 DEF CauseInv, OwedInv
<1>5. i \in Nat /\ cursor \in Nat /\ \A w \in Worker : pass[w].mark \in Nat
  BY DEF CauseInv, TypeInv, TypeOK
\* A mark or a fetch that has reached the instant shows.
<1>6. ASSUME NEW w \in Worker, pass[w].phase # "idle", i <= pass[w].mark
      PROVE  Behind(i)
  BY <1>5, <1>6 DEF Behind
<1>7. ASSUME NEW w \in Worker, NEW l \in pass[w].rows, i <= l.at PROVE Behind(i)
  <2>1. l.at \in Nat
    BY RowsFinite DEF Event, CauseInv
  <2> QED
    BY <1>5, <1>7, <2>1 DEF Behind
<1>8. \A e : Excused(e) => Excused(e)'
  BY <1>3 DEF Excused
<1>9. \A e \in owed' : e \in owed \/ (e.at = i /\ (Behind(i) => e \in tardy'))
  BY <1>2, <1>3
<1>10. ReachInv'
  <2> SUFFICES ASSUME NEW w \in Worker, NEW e \in owed'
               PROVE  /\ pass[w].phase # "idle" /\ e.at <= pass[w].mark => Excused(e)'
                      /\ pass[w].phase \in {"fetched", "sent"} /\ pass[w].mark < e.at =>
                           \A l \in pass[w].rows : e.at <= l.at =>
                             \/ e \in pass[w].rows
                             \/ e \in tardy'
                             \/ \E d \in pass[w].rows : d.at = e.at /\ Before(d, e)
    BY <1>3 DEF ReachInv
  <2>1. CASE e \in owed
    BY <1>3, <1>8, <2>1 DEF CauseInv, ReachInv
  <2>2. CASE e.at = i /\ (Behind(i) => e \in tardy')
    BY <1>6, <1>7, <2>2 DEF Excused
  <2> QED
    BY <1>9, <2>1, <2>2
<1>11. PassedOverForCause'
  <2>1. cursor >= i => Behind(i)
    BY DEF Behind
  <2> SUFFICES ASSUME NEW e \in owed', e.at <= cursor PROVE Excused(e)'
    BY <1>3 DEF PassedOverForCause, Excused
  <2>2. CASE e \in owed
    BY <1>8, <2>2 DEF CauseInv, PassedOverForCause, Excused
  <2>3. CASE e.at = i /\ (Behind(i) => e \in tardy')
    BY <1>5, <2>1, <2>3 DEF Excused
  <2> QED
    BY <1>9, <2>2, <2>3
<1> QED
  BY <1>4, <1>10, <1>11

LEMMA FetchReach ==
    ASSUME CauseInv, NEW w \in Worker, Fetch(w)
    PROVE  ReachInv'
<1> USE DEF NoPass
<1>1. PICK rows : rows = Rows(pass[w].mark)
  OBVIOUS
<1>2. /\ pass[w].phase = "marked"
      /\ pass' = [pass EXCEPT ![w] =
            IF rows = {} THEN NoPass
            ELSE [phase |-> "fetched", mark |-> pass[w].mark, rows |-> rows]]
      /\ UNCHANGED <<clock, open, feed, watched, cursor, digests, scanned, owed, tardy, faults>>
  BY <1>1 DEF Fetch
<1>3. \A e : Excused(e)' <=> Excused(e)
  BY <1>2 DEF Excused
<1> DEFINE E == {e \in feed : e.at > pass[w].mark /\ ModelOf[e.series] \in watched}
<1>4. ASSUME NEW e \in owed, pass[w].mark < e.at, NEW l \in rows, e.at <= l.at
      PROVE  e \in rows \/ \E d \in rows : d.at = e.at /\ Before(d, e)
  <2>1. E \in SUBSET Event /\ IsFiniteSet(E)
    <3>1. E \subseteq feed
      OBVIOUS
    <3> HIDE DEF E
    <3> QED
      BY <3>1, FS_Subset DEF CauseInv, TypeInv, TypeOK
  <2>2. rows = First(Window, E)
    BY <1>1 DEF Rows
  <2>3. e \in E
    BY <1>4 DEF CauseInv, TypeInv, TypeOK, OwedInv, Event
  <2>4. l \in E
    BY <1>4, <2>2 DEF First
  <2> HIDE DEF E
  <2>5. CASE Before(l, e)
    BY <1>4, <2>1, <2>3, <2>4, <2>5 DEF Before, Event
  <2>6. CASE ~Before(l, e)
    BY <1>4, <2>1, <2>2, <2>3, <2>6, WindowIsPrefix, WatchlistAssumption
  <2> QED
    BY <2>5, <2>6
<1> HIDE DEF E
<1>5. \A v \in Worker \ {w} : pass'[v] = pass[v]
  BY <1>2 DEF CauseInv, TypeInv, TypeOK
<1>6. pass'[w] = IF rows = {} THEN NoPass
                 ELSE [phase |-> "fetched", mark |-> pass[w].mark, rows |-> rows]
  BY <1>2 DEF CauseInv, TypeInv, TypeOK
<1>7. \/ pass'[w].phase = "idle"
      \/ pass'[w].phase = "fetched" /\ pass'[w].mark = pass[w].mark /\ pass'[w].rows = rows
  BY <1>6
<1> SUFFICES ASSUME NEW v \in Worker, NEW e \in owed
             PROVE  /\ pass'[v].phase # "idle" /\ e.at <= pass'[v].mark => Excused(e)
                    /\ pass'[v].phase \in {"fetched", "sent"} /\ pass'[v].mark < e.at =>
                         \A l \in pass'[v].rows : e.at <= l.at =>
                           \/ e \in pass'[v].rows
                           \/ e \in tardy
                           \/ \E d \in pass'[v].rows : d.at = e.at /\ Before(d, e)
  BY <1>2, <1>3 DEF ReachInv
<1>8. CASE v = w
  BY <1>2, <1>4, <1>7, <1>8 DEF CauseInv, ReachInv
<1>9. CASE v # w
  BY <1>5, <1>9 DEF CauseInv, ReachInv
<1> QED
  BY <1>8, <1>9

LEMMA AdvanceReach ==
    ASSUME CauseInv, NEW w \in Worker, Advance(w)
    PROVE  ReachInv' /\ PassedOverForCause'
<1> USE DEF NoPass
<1>1. /\ pass[w].phase \in {"fetched", "sent"}
      /\ cursor' = Latest(pass[w].rows)
      /\ scanned' = scanned \cup pass[w].rows
      /\ pass' = [pass EXCEPT ![w] = NoPass]
      /\ UNCHANGED <<owed, tardy>>
  BY DEF Advance
<1>2. PICK l \in pass[w].rows : l.at = cursor' /\ l.at \in Nat
  BY <1>1, RowsFinite, LatestIsLast DEF CauseInv, TypeInv, PassInv
<1>3. \A e : Excused(e) => Excused(e)'
  BY <1>1 DEF Excused
<1>4. ReachInv'
  <2>1. \A v \in Worker : pass'[v].phase # "idle" => pass'[v] = pass[v]
    BY <1>1 DEF CauseInv, TypeInv, TypeOK
  <2> QED
    BY <1>1, <1>3, <2>1 DEF CauseInv, ReachInv
<1>5. ASSUME NEW e \in owed, e.at <= cursor' PROVE Excused(e)'
  <2>1. e.at \in Nat /\ pass[w].mark \in Nat
    BY DEF CauseInv, TypeInv, TypeOK, Event
  <2>2. CASE e.at <= pass[w].mark
    BY <1>1, <1>3, <2>2 DEF CauseInv, ReachInv
  <2>3. CASE pass[w].mark < e.at
    <3>1. \/ e \in pass[w].rows
          \/ e \in tardy
          \/ \E d \in pass[w].rows : d.at = e.at /\ Before(d, e)
      BY <1>1, <1>2, <1>5, <2>3 DEF CauseInv, ReachInv
    <3> QED
      BY <1>1, <3>1 DEF Excused
  <2> QED
    BY <2>1, <2>2, <2>3
<1>6. PassedOverForCause'
  BY <1>1, <1>5 DEF PassedOverForCause, Excused
<1> QED
  BY <1>4, <1>6

LEMMA NextCause ==
    ASSUME CauseInv, [Next]_vars
    PROVE  CauseInv'
<1>1. TypeInv'
  BY NextTypes DEF CauseInv
<1>2. ASSUME UNCHANGED <<watched, cursor, pass, scanned, owed, tardy>>
      PROVE  OwedInv' /\ ReachInv' /\ PassedOverForCause'
  BY <1>2 DEF CauseInv, OwedInv, ReachInv, Excused, PassedOverForCause
<1>3. CASE BeginSync
  BY <1>1, <1>2, <1>3 DEF BeginSync, CauseInv
<1>4. ASSUME NEW i \in open, NEW B \in SUBSET Series,
             NEW ids \in Bijection(B, 1..Cardinality(B)), CommitSync(i, B, ids)
      PROVE  CauseInv'
  BY <1>1, <1>4, CommitReach DEF CauseInv
<1>5. ASSUME NEW m \in Model, WatchAdd(m) \/ WatchRemove(m) PROVE CauseInv'
  <2>1. /\ owed' \subseteq owed
        /\ UNCHANGED <<cursor, pass, scanned, tardy>>
    BY <1>5 DEF WatchAdd, WatchRemove
  <2>2. OwedInv'
    BY <1>5 DEF WatchAdd, WatchRemove, CauseInv, OwedInv
  <2>3. ReachInv' /\ PassedOverForCause'
    BY <2>1 DEF CauseInv, ReachInv, Excused, PassedOverForCause
  <2> QED
    BY <1>1, <2>2, <2>3 DEF CauseInv
<1>6. ASSUME NEW w \in Worker, Pass(w) \/ Fail(w) PROVE CauseInv'
  <2> USE DEF NoPass
  <2>1. OwedInv'
    <3>1. UNCHANGED <<watched, owed>>
      BY <1>6 DEF Pass, ReadMark, Fetch, Send, Advance, Fail
    <3> QED
      BY <3>1 DEF CauseInv, OwedInv
  <2>2. CASE ReadMark(w)
    <3>1. /\ UNCHANGED <<cursor, scanned, owed, tardy>>
          /\ \A v \in Worker \ {w} : pass'[v] = pass[v]
          /\ pass'[w].phase = "marked" /\ pass'[w].mark = cursor
      BY <2>2 DEF ReadMark, CauseInv, TypeInv, TypeOK
    <3>2. PassedOverForCause' /\ \A e : Excused(e)' <=> Excused(e)
      BY <3>1 DEF CauseInv, PassedOverForCause, Excused
    <3>3. \A e \in owed : e.at <= cursor => Excused(e)
      BY DEF CauseInv, PassedOverForCause, Excused
    <3>4. ReachInv'
      <4> SUFFICES ASSUME NEW v \in Worker, NEW e \in owed
                   PROVE  /\ pass'[v].phase # "idle" /\ e.at <= pass'[v].mark => Excused(e)
                          /\ pass'[v].phase \in {"fetched", "sent"} /\ pass'[v].mark < e.at =>
                               \A l \in pass'[v].rows : e.at <= l.at =>
                                 \/ e \in pass'[v].rows
                                 \/ e \in tardy
                                 \/ \E d \in pass'[v].rows : d.at = e.at /\ Before(d, e)
        BY <3>1, <3>2 DEF ReachInv
      <4>1. CASE v = w
        BY <3>1, <3>3, <4>1
      <4>2. CASE v # w
        BY <3>1, <4>2 DEF CauseInv, ReachInv
      <4> QED
        BY <4>1, <4>2
    <3> QED
      BY <1>1, <2>1, <3>2, <3>4 DEF CauseInv
  <2>3. CASE Fetch(w)
    <3>1. UNCHANGED <<cursor, scanned, owed, tardy>>
      BY <2>3 DEF Fetch
    <3>2. PassedOverForCause'
      BY <3>1 DEF CauseInv, PassedOverForCause
    <3> QED
      BY <1>1, <2>1, <2>3, <3>2, FetchReach DEF CauseInv
  <2>4. CASE Send(w)
    <3>1. /\ UNCHANGED <<cursor, scanned, owed, tardy>>
          /\ \A v \in Worker : pass'[v].mark = pass[v].mark /\ pass'[v].rows = pass[v].rows
          /\ \A v \in Worker \ {w} : pass'[v] = pass[v]
          /\ pass[w].phase = "fetched"
      BY <2>4 DEF Send, CauseInv, TypeInv, TypeOK
    <3>2. PassedOverForCause' /\ ReachInv'
      BY <3>1 DEF CauseInv, PassedOverForCause, ReachInv, Excused
    <3> QED
      BY <1>1, <2>1, <3>2 DEF CauseInv
  <2>5. CASE Advance(w)
    BY <1>1, <2>1, <2>5, AdvanceReach DEF CauseInv
  <2>6. CASE Fail(w)
    <3>1. /\ UNCHANGED <<cursor, scanned, owed, tardy>>
          /\ \A v \in Worker : pass'[v].phase # "idle" => pass'[v] = pass[v]
      BY <2>6 DEF Fail, CauseInv, TypeInv, TypeOK
    <3>2. PassedOverForCause' /\ ReachInv'
      BY <3>1 DEF CauseInv, PassedOverForCause, ReachInv, Excused
    <3> QED
      BY <1>1, <2>1, <3>2 DEF CauseInv
  <2> QED
    BY <1>6, <2>2, <2>3, <2>4, <2>5, <2>6 DEF Pass
<1>7. CASE UNCHANGED vars
  BY <1>1, <1>2, <1>7 DEF vars, CauseInv
<1> QED
  BY <1>3, <1>4, <1>5, <1>6, <1>7 DEF Next

\* For any number of workers, and however syncs overlap: what the watermark
\* passes over was cut off by the window inside one instant, or was committed
\* behind the watermark.
THEOREM Causes == Spec => []PassedOverForCause
<1>1. Init => CauseInv
  <2>1. Init => OwedInv /\ ReachInv /\ PassedOverForCause
    BY DEF Init, OwedInv, ReachInv, PassedOverForCause
  <2> QED
    BY <2>1, InitTypes DEF CauseInv
<1>2. CauseInv /\ [Next]_vars => CauseInv'
  BY NextCause
<1>3. CauseInv => PassedOverForCause
  BY DEF CauseInv
<1> QED
  BY <1>1, <1>2, <1>3, PTL DEF Spec

-----------------------------------------------------------------------------
(* Only a failed pass repeats itself.                                      *)

LEMMA NextMark ==
    ASSUME OneWorker, TypeInv, MarkInv, [Next]_vars
    PROVE  MarkInv'
<1>1. ASSUME UNCHANGED <<cursor, pass>> PROVE MarkInv'
  BY <1>1 DEF MarkInv
<1>2. CASE BeginSync
  BY <1>1, <1>2 DEF BeginSync
<1>3. ASSUME NEW i \in open, NEW B \in SUBSET Series,
             NEW ids \in Bijection(B, 1..Cardinality(B)), CommitSync(i, B, ids)
      PROVE  MarkInv'
  BY <1>1, <1>3 DEF CommitSync
<1>4. ASSUME NEW m \in Model, WatchAdd(m) \/ WatchRemove(m) PROVE MarkInv'
  BY <1>1, <1>4 DEF WatchAdd, WatchRemove
<1>5. ASSUME NEW w \in Worker, Pass(w) \/ Fail(w) PROVE MarkInv'
  <2> USE DEF NoPass
  <2>1. \A v \in Worker : v = w
    BY DEF OneWorker
  <2>2. CASE ReadMark(w) \/ Fetch(w) \/ Send(w)
    BY <2>1, <2>2 DEF ReadMark, Fetch, Send, TypeInv, TypeOK, MarkInv
  <2>3. CASE Advance(w) \/ Fail(w)
    <3>1. pass' = [pass EXCEPT ![w] = NoPass] /\ pass[w] = pass[w]
      BY <2>3 DEF Advance, Fail
    <3> QED
      BY <2>1, <3>1 DEF TypeInv, TypeOK, MarkInv
  <2> QED
    BY <1>5, <2>2, <2>3 DEF Pass
<1>6. CASE UNCHANGED vars
  BY <1>1, <1>6 DEF vars
<1> QED
  BY <1>2, <1>3, <1>4, <1>5, <1>6 DEF Next

NewsState == TypeInv /\ MarkInv /\ NewsInv /\ NewsOnlyOnce

LEMMA SendNews ==
    ASSUME NewsState, NEW w \in Worker, Send(w), OneWorker
    PROVE  NewsInv' /\ NewsOnlyOnce'
<1> DEFINE d == [moves |-> Moves(pass[w].rows), faults |-> faults]
           n == Len(digests) + 1
<1>1. /\ digests \in Seq(Digest)
      /\ digests' = Append(digests, d)
      /\ pass[w].phase = "fetched"
      /\ pass' = [pass EXCEPT ![w].phase = "sent"]
      /\ UNCHANGED <<cursor, faults>>
  BY DEF NewsState, TypeInv, TypeOK, Send
<1>2. d.moves \subseteq pass[w].rows /\ d.faults = faults
  BY DEF Moves
<1> HIDE DEF d
<1>3. /\ n \in Nat
      /\ DOMAIN digests' = DOMAIN digests \cup {n}
      /\ digests'[n] = d
      /\ \A i \in DOMAIN digests : i < n /\ digests'[i] = digests[i]
  BY <1>1
<1> HIDE DEF n
<1>4. pass'[w].phase = "sent" /\ pass'[w].rows = pass[w].rows
  BY <1>1 DEF NewsState, TypeInv, TypeOK
\* With one worker nothing else is under way, so what was told without a
\* failure since is behind the watermark, and every row is beyond it.
<1>5. \A v \in Worker : pass[v].phase # "sent"
  BY <1>1 DEF OneWorker
<1>6. \A e \in d.moves : cursor < e.at
  BY <1>1, <1>2 DEF NewsState, TypeInv, PassInv, MarkInv
<1>7. \A i \in DOMAIN digests :
         /\ digests[i].faults <= faults
         /\ digests[i].faults = faults => \A e \in digests[i].moves : e.at <= cursor
  BY <1>5 DEF NewsState, NewsInv
<1>8. NewsInv'
  <2>1. faults \in Nat
    BY DEF NewsState, TypeInv, TypeOK
  <2> SUFFICES ASSUME NEW i \in DOMAIN digests'
               PROVE  /\ digests'[i].faults <= faults
                      /\ digests'[i].faults = faults => \A e \in digests'[i].moves :
                           \/ e.at <= cursor
                           \/ \E v \in Worker : pass'[v].phase = "sent" /\ e \in pass'[v].rows
    BY <1>1 DEF NewsInv
  <2>2. CASE i = n
    BY <1>2, <1>3, <1>4, <2>1, <2>2
  <2>3. CASE i \in DOMAIN digests
    BY <1>3, <1>7, <2>3
  <2> QED
    BY <1>3, <2>2, <2>3
<1>9. NewsOnlyOnce'
  <2> SUFFICES ASSUME NEW i \in DOMAIN digests', NEW j \in DOMAIN digests', i < j,
                      NEW a \in digests'[i].moves, NEW e \in digests'[j].moves,
                      a.series = e.series
               PROVE  Before(a, e) \/ digests'[i].faults < digests'[j].faults
    BY DEF NewsOnlyOnce
  <2>1. CASE i \in DOMAIN digests /\ j \in DOMAIN digests
    BY <1>3, <2>1 DEF NewsState, NewsOnlyOnce
  <2>2. CASE i \in DOMAIN digests /\ j = n
    <3>1. digests'[i] = digests[i] /\ digests'[j] = d
      BY <1>3, <2>2
    <3>2. digests[i] \in Digest
      BY <1>1, <2>2
    <3>3. digests[i].faults \in Nat /\ faults \in Nat /\ a.at \in Nat
      BY <3>1, <3>2 DEF Digest, Event, NewsState, TypeInv, TypeOK
    <3>4. cursor \in Nat /\ e.at \in Nat
      BY <1>2, <3>1, RowsFinite DEF Event, NewsState, TypeInv, TypeOK
    <3>5. digests[i].faults = faults => a.at < e.at
      BY <1>6, <1>7, <2>2, <3>1, <3>3, <3>4
    <3> QED
      BY <1>2, <1>7, <2>2, <3>1, <3>3, <3>5 DEF Before
  <2>3. CASE i = n
    <3>1. j \in DOMAIN digests
      BY <1>3, <2>3
    <3> QED
      BY <1>1, <1>3, <2>3, <3>1
  <2> QED
    BY <1>3, <2>1, <2>2, <2>3
<1> QED
  BY <1>8, <1>9

LEMMA NextNews ==
    ASSUME OneWorker, NewsState, [Next]_vars
    PROVE  NewsState'
<1>1. TypeInv' /\ MarkInv'
  BY NextTypes, NextMark DEF NewsState
\* Nothing is sent, nothing fails, and no digest waits for its watermark.
<1>2. ASSUME UNCHANGED <<digests, faults, cursor>>,
             \A v \in Worker : pass[v].phase = "sent" => pass'[v] = pass[v]
      PROVE  NewsState'
  BY <1>1, <1>2 DEF NewsState, NewsInv, NewsOnlyOnce
<1>3. CASE BeginSync
  BY <1>2, <1>3 DEF BeginSync
<1>4. ASSUME NEW i \in open, NEW B \in SUBSET Series,
             NEW ids \in Bijection(B, 1..Cardinality(B)), CommitSync(i, B, ids)
      PROVE  NewsState'
  BY <1>2, <1>4 DEF CommitSync
<1>5. ASSUME NEW m \in Model, WatchAdd(m) \/ WatchRemove(m) PROVE NewsState'
  BY <1>2, <1>5 DEF WatchAdd, WatchRemove
<1>6. ASSUME NEW w \in Worker, Pass(w) \/ Fail(w) PROVE NewsState'
  <2> USE DEF NoPass
  <2>1. \A v \in Worker : v = w
    BY DEF OneWorker
  <2>2. CASE ReadMark(w) \/ Fetch(w)
    <3>1. UNCHANGED <<digests, faults, cursor>> /\ pass[w].phase # "sent"
      BY <2>2 DEF ReadMark, Fetch
    <3> QED
      BY <1>2, <2>1, <3>1
  <2>3. CASE Send(w)
    BY <1>1, <2>3, SendNews DEF NewsState
  <2>4. CASE Advance(w)
    <3>1. /\ UNCHANGED <<digests, faults>>
          /\ cursor' = Latest(pass[w].rows)
          /\ pass[w].phase \in {"fetched", "sent"}
      BY <2>4 DEF Advance
    <3>2. pass[w].rows # {} /\ \A e \in pass[w].rows : e.at > cursor /\ e.at \in Nat
      BY <3>1, RowsFinite DEF NewsState, TypeInv, PassInv, MarkInv, Event
    <3>3. /\ cursor' \in Nat
          /\ \A e \in pass[w].rows : e.at <= cursor'
          /\ cursor < cursor'
      BY <3>1, <3>2, RowsFinite, LatestIsLast DEF NewsState
    <3>4. cursor \in Nat /\ digests \in Seq(Digest)
      BY DEF NewsState, TypeInv, TypeOK
    <3>5. NewsInv'
      <4> SUFFICES ASSUME NEW i \in DOMAIN digests
                   PROVE  /\ digests[i].faults <= faults
                          /\ digests[i].faults = faults =>
                               \A d \in digests[i].moves : d.at <= cursor'
        BY <3>1 DEF NewsInv
      <4>1. \A d \in digests[i].moves : d.at \in Nat
        <5>1. digests[i] \in Digest
          BY <3>4
        <5> QED
          BY <5>1 DEF Digest, Event
      <4>2. digests[i].faults = faults => \A d \in digests[i].moves :
               d.at <= cursor \/ d \in pass[w].rows
        BY <2>1 DEF NewsState, NewsInv
      <4>3. digests[i].faults <= faults
        BY DEF NewsState, NewsInv
      <4> QED
        BY <3>3, <3>4, <4>1, <4>2, <4>3
    <3> QED
      BY <1>1, <3>1, <3>5 DEF NewsState, NewsOnlyOnce
  <2>5. CASE Fail(w)
    <3>1. faults' = faults + 1 /\ UNCHANGED <<digests, cursor>>
      BY <2>5 DEF Fail, Refused, NewsState, MarkInv
    <3>2. \A i \in DOMAIN digests : digests[i].faults \in Nat
      <4>1. \A i \in DOMAIN digests : digests[i] \in Digest
        BY DEF NewsState, TypeInv, TypeOK
      <4> QED
        BY <4>1 DEF Digest
    <3>3. faults \in Nat
      BY DEF NewsState, TypeInv, TypeOK
    <3>4. NewsInv'
      BY <3>1, <3>2, <3>3 DEF NewsState, NewsInv
    <3> QED
      BY <1>1, <3>1, <3>4 DEF NewsState, NewsOnlyOnce
  <2> QED
    BY <1>6, <2>2, <2>3, <2>4, <2>5 DEF Pass
<1>7. CASE UNCHANGED vars
  BY <1>2, <1>7 DEF vars
<1> QED
  BY <1>3, <1>4, <1>5, <1>6, <1>7 DEF Next

\* One worker announces a change again, or an older one after a newer one,
\* only when a pass failed in between.
THEOREM Once == ASSUME OneWorker PROVE Spec => []NewsOnlyOnce
<1>1. Init => NewsState
  <2>1. Init => MarkInv /\ NewsInv /\ NewsOnlyOnce
    BY DEF Init, NoPass, MarkInv, NewsInv, NewsOnlyOnce
  <2> QED
    BY <2>1, InitTypes DEF NewsState
<1>2. NewsState /\ [Next]_vars => NewsState'
  BY NextNews
<1>3. NewsState => NewsOnlyOnce
  BY DEF NewsState
<1> QED
  BY <1>1, <1>2, <1>3, PTL DEF Spec
=============================================================================
