---------------------- MODULE BenchmarkRefresh_proofs ----------------------
(***************************************************************************)
(* Machine-checked facts about BenchmarkRefresh for every catalog, cohort, *)
(* number of workers, requests and faults.                                 *)
(***************************************************************************)
EXTENDS BenchmarkRefresh, FiniteSetTheorems, TLAPS

-----------------------------------------------------------------------------
(* What holds however requests overlap.                                    *)

PhaseInv ==
    /\ \A c \in Client : post[c].phase # "idle" => post[c].id \in Request
    /\ \A w \in Worker : pass[w] # NoPass => pass[w].job \in Request

TypeInv == TypeOK /\ PhaseInv /\ IsFiniteSet(Made) /\ IsFiniteSet(results)

-----------------------------------------------------------------------------
(* One request at a time.                                                  *)

\* A request that read a paused job finds it as it was, since no pass takes
\* one; a request that found no job in progress still finds none.
RequestInv ==
    /\ \A c, d \in Client : post[c].phase # "idle" /\ post[d].phase # "idle" => c = d
    /\ \A c \in Client :
         /\ post[c].phase = "insert" => \A r \in Request : job[r].status \notin Active
         /\ post[c].phase \in {"resume", "write"} =>
              /\ job[post[c].id].status = "paused"
              /\ post[c].row = job[post[c].id]
         /\ post[c].phase = "write" =>
              post[c].requeued = {m \in Model : item[post[c].id][m]
                                     \in {"no_evidence", "failed_search"}}

\* The lock: a pass still sees the open items it started from.
LockInv ==
    /\ \A w \in Worker : pass[w] # NoPass =>
         /\ job[pass[w].job].status \in Waiting
         /\ pass[w].items = Open(pass[w].job)
    /\ \A v, w \in Worker : pass[v] # NoPass /\ pass[v].job = pass[w].job => v = w

\* A refresh that was never started is blank, and only one that has finished
\* has imported anything: no refresh imports in two passes.
HistoryInv ==
    /\ \A r \in Request : job[r].status = "none" =>
         job[r] = NoJob /\ item[r] = [m \in Model |-> "none"]
    /\ \A x \in results : job[x.job].status \in Finished

StateInv == TypeInv /\ RequestInv /\ LockInv /\ HistoryInv /\ OneRefresh

-----------------------------------------------------------------------------
(* Counting.                                                               *)

LEMMA DisjointUnion ==
    ASSUME NEW S, IsFiniteSet(S), NEW T, IsFiniteSet(T), S \cap T = {}
    PROVE  /\ IsFiniteSet(S \cup T)
           /\ Cardinality(S \cup T) = Cardinality(S) + Cardinality(T)
           /\ Cardinality(S) \in Nat /\ Cardinality(T) \in Nat
<1>1. Cardinality(S) \in Nat /\ Cardinality(T) \in Nat
  BY FS_CardinalityType
<1>2. Cardinality(S \cap T) = 0
  BY FS_EmptySet
<1>3. IsFiniteSet(S \cup T)
      /\ Cardinality(S \cup T) = Cardinality(S) + Cardinality(T) - Cardinality(S \cap T)
  BY FS_Union
<1> QED
  BY <1>1, <1>2, <1>3

LEMMA CountIsNat ==
    ASSUME NEW items, NEW S
    PROVE  Count(items, S) \in Nat
<1>1. IsFiniteSet({m \in Model : items[m] \in S})
  <2>1. {m \in Model : items[m] \in S} \subseteq Model
    OBVIOUS
  <2> QED
    BY <2>1, FS_Subset, RefreshAssumption
<1> QED
  BY <1>1, FS_CardinalityType DEF Count

LEMMA CountSame ==
    ASSUME NEW items, NEW other, NEW S,
           \A m \in Model : items[m] \in S <=> other[m] \in S
    PROVE  Count(items, S) = Count(other, S)
<1>1. {m \in Model : items[m] \in S} = {m \in Model : other[m] \in S}
  OBVIOUS
<1> QED
  BY <1>1 DEF Count

\* Items that join a status are counted once each.
LEMMA CountJoined ==
    ASSUME NEW items, NEW other, NEW S, NEW P \in SUBSET Model,
           \A m \in Model : other[m] \in S <=> (items[m] \in S \/ m \in P),
           \A m \in P : items[m] \notin S
    PROVE  /\ Count(other, S) = Count(items, S) + Cardinality(P)
           /\ Cardinality(P) \in Nat
<1> DEFINE old == {m \in Model : items[m] \in S}
<1>1. {m \in Model : other[m] \in S} = old \cup P
  OBVIOUS
<1>2. old \cap P = {} /\ old \subseteq Model
  OBVIOUS
<1>3. Count(items, S) = Cardinality(old)
  BY DEF Count
<1>4. Count(other, S) = Cardinality(old \cup P)
  BY <1>1 DEF Count
<1> HIDE DEF old
<1>5. IsFiniteSet(old) /\ IsFiniteSet(P)
  BY <1>2, FS_Subset, RefreshAssumption
<1> QED
  BY <1>2, <1>3, <1>4, <1>5, DisjointUnion

-----------------------------------------------------------------------------
(* Types.                                                                  *)

\* An operation touches one job.
LEMMA MadeStaysFinite ==
    ASSUME TypeInv, NEW r, \A q \in Request \ {r} : job'[q] = job[q]
    PROVE  IsFiniteSet(Made')
<1>1. Made' \subseteq Made \cup {r}
  BY DEF Made
<1>2. IsFiniteSet(Made \cup {r})
  BY FS_Union, FS_Singleton DEF TypeInv
<1> QED
  BY <1>1, <1>2, FS_Subset

LEMMA InitTypes == Init => TypeInv
<1> SUFFICES ASSUME Init PROVE TypeInv
  OBVIOUS
<1> USE DEF Waiting, Active, Finished, ToDo, Settled
<1>1. NoJob \in Job
  BY DEF NoJob, Job
<1>2. \A status \in Active : \A items : Legacy(status, items) \in Job
  BY CountIsNat DEF Legacy, Job
<1>3. job \in [Request -> Job]
  BY <1>1, <1>2 DEF Init
<1>4. item \in [Request -> [Model -> {"none"} \cup ToDo \cup Settled]]
  BY DEF Init
<1>5. post \in [Client -> [phase : {"idle", "search", "insert", "resume", "write"},
                           id : Request \cup {None}, row : Job,
                           requeued : SUBSET Model]]
  BY <1>1 DEF Init, NoPost
<1>6. pass \in [Worker -> [job : Request \cup {None}, items : SUBSET Model]]
  BY DEF Init, NoPass
<1>7. TypeOK
  BY <1>3, <1>4, <1>5, <1>6 DEF Init, TypeOK
<1>8. PhaseInv
  BY DEF Init, PhaseInv, NoPost, NoPass
<1>9. IsFiniteSet(Made)
  <2>1. \E r : Made \subseteq {r}
    <3>1. CASE job = [r \in Request |-> NoJob]
      BY <3>1 DEF Made, NoJob
    <3>2. CASE \E r \in Request : \E status, items :
                 job = [q \in Request |-> IF q = r THEN Legacy(status, items) ELSE NoJob]
      BY <3>2 DEF Made, NoJob
    <3> QED
      BY <3>1, <3>2 DEF Init
  <2> QED
    BY <2>1, FS_Singleton, FS_Subset
<1>10. IsFiniteSet(results)
  BY FS_EmptySet DEF Init
<1> QED
  BY <1>7, <1>8, <1>9, <1>10 DEF TypeInv

Slot == [phase : {"idle", "search", "insert", "resume", "write"},
         id : Request \cup {None}, row : Job, requeued : SUBSET Model]

LEMMA SlotTaken ==
    ASSUME TypeInv, NEW c \in Client, NEW x \in Slot,
           x.phase # "idle" => x.id \in Request,
           post' = [post EXCEPT ![c] = x]
    PROVE  /\ post' \in [Client -> Slot]
           /\ \A d \in Client : post'[d].phase # "idle" => post'[d].id \in Request
<1>1. post \in [Client -> Slot]
  BY DEF TypeInv, TypeOK, Slot
<1>2. \A d \in Client : post[d].phase # "idle" => post[d].id \in Request
  BY DEF TypeInv, PhaseInv
<1> QED
  BY <1>1, <1>2

LEMMA Slots ==
    ASSUME TypeInv
    PROVE  /\ NoPost \in Slot /\ NoPost.phase = "idle"
           /\ \A r \in Request :
                /\ [NoPost EXCEPT !.phase = "search", !.id = r] \in Slot
                /\ [NoPost EXCEPT !.phase = "search", !.id = r].id = r
                /\ [NoPost EXCEPT !.phase = "resume", !.id = r, !.row = job[r]] \in Slot
                /\ [NoPost EXCEPT !.phase = "resume", !.id = r, !.row = job[r]].id = r
<1>1. NoJob \in Job /\ job \in [Request -> Job]
  BY DEF NoJob, Job, TypeInv, TypeOK
<1>2. NoPost \in Slot /\ NoPost.phase = "idle"
  BY <1>1 DEF NoPost, Slot
<1>3. ASSUME NEW r \in Request
      PROVE  /\ [NoPost EXCEPT !.phase = "search", !.id = r] \in Slot
             /\ [NoPost EXCEPT !.phase = "search", !.id = r].id = r
  BY <1>1 DEF NoPost, Slot
<1>4. ASSUME NEW r \in Request
      PROVE  /\ [NoPost EXCEPT !.phase = "resume", !.id = r, !.row = job[r]] \in Slot
             /\ [NoPost EXCEPT !.phase = "resume", !.id = r, !.row = job[r]].id = r
  BY <1>1 DEF NoPost, Slot
<1> QED
  BY <1>2, <1>3, <1>4

\* A step of a request that only moves its own slot.
LEMMA SlotTypes ==
    ASSUME TypeInv, NEW c \in Client, NEW x \in Slot,
           x.phase # "idle" => x.id \in Request,
           post' = [post EXCEPT ![c] = x],
           posts' \in Nat, UNCHANGED <<job, item, results, pass, faults>>
    PROVE  TypeInv'
<1>1. /\ post' \in [Client -> Slot]
      /\ \A d \in Client : post'[d].phase # "idle" => post'[d].id \in Request
  BY SlotTaken
<1>2. TypeOK'
  BY <1>1 DEF TypeInv, TypeOK, Slot
<1>3. PhaseInv'
  BY <1>1 DEF TypeInv, PhaseInv
<1> QED
  BY <1>2, <1>3 DEF TypeInv, Made

LEMMA RequestTypes ==
    ASSUME TypeInv, NEW c \in Client,
           (\E r \in Request : Lookup(c, r)) \/ Post(c)
    PROVE  TypeInv'
<1> DEFINE resume(r) == [NoPost EXCEPT !.phase = "resume", !.id = r, !.row = job[r]]
           search(r) == [NoPost EXCEPT !.phase = "search", !.id = r]
<1>1. /\ NoPost \in Slot /\ NoPost.phase = "idle"
      /\ \A r \in Request : /\ search(r) \in Slot /\ search(r).id = r
                            /\ resume(r) \in Slot /\ resume(r).id = r
  BY Slots
<1>p. posts \in Nat
  BY DEF TypeInv, TypeOK
<1>2. ASSUME NEW r \in Request, Lookup(c, r) PROVE TypeInv'
  <2>1. PICK x : x = IF job[r].status = "none" THEN search(r)
                     ELSE IF job[r].status = "paused" THEN resume(r) ELSE NoPost
    OBVIOUS
  <2>2. /\ post' = [post EXCEPT ![c] = x]
        /\ posts' = posts + 1
        /\ UNCHANGED <<job, item, results, pass, faults>>
    BY <1>2, <2>1 DEF Lookup
  <2> HIDE DEF resume, search
  <2>3. x = search(r) \/ x = resume(r) \/ x = NoPost
    BY <2>1
  <2>4. x \in Slot /\ (x.phase # "idle" => x.id \in Request)
    <3>1. CASE x = search(r)
      BY <1>1, <3>1
    <3>2. CASE x = resume(r)
      BY <1>1, <3>2
    <3>3. CASE x = NoPost
      BY <1>1, <3>3
    <3> QED
      BY <2>3, <3>1, <3>2, <3>3
  <2>5. posts' \in Nat
    BY <1>p, <2>2
  <2> QED
    BY <2>2, <2>4, <2>5, SlotTypes
<1>3. CASE Search(c)
  <2>1. /\ post[c].phase = "search"
        /\ UNCHANGED <<job, item, results, pass, posts, faults>>
    BY <1>3 DEF Search
  <2>2. \/ post' = [post EXCEPT ![c].phase = "insert"]
        \/ \E r \in Request : post' = [post EXCEPT ![c] =
              IF job[r].status = "paused" THEN resume(r) ELSE NoPost]
    BY <1>3 DEF Search
  <2>3. CASE post' = [post EXCEPT ![c].phase = "insert"]
    <3>1. [post[c] EXCEPT !.phase = "insert"] \in Slot
      BY DEF TypeInv, TypeOK, Slot
    <3>2. [post[c] EXCEPT !.phase = "insert"].id \in Request
      BY <2>1 DEF TypeInv, TypeOK, PhaseInv
    <3> QED
      BY <1>p, <2>1, <2>3, <3>1, <3>2, SlotTypes
  <2>4. ASSUME NEW r \in Request,
               post' = [post EXCEPT ![c] =
                 IF job[r].status = "paused" THEN resume(r) ELSE NoPost]
        PROVE  TypeInv'
    <3> HIDE DEF resume, search
    <3>1. PICK x : x = IF job[r].status = "paused" THEN resume(r) ELSE NoPost
      OBVIOUS
    <3>2. x \in Slot /\ (x.phase # "idle" => x.id \in Request)
      BY <1>1, <3>1
    <3>3. post' = [post EXCEPT ![c] = x]
      BY <2>4, <3>1
    <3> QED
      BY <1>p, <2>1, <3>2, <3>3, SlotTypes
  <2> QED
    BY <2>2, <2>3, <2>4
<1>4. CASE Insert(c)
  <2>1. post[c].id \in Request
    BY <1>4 DEF Insert, TypeInv, PhaseInv
  <2>2. Cardinality(Made) \in Nat
    BY FS_CardinalityType DEF TypeInv
  <2>3. PICK new : new = [NoJob EXCEPT !.status = "queued", !.created = Cardinality(Made) + 1]
    OBVIOUS
  <2>4. new \in Job
    <3>1. new = [status |-> "queued", created |-> Cardinality(Made) + 1,
                 processed |-> 0, failed |-> 0, imported |-> 0]
      BY <2>3 DEF NoJob
    <3>2. Cardinality(Made) + 1 \in Nat
      BY <2>2
    <3> QED
      BY <3>1, <3>2 DEF Job, Active, Waiting
  <2>5. /\ post' = [post EXCEPT ![c] = NoPost]
        /\ \/ UNCHANGED <<job, item>>
           \/ /\ job' = [job EXCEPT ![post[c].id] = new]
              /\ item' = [item EXCEPT ![post[c].id] = [m \in Model |-> "queued"]]
        /\ UNCHANGED <<results, pass, posts, faults>>
    BY <1>4, <2>3 DEF Insert
  <2>6. /\ post' \in [Client -> Slot]
        /\ \A d \in Client : post'[d].phase # "idle" => post'[d].id \in Request
    BY <1>1, <2>5, SlotTaken
  <2>7. TypeOK'
    <3>1. job' \in [Request -> Job]
      BY <2>1, <2>4, <2>5 DEF TypeInv, TypeOK
    <3>2. item' \in [Request -> [Model -> {"none"} \cup ToDo \cup Settled]]
      BY <2>1, <2>5 DEF TypeInv, TypeOK, ToDo
    <3> QED
      BY <2>5, <2>6, <3>1, <3>2 DEF TypeInv, TypeOK, Slot
  <2>8. PhaseInv'
    BY <2>5, <2>6 DEF TypeInv, PhaseInv
  <2>9. \A q \in Request \ {post[c].id} : job'[q] = job[q]
    BY <2>1, <2>5 DEF TypeInv, TypeOK
  <2> QED
    BY <2>5, <2>7, <2>8, <2>9, MadeStaysFinite DEF TypeInv
<1>5. CASE Requeue(c)
  <2>1. PICK Q : Q = {m \in Model : item[post[c].id][m] \in {"no_evidence", "failed_search"}}
    OBVIOUS
  <2>2. /\ post[c].phase = "resume"
        /\ post' = [post EXCEPT ![c] = [post[c] EXCEPT !.phase = "write", !.requeued = Q]]
        /\ UNCHANGED <<job, item, results, pass, posts, faults>>
    BY <1>5, <2>1 DEF Requeue
  <2>3. Q \in SUBSET Model
    BY <2>1
  <2>4. [post[c] EXCEPT !.phase = "write", !.requeued = Q] \in Slot
    BY <2>3 DEF TypeInv, TypeOK, Slot
  <2>5. [post[c] EXCEPT !.phase = "write", !.requeued = Q].id \in Request
    BY <2>2 DEF TypeInv, TypeOK, PhaseInv
  <2> QED
    BY <1>p, <2>2, <2>4, <2>5, SlotTypes
<1>6. CASE Resume(c)
  <2>1. post[c].id \in Request
    BY <1>6 DEF Resume, TypeInv, PhaseInv
  <2>2. Cardinality(post[c].requeued) \in Nat
    <3>1. post[c].requeued \in SUBSET Model
      BY DEF TypeInv, TypeOK
    <3> QED
      BY <3>1, FS_Subset, FS_CardinalityType, RefreshAssumption
  <2>3. \A now, loaded, k \in Nat : Written(now, loaded, Less(loaded, k)) \in Nat
    BY DEF Written, Less
  <2>4. PICK p, f : /\ p = Written(job[post[c].id].processed, post[c].row.processed,
                             Less(post[c].row.processed, Cardinality(post[c].requeued)))
                    /\ f = Written(job[post[c].id].failed, post[c].row.failed,
                             Less(post[c].row.failed, Cardinality(post[c].requeued)))
    OBVIOUS
  <2>5. p \in Nat /\ f \in Nat
    BY <2>1, <2>2, <2>3, <2>4 DEF TypeInv, TypeOK, Job
  <2>6. [job[post[c].id] EXCEPT !.status = "queued", !.processed = p, !.failed = f] \in Job
    BY <2>1, <2>5 DEF TypeInv, TypeOK, Job, Active, Waiting
  <2>7. /\ post' = [post EXCEPT ![c] = NoPost]
        /\ job' = [job EXCEPT ![post[c].id] =
              [job[post[c].id] EXCEPT !.status = "queued", !.processed = p, !.failed = f]]
        /\ item' = [item EXCEPT ![post[c].id] = [m \in Model |->
              IF m \in post[c].requeued THEN "queued" ELSE item[post[c].id][m]]]
        /\ UNCHANGED <<results, pass, posts, faults>>
    BY <1>6, <2>4 DEF Resume
  <2>8. /\ post' \in [Client -> Slot]
        /\ \A d \in Client : post'[d].phase # "idle" => post'[d].id \in Request
    BY <1>1, <2>7, SlotTaken
  <2>9. job' \in [Request -> Job]
    BY <2>1, <2>6, <2>7 DEF TypeInv, TypeOK
  <2>10. item' \in [Request -> [Model -> {"none"} \cup ToDo \cup Settled]]
    BY <2>1, <2>7 DEF TypeInv, TypeOK, ToDo
  <2>11. TypeOK'
    BY <2>7, <2>8, <2>9, <2>10 DEF TypeInv, TypeOK, Slot
  <2>12. PhaseInv'
    BY <2>7, <2>8 DEF TypeInv, PhaseInv
  <2>13. \A q \in Request \ {post[c].id} : job'[q] = job[q]
    BY <2>1, <2>7 DEF TypeInv, TypeOK
  <2> QED
    BY <2>7, <2>11, <2>12, <2>13, MadeStaysFinite DEF TypeInv
<1> QED
  BY <1>2, <1>3, <1>4, <1>5, <1>6 DEF Post

\* What a pass imports: one result for each model it matched.
LEMMA Imports ==
    ASSUME NEW M \in SUBSET Model, NEW new, NEW row,
           row \in [M -> new],
           \A m \in M : row[m].model = m,
           \A x \in new : \E m \in M : row[m] = x
    PROVE  /\ IsFiniteSet(new)
           /\ Cardinality(new) = Cardinality(M)
           /\ {x.model : x \in new} = M
<1>1. IsFiniteSet(M)
  BY FS_Subset, RefreshAssumption
<1>2. {x.model : x \in new} = M
  <2>1. \A x \in new : x.model \in M
    OBVIOUS
  <2>2. \A m \in M : \E x \in new : x.model = m
    OBVIOUS
  <2> QED
    BY <2>1, <2>2
<1>3. row \in Bijection(M, new)
  BY DEF Bijection, Injection, Surjection, IsInjective
<1>4. IsFiniteSet(new) /\ Cardinality(new) = Cardinality(M)
  BY <1>1, <1>3, FS_Bijection DEF ExistsBijection
<1> QED
  BY <1>2, <1>4

\* A step of a pass that leaves its own slot empty.
LEMMA PassEnds ==
    ASSUME TypeInv, NEW w \in Worker, NEW r \in Request,
           NEW row \in Job, NEW items \in [Model -> {"none"} \cup ToDo \cup Settled],
           job' = [job EXCEPT ![r] = row], item' = [item EXCEPT ![r] = items],
           pass' = [pass EXCEPT ![w] = NoPass],
           results' \subseteq [job : Request, model : Model, result : Result],
           IsFiniteSet(results'), UNCHANGED <<post, posts, faults>>
    PROVE  TypeInv'
<1>1. NoPass \in [job : Request \cup {None}, items : SUBSET Model]
  BY DEF NoPass
<1>2. pass' \in [Worker -> [job : Request \cup {None}, items : SUBSET Model]]
  BY <1>1 DEF TypeInv, TypeOK
<1>3. job' \in [Request -> Job]
  BY DEF TypeInv, TypeOK
<1>4. item' \in [Request -> [Model -> {"none"} \cup ToDo \cup Settled]]
  BY DEF TypeInv, TypeOK
<1>5. TypeOK'
  BY <1>2, <1>3, <1>4 DEF TypeInv, TypeOK
<1>6. PhaseInv'
  BY DEF TypeInv, TypeOK, PhaseInv
<1>7. \A q \in Request \ {r} : job'[q] = job[q]
  BY DEF TypeInv, TypeOK
<1> QED
  BY <1>5, <1>6, <1>7, MadeStaysFinite DEF TypeInv

LEMMA PauseTypes ==
    ASSUME TypeInv, NEW w \in Worker, Pause(w)
    PROVE  TypeInv'
<1>1. pass[w].job \in Request
  BY DEF Pause, TypeInv, PhaseInv
<1>2. PICK row, items :
         /\ row = [job[pass[w].job] EXCEPT !.status = "paused"]
         /\ items = [m \in Model |-> IF m \in pass[w].items THEN "queued"
                                     ELSE item[pass[w].job][m]]
  OBVIOUS
<1>3. /\ job' = [job EXCEPT ![pass[w].job] = row]
      /\ item' = [item EXCEPT ![pass[w].job] = items]
      /\ pass' = [pass EXCEPT ![w] = NoPass]
      /\ UNCHANGED <<results, post, posts, faults>>
  BY <1>2 DEF Pause
<1>4. row \in Job
  BY <1>1, <1>2 DEF TypeInv, TypeOK, Job, Active
<1>5. items \in [Model -> {"none"} \cup ToDo \cup Settled]
  BY <1>1, <1>2 DEF TypeInv, TypeOK, ToDo
<1>6. /\ results' \subseteq [job : Request, model : Model, result : Result]
      /\ IsFiniteSet(results')
  BY <1>3 DEF TypeInv, TypeOK
<1> QED
  BY <1>1, <1>3, <1>4, <1>5, <1>6, PassEnds

\* What a finished pass leaves: row and items are the job's, M its matches.
Leaves(w, cohort, M, new, imported, row, items) ==
    /\ M = Matched(pass[w].items, cohort)
    /\ new = {[job |-> pass[w].job, model |-> m, result |-> cohort[m]] : m \in M} \ results
    /\ new \subseteq [job : Request, model : Model, result : Result]
    /\ IsFiniteSet(new)
    /\ imported = {x.model : x \in new}
    /\ imported \subseteq M /\ Cardinality(imported) \in Nat
    /\ Cardinality(pass[w].items) \in Nat
    /\ row = [job[pass[w].job] EXCEPT
                !.status = Outcome(job[pass[w].job].failed),
                !.processed = job[pass[w].job].processed + Cardinality(pass[w].items),
                !.imported = job[pass[w].job].imported + Cardinality(imported)]
    /\ row \in Job
    /\ items = [m \in Model |-> IF m \in imported THEN "success"
                                ELSE IF m \in pass[w].items THEN "no_evidence"
                                ELSE item[pass[w].job][m]]
    /\ items \in [Model -> {"none"} \cup ToDo \cup Settled]
    /\ results' = results \cup new
    /\ job' = [job EXCEPT ![pass[w].job] = row]
    /\ item' = [item EXCEPT ![pass[w].job] = items]
    /\ pass' = [pass EXCEPT ![w] = NoPass]
    /\ UNCHANGED <<post, posts, faults>>

LEMMA FinishLeaves ==
    ASSUME TypeInv, NEW w \in Worker, NEW cohort \in [Model -> Result \cup {None}],
           Finish(w, cohort)
    PROVE  \E M, new, imported, row, items :
             /\ M \in SUBSET pass[w].items
             /\ Leaves(w, cohort, M, new, imported, row, items)
<1>1. /\ pass[w].job \in Request
      /\ pass[w].items \in SUBSET Model
  BY DEF Finish, TypeInv, TypeOK, PhaseInv
<1>2. PICK M, all, new, imported :
         /\ M = Matched(pass[w].items, cohort)
         /\ all = {[job |-> pass[w].job, model |-> m, result |-> cohort[m]] : m \in M}
         /\ new = all \ results
         /\ imported = {x.model : x \in new}
  OBVIOUS
<1>3. M \in SUBSET pass[w].items /\ \A m \in M : cohort[m] \in Result
  BY <1>1, <1>2 DEF Matched
<1>4. /\ IsFiniteSet(all)
      /\ Cardinality(all) = Cardinality(M)
      /\ {x.model : x \in all} = M
  <2>1. M \in SUBSET Model
    BY <1>1, <1>3
  <2> DEFINE row == [m \in M |-> [job |-> pass[w].job, model |-> m, result |-> cohort[m]]]
  <2>2. /\ row \in [M -> all]
        /\ \A m \in M : row[m].model = m
        /\ \A x \in all : \E m \in M : row[m] = x
    BY <1>2
  <2> HIDE DEF row
  <2> QED
    BY <2>1, <2>2, Imports
<1>5. all \subseteq [job : Request, model : Model, result : Result]
  <2>1. \A m \in M : [job |-> pass[w].job, model |-> m, result |-> cohort[m]]
                        \in [job : Request, model : Model, result : Result]
    BY <1>1, <1>3
  <2> QED
    BY <1>2, <2>1
<1>6. imported \subseteq M
  BY <1>2, <1>4
<1>7. IsFiniteSet(new) /\ IsFiniteSet(imported) /\ IsFiniteSet(pass[w].items)
  <2>1. new \subseteq all /\ imported \subseteq Model /\ pass[w].items \subseteq Model
    BY <1>1, <1>2, <1>3, <1>6
  <2> QED
    BY <1>4, <2>1, FS_Subset, RefreshAssumption
<1>8. Cardinality(imported) \in Nat /\ Cardinality(pass[w].items) \in Nat
  BY <1>7, FS_CardinalityType
<1>9. PICK row, items :
         /\ row = [job[pass[w].job] EXCEPT
                     !.status = Outcome(job[pass[w].job].failed),
                     !.processed = job[pass[w].job].processed + Cardinality(pass[w].items),
                     !.imported = job[pass[w].job].imported + Cardinality(imported)]
         /\ items = [m \in Model |-> IF m \in imported THEN "success"
                                     ELSE IF m \in pass[w].items THEN "no_evidence"
                                     ELSE item[pass[w].job][m]]
  OBVIOUS
<1>10. row \in Job
  <2>1. job[pass[w].job] \in Job
    BY <1>1 DEF TypeInv, TypeOK
  <2>2. Outcome(job[pass[w].job].failed) \in Finished
    BY DEF Outcome, Finished
  <2>3. /\ job[pass[w].job].processed + Cardinality(pass[w].items) \in Nat
        /\ job[pass[w].job].imported + Cardinality(imported) \in Nat
    BY <1>8, <2>1 DEF Job
  <2> QED
    BY <1>9, <2>1, <2>2, <2>3 DEF Job
<1>11. items \in [Model -> {"none"} \cup ToDo \cup Settled]
  BY <1>1, <1>9 DEF TypeInv, TypeOK, Settled
<1>12. /\ results' = results \cup new
       /\ UNCHANGED <<post, posts, faults>>
       /\ pass' = [pass EXCEPT ![w] = NoPass]
  BY <1>2 DEF Finish
<1>13. job' = [job EXCEPT ![pass[w].job] = row]
  BY <1>2, <1>9 DEF Finish
<1>14. item' = [item EXCEPT ![pass[w].job] = items]
  BY <1>2, <1>9 DEF Finish
<1>15. new \subseteq [job : Request, model : Model, result : Result]
  BY <1>2, <1>5
<1>16. Leaves(w, cohort, M, new, imported, row, items)
  BY <1>2, <1>6, <1>7, <1>8, <1>9, <1>10, <1>11, <1>12, <1>13, <1>14, <1>15 DEF Leaves
<1> QED
  BY <1>3, <1>16

LEMMA FinishTypes ==
    ASSUME TypeInv, NEW w \in Worker, NEW cohort \in [Model -> Result \cup {None}],
           Finish(w, cohort)
    PROVE  TypeInv'
<1>1. PICK M, new, imported, row, items :
         /\ M \in SUBSET pass[w].items
         /\ Leaves(w, cohort, M, new, imported, row, items)
  BY FinishLeaves
<1>2. pass[w].job \in Request
  BY DEF Finish, TypeInv, PhaseInv
<1>3. IsFiniteSet(results')
  BY <1>1, FS_Union DEF Leaves, TypeInv
<1>4. results' \subseteq [job : Request, model : Model, result : Result]
  BY <1>1 DEF Leaves, TypeInv, TypeOK
<1> QED
  BY <1>1, <1>2, <1>3, <1>4, PassEnds DEF Leaves

LEMMA ServeTypes ==
    ASSUME TypeInv, NEW w \in Worker, Serve(w)
    PROVE  TypeInv'
<1>1. PICK r \in Oldest :
         IF Open(r) # {}
         THEN /\ pass' = [pass EXCEPT ![w] = [job |-> r, items |-> Open(r)]]
              /\ UNCHANGED job
         ELSE /\ job' = [job EXCEPT ![r].status = Outcome(job[r].failed)]
              /\ UNCHANGED pass
  BY DEF Serve
<1>2. r \in Request /\ UNCHANGED <<item, results, post, posts, faults>>
  BY DEF Oldest, Serve
<1>3. CASE Open(r) # {}
  <2>1. Open(r) \in SUBSET Model
    BY DEF Open
  <2>2. [job |-> r, items |-> Open(r)] \in [job : Request \cup {None}, items : SUBSET Model]
    BY <1>2, <2>1
  <2>3. pass' \in [Worker -> [job : Request \cup {None}, items : SUBSET Model]]
    BY <1>1, <1>3, <2>2 DEF TypeInv, TypeOK
  <2>4. TypeOK'
    BY <1>1, <1>2, <1>3, <2>3 DEF TypeInv, TypeOK
  <2>5. PhaseInv'
    BY <1>1, <1>2, <1>3 DEF TypeInv, TypeOK, PhaseInv
  <2> QED
    BY <1>1, <1>2, <1>3, <2>4, <2>5 DEF TypeInv, Made
<1>4. CASE Open(r) = {}
  <2>1. /\ job' = [job EXCEPT ![r].status = Outcome(job[r].failed)]
        /\ pass' = pass
    BY <1>1, <1>4
  <2>2. Outcome(job[r].failed) \in Finished
    BY DEF Outcome, Finished
  <2>3. job' \in [Request -> Job]
    BY <1>2, <2>1, <2>2 DEF TypeInv, TypeOK, Job
  <2>4. TypeOK'
    BY <1>2, <2>1, <2>3 DEF TypeInv, TypeOK
  <2>5. PhaseInv'
    BY <1>2, <2>1 DEF TypeInv, PhaseInv
  <2>6. \A q \in Request \ {r} : job'[q] = job[q]
    BY <2>1 DEF TypeInv, TypeOK
  <2> QED
    BY <1>2, <2>4, <2>5, <2>6, MadeStaysFinite DEF TypeInv
<1> QED
  BY <1>3, <1>4

LEMMA AbortTypes ==
    ASSUME TypeInv, NEW w \in Worker, Abort(w)
    PROVE  TypeInv'
<1>1. NoPass \in [job : Request \cup {None}, items : SUBSET Model]
  BY DEF NoPass
<1>2. TypeOK'
  BY <1>1 DEF Abort, TypeInv, TypeOK
<1>3. PhaseInv'
  BY DEF Abort, TypeInv, TypeOK, PhaseInv
<1> QED
  BY <1>2, <1>3 DEF Abort, TypeInv, Made

LEMMA NextTypes == TypeInv /\ [Next]_vars => TypeInv'
<1> SUFFICES ASSUME TypeInv, [Next]_vars PROVE TypeInv'
  OBVIOUS
<1>1. ASSUME NEW c \in Client, (\E r \in Request : Lookup(c, r)) \/ Post(c)
      PROVE  TypeInv'
  BY <1>1, RequestTypes
<1>2. ASSUME NEW w \in Worker, Pass(w) \/ Abort(w) PROVE TypeInv'
  BY <1>2, ServeTypes, PauseTypes, FinishTypes, AbortTypes DEF Pass
<1>3. CASE UNCHANGED vars
  BY <1>3 DEF vars, TypeInv, TypeOK, PhaseInv, Made
<1> QED
  BY <1>1, <1>2, <1>3 DEF Next

LEMMA TypesHold == Spec => []TypeInv
  BY InitTypes, NextTypes, PTL DEF Spec

\* However requests overlap.
THEOREM Types == Spec => []TypeOK
<1>1. TypeInv => TypeOK
  BY DEF TypeInv
<1> QED
  BY <1>1, TypesHold, PTL

-----------------------------------------------------------------------------
(* One request at a time: who holds what.                                  *)

\* A step of a request that only moves its own slot.
LEMMA SlotState ==
    ASSUME StateInv, NEW c \in Client, NEW x,
           post[c].phase # "idle" \/ \A d \in Client : post[d].phase = "idle",
           post' = [post EXCEPT ![c] = x],
           UNCHANGED <<job, item, results, pass>>,
           x.phase = "insert" => \A r \in Request : job[r].status \notin Active,
           x.phase \in {"resume", "write"} =>
               job[x.id].status = "paused" /\ x.row = job[x.id],
           x.phase = "write" => x.requeued =
               {m \in Model : item[x.id][m] \in {"no_evidence", "failed_search"}}
    PROVE  RequestInv' /\ LockInv' /\ HistoryInv' /\ OneRefresh'
<1>1. post'[c] = x /\ \A d \in Client \ {c} : post'[d] = post[d]
  BY DEF StateInv, TypeInv, TypeOK
<1>2. \A d \in Client \ {c} : post[d].phase = "idle"
  BY DEF StateInv, RequestInv
<1>3. RequestInv'
  <2>1. \A d \in Client : post'[d].phase # "idle" => d = c
    BY <1>1, <1>2
  <2> SUFFICES ASSUME NEW d \in Client, d = c
               PROVE  /\ post'[d].phase = "insert" =>
                           \A r \in Request : job[r].status \notin Active
                      /\ post'[d].phase \in {"resume", "write"} =>
                           job[post'[d].id].status = "paused" /\ post'[d].row = job[post'[d].id]
                      /\ post'[d].phase = "write" => post'[d].requeued =
                           {m \in Model : item[post'[d].id][m]
                                              \in {"no_evidence", "failed_search"}}
    BY <2>1 DEF RequestInv
  <2> QED
    BY <1>1
<1>4. LockInv' /\ HistoryInv' /\ OneRefresh'
  BY DEF StateInv, LockInv, Open, HistoryInv, OneRefresh
<1> QED
  BY <1>3, <1>4

LEMMA LookupState ==
    ASSUME StateInv, ~Overlap, NEW c \in Client, NEW r \in Request, Lookup(c, r)
    PROVE  RequestInv' /\ LockInv' /\ HistoryInv' /\ OneRefresh'
<1>1. \A d \in Client : post[d].phase = "idle"
  BY DEF Lookup
<1>2. PICK x : /\ x = IF job[r].status = "none"
                      THEN [NoPost EXCEPT !.phase = "search", !.id = r]
                      ELSE IF job[r].status = "paused"
                           THEN [NoPost EXCEPT !.phase = "resume", !.id = r, !.row = job[r]]
                           ELSE NoPost
               /\ post' = [post EXCEPT ![c] = x]
               /\ UNCHANGED <<job, item, results, pass>>
  BY DEF Lookup
<1>3. /\ x.phase \in {"search", "resume", "idle"}
      /\ x.phase = "resume" => x.id = r /\ x.row = job[r] /\ job[r].status = "paused"
  BY <1>2 DEF NoPost
<1> QED
  BY <1>1, <1>2, <1>3, SlotState

LEMMA SearchState ==
    ASSUME StateInv, NEW c \in Client, Search(c)
    PROVE  RequestInv' /\ LockInv' /\ HistoryInv' /\ OneRefresh'
<1>1. post[c].phase = "search" /\ UNCHANGED <<job, item, results, pass>>
  BY DEF Search
<1>2. CASE /\ \A r \in Request : job[r].status \notin Active
           /\ post' = [post EXCEPT ![c].phase = "insert"]
  <2>1. PICK x : x = [post[c] EXCEPT !.phase = "insert"]
    OBVIOUS
  <2>2. x.phase = "insert"
    BY <2>1 DEF StateInv, TypeInv, TypeOK
  <2>3. post' = [post EXCEPT ![c] = x]
    BY <1>2, <2>1
  <2> QED
    BY <1>1, <1>2, <2>2, <2>3, SlotState
<1>3. ASSUME NEW r \in Request,
             post' = [post EXCEPT ![c] =
               IF job[r].status = "paused"
               THEN [NoPost EXCEPT !.phase = "resume", !.id = r, !.row = job[r]]
               ELSE NoPost]
      PROVE  RequestInv' /\ LockInv' /\ HistoryInv' /\ OneRefresh'
  <2>1. PICK x : x = IF job[r].status = "paused"
                     THEN [NoPost EXCEPT !.phase = "resume", !.id = r, !.row = job[r]]
                     ELSE NoPost
    OBVIOUS
  <2>2. /\ x.phase \in {"resume", "idle"}
        /\ x.phase = "resume" => x.id = r /\ x.row = job[r] /\ job[r].status = "paused"
    BY <2>1 DEF NoPost
  <2>3. post' = [post EXCEPT ![c] = x]
    BY <1>3, <2>1
  <2> QED
    BY <1>1, <2>2, <2>3, SlotState
<1> QED
  BY <1>2, <1>3 DEF Search

LEMMA RequeueState ==
    ASSUME StateInv, NEW c \in Client, Requeue(c)
    PROVE  RequestInv' /\ LockInv' /\ HistoryInv' /\ OneRefresh'
<1>1. PICK x, Q :
         /\ Q = {m \in Model : item[post[c].id][m] \in {"no_evidence", "failed_search"}}
         /\ x = [post[c] EXCEPT !.phase = "write", !.requeued = Q]
  OBVIOUS
<1>2. /\ post[c].phase = "resume"
      /\ post' = [post EXCEPT ![c] = x]
      /\ UNCHANGED <<job, item, results, pass>>
  BY <1>1 DEF Requeue
<1>3. /\ x.phase = "write" /\ x.requeued = Q
      /\ x.id = post[c].id /\ x.row = post[c].row
  BY <1>1 DEF StateInv, TypeInv, TypeOK
<1>4. job[post[c].id].status = "paused" /\ post[c].row = job[post[c].id]
  BY <1>2 DEF StateInv, RequestInv
<1> QED
  BY <1>1, <1>2, <1>3, <1>4, SlotState

\* A step that ends a request leaves none in flight.
LEMMA NoneInFlight ==
    ASSUME StateInv, NEW c \in Client, post[c].phase # "idle",
           post' = [post EXCEPT ![c] = NoPost]
    PROVE  RequestInv'
<1>1. \A d \in Client : post'[d].phase = "idle"
  BY DEF StateInv, TypeInv, TypeOK, RequestInv, NoPost
<1> QED
  BY <1>1 DEF RequestInv

LEMMA InsertState ==
    ASSUME StateInv, NEW c \in Client, Insert(c)
    PROVE  RequestInv' /\ LockInv' /\ HistoryInv' /\ OneRefresh'
<1>1. RequestInv'
  BY NoneInFlight DEF Insert
<1>2. CASE UNCHANGED <<job, item>>
  BY <1>1, <1>2 DEF Insert, StateInv, LockInv, Open, HistoryInv, OneRefresh
<1>3. CASE job[post[c].id].status = "none"
  <2>1. PICK r \in Request : r = post[c].id
    BY DEF Insert, StateInv, TypeInv, PhaseInv
  <2>2. PICK new : new = [NoJob EXCEPT !.status = "queued", !.created = Cardinality(Made) + 1]
    OBVIOUS
  <2>3. /\ job' = [job EXCEPT ![r] = new]
        /\ item' = [item EXCEPT ![r] = [m \in Model |-> "queued"]]
        /\ UNCHANGED <<results, pass>>
    BY <1>3, <2>1, <2>2 DEF Insert
  <2>4. new.status = "queued"
    BY <2>2 DEF NoJob
  <2>5. \A q \in Request : job[q].status \notin Active
    BY DEF Insert, StateInv, RequestInv
  <2>6. /\ job'[r].status = "queued"
        /\ \A q \in Request \ {r} : job'[q] = job[q] /\ item'[q] = item[q]
    BY <2>3, <2>4 DEF StateInv, TypeInv, TypeOK
  <2>7. LockInv'
    <3>1. \A w \in Worker : pass[w] = NoPass
      BY <2>5 DEF StateInv, LockInv, TypeInv, PhaseInv, Active
    <3> QED
      BY <2>3, <3>1 DEF LockInv
  <2>8. HistoryInv'
    <3>1. \A x \in results : x.job \in Request /\ x.job # r
      BY <1>3, <2>1 DEF StateInv, TypeInv, TypeOK, HistoryInv, Finished
    <3> QED
      BY <2>3, <2>6, <3>1 DEF StateInv, HistoryInv
  <2>9. OneRefresh'
    BY <2>5, <2>6 DEF OneRefresh
  <2> QED
    BY <1>1, <2>7, <2>8, <2>9
<1> QED
  BY <1>2, <1>3 DEF Insert

\* What a resume writes.
Resumes(c, r, row, items) ==
    /\ r = post[c].id
    /\ row.status = "queued"
    /\ row.created = job[r].created /\ row.imported = job[r].imported
    /\ row.processed = Less(job[r].processed, Cardinality(post[c].requeued))
    /\ row.failed = Less(job[r].failed, Cardinality(post[c].requeued))
    /\ items = [m \in Model |-> IF m \in post[c].requeued THEN "queued" ELSE item[r][m]]
    /\ job[r].status = "paused"
    /\ post[c].requeued = {m \in Model : item[r][m] \in {"no_evidence", "failed_search"}}
    /\ job' = [job EXCEPT ![r] = row]
    /\ item' = [item EXCEPT ![r] = items]
    /\ UNCHANGED <<results, pass>>

LEMMA ResumeWrites ==
    ASSUME StateInv, NEW c \in Client, Resume(c)
    PROVE  \E r, row, items : r \in Request /\ Resumes(c, r, row, items)
<1>1. PICK r \in Request : r = post[c].id
  BY DEF Resume, StateInv, TypeInv, PhaseInv
<1>2. /\ post[c].row = job[r]
      /\ job[r].status = "paused"
      /\ post[c].requeued = {m \in Model : item[r][m] \in {"no_evidence", "failed_search"}}
  BY <1>1 DEF Resume, StateInv, RequestInv
<1>3. PICK p, f : /\ p = Less(job[r].processed, Cardinality(post[c].requeued))
                  /\ f = Less(job[r].failed, Cardinality(post[c].requeued))
  OBVIOUS
<1>4. PICK row, items :
         /\ row = [job[r] EXCEPT !.status = "queued", !.processed = p, !.failed = f]
         /\ items = [m \in Model |-> IF m \in post[c].requeued THEN "queued" ELSE item[r][m]]
  OBVIOUS
<1>5. job' = [job EXCEPT ![r] = row] /\ item' = [item EXCEPT ![r] = items]
  BY <1>1, <1>2, <1>3, <1>4 DEF Resume, Written
<1>6. /\ row.status = "queued"
      /\ row.created = job[r].created /\ row.imported = job[r].imported
      /\ row.processed = p /\ row.failed = f
  <2>1. job[r] \in Job
    BY DEF StateInv, TypeInv, TypeOK
  <2> QED
    BY <1>4, <2>1 DEF Job
<1>7. UNCHANGED <<results, pass>>
  BY DEF Resume
<1>8. Resumes(c, r, row, items)
  BY <1>1, <1>2, <1>3, <1>4, <1>5, <1>6, <1>7 DEF Resumes
<1> QED
  BY <1>8

LEMMA ResumeState ==
    ASSUME StateInv, NEW c \in Client, Resume(c)
    PROVE  RequestInv' /\ LockInv' /\ HistoryInv' /\ OneRefresh'
<1>1. RequestInv'
  BY NoneInFlight DEF Resume
<1>2. PICK r, row, items : r \in Request /\ Resumes(c, r, row, items)
  BY ResumeWrites
<1>3. /\ job'[r].status = "queued" /\ job[r].status = "paused"
      /\ \A q \in Request \ {r} : job'[q] = job[q] /\ item'[q] = item[q]
      /\ UNCHANGED <<results, pass>>
  BY <1>2 DEF Resumes, StateInv, TypeInv, TypeOK
<1>4. LockInv'
  <2>1. \A w \in Worker : pass[w] # NoPass => pass[w].job \in Request \ {r}
    BY <1>3 DEF StateInv, LockInv, TypeInv, PhaseInv, Waiting
  <2> QED
    BY <1>3, <2>1 DEF StateInv, LockInv, Open
<1>5. HistoryInv'
  <2>1. \A x \in results : x.job \in Request \ {r}
    BY <1>3 DEF StateInv, TypeInv, TypeOK, HistoryInv, Finished
  <2> QED
    BY <1>3, <2>1 DEF StateInv, HistoryInv
<1>6. OneRefresh'
  BY <1>3 DEF StateInv, OneRefresh, Active, Waiting
<1> QED
  BY <1>1, <1>4, <1>5, <1>6

\* A pass that is open holds the only refresh in progress, which no request
\* is resuming.
LEMMA PassHolds ==
    ASSUME StateInv, NEW w \in Worker, pass[w] # NoPass
    PROVE  /\ pass[w].job \in Request
           /\ job[pass[w].job].status \in Waiting
           /\ pass[w].items = Open(pass[w].job)
           /\ \A v \in Worker \ {w} : pass[v] = NoPass
           /\ \A c \in Client : post[c].phase \notin {"insert", "resume", "write"}
           /\ \A q \in Request \ {pass[w].job} : job[q].status \notin Active
           /\ \A x \in results : x.job \in Request \ {pass[w].job}
<1>1. /\ pass[w].job \in Request
      /\ job[pass[w].job].status \in Waiting
      /\ pass[w].items = Open(pass[w].job)
  BY DEF StateInv, TypeInv, PhaseInv, LockInv
<1>2. \A q \in Request \ {pass[w].job} : job[q].status \notin Active
  BY <1>1 DEF StateInv, OneRefresh, Active
<1>3. \A v \in Worker \ {w} : pass[v] = NoPass
  <2> SUFFICES ASSUME NEW v \in Worker \ {w}, pass[v] # NoPass PROVE FALSE
    OBVIOUS
  <2>1. pass[v].job \in Request /\ job[pass[v].job].status \in Waiting
    BY DEF StateInv, TypeInv, PhaseInv, LockInv
  <2>2. pass[v].job = pass[w].job
    BY <1>2, <2>1 DEF Active
  <2> QED
    BY <2>2 DEF StateInv, LockInv
<1>4. \A c \in Client : post[c].phase \notin {"insert", "resume", "write"}
  <2>1. \A c \in Client : post[c].phase # "insert"
    BY <1>1 DEF StateInv, RequestInv, Active
  <2>2. ASSUME NEW c \in Client, post[c].phase \in {"resume", "write"} PROVE FALSE
    <3>1. post[c].id \in Request /\ job[post[c].id].status = "paused"
      BY <2>2 DEF StateInv, TypeInv, PhaseInv, RequestInv
    <3> QED
      BY <1>1, <1>2, <3>1 DEF Active, Waiting
  <2> QED
    BY <2>1, <2>2
<1>5. \A x \in results : x.job \in Request \ {pass[w].job}
  BY <1>1 DEF StateInv, TypeInv, TypeOK, HistoryInv, Finished, Waiting
<1> QED
  BY <1>1, <1>2, <1>3, <1>4, <1>5

\* The end of a pass: its job gets a status, everything else stays.
LEMMA PassEndState ==
    ASSUME StateInv, NEW w \in Worker, pass[w] # NoPass,
           NEW row, row.status \in Finished \cup {"paused"}, NEW items,
           NEW new, \A x \in new : x.job = pass[w].job,
           new = {} \/ row.status \in Finished,
           results' = results \cup new,
           job' = [job EXCEPT ![pass[w].job] = row],
           item' = [item EXCEPT ![pass[w].job] = items],
           pass' = [pass EXCEPT ![w] = NoPass], post' = post
    PROVE  RequestInv' /\ LockInv' /\ HistoryInv' /\ OneRefresh'
<1> DEFINE r == pass[w].job
<1>1. /\ r \in Request /\ job[r].status \in Waiting
      /\ \A v \in Worker \ {w} : pass[v] = NoPass
      /\ \A c \in Client : post[c].phase \notin {"insert", "resume", "write"}
      /\ \A q \in Request \ {r} : job[q].status \notin Active
      /\ \A x \in results : x.job \in Request \ {r}
  BY PassHolds
<1>2. /\ job'[r] = row
      /\ \A q \in Request \ {r} : job'[q] = job[q] /\ item'[q] = item[q]
  BY <1>1 DEF StateInv, TypeInv, TypeOK
<1>3. \A v \in Worker : pass'[v] = NoPass
  BY <1>1 DEF StateInv, TypeInv, TypeOK
<1> HIDE DEF r
<1>4. RequestInv'
  BY <1>1 DEF StateInv, RequestInv
<1>5. LockInv'
  BY <1>3 DEF LockInv
<1>6. HistoryInv'
  <2>1. \A q \in Request : job'[q].status = "none" => q # r
    BY <1>1, <1>2 DEF Finished
  <2>2. \A q \in Request : job'[q].status = "none" =>
          job'[q] = NoJob /\ item'[q] = [m \in Model |-> "none"]
    BY <1>2, <2>1 DEF StateInv, HistoryInv
  <2>3. \A x \in results : job'[x.job].status \in Finished
    BY <1>1, <1>2 DEF StateInv, HistoryInv
  <2>4. \A x \in new : job'[x.job].status \in Finished
    BY <1>2 DEF r
  <2> QED
    BY <2>2, <2>3, <2>4 DEF HistoryInv
<1>7. OneRefresh'
  BY <1>1, <1>2 DEF OneRefresh
<1> QED
  BY <1>4, <1>5, <1>6, <1>7

LEMMA ServeState ==
    ASSUME StateInv, NEW w \in Worker, Serve(w)
    PROVE  RequestInv' /\ LockInv' /\ HistoryInv' /\ OneRefresh'
<1>1. PICK r \in Oldest :
         IF Open(r) # {}
         THEN /\ pass' = [pass EXCEPT ![w] = [job |-> r, items |-> Open(r)]]
              /\ UNCHANGED job
         ELSE /\ job' = [job EXCEPT ![r].status = Outcome(job[r].failed)]
              /\ UNCHANGED pass
  BY DEF Serve
<1>2. /\ r \in Request /\ job[r].status \in Waiting /\ ~Held(r)
      /\ pass[w] = NoPass
      /\ UNCHANGED <<item, results, post>>
  BY DEF Oldest, Serve
<1>3. CASE Open(r) # {}
  <2>1. /\ pass'[w] = [job |-> r, items |-> Open(r)]
        /\ \A v \in Worker \ {w} : pass'[v] = pass[v]
        /\ job' = job
    BY <1>1, <1>3 DEF StateInv, TypeInv, TypeOK
  <2>2. pass'[w].job = r /\ pass'[w].items = Open(r)
    BY <2>1
  <2>3. \A v \in Worker : pass[v].job # r
    BY <1>2 DEF Held
  <2>4. LockInv'
    <3>1. \A v \in Worker : pass'[v] # NoPass =>
            /\ job'[pass'[v].job].status \in Waiting
            /\ pass'[v].items = Open(pass'[v].job)
      BY <1>2, <2>1, <2>2 DEF StateInv, LockInv
    <3>2. \A v, u \in Worker : pass'[v] # NoPass /\ pass'[v].job = pass'[u].job => v = u
      BY <2>1, <2>2, <2>3 DEF StateInv, LockInv
    <3>3. \A q : Open(q)' = Open(q)
      BY <1>2 DEF Open
    <3> QED
      BY <3>1, <3>2, <3>3 DEF LockInv
  <2>5. RequestInv' /\ HistoryInv' /\ OneRefresh'
    BY <1>2, <2>1 DEF StateInv, RequestInv, HistoryInv, OneRefresh
  <2> QED
    BY <2>4, <2>5
<1>4. CASE Open(r) = {}
  <2>1. /\ job' = [job EXCEPT ![r].status = Outcome(job[r].failed)]
        /\ pass' = pass
    BY <1>1, <1>4
  <2>2. /\ job'[r].status \in Finished
        /\ \A q \in Request \ {r} : job'[q] = job[q]
    BY <1>2, <2>1 DEF Outcome, Finished, StateInv, TypeInv, TypeOK, Job
  <2>3. RequestInv'
    <3>1. \A c \in Client : post[c].phase # "insert"
      BY <1>2 DEF StateInv, RequestInv, Active
    <3>2. \A c \in Client : post[c].phase \in {"resume", "write"} => post[c].id \in Request \ {r}
      BY <1>2 DEF StateInv, TypeInv, PhaseInv, RequestInv, Waiting
    <3> QED
      BY <1>2, <2>2, <3>1, <3>2 DEF StateInv, RequestInv
  <2>4. LockInv'
    <3>1. \A v \in Worker : pass[v] # NoPass => pass[v].job \in Request \ {r}
      BY <1>2 DEF StateInv, TypeInv, PhaseInv, Held
    <3> QED
      BY <1>2, <2>1, <2>2, <3>1 DEF StateInv, LockInv, Open
  <2>5. HistoryInv'
    <3>1. \A x \in results : x.job \in Request
      BY DEF StateInv, TypeInv, TypeOK
    <3> QED
      BY <1>2, <2>2, <3>1 DEF StateInv, HistoryInv, Finished
  <2>6. OneRefresh'
    BY <2>2 DEF StateInv, OneRefresh, Active, Waiting, Finished
  <2> QED
    BY <2>3, <2>4, <2>5, <2>6
<1> QED
  BY <1>3, <1>4

LEMMA PauseState ==
    ASSUME StateInv, NEW w \in Worker, Pause(w)
    PROVE  RequestInv' /\ LockInv' /\ HistoryInv' /\ OneRefresh'
<1>1. PICK row, items :
         /\ row = [job[pass[w].job] EXCEPT !.status = "paused"]
         /\ items = [m \in Model |-> IF m \in pass[w].items THEN "queued"
                                     ELSE item[pass[w].job][m]]
  OBVIOUS
<1>2. /\ pass[w] # NoPass
      /\ job' = [job EXCEPT ![pass[w].job] = row]
      /\ item' = [item EXCEPT ![pass[w].job] = items]
      /\ pass' = [pass EXCEPT ![w] = NoPass]
      /\ results' = results /\ post' = post
  BY <1>1 DEF Pause
<1>3. row.status = "paused"
  <2>1. job[pass[w].job] \in Job
    BY <1>2 DEF StateInv, TypeInv, TypeOK, PhaseInv
  <2> QED
    BY <1>1, <2>1 DEF Job
<1>4. PICK new : new = {}
  OBVIOUS
<1>5. results' = results \cup new /\ \A x \in new : x.job = pass[w].job
  BY <1>2, <1>4
<1>6. row.status \in Finished \cup {"paused"} /\ (new = {} \/ row.status \in Finished)
  BY <1>3, <1>4
<1> QED
  BY <1>2, <1>5, <1>6, PassEndState

LEMMA FinishState ==
    ASSUME StateInv, NEW w \in Worker, NEW cohort \in [Model -> Result \cup {None}],
           Finish(w, cohort)
    PROVE  RequestInv' /\ LockInv' /\ HistoryInv' /\ OneRefresh'
<1>1. PICK M, new, imported, row, items :
         /\ M \in SUBSET pass[w].items
         /\ Leaves(w, cohort, M, new, imported, row, items)
  BY FinishLeaves DEF StateInv
<1>2. pass[w] # NoPass
  BY DEF Finish
<1>3. row.status \in Finished
  <2>1. job[pass[w].job] \in Job
    BY <1>2 DEF StateInv, TypeInv, TypeOK, PhaseInv
  <2> QED
    BY <1>1, <2>1 DEF Leaves, Job, Outcome, Finished
<1>4. \A x \in new : x.job = pass[w].job
  BY <1>1 DEF Leaves
<1>5. /\ results' = results \cup new
      /\ job' = [job EXCEPT ![pass[w].job] = row]
      /\ item' = [item EXCEPT ![pass[w].job] = items]
      /\ pass' = [pass EXCEPT ![w] = NoPass] /\ post' = post
  BY <1>1 DEF Leaves
<1> QED
  BY <1>2, <1>3, <1>4, <1>5, PassEndState

LEMMA AbortState ==
    ASSUME StateInv, NEW w \in Worker, Abort(w)
    PROVE  RequestInv' /\ LockInv' /\ HistoryInv' /\ OneRefresh'
<1>1. /\ \A v \in Worker : pass'[v] # NoPass => pass'[v] = pass[v]
      /\ UNCHANGED <<job, item, results, post>>
  BY DEF Abort, StateInv, TypeInv, TypeOK
<1>2. pass[w] # NoPass /\ \A v \in Worker : pass'[v] = NoPass
  BY PassHolds DEF Abort, StateInv, TypeInv, TypeOK
<1>3. LockInv'
  BY <1>2 DEF LockInv
<1> QED
  BY <1>1, <1>3 DEF StateInv, RequestInv, HistoryInv, OneRefresh

LEMMA NextState == ASSUME ~Overlap PROVE StateInv /\ [Next]_vars => StateInv'
<1> SUFFICES ASSUME StateInv, [Next]_vars
             PROVE  RequestInv' /\ LockInv' /\ HistoryInv' /\ OneRefresh'
  BY NextTypes DEF StateInv
<1>1. ASSUME NEW c \in Client, NEW r \in Request, Lookup(c, r)
      PROVE  RequestInv' /\ LockInv' /\ HistoryInv' /\ OneRefresh'
  BY <1>1, LookupState
<1>2. ASSUME NEW c \in Client, Post(c)
      PROVE  RequestInv' /\ LockInv' /\ HistoryInv' /\ OneRefresh'
  BY <1>2, SearchState, InsertState, RequeueState, ResumeState DEF Post
<1>3. ASSUME NEW w \in Worker, Pass(w) \/ Abort(w)
      PROVE  RequestInv' /\ LockInv' /\ HistoryInv' /\ OneRefresh'
  BY <1>3, ServeState, PauseState, FinishState, AbortState DEF Pass
<1>4. CASE UNCHANGED vars
  BY <1>4 DEF vars, StateInv, RequestInv, LockInv, Open, HistoryInv, OneRefresh
<1> QED
  BY <1>1, <1>2, <1>3, <1>4 DEF Next

LEMMA InitState == Init => StateInv
<1> SUFFICES ASSUME Init PROVE StateInv
  OBVIOUS
<1>1. (\A c \in Client : post[c].phase = "idle") /\ \A w \in Worker : pass[w] = NoPass
  BY DEF Init, NoPost
<1>2. RequestInv /\ LockInv
  BY <1>1 DEF RequestInv, LockInv
<1>3. results = {}
  BY DEF Init
<1>4. CASE /\ job = [r \in Request |-> NoJob]
           /\ item = [r \in Request |-> [m \in Model |-> "none"]]
  <2>1. HistoryInv /\ OneRefresh
    BY <1>3, <1>4 DEF HistoryInv, OneRefresh, NoJob, Active, Waiting
  <2> QED
    BY <1>2, <2>1, InitTypes DEF StateInv
<1>5. ASSUME NEW r \in Request, NEW status \in Active \ {"queued"},
             NEW items \in [Model -> ToDo \cup (Settled \ {"success"})],
             job = [q \in Request |-> IF q = r THEN Legacy(status, items) ELSE NoJob],
             item = [q \in Request |-> IF q = r THEN items ELSE [m \in Model |-> "none"]]
      PROVE  StateInv
  <2>1. job[r].status = status /\ \A q \in Request \ {r} : job[q] = NoJob
                                     /\ item[q] = [m \in Model |-> "none"]
    BY <1>5 DEF Legacy
  <2>2. NoJob.status = "none"
    BY DEF NoJob
  <2>3. OneRefresh
    BY <2>1, <2>2 DEF OneRefresh, Active, Waiting
  <2>4. HistoryInv
    BY <1>3, <2>1 DEF HistoryInv, Active, Waiting
  <2> QED
    BY <1>2, <2>3, <2>4, InitTypes DEF StateInv
<1> QED
  BY <1>4, <1>5 DEF Init

LEMMA StateHolds == ASSUME ~Overlap PROVE Spec => []StateInv
  BY InitState, NextState, PTL DEF Spec

\* Requests that are answered one at a time: one refresh is in progress.
THEOREM Lone == ASSUME ~Overlap PROVE Spec => []OneRefresh
<1>1. StateInv => OneRefresh
  BY DEF StateInv
<1> QED
  BY <1>1, StateHolds, PTL

-----------------------------------------------------------------------------
(* What has finished stays.                                                *)

Kept == \A r \in Request :
    /\ job[r].status \in Finished => job'[r] = job[r] /\ item'[r] = item[r]
    /\ \A m \in Model : item[r][m] = "success" => item'[r][m] = "success"

LEMMA TouchKeeps ==
    ASSUME StateInv, NEW r \in Request, job[r].status \notin Finished, NEW row, NEW items,
           job' = [job EXCEPT ![r] = row], item' = [item EXCEPT ![r] = items],
           \A m \in Model : item[r][m] = "success" => items[m] = "success"
    PROVE  Kept
<1>1. /\ item'[r] = items
      /\ \A q \in Request \ {r} : job'[q] = job[q] /\ item'[q] = item[q]
  BY DEF StateInv, TypeInv, TypeOK
<1> QED
  BY <1>1 DEF Kept

LEMMA NextKeeps == StateInv /\ [Next]_vars => Kept
<1> SUFFICES ASSUME StateInv, [Next]_vars PROVE Kept
  OBVIOUS
<1>1. ASSUME UNCHANGED <<job, item>> PROVE Kept
  BY <1>1 DEF Kept
<1>2. ASSUME NEW c \in Client, NEW r \in Request, Lookup(c, r) PROVE Kept
  BY <1>1, <1>2 DEF Lookup
<1>3. ASSUME NEW c \in Client, Post(c) PROVE Kept
  <2>1. CASE Search(c) \/ Requeue(c)
    BY <1>1, <2>1 DEF Search, Requeue
  <2>2. CASE Insert(c)
    <3>1. CASE UNCHANGED <<job, item>>
      BY <1>1, <3>1
    <3>2. CASE job[post[c].id].status = "none"
      <4>1. PICK r \in Request : r = post[c].id
        BY <2>2 DEF Insert, StateInv, TypeInv, PhaseInv
      <4>2. PICK row, items :
              /\ row = [NoJob EXCEPT !.status = "queued", !.created = Cardinality(Made) + 1]
              /\ items = [m \in Model |-> "queued"]
        OBVIOUS
      <4>3. job' = [job EXCEPT ![r] = row] /\ item' = [item EXCEPT ![r] = items]
        BY <2>2, <3>2, <4>1, <4>2 DEF Insert
      <4>4. job[r].status \notin Finished /\ \A m \in Model : item[r][m] # "success"
        BY <3>2, <4>1 DEF StateInv, HistoryInv, Finished
      <4> QED
        BY <4>3, <4>4, TouchKeeps
    <3> QED
      BY <2>2, <3>1, <3>2 DEF Insert
  <2>3. CASE Resume(c)
    <3>1. PICK r, row, items : r \in Request /\ Resumes(c, r, row, items)
      BY <2>3, ResumeWrites
    <3>2. job[r].status \notin Finished
      BY <3>1 DEF Resumes, Finished
    <3>3. \A m \in Model : item[r][m] = "success" => items[m] = "success"
      BY <3>1 DEF Resumes
    <3>4. job' = [job EXCEPT ![r] = row] /\ item' = [item EXCEPT ![r] = items]
      BY <3>1 DEF Resumes
    <3> QED
      BY <3>1, <3>2, <3>3, <3>4, TouchKeeps
  <2> QED
    BY <1>3, <2>1, <2>2, <2>3 DEF Post
<1>4. ASSUME NEW w \in Worker, Serve(w) PROVE Kept
  <2>1. PICK r \in Oldest :
           UNCHANGED job \/ job' = [job EXCEPT ![r].status = Outcome(job[r].failed)]
    BY <1>4 DEF Serve
  <2>2. r \in Request /\ job[r].status \notin Finished /\ item' = item
    BY <1>4 DEF Oldest, Serve, Waiting, Finished
  <2>3. \A q \in Request \ {r} : job'[q] = job[q]
    BY <2>1, <2>2 DEF StateInv, TypeInv, TypeOK
  <2> QED
    BY <2>2, <2>3 DEF Kept
<1>5. ASSUME NEW w \in Worker, pass[w] # NoPass
      PROVE  /\ pass[w].job \in Request
             /\ job[pass[w].job].status \notin Finished
             /\ \A m \in pass[w].items : item[pass[w].job][m] # "success"
  BY <1>5, PassHolds DEF Waiting, Finished, Open, ToDo
<1>6. ASSUME NEW w \in Worker, Pause(w) PROVE Kept
  <2>1. PICK row, items :
           /\ row = [job[pass[w].job] EXCEPT !.status = "paused"]
           /\ items = [m \in Model |-> IF m \in pass[w].items THEN "queued"
                                       ELSE item[pass[w].job][m]]
    OBVIOUS
  <2>2. /\ pass[w] # NoPass
        /\ job' = [job EXCEPT ![pass[w].job] = row]
        /\ item' = [item EXCEPT ![pass[w].job] = items]
    BY <1>6, <2>1 DEF Pause
  <2>3. \A m \in Model : item[pass[w].job][m] = "success" => items[m] = "success"
    BY <1>5, <2>1, <2>2
  <2> QED
    BY <1>5, <2>2, <2>3, TouchKeeps
<1>7. ASSUME NEW w \in Worker, NEW cohort \in [Model -> Result \cup {None}],
             Finish(w, cohort)
      PROVE  Kept
  <2>1. PICK M, new, imported, row, items :
           /\ M \in SUBSET pass[w].items
           /\ Leaves(w, cohort, M, new, imported, row, items)
    BY <1>7, FinishLeaves DEF StateInv
  <2>2. /\ pass[w] # NoPass
        /\ job' = [job EXCEPT ![pass[w].job] = row]
        /\ item' = [item EXCEPT ![pass[w].job] = items]
        /\ items = [m \in Model |-> IF m \in imported THEN "success"
                                    ELSE IF m \in pass[w].items THEN "no_evidence"
                                    ELSE item[pass[w].job][m]]
    BY <1>7, <2>1 DEF Finish, Leaves
  <2>3. ASSUME NEW m \in Model, item[pass[w].job][m] = "success"
        PROVE  items[m] = "success"
    <3>1. m \notin pass[w].items
      BY <1>5, <2>2, <2>3
    <3>2. items[m] = IF m \in imported THEN "success"
                     ELSE IF m \in pass[w].items THEN "no_evidence"
                     ELSE item[pass[w].job][m]
      BY <2>2
    <3> QED
      BY <2>3, <3>1, <3>2
  <2>4. \A m \in Model : item[pass[w].job][m] = "success" => items[m] = "success"
    BY <2>3
  <2>5. pass[w].job \in Request /\ job[pass[w].job].status \notin Finished
    BY <1>5, <2>2
  <2>6. job' = [job EXCEPT ![pass[w].job] = row] /\ item' = [item EXCEPT ![pass[w].job] = items]
    BY <2>2
  <2> QED
    BY <2>4, <2>5, <2>6, TouchKeeps
<1>8. ASSUME NEW w \in Worker, Abort(w) PROVE Kept
  BY <1>1, <1>8 DEF Abort
<1>9. CASE UNCHANGED vars
  BY <1>1, <1>9 DEF vars
<1> QED
  BY <1>2, <1>3, <1>4, <1>6, <1>7, <1>8, <1>9 DEF Next, Pass

\* Requests that are answered one at a time never start a finished refresh
\* over, and no import is undone.
THEOREM Finality == ASSUME ~Overlap PROVE Spec => FinishedForGood
<1>1. StateInv /\ [Next]_vars => [Kept]_vars
  BY NextKeeps
<1>2. FinishedForGood <=> [][Kept]_vars
  BY PTL DEF FinishedForGood, Kept
<1> QED
  BY <1>1, <1>2, StateHolds, PTL DEF Spec

-----------------------------------------------------------------------------
(* What is imported.                                                       *)

\* A pass that finishes its refresh is the only one that imports for it.
LEMMA FinishImports ==
    ASSUME StateInv, NEW w \in Worker, NEW cohort \in [Model -> Result \cup {None}],
           Finish(w, cohort),
           NEW M \in SUBSET pass[w].items, NEW new, NEW imported, NEW row, NEW items,
           Leaves(w, cohort, M, new, imported, row, items)
    PROVE  /\ new = {[job |-> pass[w].job, model |-> m, result |-> cohort[m]] : m \in M}
           /\ Cardinality(new) = Cardinality(imported)
           /\ {x \in results' : x.job = pass[w].job} = new
           /\ {x \in results : x.job = pass[w].job} = {}
           /\ \A q \in Request \ {pass[w].job} :
                {x \in results' : x.job = q} = {x \in results : x.job = q}
<1>1. \A x \in results : x.job \in Request \ {pass[w].job}
  BY PassHolds DEF Finish
<1>2. PICK all : all = {[job |-> pass[w].job, model |-> m, result |-> cohort[m]] : m \in M}
  OBVIOUS
<1>3. \A x \in all : x.job = pass[w].job
  BY <1>2
<1>4. new = all \ results /\ imported = {x.model : x \in new} /\ results' = results \cup new
  BY <1>2 DEF Leaves
<1>5. new = all
  BY <1>1, <1>3, <1>4
<1>6. Cardinality(all) = Cardinality(M) /\ {x.model : x \in all} = M
  <2> DEFINE made == [m \in M |-> [job |-> pass[w].job, model |-> m, result |-> cohort[m]]]
  <2>1. M \in SUBSET Model
    BY DEF StateInv, TypeInv, TypeOK
  <2>2. /\ made \in [M -> all]
        /\ \A m \in M : made[m].model = m
        /\ \A x \in all : \E m \in M : made[m] = x
    BY <1>2
  <2> HIDE DEF made
  <2>3. /\ IsFiniteSet(all)
        /\ Cardinality(all) = Cardinality(M)
        /\ {x.model : x \in all} = M
    BY <2>1, <2>2, Imports
  <2> QED
    BY <2>3
<1>7. Cardinality(new) = Cardinality(imported)
  BY <1>4, <1>5, <1>6
<1>8. /\ {x \in results' : x.job = pass[w].job} = new
      /\ {x \in results : x.job = pass[w].job} = {}
      /\ \A q \in Request \ {pass[w].job} :
           {x \in results' : x.job = q} = {x \in results : x.job = q}
  BY <1>1, <1>3, <1>4, <1>5
<1> QED
  BY <1>2, <1>5, <1>7, <1>8

LEMMA NextUnambiguous ==
    StateInv /\ ResultsUnambiguous /\ [Next]_vars => ResultsUnambiguous'
<1> SUFFICES ASSUME StateInv, ResultsUnambiguous, [Next]_vars PROVE ResultsUnambiguous'
  OBVIOUS
<1>1. ASSUME results' = results PROVE ResultsUnambiguous'
  BY <1>1 DEF ResultsUnambiguous
<1>2. ASSUME NEW c \in Client, (\E r \in Request : Lookup(c, r)) \/ Post(c)
      PROVE  ResultsUnambiguous'
  BY <1>1, <1>2 DEF Lookup, Post, Search, Insert, Requeue, Resume
<1>3. ASSUME NEW w \in Worker, Serve(w) \/ Pause(w) \/ Abort(w) PROVE ResultsUnambiguous'
  BY <1>1, <1>3 DEF Serve, Pause, Abort
<1>4. ASSUME NEW w \in Worker, NEW cohort \in [Model -> Result \cup {None}],
             Finish(w, cohort)
      PROVE  ResultsUnambiguous'
  <2>1. PICK M, new, imported, row, items :
           /\ M \in SUBSET pass[w].items
           /\ Leaves(w, cohort, M, new, imported, row, items)
    BY <1>4, FinishLeaves DEF StateInv
  <2>2. /\ new = {[job |-> pass[w].job, model |-> m, result |-> cohort[m]] : m \in M}
        /\ {x \in results : x.job = pass[w].job} = {}
    BY <1>4, <2>1, FinishImports
  <2>3. results' = results \cup new /\ M = Matched(pass[w].items, cohort)
    BY <2>1 DEF Leaves
  <2>4. \A m, n \in M : cohort[m] = cohort[n] => m = n
    BY <2>3 DEF Matched
  <2>5. ASSUME NEW x \in new, NEW y \in new, x.result = y.result PROVE x = y
    <3>1. PICK m \in M : x = [job |-> pass[w].job, model |-> m, result |-> cohort[m]]
      BY <2>2
    <3>2. PICK n \in M : y = [job |-> pass[w].job, model |-> n, result |-> cohort[n]]
      BY <2>2
    <3>3. cohort[m] = cohort[n]
      BY <2>5, <3>1, <3>2
    <3> QED
      BY <2>4, <3>1, <3>2, <3>3
  <2>6. \A x \in new : x.job = pass[w].job
    BY <2>2
  <2>7. \A x \in results : x.job # pass[w].job
    BY <2>2
  <2> SUFFICES ASSUME NEW x \in results \cup new, NEW y \in results \cup new,
                      x.job = y.job, x.result = y.result
               PROVE  x = y
    BY <2>3 DEF ResultsUnambiguous
  <2> QED
    BY <2>5, <2>6, <2>7 DEF ResultsUnambiguous
<1>5. CASE UNCHANGED vars
  BY <1>1, <1>5 DEF vars
<1> QED
  BY <1>2, <1>3, <1>4, <1>5 DEF Next, Pass

\* Requests that are answered one at a time: no result is evidence for two
\* models of a refresh, because only its last pass imports.
THEOREM Unambiguous == ASSUME ~Overlap PROVE Spec => []ResultsUnambiguous
<1>1. Init => ResultsUnambiguous
  BY DEF Init, ResultsUnambiguous
<1> QED
  BY <1>1, NextUnambiguous, StateHolds, PTL DEF Spec

-----------------------------------------------------------------------------
(* Progress.                                                               *)

FailedStatus == {"failed", "failed_search"}

ProgressOf(r) ==
    /\ job[r].processed = Count(item[r], Settled)
    /\ job[r].imported = Cardinality({x \in results : x.job = r})
    /\ job[r].failed <= Count(item[r], FailedStatus)

\* A step that touches one job has to account for that one only.
LEMMA OneJobCounts ==
    ASSUME StateInv, ProgressAddsUp, NEW r \in Request,
           \A q \in Request \ {r} : /\ job'[q] = job[q] /\ item'[q] = item[q]
                                    /\ {x \in results' : x.job = q} = {x \in results : x.job = q},
           ProgressOf(r)'
    PROVE  ProgressAddsUp'
<1>1. ASSUME NEW q \in Request \ {r} PROVE ProgressOf(q)'
  BY <1>1 DEF ProgressAddsUp, ProgressOf, FailedStatus
<1>2. \A q \in Request : ProgressOf(q)'
  BY <1>1
<1> QED
  BY <1>2 DEF ProgressAddsUp, ProgressOf, FailedStatus

LEMMA BlankCounts ==
    ASSUME NEW items, NEW S, \A m \in Model : items[m] \notin S
    PROVE  Count(items, S) = 0
<1>1. {m \in Model : items[m] \in S} = {}
  OBVIOUS
<1> QED
  BY <1>1, FS_EmptySet DEF Count

LEMMA InsertCounts ==
    ASSUME StateInv, ProgressAddsUp, NEW c \in Client, Insert(c)
    PROVE  ProgressAddsUp'
<1>1. CASE UNCHANGED <<job, item>>
  BY <1>1 DEF Insert, ProgressAddsUp
<1>2. CASE job[post[c].id].status = "none"
  <2>1. PICK r \in Request : r = post[c].id
    BY DEF Insert, StateInv, TypeInv, PhaseInv
  <2>2. PICK row, items :
          /\ row = [NoJob EXCEPT !.status = "queued", !.created = Cardinality(Made) + 1]
          /\ items = [m \in Model |-> "queued"]
    OBVIOUS
  <2>3. /\ job' = [job EXCEPT ![r] = row] /\ item' = [item EXCEPT ![r] = items]
        /\ results' = results
    BY <1>2, <2>1, <2>2 DEF Insert
  <2>4. /\ job'[r] = row /\ item'[r] = items
        /\ \A q \in Request \ {r} : job'[q] = job[q] /\ item'[q] = item[q]
    BY <2>3 DEF StateInv, TypeInv, TypeOK
  <2>5. row.processed = 0 /\ row.imported = 0 /\ row.failed = 0
    BY <2>2 DEF NoJob
  <2>6. Cardinality({x \in results : x.job = r}) = 0
    <3>1. job[r] = NoJob
      BY <1>2, <2>1 DEF StateInv, HistoryInv
    <3> QED
      BY <3>1 DEF ProgressAddsUp, NoJob
  <2>7. Count(items, Settled) = 0
    BY <2>2, BlankCounts DEF Settled
  <2>8. Count(items, FailedStatus) = 0
    BY <2>2, BlankCounts DEF FailedStatus
  <2>9. ProgressOf(r)'
    BY <2>3, <2>4, <2>5, <2>6, <2>7, <2>8 DEF ProgressOf
  <2> QED
    BY <2>3, <2>4, <2>9, OneJobCounts
<1> QED
  BY <1>1, <1>2 DEF Insert

\* The counters give back what is counted again later.
LEMMA ResumeCounts ==
    ASSUME StateInv, ProgressAddsUp, NEW c \in Client, Resume(c)
    PROVE  ProgressAddsUp'
<1>1. PICK r, row, items : r \in Request /\ Resumes(c, r, row, items)
  BY ResumeWrites
<1>2. PICK Q : Q = post[c].requeued
  OBVIOUS
<1>3. /\ Q = {m \in Model : item[r][m] \in {"no_evidence", "failed_search"}}
      /\ items = [m \in Model |-> IF m \in Q THEN "queued" ELSE item[r][m]]
      /\ row.imported = job[r].imported
      /\ row.processed = Less(job[r].processed, Cardinality(Q))
      /\ row.failed = Less(job[r].failed, Cardinality(Q))
      /\ job' = [job EXCEPT ![r] = row] /\ item' = [item EXCEPT ![r] = items]
      /\ results' = results
  BY <1>1, <1>2 DEF Resumes
<1>4. /\ job'[r] = row /\ item'[r] = items
      /\ \A q \in Request \ {r} : job'[q] = job[q] /\ item'[q] = item[q]
  BY <1>1, <1>3 DEF StateInv, TypeInv, TypeOK
<1>5. /\ Count(item[r], Settled) = Count(items, Settled) + Cardinality(Q)
      /\ Cardinality(Q) \in Nat
  <2>1. Q \in SUBSET Model
    BY <1>3
  <2>2. \A m \in Model : item[r][m] \in Settled <=> (items[m] \in Settled \/ m \in Q)
    BY <1>3 DEF Settled
  <2>3. \A m \in Q : items[m] \notin Settled
    BY <1>3 DEF Settled
  <2> QED
    BY <2>1, <2>2, <2>3, CountJoined
<1>6. Count(item[r], FailedStatus) <= Count(items, FailedStatus) + Cardinality(Q)
  <2>1. PICK F : F = {m \in Q : item[r][m] = "failed_search"}
    OBVIOUS
  <2>2. F \in SUBSET Model /\ F \in SUBSET Q
    BY <1>3, <2>1
  <2>3. \A m \in Model : item[r][m] \in FailedStatus <=> (items[m] \in FailedStatus \/ m \in F)
    BY <1>3, <2>1 DEF FailedStatus
  <2>4. \A m \in F : items[m] \notin FailedStatus
    BY <1>3, <2>1 DEF FailedStatus
  <2>5. /\ Count(item[r], FailedStatus) = Count(items, FailedStatus) + Cardinality(F)
        /\ Cardinality(F) \in Nat
    BY <2>2, <2>3, <2>4, CountJoined
  <2>6. IsFiniteSet(Q)
    BY <1>3, FS_Subset, RefreshAssumption
  <2>7. Cardinality(F) <= Cardinality(Q)
    BY <2>2, <2>6, FS_Subset
  <2>8. Count(items, FailedStatus) \in Nat
    BY CountIsNat
  <2> QED
    BY <1>5, <2>5, <2>7, <2>8
<1>7. Count(items, Settled) \in Nat /\ Count(items, FailedStatus) \in Nat
  BY CountIsNat
<1>8. /\ job[r].processed = Count(item[r], Settled)
      /\ job[r].imported = Cardinality({x \in results : x.job = r})
      /\ job[r].failed <= Count(item[r], FailedStatus)
      /\ job[r].failed \in Nat
  BY <1>1 DEF ProgressAddsUp, FailedStatus, StateInv, TypeInv, TypeOK, Job
<1>9. row.processed = Count(items, Settled)
  BY <1>3, <1>5, <1>7, <1>8 DEF Less
<1>10. row.failed <= Count(items, FailedStatus)
  <2>1. Count(item[r], FailedStatus) \in Nat
    BY CountIsNat
  <2> QED
    BY <1>3, <1>5, <1>6, <1>7, <1>8, <2>1 DEF Less
<1>11. ProgressOf(r)'
  BY <1>3, <1>4, <1>8, <1>9, <1>10 DEF ProgressOf
<1> QED
  BY <1>1, <1>3, <1>4, <1>11, OneJobCounts

LEMMA PauseCounts ==
    ASSUME StateInv, ProgressAddsUp, NEW w \in Worker, Pause(w)
    PROVE  ProgressAddsUp'
<1>1. PICK r, row, items :
         /\ r = pass[w].job
         /\ row = [job[r] EXCEPT !.status = "paused"]
         /\ items = [m \in Model |-> IF m \in pass[w].items THEN "queued" ELSE item[r][m]]
  OBVIOUS
<1>2. /\ job' = [job EXCEPT ![r] = row] /\ item' = [item EXCEPT ![r] = items]
      /\ results' = results
  BY <1>1 DEF Pause
<1>3. r \in Request /\ pass[w].items = Open(r)
  BY <1>1, PassHolds DEF Pause
<1>4. /\ job'[r] = row /\ item'[r] = items
      /\ \A q \in Request \ {r} : job'[q] = job[q] /\ item'[q] = item[q]
  BY <1>2, <1>3 DEF StateInv, TypeInv, TypeOK
<1>5. /\ row.processed = job[r].processed
      /\ row.imported = job[r].imported
      /\ row.failed = job[r].failed
  BY <1>1, <1>3 DEF StateInv, TypeInv, TypeOK, Job
<1>6. \A m \in Model : item[r][m] \in Settled <=> items[m] \in Settled
  BY <1>1, <1>3 DEF Open, ToDo, Settled
<1>7. \A m \in Model : item[r][m] \in FailedStatus <=> items[m] \in FailedStatus
  BY <1>1, <1>3 DEF Open, ToDo, FailedStatus
<1>8. /\ Count(item[r], Settled) = Count(items, Settled)
      /\ Count(item[r], FailedStatus) = Count(items, FailedStatus)
  BY <1>6, <1>7, CountSame
<1>9. ProgressOf(r)'
  BY <1>2, <1>3, <1>4, <1>5, <1>8 DEF ProgressOf, ProgressAddsUp, FailedStatus
<1> QED
  BY <1>2, <1>3, <1>4, <1>9, OneJobCounts

\* Every open item is settled and counted once; nothing was imported before.
LEMMA FinishCounts ==
    ASSUME StateInv, ProgressAddsUp, NEW w \in Worker,
           NEW cohort \in [Model -> Result \cup {None}], Finish(w, cohort)
    PROVE  ProgressAddsUp'
<1>1. PICK M, new, imported, row, items :
         /\ M \in SUBSET pass[w].items
         /\ Leaves(w, cohort, M, new, imported, row, items)
  BY FinishLeaves DEF StateInv
<1>2. PICK r : r = pass[w].job
  OBVIOUS
<1>3. /\ r \in Request /\ pass[w].items = Open(r)
      /\ pass[w].items \in SUBSET Model
  BY <1>2, PassHolds DEF Finish, Open
<1>4. /\ job' = [job EXCEPT ![r] = row] /\ item' = [item EXCEPT ![r] = items]
      /\ imported \subseteq pass[w].items
      /\ items = [m \in Model |-> IF m \in imported THEN "success"
                                  ELSE IF m \in pass[w].items THEN "no_evidence"
                                  ELSE item[r][m]]
  BY <1>1, <1>2 DEF Leaves
<1>5. /\ Cardinality(new) = Cardinality(imported)
      /\ {x \in results' : x.job = r} = new
      /\ {x \in results : x.job = r} = {}
      /\ \A q \in Request \ {r} :
           {x \in results' : x.job = q} = {x \in results : x.job = q}
  BY <1>1, <1>2, FinishImports
<1>6. /\ job'[r] = row /\ item'[r] = items
      /\ \A q \in Request \ {r} : job'[q] = job[q] /\ item'[q] = item[q]
  BY <1>3, <1>4 DEF StateInv, TypeInv, TypeOK
<1>7. /\ row.processed = job[r].processed + Cardinality(pass[w].items)
      /\ row.imported = job[r].imported + Cardinality(imported)
      /\ row.failed = job[r].failed
  <2>1. job[r] \in Job
    BY <1>3 DEF StateInv, TypeInv, TypeOK
  <2>2. row = [job[r] EXCEPT
                 !.status = Outcome(job[r].failed),
                 !.processed = job[r].processed + Cardinality(pass[w].items),
                 !.imported = job[r].imported + Cardinality(imported)]
    BY <1>1, <1>2 DEF Leaves
  <2> QED
    BY <2>1, <2>2 DEF Job
<1>8. \A m \in Model : items[m] \in Settled <=> (item[r][m] \in Settled \/ m \in pass[w].items)
  BY <1>3, <1>4 DEF Settled
<1>9. \A m \in pass[w].items : item[r][m] \notin Settled
  BY <1>3 DEF Open, ToDo, Settled
<1>10. Count(items, Settled) = Count(item[r], Settled) + Cardinality(pass[w].items)
  BY <1>3, <1>8, <1>9, CountJoined
<1>11. Count(item[r], FailedStatus) = Count(items, FailedStatus)
  <2>1. \A m \in Model : item[r][m] \in FailedStatus <=> items[m] \in FailedStatus
    BY <1>3, <1>4 DEF Open, ToDo, FailedStatus
  <2> QED
    BY <2>1, CountSame
<1>12. job[r].imported = 0 /\ Cardinality(imported) \in Nat
  <2>1. job[r].imported = Cardinality({x \in results : x.job = r})
    BY <1>3 DEF ProgressAddsUp
  <2> QED
    BY <1>1, <1>5, <2>1, FS_EmptySet DEF Leaves
<1>13. ProgressOf(r)'
  <2>1. /\ job[r].processed = Count(item[r], Settled)
        /\ job[r].failed <= Count(item[r], FailedStatus)
    BY <1>3 DEF ProgressAddsUp, FailedStatus
  <2>2. row.processed = Count(items, Settled)
    BY <1>7, <1>10, <2>1
  <2>3. row.imported = Cardinality(new)
    BY <1>5, <1>7, <1>12
  <2>4. row.failed <= Count(items, FailedStatus)
    BY <1>7, <1>11, <2>1
  <2> QED
    BY <1>5, <1>6, <2>2, <2>3, <2>4 DEF ProgressOf
<1> QED
  BY <1>3, <1>5, <1>6, <1>13, OneJobCounts

LEMMA ServeCounts ==
    ASSUME StateInv, ProgressAddsUp, NEW w \in Worker, Serve(w)
    PROVE  ProgressAddsUp'
<1>1. PICK r \in Oldest :
         UNCHANGED job \/ job' = [job EXCEPT ![r].status = Outcome(job[r].failed)]
  BY DEF Serve
<1>2. r \in Request /\ UNCHANGED <<item, results>>
  BY DEF Oldest, Serve
<1>3. \A q \in Request : /\ job'[q].processed = job[q].processed
                         /\ job'[q].imported = job[q].imported
                         /\ job'[q].failed = job[q].failed
  BY <1>1, <1>2 DEF StateInv, TypeInv, TypeOK, Job
<1> QED
  BY <1>2, <1>3 DEF ProgressAddsUp

LEMMA NextCounts == StateInv /\ ProgressAddsUp /\ [Next]_vars => ProgressAddsUp'
<1> SUFFICES ASSUME StateInv, ProgressAddsUp, [Next]_vars PROVE ProgressAddsUp'
  OBVIOUS
<1>1. ASSUME UNCHANGED <<job, item, results>> PROVE ProgressAddsUp'
  BY <1>1 DEF ProgressAddsUp
<1>2. ASSUME NEW c \in Client, NEW r \in Request, Lookup(c, r) PROVE ProgressAddsUp'
  BY <1>1, <1>2 DEF Lookup
<1>3. ASSUME NEW c \in Client, Post(c) PROVE ProgressAddsUp'
  BY <1>1, <1>3, InsertCounts, ResumeCounts DEF Post, Search, Requeue
<1>4. ASSUME NEW w \in Worker, Abort(w) PROVE ProgressAddsUp'
  BY <1>1, <1>4 DEF Abort
<1>5. ASSUME NEW w \in Worker, Pass(w) PROVE ProgressAddsUp'
  BY <1>5, ServeCounts, PauseCounts, FinishCounts DEF Pass
<1>6. CASE UNCHANGED vars
  BY <1>1, <1>6 DEF vars
<1> QED
  BY <1>2, <1>3, <1>4, <1>5, <1>6 DEF Next

LEMMA InitCounts == Init => ProgressAddsUp
<1> SUFFICES ASSUME Init PROVE ProgressAddsUp
  OBVIOUS
<1>1. \A r \in Request : Cardinality({x \in results : x.job = r}) = 0
  <2>1. \A r \in Request : {x \in results : x.job = r} = {}
    BY DEF Init
  <2> QED
    BY <2>1, FS_EmptySet
<1>2. ASSUME NEW r \in Request, job[r] = NoJob, item[r] = [m \in Model |-> "none"]
      PROVE  ProgressOf(r)
  <2>1. Count(item[r], Settled) = 0
    BY <1>2, BlankCounts DEF Settled
  <2>2. Count(item[r], FailedStatus) = 0
    BY <1>2, BlankCounts DEF FailedStatus
  <2> QED
    BY <1>1, <1>2, <2>1, <2>2 DEF ProgressOf, NoJob
<1>3. ASSUME NEW r \in Request, NEW status, NEW items,
             job[r] = Legacy(status, items), item[r] = items
      PROVE  ProgressOf(r)
  <2>1. Count(items, FailedStatus) \in Nat
    BY CountIsNat
  <2>2. /\ job[r].processed = Count(items, Settled)
        /\ job[r].failed = Count(items, FailedStatus)
        /\ job[r].imported = 0
    BY <1>3 DEF Legacy, FailedStatus
  <2> QED
    BY <1>1, <1>3, <2>1, <2>2 DEF ProgressOf
<1>4. \A r \in Request : ProgressOf(r)
  <2>1. CASE /\ job = [r \in Request |-> NoJob]
             /\ item = [r \in Request |-> [m \in Model |-> "none"]]
    BY <1>2, <2>1
  <2>2. ASSUME NEW q \in Request, NEW status \in Active \ {"queued"},
               NEW items \in [Model -> ToDo \cup (Settled \ {"success"})],
               job = [r \in Request |-> IF r = q THEN Legacy(status, items) ELSE NoJob],
               item = [r \in Request |-> IF r = q THEN items ELSE [m \in Model |-> "none"]]
        PROVE  \A r \in Request : ProgressOf(r)
    <3>1. job[q] = Legacy(status, items) /\ item[q] = items
      BY <2>2
    <3>2. \A r \in Request \ {q} : job[r] = NoJob /\ item[r] = [m \in Model |-> "none"]
      BY <2>2
    <3> QED
      BY <1>2, <1>3, <3>1, <3>2
  <2> QED
    BY <2>1, <2>2 DEF Init
<1> QED
  BY <1>4 DEF ProgressAddsUp, ProgressOf, FailedStatus

\* Requests that are answered one at a time: the progress a reader sees adds
\* up, over any number of pauses, resumes and rolled back passes.
THEOREM Progress == ASSUME ~Overlap PROVE Spec => []ProgressAddsUp
  BY InitCounts, NextCounts, StateHolds, PTL DEF Spec
=============================================================================
