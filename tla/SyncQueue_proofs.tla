-------------------------- MODULE SyncQueue_proofs --------------------------
(***************************************************************************)
(* Machine-checked safety of SyncQueue, for every set of sources, workers, *)
(* commands and requests, every lease and every interval.                  *)
(***************************************************************************)
EXTENDS SyncQueue, TLAPS

-----------------------------------------------------------------------------
(* Types.                                                                  *)

Request == [status : Status, source : Source \cup Retired \cup {None},
            active : BOOLEAN, age : 0..Lease, ran : 0..Lease]

State == [at : {"top", "stale", "sweep", "queue", "start", "sync",
                "report", "schedule"},
          req : Id \cup {None}, source : Source \cup {None},
          stale : SUBSET Id, todo : SUBSET Source,
          outcome : {"none", "success", "failed"}]

Shape(x) == /\ x.at \in {"start", "sync"} <=> x.source # None
            /\ x.at = "report" => x.req # None

\* A request that a worker takes is never one of a retired source: the sweep
\* comes first, and the API accepts no such request.
Swept == (\E p \in Proc : proc[p].at = "queue") =>
             \A r \in Id : request[r].status = "queued" => request[r].source \in Source

TypeInv == TypeOK /\ Swept

\* The parts of the type invariant, one by one.
LEMMA TypeFacts ==
    ASSUME TypeOK
    PROVE  /\ request \in [Id -> Request]
           /\ proc \in [Proc -> State]
           /\ \A p \in Proc : Shape(proc[p])
           /\ run \in [Source -> {"none", "running", "success", "failed"}]
           /\ since \in [Source -> 0..Interval]
           /\ holder \in [Source -> Proc \cup {None}]
           /\ crashes \in 0..MaxCrashes
  BY DEF TypeOK, Request, State, Shape

\* What a step of one process must show to keep the type invariant.
LEMMA TypeIntro ==
    ASSUME /\ request' \in [Id -> Request]
           /\ proc' \in [Proc -> State]
           /\ \A p \in Proc : Shape(proc'[p])
           /\ run' \in [Source -> {"none", "running", "success", "failed"}]
           /\ since' \in [Source -> 0..Interval]
           /\ holder' \in [Source -> Proc \cup {None}]
           /\ crashes' \in 0..MaxCrashes
    PROVE  TypeOK'
  BY DEF TypeOK, Request, State, Shape

\* One process moves.
LEMMA ProcStep ==
    ASSUME TypeOK, NEW p \in Proc, NEW x \in State, Shape(x),
           proc' = [proc EXCEPT ![p] = x]
    PROVE  /\ proc' \in [Proc -> State]
           /\ \A q \in Proc : Shape(proc'[q])
           /\ proc'[p] = x
           /\ \A q \in Proc \ {p} : proc'[q] = proc[q]
  BY TypeFacts

\* The top of the worker loop is a state of a process.
LEMMA TopType == Top \in State /\ Shape(Top)
  BY DEF Top, State, Shape

\* An ended request is a request.
LEMMA EndedType ==
    ASSUME NEW q \in Request, NEW status \in Status
    PROVE  Ended(q, status) \in Request
  BY DEF Ended, Request

\* A new request is a request.
LEMMA QueuedType ==
    ASSUME NEW s \in Source \cup Retired
    PROVE  Queued(s) \in Request
  BY QueueAssumption DEF Queued, Request, Status

\* The absent request is a request.
LEMMA NoRequestType == NoRequest \in Request
  BY QueueAssumption DEF NoRequest, Request, Status

\* A bounded clock is a number within its bound.
LEMMA UpToType ==
    ASSUME NEW bound \in Nat, NEW n \in 0..bound
    PROVE  UpTo(bound, n) \in 0..bound
  BY DEF UpTo

\* The place a process goes to after a sync is a state of a process.
LEMMA AfterType ==
    ASSUME TypeOK, NEW p \in Proc, NEW outcome \in {"success", "failed"}
    PROVE  After(p, outcome) \in State /\ Shape(After(p, outcome))
                                       /\ After(p, outcome).at # "queue"
<1>1. proc[p] \in State
  BY TypeFacts
<1>2. CASE proc[p].req # None
  <2> DEFINE x == [proc[p] EXCEPT !.at = "report", !.source = None, !.outcome = outcome]
  <2>1. x \in State /\ x.at = "report" /\ x.source = None /\ x.req = proc[p].req
    BY <1>1 DEF State
  <2> QED
    BY <1>2, <2>1 DEF After, Shape
<1>3. CASE proc[p].req = None /\ p \in Worker
  <2> DEFINE x == [proc[p] EXCEPT !.at = "schedule", !.source = None]
  <2>1. x \in State /\ x.at = "schedule" /\ x.source = None
    BY <1>1 DEF State
  <2> QED
    BY <1>3, <2>1 DEF After, Shape
<1>4. CASE proc[p].req = None /\ p \notin Worker
  BY <1>4, TopType DEF After, Top
<1> QED
  BY <1>2, <1>3, <1>4

\* The initial states are well formed.
LEMMA TypeInit == Init => TypeInv
<1> SUFFICES ASSUME Init PROVE TypeInv
  OBVIOUS
<1>1. request \in [Id -> Request]
  <2>1. {NoRequest} \cup {Queued(s) : s \in Retired} \subseteq Request
    BY NoRequestType, QueuedType
  <2> QED
    BY <2>1 DEF Init
<1>2. proc \in [Proc -> State] /\ \A p \in Proc : Shape(proc[p])
  BY TopType DEF Init
<1>3. \A p \in Proc : proc[p].at = "top"
  BY DEF Init, Top
<1>4. TypeOK
  BY <1>1, <1>2, QueueAssumption DEF Init, TypeOK, Request, State, Shape
<1> QED
  BY <1>3, <1>4 DEF TypeInv, Swept

\* Every step keeps them well formed.
LEMMA TypeNext == TypeInv /\ [Next]_vars => TypeInv'
<1> SUFFICES ASSUME TypeInv, [Next]_vars PROVE TypeInv'
  OBVIOUS
<1>0. TypeOK /\ Swept
  BY DEF TypeInv
<1>1. /\ request \in [Id -> Request]
      /\ proc \in [Proc -> State]
      /\ \A p \in Proc : Shape(proc[p]) /\ proc[p] \in State
      /\ run \in [Source -> {"none", "running", "success", "failed"}]
      /\ since \in [Source -> 0..Interval]
      /\ holder \in [Source -> Proc \cup {None}]
      /\ crashes \in 0..MaxCrashes
  BY <1>0, TypeFacts
<1>2. ASSUME NEW r \in Id, NEW s \in Source, Enqueue(r, s) PROVE TypeInv'
  <2>1. request' \in [Id -> Request]
    BY <1>2, <1>1, QueuedType DEF Enqueue
  <2>2. TypeOK'
    BY <1>2, <1>1, <2>1, TypeIntro DEF Enqueue
  <2>3. Swept'
    BY <1>2, <1>0, <1>1 DEF Enqueue, Swept, Queued
  <2> QED
    BY <2>2, <2>3 DEF TypeInv
<1>3. ASSUME NEW p \in Proc, NEW s \in Source, Command(p, s)
      PROVE  TypeInv'
  <2> DEFINE x == [proc[p] EXCEPT !.at = "start", !.source = s]
  <2>1. x \in State /\ Shape(x)
    BY <1>3, <1>1, QueueAssumption DEF State, Shape
  <2>2. /\ proc' \in [Proc -> State]
        /\ \A q \in Proc : Shape(proc'[q])
        /\ proc'[p] = x
        /\ \A q \in Proc \ {p} : proc'[q] = proc[q]
    BY <1>3, <1>0, <2>1, ProcStep DEF Command
  <2>3. request' \in [Id -> Request]
    BY <1>3, <1>1 DEF Command
  <2>4. TypeOK'
    BY <1>3, <1>1, <2>2, <2>3, TypeIntro DEF Command
  <2>5. Swept'
    BY <1>3, <1>0, <1>1, <2>1, <2>2 DEF Command, Swept, State
  <2> QED
    BY <2>4, <2>5 DEF TypeInv
<1>4. ASSUME NEW p \in Proc, ReadStale(p)
      PROVE  TypeInv'
  <2> DEFINE x == [Top EXCEPT !.at = "stale",
                           !.stale = {r \in Id : /\ request[r].status = "running"
                                                 /\ request[r].age >= Lease}]
  <2>1. x \in State /\ Shape(x)
    BY DEF State, Shape, Top
  <2>2. /\ proc' \in [Proc -> State]
        /\ \A q \in Proc : Shape(proc'[q])
        /\ proc'[p] = x
        /\ \A q \in Proc \ {p} : proc'[q] = proc[q]
    BY <1>4, <1>0, <2>1, ProcStep DEF ReadStale
  <2>3. request' \in [Id -> Request]
    BY <1>4, <1>1 DEF ReadStale
  <2>4. TypeOK'
    BY <1>4, <1>1, <2>2, <2>3, TypeIntro DEF ReadStale
  <2>5. Swept'
    BY <1>4, <1>0, <1>1, <2>1, <2>2 DEF ReadStale, Swept, State, Top
  <2> QED
    BY <2>4, <2>5 DEF TypeInv
<1>5. ASSUME NEW p \in Proc, Interrupt(p)
      PROVE  TypeInv'
  <2> DEFINE x == [proc[p] EXCEPT !.at = "sweep", !.stale = {}]
  <2>1. x \in State /\ Shape(x)
    BY <1>5, <1>1 DEF State, Shape, Interrupt
  <2>2. /\ proc' \in [Proc -> State]
        /\ \A q \in Proc : Shape(proc'[q])
        /\ proc'[p] = x
        /\ \A q \in Proc \ {p} : proc'[q] = proc[q]
    BY <1>5, <1>0, <2>1, ProcStep DEF Interrupt
  <2>3. request' \in [Id -> Request]
    BY <1>5, <1>1, EndedType DEF Interrupt, Status
  <2>4. TypeOK'
    BY <1>5, <1>1, <2>2, <2>3, TypeIntro DEF Interrupt
  <2>5. Swept'
    <3>1. \A r \in Id : request'[r].status = "queued" => request'[r] = request[r]
      BY <1>5, <1>1 DEF Interrupt, Ended, Request
    <3>2. x.at # "queue"
      BY <1>1 DEF State
    <3> QED
      BY <1>0, <2>2, <3>1, <3>2 DEF Swept
  <2> QED
    BY <2>4, <2>5 DEF TypeInv
<1>6. ASSUME NEW p \in Proc, Retire(p)
      PROVE  TypeInv'
  <2> DEFINE x == [proc[p] EXCEPT !.at = "queue"]
  <2>1. x \in State /\ Shape(x)
    BY <1>6, <1>1 DEF State, Shape, Retire
  <2>2. /\ proc' \in [Proc -> State]
        /\ \A q \in Proc : Shape(proc'[q])
        /\ proc'[p] = x
        /\ \A q \in Proc \ {p} : proc'[q] = proc[q]
    BY <1>6, <1>0, <2>1, ProcStep DEF Retire
  <2>3. request' \in [Id -> Request]
    BY <1>6, <1>1, EndedType DEF Retire, Status
  <2>4. TypeOK'
    BY <1>6, <1>1, <2>2, <2>3, TypeIntro DEF Retire
  <2>5. Swept'
    <3>1. \A r \in Id : request'[r].status = "queued" => request'[r].source \in Source
      BY <1>6, <1>1 DEF Retire, Ended, Request
    <3> QED
      BY <3>1 DEF Swept
  <2> QED
    BY <2>4, <2>5 DEF TypeInv
<1>7. ASSUME NEW p \in Proc, NEW r \in Id, Take(p, r)
      PROVE  TypeInv'
  <2> DEFINE x == [proc[p] EXCEPT !.at = "start", !.req = r,
                               !.source = request[r].source]
  <2>1. x \in State /\ Shape(x)
    <3>1. request[r].source \in Source
      BY <1>7, <1>0 DEF Take, Oldest, Swept
    <3> QED
      BY <3>1, <1>1, QueueAssumption DEF State, Shape
  <2>2. /\ proc' \in [Proc -> State]
        /\ \A q \in Proc : Shape(proc'[q])
        /\ proc'[p] = x
        /\ \A q \in Proc \ {p} : proc'[q] = proc[q]
    BY <1>7, <1>0, <2>1, ProcStep DEF Take
  <2>3. request' \in [Id -> Request]
    <3> DEFINE q == [request[r] EXCEPT !.status = "running", !.ran = 0]
    <3>0. 0 \in 0..Lease /\ "running" \in Status /\ request[r] \in Request
      BY <1>1, QueueAssumption DEF Status
    <3>1. q \in Request
      BY <3>0 DEF Request
    <3>2. request' = [request EXCEPT ![r] = q]
      BY <1>7 DEF Take
    <3> HIDE DEF q
    <3> QED
      BY <1>1, <3>1, <3>2
  <2>4. TypeOK'
    BY <1>7, <1>1, <2>2, <2>3, TypeIntro DEF Take
  <2>5. Swept'
    <3>1. \A q \in Id : request'[q].status = "queued" => request'[q] = request[q]
      BY <1>7, <1>1 DEF Take, Request
    <3>2. x.at # "queue"
      BY <1>1 DEF State
    <3> QED
      BY <1>0, <2>2, <3>1, <3>2 DEF Swept
  <2> QED
    BY <2>4, <2>5 DEF TypeInv
<1>8. ASSUME NEW p \in Proc, QueueEmpty(p)
      PROVE  TypeInv'
  <2> DEFINE x == [proc[p] EXCEPT !.at = "schedule", !.todo = Source]
  <2>1. x \in State /\ Shape(x)
    BY <1>8, <1>1 DEF State, Shape, QueueEmpty
  <2>2. /\ proc' \in [Proc -> State]
        /\ \A q \in Proc : Shape(proc'[q])
        /\ proc'[p] = x
        /\ \A q \in Proc \ {p} : proc'[q] = proc[q]
    BY <1>8, <1>0, <2>1, ProcStep DEF QueueEmpty
  <2>3. request' \in [Id -> Request]
    BY <1>8, <1>1 DEF QueueEmpty
  <2>4. TypeOK'
    BY <1>8, <1>1, <2>2, <2>3, TypeIntro DEF QueueEmpty
  <2>5. Swept'
    BY <1>8, <1>0, <1>1, <2>1, <2>2 DEF QueueEmpty, Swept, State
  <2> QED
    BY <2>4, <2>5 DEF TypeInv
<1>9. ASSUME NEW p \in Proc, Report(p)
      PROVE  TypeInv'
  <2> DEFINE x == [Top EXCEPT !.at = "schedule", !.todo = Source]
  <2>1. x \in State /\ Shape(x)
    BY DEF State, Shape, Top
  <2>2. /\ proc' \in [Proc -> State]
        /\ \A q \in Proc : Shape(proc'[q])
        /\ proc'[p] = x
        /\ \A q \in Proc \ {p} : proc'[q] = proc[q]
    BY <1>9, <1>0, <2>1, ProcStep DEF Report
  <2>3. request' \in [Id -> Request]
    <3>1. proc[p].req \in Id /\ proc[p].outcome \in Status
      BY <1>9, <1>1 DEF Report, Shape, State, Status
    <3> QED
      BY <1>9, <1>1, <3>1, EndedType DEF Report
  <2>4. TypeOK'
    BY <1>9, <1>1, <2>2, <2>3, TypeIntro DEF Report
  <2>5. Swept'
    <3>1. proc[p].outcome # "queued" /\ proc[p].req \in Id
      BY <1>9, <1>1 DEF Report, Shape, State
    <3>2. \A r \in Id : request'[r].status = "queued" => request'[r] = request[r]
      BY <1>9, <1>1, <3>1 DEF Report, Ended, Request
    <3>3. x.at # "queue"
      BY DEF Top
    <3> QED
      BY <1>0, <2>2, <3>2, <3>3 DEF Swept
  <2> QED
    BY <2>4, <2>5 DEF TypeInv
<1>10. ASSUME NEW p \in Proc, NEW s \in Source, CheckDue(p, s)
      PROVE  TypeInv'
  <2> DEFINE x == [proc[p] EXCEPT
                     !.todo = proc[p].todo \ {s},
                     !.at = IF since[s] < Interval THEN "schedule" ELSE "start",
                     !.source = IF since[s] < Interval THEN None ELSE s]
  <2>1. x \in State /\ Shape(x)
    BY <1>10, <1>1, QueueAssumption DEF State, Shape, CheckDue
  <2>2. /\ proc' \in [Proc -> State]
        /\ \A q \in Proc : Shape(proc'[q])
        /\ proc'[p] = x
        /\ \A q \in Proc \ {p} : proc'[q] = proc[q]
    BY <1>10, <1>0, <2>1, ProcStep DEF CheckDue
  <2>3. request' \in [Id -> Request]
    BY <1>10, <1>1 DEF CheckDue
  <2>4. TypeOK'
    BY <1>10, <1>1, <2>2, <2>3, TypeIntro DEF CheckDue
  <2>5. Swept'
    BY <1>10, <1>0, <1>1, <2>1, <2>2 DEF CheckDue, Swept, State
  <2> QED
    BY <2>4, <2>5 DEF TypeInv
<1>11. ASSUME NEW p \in Proc, EndPass(p)
      PROVE  TypeInv'
  <2> DEFINE x == Top
  <2>1. x \in State /\ Shape(x)
    BY TopType
  <2>2. /\ proc' \in [Proc -> State]
        /\ \A q \in Proc : Shape(proc'[q])
        /\ proc'[p] = x
        /\ \A q \in Proc \ {p} : proc'[q] = proc[q]
    BY <1>11, <1>0, <2>1, ProcStep DEF EndPass
  <2>3. request' \in [Id -> Request]
    BY <1>11, <1>1 DEF EndPass
  <2>4. TypeOK'
    BY <1>11, <1>1, <2>2, <2>3, TypeIntro DEF EndPass
  <2>5. Swept'
    BY <1>11, <1>0, <1>1, <2>1, <2>2 DEF EndPass, Swept, Top
  <2> QED
    BY <2>4, <2>5 DEF TypeInv
<1>12. ASSUME NEW p \in Proc, Acquire(p)
      PROVE  TypeInv'
  <2> DEFINE x == [proc[p] EXCEPT !.at = "sync"]
  <2>1. x \in State /\ Shape(x)
    BY <1>12, <1>1 DEF State, Shape, Acquire
  <2>2. /\ proc' \in [Proc -> State]
        /\ \A q \in Proc : Shape(proc'[q])
        /\ proc'[p] = x
        /\ \A q \in Proc \ {p} : proc'[q] = proc[q]
    BY <1>12, <1>0, <2>1, ProcStep DEF Acquire
  <2>3. request' \in [Id -> Request]
    BY <1>12, <1>1 DEF Acquire
  <2>4. TypeOK'
    <3>1. 0 \in 0..Interval
      BY QueueAssumption
    <3> QED
      BY <1>12, <1>1, <2>2, <2>3, <3>1, TypeIntro DEF Acquire
  <2>5. Swept'
    BY <1>12, <1>0, <1>1, <2>1, <2>2 DEF Acquire, Swept, State
  <2> QED
    BY <2>4, <2>5 DEF TypeInv
<1>13. ASSUME NEW p \in Proc, Refused(p)
      PROVE  TypeInv'
  <2> DEFINE x == After(p, "failed")
  <2>1. x \in State /\ Shape(x)
    BY <1>0, AfterType
  <2>2. /\ proc' \in [Proc -> State]
        /\ \A q \in Proc : Shape(proc'[q])
        /\ proc'[p] = x
        /\ \A q \in Proc \ {p} : proc'[q] = proc[q]
    BY <1>13, <1>0, <2>1, ProcStep DEF Refused
  <2>3. request' \in [Id -> Request]
    BY <1>13, <1>1 DEF Refused
  <2>4. TypeOK'
    BY <1>13, <1>1, <2>2, <2>3, TypeIntro DEF Refused
  <2>5. Swept'
    <3>1. x.at # "queue"
      BY <1>0, AfterType
    <3> QED
      BY <1>13, <1>0, <2>2, <3>1 DEF Swept, Refused
  <2> QED
    BY <2>4, <2>5 DEF TypeInv
<1>14. ASSUME NEW p \in Proc, NEW outcome \in {"success", "failed"},
              EndSync(p, outcome)
      PROVE  TypeInv'
  <2> DEFINE x == After(p, outcome)
  <2>1. x \in State /\ Shape(x)
    BY <1>0, AfterType
  <2>2. /\ proc' \in [Proc -> State]
        /\ \A q \in Proc : Shape(proc'[q])
        /\ proc'[p] = x
        /\ \A q \in Proc \ {p} : proc'[q] = proc[q]
    BY <1>14, <1>0, <2>1, ProcStep DEF EndSync
  <2>3. request' \in [Id -> Request]
    BY <1>14, <1>1 DEF EndSync
  <2>4. TypeOK'
    BY <1>14, <1>1, <2>2, <2>3, TypeIntro DEF EndSync
  <2>5. Swept'
    <3>1. x.at # "queue"
      BY <1>0, AfterType
    <3> QED
      BY <1>14, <1>0, <2>2, <3>1 DEF Swept, EndSync
  <2> QED
    BY <2>4, <2>5 DEF TypeInv
<1>15. ASSUME NEW p \in Proc, Crash(p)
      PROVE  TypeInv'
  <2> DEFINE x == Top
  <2>1. x \in State /\ Shape(x)
    BY TopType
  <2>2. /\ proc' \in [Proc -> State]
        /\ \A q \in Proc : Shape(proc'[q])
        /\ proc'[p] = x
        /\ \A q \in Proc \ {p} : proc'[q] = proc[q]
    BY <1>15, <1>0, <2>1, ProcStep DEF Crash
  <2>3. request' \in [Id -> Request]
    BY <1>15, <1>1 DEF Crash
  <2>4. TypeOK'
    <3>1. crashes' \in 0..MaxCrashes
      BY <1>15, <1>1, QueueAssumption DEF Crash
    <3>2. holder' \in [Source -> Proc \cup {None}]
      BY <1>15, <1>1 DEF Crash
    <3> QED
      BY <1>15, <1>1, <2>2, <2>3, <3>1, <3>2, TypeIntro DEF Crash
  <2>5. Swept'
    BY <1>15, <1>0, <1>1, <2>1, <2>2 DEF Crash, Swept, Top
  <2> QED
    BY <2>4, <2>5 DEF TypeInv
<1>16. ASSUME Tick PROVE TypeInv'
  <2>1. request' \in [Id -> Request]
    <3> DEFINE age(q) == IF q.active THEN UpTo(Lease, q.age) ELSE q.age
               ran(q) == IF q.status = "running" THEN UpTo(Lease, q.ran) ELSE q.ran
    <3>1. ASSUME NEW q \in Request
          PROVE  [q EXCEPT !.age = age(q), !.ran = ran(q)] \in Request
      <4>1. age(q) \in 0..Lease /\ ran(q) \in 0..Lease
        BY QueueAssumption, UpToType DEF Request
      <4> HIDE DEF age, ran
      <4> QED
        BY <4>1 DEF Request
    <3>2. request' = [r \in Id |-> [request[r] EXCEPT !.age = age(request[r]),
                                                     !.ran = ran(request[r])]]
      BY <1>16 DEF Tick
    <3> HIDE DEF age, ran
    <3> QED
      BY <1>1, <3>1, <3>2
  <2>2. since' \in [Source -> 0..Interval]
    BY <1>16, <1>1, QueueAssumption, UpToType DEF Tick
  <2>3. TypeOK'
    BY <1>16, <1>1, <2>1, <2>2, TypeIntro DEF Tick
  <2>4. \A r \in Id : /\ request'[r].status = request[r].status
                      /\ request'[r].source = request[r].source
    BY <1>16, <1>1 DEF Tick, Request
  <2> QED
    BY <1>16, <1>0, <2>3, <2>4 DEF TypeInv, Swept, Tick
<1>17. CASE UNCHANGED vars
  BY <1>17, <1>0 DEF vars, TypeInv, TypeOK, Swept
<1>18. Cli \subseteq Proc
  BY DEF Proc
<1> QED
  BY <1>2, <1>3, <1>4, <1>5, <1>6, <1>7, <1>8, <1>9, <1>10, <1>11, <1>12, <1>13,
     <1>14, <1>15, <1>16, <1>17, <1>18 DEF Next, Work

\* Rows, locks and processes keep their types, and a process holds a source
\* exactly while it starts or runs a sync.
THEOREM QueueTypes == Spec => []TypeOK
<1>1. TypeInv => TypeOK
  BY DEF TypeInv
<1> QED
  BY TypeInit, TypeNext, <1>1, PTL DEF Spec

-----------------------------------------------------------------------------
(* A source is reserved while a request for it is pending.                 *)

Pending(q) == q.active <=> q.status \in {"queued", "running"}

\* A step that frees sources, and reserves none, keeps the reservation.
LEMMA Freeing ==
    ASSUME ReservedWhilePending,
           \A r \in Id : /\ Pending(request'[r])
                         /\ request'[r].active =>
                               /\ request[r].active
                               /\ request'[r].source = request[r].source
    PROVE  ReservedWhilePending'
  BY DEF ReservedWhilePending, Active, Pending

\* A request that ends gives up its reservation.
LEMMA EndedPending ==
    ASSUME NEW q \in Request, NEW status \in Status \ {"queued", "running"}
    PROVE  Pending(Ended(q, status)) /\ ~Ended(q, status).active
  BY DEF Ended, Request, Pending

\* Nothing is reserved at the start.
LEMMA ReservedInit == Init => ReservedWhilePending
<1> SUFFICES ASSUME Init PROVE ReservedWhilePending
  OBVIOUS
<1>1. \A q \in {NoRequest} \cup {Queued(s) : s \in Retired} : Pending(q)
  BY DEF NoRequest, Queued, Pending
<1>2. \A r \in Id : Pending(request[r])
  BY <1>1 DEF Init
<1> QED
  BY <1>2 DEF Init, ReservedWhilePending, Active, Pending

\* Every step keeps one reservation for each pending request.
LEMMA ReservedNext ==
    TypeOK /\ ReservedWhilePending /\ [Next]_vars => ReservedWhilePending'
<1> SUFFICES ASSUME TypeOK, ReservedWhilePending, [Next]_vars
             PROVE  ReservedWhilePending'
  OBVIOUS
<1>1. /\ request \in [Id -> Request]
      /\ \A p \in Proc : Shape(proc[p]) /\ proc[p] \in State
  BY TypeFacts
<1>2. \A r \in Id : Pending(request[r])
  BY DEF ReservedWhilePending, Pending
<1>3. ASSUME NEW r \in Id, NEW s \in Source, Enqueue(r, s)
      PROVE  ReservedWhilePending'
  <2>1. /\ request'[r] = Queued(s)
        /\ \A q \in Id \ {r} : request'[q] = request[q]
        /\ \A q \in Active : request[q].source # s
    BY <1>3, <1>1 DEF Enqueue
  <2>2. Pending(Queued(s)) /\ Queued(s).source = s
    BY DEF Queued, Pending
  <2>3. \A q \in Id : Pending(request'[q])
    BY <1>2, <2>1, <2>2
  <2>4. Active' \subseteq Active \cup {r}
    BY <2>1 DEF Active
  <2> QED
    BY <2>1, <2>2, <2>3, <2>4 DEF ReservedWhilePending, Active, Pending
<1>4. ASSUME NEW p \in Proc, Interrupt(p) PROVE ReservedWhilePending'
  <2>1. \A r \in Id : \/ request'[r] = Ended(request[r], "interrupted")
                     \/ request'[r] = request[r]
    BY <1>4 DEF Interrupt
  <2> QED
    BY <1>1, <1>2, <2>1, EndedPending, Freeing DEF Status
<1>5. ASSUME NEW p \in Proc, Retire(p) PROVE ReservedWhilePending'
  <2>1. \A r \in Id : \/ request'[r] = Ended(request[r], "retired")
                     \/ request'[r] = request[r]
    BY <1>5 DEF Retire
  <2> QED
    BY <1>1, <1>2, <2>1, EndedPending, Freeing DEF Status
<1>6. ASSUME NEW p \in Proc, NEW r \in Id, Take(p, r)
      PROVE  ReservedWhilePending'
  <2> DEFINE q == [request[r] EXCEPT !.status = "running", !.ran = 0]
  <2>1. request'[r] = q /\ \A x \in Id \ {r} : request'[x] = request[x]
    BY <1>6, <1>1 DEF Take
  <2>2. request[r].status = "queued"
    BY <1>6 DEF Take, Oldest
  <2>3. /\ q.status = "running"
        /\ q.active = request[r].active
        /\ q.source = request[r].source
    BY <1>1 DEF Request
  <2>4. Pending(q) /\ request[r].active
    BY <1>2, <2>2, <2>3 DEF Pending
  <2> HIDE DEF q
  <2> QED
    BY <1>2, <2>1, <2>3, <2>4, Freeing
<1>7. ASSUME NEW p \in Proc, Report(p) PROVE ReservedWhilePending'
  <2>1. proc[p].req \in Id /\ proc[p].outcome \in Status \ {"queued", "running"}
    BY <1>7, <1>1 DEF Report, Shape, State, Status
  <2>2. \A r \in Id : \/ request'[r] = Ended(request[r], proc[p].outcome)
                     \/ request'[r] = request[r]
    BY <1>7, <1>1, <2>1 DEF Report
  <2> QED
    BY <1>1, <1>2, <2>1, <2>2, EndedPending, Freeing
<1>8. ASSUME Tick PROVE ReservedWhilePending'
  <2>1. \A r \in Id : /\ request'[r].status = request[r].status
                      /\ request'[r].source = request[r].source
                      /\ request'[r].active = request[r].active
    BY <1>8, <1>1 DEF Tick, Request
  <2> QED
    BY <2>1 DEF ReservedWhilePending, Active
<1>9. ASSUME UNCHANGED request PROVE ReservedWhilePending'
  BY <1>9 DEF ReservedWhilePending, Active
<1>10. Cli \subseteq Proc
  BY DEF Proc
<1> QED
  BY <1>3, <1>4, <1>5, <1>6, <1>7, <1>8, <1>9, <1>10
     DEF Next, Work, vars, Command, ReadStale, QueueEmpty, CheckDue, EndPass,
         Acquire, Refused, EndSync, Crash

\* A source is reserved by one request at most, and exactly while that is
\* queued or running, whatever order leases, outcomes and crashes come in.
THEOREM QueueReserves == Spec => []ReservedWhilePending
  BY QueueTypes, ReservedInit, ReservedNext, PTL DEF Spec

-----------------------------------------------------------------------------
(* One process syncs a source.                                             *)

LockHeld == \A p \in Proc : proc[p].at = "sync" => holder[proc[p].source] = p

\* Nobody holds a lock at the start.
LEMMA LockInit == Init => LockHeld
  BY DEF Init, Top, LockHeld

\* A step after which p, the one process that moves, syncs nothing.
LEMMA LockKept ==
    ASSUME TypeOK, LockHeld, NEW p \in Proc, NEW x,
           proc' = [proc EXCEPT ![p] = x], x.at # "sync", UNCHANGED holder
    PROVE  LockHeld'
<1>1. proc'[p] = x /\ \A q \in Proc \ {p} : proc'[q] = proc[q]
  BY TypeFacts
<1> QED
  BY <1>1 DEF LockHeld

\* Every step keeps the lock with the process that syncs.
LEMMA LockNext == TypeOK /\ LockHeld /\ [Next]_vars => LockHeld'
<1> SUFFICES ASSUME TypeOK, LockHeld, [Next]_vars PROVE LockHeld'
  OBVIOUS
<1>1. /\ proc \in [Proc -> State]
      /\ \A p \in Proc : Shape(proc[p]) /\ proc[p] \in State
      /\ holder \in [Source -> Proc \cup {None}]
  BY TypeFacts
<1>2. ASSUME NEW p \in Proc, NEW s \in Source, Command(p, s) PROVE LockHeld'
  <2>1. [proc[p] EXCEPT !.at = "start", !.source = s].at # "sync"
    BY <1>1 DEF State
  <2> QED
    BY <1>2, <2>1, LockKept DEF Command
<1>3. ASSUME NEW p \in Proc, ReadStale(p) PROVE LockHeld'
  <2>1. \A S : [Top EXCEPT !.at = "stale", !.stale = S].at # "sync"
    BY DEF Top
  <2> QED
    BY <1>3, <2>1, LockKept DEF ReadStale
<1>4. ASSUME NEW p \in Proc, Interrupt(p) PROVE LockHeld'
  <2>1. [proc[p] EXCEPT !.at = "sweep", !.stale = {}].at # "sync"
    BY <1>1 DEF State
  <2> QED
    BY <1>4, <2>1, LockKept DEF Interrupt
<1>5. ASSUME NEW p \in Proc, Retire(p) PROVE LockHeld'
  <2>1. [proc[p] EXCEPT !.at = "queue"].at # "sync"
    BY <1>1 DEF State
  <2> QED
    BY <1>5, <2>1, LockKept DEF Retire
<1>6. ASSUME NEW p \in Proc, NEW r \in Id, Take(p, r) PROVE LockHeld'
  <2>1. \A S : [proc[p] EXCEPT !.at = "start", !.req = r, !.source = S].at # "sync"
    BY <1>1 DEF State
  <2> QED
    BY <1>6, <2>1, LockKept DEF Take
<1>7. ASSUME NEW p \in Proc, QueueEmpty(p) PROVE LockHeld'
  <2>1. [proc[p] EXCEPT !.at = "schedule", !.todo = Source].at # "sync"
    BY <1>1 DEF State
  <2> QED
    BY <1>7, <2>1, LockKept DEF QueueEmpty
<1>8. ASSUME NEW p \in Proc, Report(p) PROVE LockHeld'
  <2>1. [Top EXCEPT !.at = "schedule", !.todo = Source].at # "sync"
    BY DEF Top
  <2> QED
    BY <1>8, <2>1, LockKept DEF Report
<1>9. ASSUME NEW p \in Proc, NEW s \in Source, CheckDue(p, s) PROVE LockHeld'
  <2> DEFINE x == [proc[p] EXCEPT
                     !.todo = proc[p].todo \ {s},
                     !.at = IF since[s] < Interval THEN "schedule" ELSE "start",
                     !.source = IF since[s] < Interval THEN None ELSE s]
  <2>1. x.at # "sync"
    BY <1>1 DEF State
  <2> QED
    BY <1>9, <2>1, LockKept DEF CheckDue
<1>10. ASSUME NEW p \in Proc, EndPass(p) PROVE LockHeld'
  <2>1. Top.at # "sync"
    BY DEF Top
  <2> QED
    BY <1>10, <2>1, LockKept DEF EndPass
<1>11. ASSUME NEW p \in Proc, Acquire(p) PROVE LockHeld'
  <2> DEFINE x == [proc[p] EXCEPT !.at = "sync"]
  <2>1. x.source = proc[p].source
    BY <1>1 DEF State
  <2>2. proc[p].source \in Source
    BY <1>11, <1>1 DEF Acquire, Shape, State
  <2>3. proc'[p] = x /\ \A q \in Proc \ {p} : proc'[q] = proc[q]
    BY <1>11, <1>1 DEF Acquire
  <2>4. /\ holder[proc[p].source] = None
        /\ holder' = [holder EXCEPT ![proc[p].source] = p]
    BY <1>11 DEF Acquire
  <2>5. \A q \in Proc : q # None
    BY QueueAssumption DEF Proc
  <2> HIDE DEF x
  <2>6. ASSUME NEW q \in Proc, proc'[q].at = "sync"
        PROVE  holder'[proc'[q].source] = q
    <3>1. CASE q = p
      BY <3>1, <1>1, <2>1, <2>2, <2>3, <2>4
    <3>2. CASE q # p
      <4>1. proc[q].at = "sync" /\ proc[q].source \in Source
        BY <2>3, <2>6, <3>2, <1>1 DEF Shape, State
      <4>2. holder[proc[q].source] = q
        BY <4>1 DEF LockHeld
      <4>3. proc[q].source # proc[p].source
        BY <2>4, <2>5, <4>2
      <4> QED
        BY <1>1, <2>3, <2>4, <3>2, <4>1, <4>2, <4>3
    <3> QED
      BY <3>1, <3>2
  <2> QED
    BY <2>6 DEF LockHeld
<1>12. ASSUME NEW p \in Proc, Refused(p) PROVE LockHeld'
  <2>1. After(p, "failed").at # "sync"
    BY <1>1 DEF After, Top, State
  <2> QED
    BY <1>12, <2>1, LockKept DEF Refused
<1>13. ASSUME NEW p \in Proc, NEW outcome \in {"success", "failed"},
              EndSync(p, outcome)
       PROVE  LockHeld'
  <2>1. After(p, outcome).at # "sync"
    BY <1>1 DEF After, Top, State
  <2>2. /\ proc'[p] = After(p, outcome)
        /\ \A q \in Proc \ {p} : proc'[q] = proc[q]
        /\ proc[p].at = "sync"
        /\ holder' = [holder EXCEPT ![proc[p].source] = None]
    BY <1>13, <1>1 DEF EndSync
  <2>3. ASSUME NEW q \in Proc, proc'[q].at = "sync"
        PROVE  holder'[proc'[q].source] = q
    <3>1. q # p /\ proc'[q] = proc[q]
      BY <2>1, <2>2, <2>3
    <3>2. holder[proc[q].source] = q /\ holder[proc[p].source] = p
      BY <2>2, <2>3, <3>1 DEF LockHeld
    <3>3. proc[q].source \in Source
      BY <2>3, <3>1, <1>1 DEF Shape, State
    <3> QED
      BY <1>1, <2>2, <3>1, <3>2, <3>3
  <2> QED
    BY <2>3 DEF LockHeld
<1>14. ASSUME NEW p \in Proc, Crash(p) PROVE LockHeld'
  <2>1. /\ proc'[p] = Top
        /\ \A q \in Proc \ {p} : proc'[q] = proc[q]
        /\ \A s \in Source : holder[s] # p => holder'[s] = holder[s]
    BY <1>14, <1>1 DEF Crash
  <2>2. ASSUME NEW q \in Proc, proc'[q].at = "sync"
        PROVE  holder'[proc'[q].source] = q
    <3>1. q # p /\ proc'[q] = proc[q]
      BY <2>1, <2>2 DEF Top
    <3>2. proc[q].source \in Source /\ holder[proc[q].source] = q
      BY <2>2, <3>1, <1>1 DEF Shape, State, LockHeld
    <3> QED
      BY <2>1, <3>1, <3>2
  <2> QED
    BY <2>2 DEF LockHeld
<1>15. ASSUME UNCHANGED <<proc, holder>> PROVE LockHeld'
  BY <1>15 DEF LockHeld
<1>16. Cli \subseteq Proc
  BY DEF Proc
<1> QED
  BY <1>2, <1>3, <1>4, <1>5, <1>6, <1>7, <1>8, <1>9, <1>10, <1>11, <1>12, <1>13,
     <1>14, <1>15, <1>16 DEF Next, Work, vars, Enqueue, Tick

\* No two processes sync one source at the same time, whatever becomes of
\* requests, leases and crashed processes.
THEOREM QueueExcludes == Spec => []NoDuplicateIngestion
<1>1. LockHeld => NoDuplicateIngestion
  BY DEF LockHeld, NoDuplicateIngestion
<1> QED
  BY QueueTypes, LockInit, LockNext, <1>1, PTL DEF Spec
=============================================================================
