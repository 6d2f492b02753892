--------------------------- MODULE Services_proofs ---------------------------
(***************************************************************************)
(* Theorems about the services around the catalog: manual research         *)
(* (ResearchRuns), fetching and snapshots (SourceFetch), the rate limiter  *)
(* (RateLimiter) and the repair of conflicts (ConflictPurge), for any      *)
(* number of requests, threads, urls, clients, sources, crashes and syncs. *)
(***************************************************************************)
EXTENDS ResearchRuns, SourceFetch, RateLimiter, ConflictPurge,
        FiniteSetTheorems, SequenceTheorems, TLAPS

-----------------------------------------------------------------------------
(***************************************************************************)
(* Manual research.                                                        *)
(***************************************************************************)

ResearchPhases == {"idle", "asked", "locked", "allowed", "registered", "searched", "ended"}
Outcomes == {"needs_review", "uncertain", "failed"}

RunRow == [status : {"none", "running"} \cup Outcomes, ask : Ask \cup {{}}, at : Nat,
           cites : SUBSET Page, evidence : SUBSET Page]

Call == [phase : ResearchPhases, id : Request \cup {{}}, ask : Ask \cup {{}},
         evidence : SUBSET Page, cites : SUBSET Page, outcome : {"none"} \cup Outcomes]

Bill == [search : Nat, summary : Nat]

ResearchTypeOK == /\ now \in Nat
                  /\ run \in [Request -> RunRow]
                  /\ call \in [Handler -> Call]
                  /\ locked \subseteq Handler
                  /\ paid \in [Request -> Bill]

\* The phases in which a thread holds the lock, and those in which it has a row.
Holding == {"locked", "allowed", "registered", "searched", "ended"}
Paying == {"registered", "searched", "ended"}

\* Who works holds the lock, and only one does.
Exclusive == /\ \A h \in Handler : call[h].phase \in Holding => h \in locked
             /\ \A g, h \in locked : g = h

\* What a thread has paid for so far, and what it has in hand.
CallInHand(c) ==
    /\ c.phase # "idle" => c.id \in Request
    /\ c.phase \in Paying => Stored(c.id)
    /\ c.phase = "registered" => paid[c.id].search = 0 /\ paid[c.id].summary = 0
    /\ c.phase = "searched" => /\ paid[c.id].search = 1 /\ paid[c.id].summary = 0
                               /\ c.evidence \subseteq Usable
    /\ c.phase = "ended" => c.outcome # "none"
    /\ c.phase = "ended" /\ c.outcome = "needs_review" =>
          c.cites # {} /\ c.cites \subseteq c.evidence /\ c.evidence \subseteq Usable

\* A row says what became of the request, and nothing is paid without one.
Recorded == \A r \in Request :
    /\ paid[r].search <= 1 /\ paid[r].summary <= paid[r].search
    /\ Stored(r) => run[r].status # "none" /\ run[r].at <= now
    /\ ~Stored(r) => paid[r].search = 0

Accounts == /\ Exclusive
            /\ \A h \in Handler : CallInHand(call[h])
            /\ Recorded
            /\ CitedFromEvidence

\* The rows that count in the period that ends at t.
Recent(t) == {q \in Request : Stored(q) /\ run[q].at <= t /\ run[q].at + Day >= t}

\* A thread that may register found room, and still has it: the count falls
\* as time passes, and nobody else registers.
RoomLeft == \A h \in Handler :
                call[h].phase = "allowed" => Cardinality(Recent(now)) < DailyLimit

ResearchIInv == ResearchTypeOK /\ Accounts /\ RoomLeft /\ WithinLimit

-----------------------------------------------------------------------------
\* The shapes that the steps give a call.
LEMMA CallShapes ==
    ASSUME NEW c \in Call
    PROVE  /\ NoCall \in Call
           /\ \A p \in ResearchPhases : [c EXCEPT !.phase = p] \in Call
           /\ \A o \in Outcomes : [c EXCEPT !.phase = "ended", !.outcome = o] \in Call
           /\ \A e \in SUBSET Page :
                 [c EXCEPT !.phase = "searched", !.evidence = e] \in Call
           /\ \A e \in SUBSET Page :
                 [c EXCEPT !.phase = "ended", !.outcome = "needs_review", !.cites = e] \in Call
           /\ \A r \in Request, a \in Ask :
                 [NoCall EXCEPT !.phase = "asked", !.id = r, !.ask = a] \in Call
  BY DEF Call, NoCall, ResearchPhases, Outcomes

\* A call that is charged leaves a bill.
LEMMA BillShapes ==
    ASSUME ResearchTypeOK, NEW r
    PROVE  /\ [paid EXCEPT ![r].search = @ + 1] \in [Request -> Bill]
           /\ [paid EXCEPT ![r].summary = @ + 1] \in [Request -> Bill]
<1>1. \A b \in Bill : /\ [b EXCEPT !.search = @ + 1] \in Bill
                      /\ [b EXCEPT !.summary = @ + 1] \in Bill
  BY DEF Bill
<1>2. QED
  BY <1>1 DEF ResearchTypeOK

\* A thread that leaves keeps the types.
LEMMA LeaveTypes ==
    ASSUME ResearchTypeOK, NEW h \in Handler, Leave(h)
    PROVE  call' \in [Handler -> Call] /\ locked' \subseteq Handler
<1>1. NoCall \in Call
  BY DEF Call, NoCall, ResearchPhases
<1>2. QED
  BY <1>1 DEF ResearchTypeOK, Leave

\* The type invariant: rows, calls and counters keep their shape.
LEMMA TypesKept ==
    ASSUME ResearchTypeOK, [ResearchNext]_researchVars
    PROVE  ResearchTypeOK'
<1>1. ASSUME NEW h \in Handler, NEW r \in Request, NEW a \in Ask, Submit(h, r, a)
      PROVE  ResearchTypeOK'
  <2>1. [NoCall EXCEPT !.phase = "asked", !.id = r, !.ask = a] \in Call
    BY DEF NoCall, Call, ResearchPhases
  <2>2. QED
    BY <1>1, <2>1 DEF Submit, ResearchTypeOK
<1>2. ASSUME NEW h \in Handler, Lock(h) PROVE ResearchTypeOK'
  <2>1. call[h] \in Call
    BY DEF ResearchTypeOK
  <2>2. [call[h] EXCEPT !.phase = "locked"] \in Call /\ NoCall \in Call
    BY <2>1, CallShapes DEF ResearchPhases
  <2>3. call' \in [Handler -> Call]
    BY <1>2, <2>2 DEF Lock, ResearchTypeOK
  <2>4. QED
    BY <1>2, <2>3 DEF Lock, ResearchTypeOK
<1>3. ASSUME NEW h \in Handler, Count(h) PROVE ResearchTypeOK'
  <2>1. call[h] \in Call
    BY DEF ResearchTypeOK
  <2>2. [call[h] EXCEPT !.phase = "allowed"] \in Call
    BY <2>1, CallShapes DEF ResearchPhases
  <2>3. QED
    BY <1>3, <2>2, LeaveTypes DEF Count, ResearchTypeOK
<1>4. ASSUME NEW h \in Handler, Register(h) PROVE ResearchTypeOK'
  <2>1. CASE Stored(call[h].id)
    BY <1>4, <2>1, LeaveTypes DEF Register, ResearchTypeOK
  <2>2. CASE ~Stored(call[h].id)
    <3>1. call[h] \in Call
      BY DEF ResearchTypeOK
    <3>2. [call[h] EXCEPT !.phase = "registered"] \in Call
      BY <3>1, CallShapes DEF ResearchPhases
    <3>3. [NoRun EXCEPT !.status = "running", !.ask = call[h].ask, !.at = now] \in RunRow
      BY <3>1 DEF NoRun, RunRow, Call, ResearchTypeOK
    <3>4. QED
      BY <1>4, <2>2, <3>2, <3>3 DEF Register, ResearchTypeOK
  <2>3. QED
    BY <2>1, <2>2
<1>5. ASSUME NEW h \in Handler, NEW pages, Search(h, pages) PROVE ResearchTypeOK'
  <2>1. call[h] \in Call
    BY DEF ResearchTypeOK
  <2>2. Evidence(pages) \in SUBSET Page
    BY ResearchAssumption DEF Evidence
  <2>3. /\ [call[h] EXCEPT !.phase = "ended", !.outcome = "failed"] \in Call
        /\ [call[h] EXCEPT !.phase = "searched", !.evidence = Evidence(pages)] \in Call
    BY <2>1, <2>2, CallShapes DEF Outcomes
  <2>4. call' \in [Handler -> Call]
    BY <1>5, <2>3 DEF Search, ResearchTypeOK
  <2>5. paid' \in [Request -> Bill]
    BY <1>5, BillShapes DEF Search
  <2>6. QED
    BY <1>5, <2>4, <2>5 DEF Search, ResearchTypeOK
<1>6. ASSUME NEW h \in Handler, NEW refs \in SUBSET Page, Summarise(h, refs) PROVE ResearchTypeOK'
  <2>1. call[h] \in Call
    BY DEF ResearchTypeOK
  <2>2. /\ [call[h] EXCEPT !.phase = "ended", !.outcome = "failed"] \in Call
        /\ [call[h] EXCEPT !.phase = "ended", !.outcome = "needs_review",
                           !.cites = refs] \in Call
    BY <2>1, CallShapes DEF Outcomes
  <2>3. call' \in [Handler -> Call]
    BY <1>6, <2>2 DEF Summarise, ResearchTypeOK
  <2>4. paid' \in [Request -> Bill]
    BY <1>6, BillShapes DEF Summarise
  <2>5. QED
    BY <1>6, <2>3, <2>4 DEF Summarise, ResearchTypeOK
<1>7. ASSUME NEW h \in Handler, NEW outcome, ProviderFails(h, outcome) PROVE ResearchTypeOK'
  <2>1. call[h] \in Call
    BY DEF ResearchTypeOK
  <2>2. [call[h] EXCEPT !.phase = "ended", !.outcome = outcome] \in Call
    BY <1>7, <2>1, CallShapes DEF Outcomes, ProviderFails
  <2>3. paid' \in [Request -> Bill]
    BY <1>7, BillShapes DEF ProviderFails
  <2>4. QED
    BY <1>7, <2>2, <2>3 DEF ProviderFails, ResearchTypeOK
<1>8. ASSUME NEW h \in Handler, Record(h) PROVE ResearchTypeOK'
  <2>1. call[h] \in Call
    BY DEF ResearchTypeOK
  <2>2. \A row \in RunRow, e \in SUBSET Page :
           [row EXCEPT !.status = call[h].outcome, !.cites = call[h].cites,
                       !.evidence = e] \in RunRow
    BY <2>1 DEF RunRow, Call
  <2>3. (IF call[h].outcome = "needs_review" THEN call[h].evidence ELSE {}) \in SUBSET Page
    BY <2>1 DEF Call
  <2>4. run' \in [Request -> RunRow]
    BY <1>8, <2>2, <2>3 DEF Record, ResearchTypeOK
  <2>5. QED
    BY <1>8, <2>4, LeaveTypes DEF Record, ResearchTypeOK
<1>9. ASSUME NEW g, CrashAndRestart(g) PROVE ResearchTypeOK'
  <2>1. NoCall \in Call
    BY DEF Call, NoCall, ResearchPhases
  <2>2. QED
    BY <1>9, <2>1 DEF CrashAndRestart, ResearchTypeOK
<1>10. CASE Tick
  BY <1>10 DEF Tick, ResearchTypeOK
<1>11. CASE UNCHANGED researchVars
  BY <1>11 DEF researchVars, ResearchTypeOK
<1>12. QED
  BY <1>1, <1>2, <1>3, <1>4, <1>5, <1>6, <1>7, <1>8, <1>9, <1>10, <1>11 DEF ResearchNext

-----------------------------------------------------------------------------
\* A step that leaves rows and bills alone keeps what they say.
LEMMA TablesKeep ==
    ASSUME ResearchTypeOK, Accounts, UNCHANGED <<run, paid>>, now' \in Nat, now' >= now
    PROVE  /\ Recorded' /\ CitedFromEvidence'
           /\ \A h \in Handler : call'[h] = call[h] => CallInHand(call[h])'
<1>1. Recorded'
  BY DEF Accounts, Recorded, Stored, ResearchTypeOK, RunRow
<1>2. CitedFromEvidence'
  BY DEF Accounts, CitedFromEvidence
<1>3. ASSUME NEW h \in Handler, call'[h] = call[h] PROVE CallInHand(call[h])'
  <2>1. CallInHand(call[h])
    BY DEF Accounts
  <2>2. call[h].phase \in Paying => Stored(call[h].id)
    BY <2>1 DEF CallInHand
  <2>3. QED
    BY <1>3, <2>1, <2>2 DEF CallInHand, Stored
<1>4. QED
  BY <1>1, <1>2, <1>3

\* A thread that leaves releases the lock it held, and has nothing in hand.
LEMMA LeaveKeeps ==
    ASSUME ResearchTypeOK, Accounts, NEW h \in Handler, Leave(h)
    PROVE  /\ Exclusive'
           /\ CallInHand(call[h])'
           /\ \A g \in Handler \ {h} : call'[g] = call[g]
<1>1. call'[h] = NoCall /\ \A g \in Handler \ {h} : call'[g] = call[g]
  BY DEF Leave, ResearchTypeOK
<1>2. Exclusive'
  BY <1>1 DEF Leave, Accounts, Exclusive, Holding, NoCall
<1>3. CallInHand(call[h])'
  BY <1>1 DEF CallInHand, NoCall, Paying
<1>4. QED
  BY <1>1, <1>2, <1>3

\* Only one thread at a time is at work on a row.
LEMMA Alone ==
    ASSUME ResearchTypeOK, Accounts, NEW h \in Handler, call[h].phase \in Holding,
           NEW g \in Handler \ {h}
    PROVE  call[g].phase \notin Holding /\ call[g].phase \notin Paying
  BY DEF Accounts, Exclusive, Holding, Paying

\* A step of h within the lock that keeps the others' calls and the lock.
LEMMA StepWithin ==
    ASSUME ResearchTypeOK, Accounts, NEW h \in Handler, call[h].phase \in Holding,
           UNCHANGED locked, \A g \in Handler \ {h} : call'[g] = call[g]
    PROVE  /\ Exclusive'
           /\ \A g \in Handler \ {h} : CallInHand(call[g])'
<1>1. Exclusive'
  BY DEF Accounts, Exclusive
<1>2. ASSUME NEW g \in Handler \ {h} PROVE CallInHand(call[g])'
  <2>1. call[g].phase \notin Paying /\ CallInHand(call[g])
    BY Alone DEF Accounts
  <2>2. QED
    BY <2>1 DEF CallInHand, Paying
<1>3. QED
  BY <1>1, <1>2

\* Every step keeps the accounts.
LEMMA AccountsKept ==
    ASSUME ResearchTypeOK, Accounts, [ResearchNext]_researchVars
    PROVE  Accounts'
<1> USE DEF Holding, Paying
<1>1. ASSUME NEW h \in Handler, NEW r \in Request, NEW a \in Ask, Submit(h, r, a)
      PROVE  Accounts'
  <2>1. /\ UNCHANGED <<run, paid, now, locked>>
        /\ call'[h].phase = "asked" /\ call'[h].id = r
        /\ \A g \in Handler \ {h} : call'[g] = call[g]
    BY <1>1 DEF Submit, ResearchTypeOK, Call, NoCall
  <2>2. Exclusive'
    BY <2>1 DEF Accounts, Exclusive
  <2>3. CallInHand(call[h])'
    BY <2>1 DEF CallInHand
  <2>4. QED
    BY <2>1, <2>2, <2>3, TablesKeep DEF Accounts, ResearchTypeOK
<1>2. ASSUME NEW h \in Handler, Lock(h) PROVE Accounts'
  <2>1. UNCHANGED <<run, paid, now>>
    BY <1>2 DEF Lock
  <2>2. CASE LockFree
    <3>1. /\ call'[h] = [call[h] EXCEPT !.phase = "locked"]
          /\ call'[h].phase = "locked" /\ call'[h].id = call[h].id
          /\ call[h].phase = "asked" /\ locked = {} /\ locked' = {h}
          /\ \A g \in Handler \ {h} : call'[g] = call[g]
      BY <1>2, <2>2 DEF Lock, LockFree, ResearchTypeOK, Call
    <3>2. Exclusive'
      BY <3>1 DEF Accounts, Exclusive
    <3>3. CallInHand(call[h])'
      BY <3>1 DEF CallInHand, Accounts
    <3>4. QED
      BY <2>1, <3>1, <3>2, <3>3, TablesKeep DEF Accounts, ResearchTypeOK
  <2>3. CASE ~LockFree
    <3>1. /\ call'[h] = NoCall /\ locked' = locked
          /\ \A g \in Handler \ {h} : call'[g] = call[g]
      BY <1>2, <2>3 DEF Lock, ResearchTypeOK
    <3>2. Exclusive'
      BY <3>1 DEF Accounts, Exclusive, NoCall
    <3>3. CallInHand(call[h])'
      BY <3>1 DEF CallInHand, NoCall
    <3>4. QED
      BY <2>1, <3>1, <3>2, <3>3, TablesKeep DEF Accounts, ResearchTypeOK
  <2>4. QED
    BY <2>2, <2>3
<1>3. ASSUME NEW h \in Handler, Count(h) PROVE Accounts'
  <2>1. UNCHANGED <<run, paid, now>>
    BY <1>3 DEF Count
  <2>2. CASE Used >= DailyLimit
    BY <1>3, <2>1, <2>2, LeaveKeeps, TablesKeep DEF Count, Accounts, ResearchTypeOK
  <2>3. CASE ~(Used >= DailyLimit)
    <3>1. /\ call[h].phase = "locked" /\ locked' = locked
          /\ call'[h].phase = "allowed" /\ call'[h].id = call[h].id
          /\ \A g \in Handler \ {h} : call'[g] = call[g]
      BY <1>3, <2>3 DEF Count, ResearchTypeOK, Call
    <3>2. CallInHand(call[h])'
      BY <3>1 DEF CallInHand, Accounts
    <3>3. QED
      BY <2>1, <3>1, <3>2, StepWithin, TablesKeep DEF Accounts, ResearchTypeOK
  <2>4. QED
    BY <2>2, <2>3
<1>4. ASSUME NEW h \in Handler, Register(h) PROVE Accounts'
  <2>. PICK c : c = call[h]
    OBVIOUS
  <2>1. c.phase = "allowed" /\ c.id \in Request /\ UNCHANGED <<now, paid>>
    BY <1>4 DEF Register, Accounts, CallInHand
  <2>2. CASE Stored(c.id)
    BY <1>4, <2>1, <2>2, LeaveKeeps, TablesKeep DEF Register, Accounts, ResearchTypeOK
  <2>3. CASE ~Stored(c.id)
    <3>1. /\ locked' = locked
          /\ call'[h].phase = "registered" /\ call'[h].id = c.id
          /\ \A g \in Handler \ {h} : call'[g] = call[g]
      BY <1>4, <2>3 DEF Register, ResearchTypeOK, Call
    <3>2. run' = [run EXCEPT ![c.id] =
                    [NoRun EXCEPT !.status = "running", !.ask = c.ask, !.at = now]]
      BY <1>4, <2>3 DEF Register
    <3>3. /\ run'[c.id].status = "running" /\ run'[c.id].at = now
          /\ \A r \in Request \ {c.id} : run'[r] = run[r]
      BY <2>1, <3>2 DEF ResearchTypeOK, NoRun
    <3>4. Stored(c.id)'
      BY <3>3 DEF Stored, NoRun
    <3>5. paid[c.id].search = 0 /\ paid[c.id].summary = 0
      BY <2>1, <2>3 DEF Accounts, Recorded, ResearchTypeOK, Bill
    <3>6. CallInHand(call[h])'
      BY <2>1, <3>1, <3>4, <3>5 DEF CallInHand
    <3>7. Recorded'
      BY <2>1, <3>3, <3>4 DEF Accounts, Recorded, Stored, ResearchTypeOK
    <3>8. CitedFromEvidence'
      BY <3>3 DEF Accounts, CitedFromEvidence
    <3>9. QED
      BY <2>1, <3>1, <3>6, <3>7, <3>8, StepWithin DEF Accounts
  <2>4. QED
    BY <2>2, <2>3
<1>5. ASSUME NEW h \in Handler, NEW pages, Search(h, pages) PROVE Accounts'
  <2>. PICK c : c = call[h]
    OBVIOUS
  <2>1. /\ c.phase = "registered" /\ UNCHANGED <<now, run, locked>>
        /\ c.id \in Request /\ Stored(c.id)
        /\ paid[c.id].search = 0 /\ paid[c.id].summary = 0
    BY <1>5 DEF Search, Accounts, CallInHand
  <2>2. /\ paid'[c.id].search = 1 /\ paid'[c.id].summary = 0
        /\ \A r \in Request \ {c.id} : paid'[r] = paid[r]
    BY <1>5, <2>1 DEF Search, ResearchTypeOK, Bill
  <2>3. Evidence(pages) \subseteq Usable
    BY DEF Evidence
  <2>4. /\ call'[h].id = c.id
        /\ \/ call'[h].phase = "ended" /\ call'[h].outcome = "failed"
           \/ call'[h].phase = "searched" /\ call'[h].evidence = Evidence(pages)
        /\ \A g \in Handler \ {h} : call'[g] = call[g]
    BY <1>5 DEF Search, ResearchTypeOK, Call
  <2>5. CallInHand(call[h])'
    BY <2>1, <2>2, <2>3, <2>4 DEF CallInHand, Stored
  <2>6. Recorded'
    BY <2>1, <2>2 DEF Accounts, Recorded, Stored
  <2>7. CitedFromEvidence'
    BY <2>1 DEF Accounts, CitedFromEvidence
  <2>8. QED
    BY <2>1, <2>4, <2>5, <2>6, <2>7, StepWithin DEF Accounts
<1>6. ASSUME NEW h \in Handler, NEW refs \in SUBSET Page, Summarise(h, refs) PROVE Accounts'
  <2>. PICK c : c = call[h]
    OBVIOUS
  <2>1. /\ c.phase = "searched" /\ UNCHANGED <<now, run, locked>>
        /\ c.id \in Request /\ Stored(c.id) /\ c.evidence \subseteq Usable
        /\ paid[c.id].search = 1 /\ paid[c.id].summary = 0
    BY <1>6 DEF Summarise, Accounts, CallInHand
  <2>2. /\ paid'[c.id].search = 1 /\ paid'[c.id].summary = 1
        /\ \A r \in Request \ {c.id} : paid'[r] = paid[r]
    BY <1>6, <2>1 DEF Summarise, ResearchTypeOK, Bill
  <2>3. /\ call'[h].id = c.id /\ call'[h].phase = "ended"
        /\ \/ call'[h].outcome = "failed"
           \/ /\ call'[h].outcome = "needs_review" /\ refs # {}
              /\ call'[h].cites = refs /\ call'[h].evidence = c.evidence
              /\ refs \subseteq c.evidence
        /\ \A g \in Handler \ {h} : call'[g] = call[g]
    BY <1>6 DEF Summarise, ResearchTypeOK, Call
  <2>4. CallInHand(call[h])'
    BY <2>1, <2>3 DEF CallInHand, Stored
  <2>5. Recorded'
    BY <2>1, <2>2 DEF Accounts, Recorded, Stored
  <2>6. CitedFromEvidence'
    BY <2>1 DEF Accounts, CitedFromEvidence
  <2>7. QED
    BY <2>1, <2>3, <2>4, <2>5, <2>6, StepWithin DEF Accounts
<1>7. ASSUME NEW h \in Handler, NEW outcome, ProviderFails(h, outcome) PROVE Accounts'
  <2>. PICK c : c = call[h]
    OBVIOUS
  <2>1. /\ c.phase \in {"registered", "searched"} /\ UNCHANGED <<now, run, locked>>
        /\ c.id \in Request /\ Stored(c.id)
        /\ paid[c.id].search = IF c.phase = "registered" THEN 0 ELSE 1
        /\ paid[c.id].summary = 0
    BY <1>7 DEF ProviderFails, Accounts, CallInHand
  <2>2. /\ paid'[c.id].search = 1 /\ paid'[c.id].summary \in {0, 1}
        /\ \A r \in Request \ {c.id} : paid'[r] = paid[r]
    BY <1>7, <2>1 DEF ProviderFails, ResearchTypeOK, Bill
  <2>3. /\ call'[h].id = c.id /\ call'[h].phase = "ended"
        /\ call'[h].outcome \in {"uncertain", "failed"}
        /\ \A g \in Handler \ {h} : call'[g] = call[g]
    BY <1>7 DEF ProviderFails, ResearchTypeOK, Call
  <2>4. CallInHand(call[h])'
    BY <2>1, <2>3 DEF CallInHand, Stored
  <2>5. Recorded'
    BY <2>1, <2>2 DEF Accounts, Recorded, Stored
  <2>6. CitedFromEvidence'
    BY <2>1 DEF Accounts, CitedFromEvidence
  <2>7. QED
    BY <2>1, <2>3, <2>4, <2>5, <2>6, StepWithin DEF Accounts
<1>8. ASSUME NEW h \in Handler, Record(h) PROVE Accounts'
  <2>. PICK c : c = call[h]
    OBVIOUS
  <2>1. /\ c.phase = "ended" /\ UNCHANGED <<now, paid>> /\ Leave(h)
        /\ c.id \in Request /\ Stored(c.id) /\ CallInHand(c)
        /\ c.outcome # "none"
    BY <1>8 DEF Record, Accounts, CallInHand
  <2>2. /\ run'[c.id].status = c.outcome /\ run'[c.id].cites = c.cites
        /\ run'[c.id].at = run[c.id].at
        /\ c.outcome = "needs_review" => run'[c.id].evidence = c.evidence
        /\ \A r \in Request \ {c.id} : run'[r] = run[r]
    BY <1>8, <2>1 DEF Record, ResearchTypeOK, RunRow
  <2>3. Stored(c.id)'
    BY <2>1, <2>2 DEF Stored, NoRun
  <2>4. Recorded'
    BY <2>1, <2>2, <2>3 DEF Accounts, Recorded, Stored
  <2>5. CitedFromEvidence'
    BY <2>1, <2>2 DEF Accounts, CitedFromEvidence, CallInHand
  <2>6. ASSUME NEW g \in Handler \ {h} PROVE CallInHand(call[g])'
    <3>1. call'[g] = call[g] /\ call[g].phase \notin Paying /\ CallInHand(call[g])
      BY <2>1, Alone, LeaveKeeps DEF Accounts
    <3>2. QED
      BY <3>1 DEF CallInHand
  <2>7. QED
    BY <2>1, <2>4, <2>5, <2>6, LeaveKeeps DEF Accounts
<1>9. ASSUME NEW g, CrashAndRestart(g) PROVE Accounts'
  <2>1. \A h \in Handler : call'[h] = NoCall /\ CallInHand(call[h])'
    BY <1>9 DEF CrashAndRestart, CallInHand, NoCall
  <2>2. Exclusive'
    BY <1>9, <2>1 DEF CrashAndRestart, Exclusive, NoCall
  <2>3. UNCHANGED <<run, paid, now>>
    BY <1>9 DEF CrashAndRestart
  <2>4. QED
    BY <2>1, <2>2, <2>3, TablesKeep DEF Accounts, ResearchTypeOK
<1>10. CASE Tick
  <2>1. Exclusive'
    BY <1>10 DEF Tick, Accounts, Exclusive
  <2>2. QED
    BY <1>10, <2>1, TablesKeep DEF Tick, Accounts, ResearchTypeOK
<1>11. CASE UNCHANGED researchVars
  <2>1. Exclusive'
    BY <1>11 DEF researchVars, Accounts, Exclusive
  <2>2. QED
    BY <1>11, <2>1, TablesKeep DEF researchVars, Accounts, ResearchTypeOK
<1>12. QED
  BY <1>1, <1>2, <1>3, <1>4, <1>5, <1>6, <1>7, <1>8, <1>9, <1>10, <1>11 DEF ResearchNext

-----------------------------------------------------------------------------
\* Counts are counts.
LEMMA RecentCounts ==
    ASSUME NEW t
    PROVE  IsFiniteSet(Recent(t)) /\ Cardinality(Recent(t)) \in Nat
<1>1. IsFiniteSet(Request) /\ Recent(t) \subseteq Request
  BY ResearchAssumption DEF Recent
<1>2. QED
  BY <1>1, FS_Subset, FS_CardinalityType

\* Steps that neither add a row nor change its time change no count.
LEMMA CountsStay ==
    ASSUME \A q \in Request : Stored(q)' = Stored(q),
           \A q \in Request : Stored(q) => run'[q].at = run[q].at
    PROVE  /\ \A t : Recent(t)' = Recent(t)
           /\ WithinLimit => WithinLimit'
<1>1. ASSUME NEW t PROVE Recent(t)' = Recent(t)
  BY DEF Recent
<1>2. ASSUME WithinLimit, NEW r \in Request, Stored(r)', NEW t, t = run'[r].at
      PROVE  Cardinality(Recent(t)') <= DailyLimit
  <2>1. Stored(r) /\ t = run[r].at
    BY <1>2
  <2>2. Cardinality(Recent(t)) <= DailyLimit
    BY <1>2, <2>1 DEF WithinLimit, Recent
  <2>3. QED
    BY <1>1, <2>2
<1>3. QED
  BY <1>1, <1>2 DEF WithinLimit, Recent

\* Time only takes rows out of the period that ends now.
LEMMA ClockKeepsLimit ==
    ASSUME ResearchTypeOK, Recorded, Tick
    PROVE  Cardinality(Recent(now)') <= Cardinality(Recent(now))
<1>1. Recent(now)' \subseteq Recent(now)
  BY ResearchAssumption DEF Tick, Recent, Recorded, Stored, ResearchTypeOK, RunRow
<1>2. QED
  BY <1>1, RecentCounts, FS_Subset

\* The count of the code is the count of the period that ends now.
LEMMA UsedIsRecent ==
    ASSUME Recorded
    PROVE  Used = Cardinality(Recent(now))
<1>1. {r \in Request : Stored(r) /\ run[r].at + Day >= now} = Recent(now)
  BY DEF Recent, Recorded
<1>2. QED
  BY <1>1 DEF Used

\* A new row joins the counts of the periods that end now, and there was room.
LEMMA RegisterKeepsLimit ==
    ASSUME ResearchTypeOK, Accounts, RoomLeft, WithinLimit,
           NEW h \in Handler, Register(h), ~Stored(call[h].id)
    PROVE  WithinLimit'
<1>. PICK c : c = call[h]
  OBVIOUS
<1>1. c.phase = "allowed" /\ c.id \in Request /\ ~Stored(c.id)
  BY DEF Register, Accounts, CallInHand
<1>2. run' = [run EXCEPT ![c.id] =
                [NoRun EXCEPT !.status = "running", !.ask = c.ask, !.at = now]]
  BY DEF Register
<1>3. /\ run'[c.id].status = "running" /\ run'[c.id].at = now
      /\ \A r \in Request \ {c.id} : run'[r] = run[r]
  BY <1>1, <1>2 DEF ResearchTypeOK, NoRun
<1>4. ASSUME NEW t PROVE Recent(t)' \subseteq Recent(t) \cup {c.id}
  BY <1>3 DEF Recent, Stored
<1>5. ASSUME NEW r \in Request, Stored(r)', NEW t, t = run'[r].at
      PROVE  Cardinality(Recent(t)') <= DailyLimit
  <2>1. t \in Nat /\ t <= now
    BY <1>3, <1>5 DEF Accounts, Recorded, Stored, ResearchTypeOK, RunRow
  <2>2. CASE t = now
    <3>1. Cardinality(Recent(t)) < DailyLimit
      BY <1>1, <2>2 DEF RoomLeft
    <3>2. IsFiniteSet(Recent(t)) /\ Cardinality(Recent(t)) \in Nat
      BY RecentCounts
    <3>3. /\ IsFiniteSet(Recent(t) \cup {c.id})
          /\ Cardinality(Recent(t) \cup {c.id}) =
               IF c.id \in Recent(t) THEN Cardinality(Recent(t))
               ELSE Cardinality(Recent(t)) + 1
      BY <3>2, FS_AddElement, Zenon
    <3>4. /\ IsFiniteSet(Recent(t)')
          /\ Cardinality(Recent(t)') <= Cardinality(Recent(t) \cup {c.id})
      BY <1>4, <3>3, FS_Subset
    <3>5. Cardinality(Recent(t)') \in Nat /\ Cardinality(Recent(t) \cup {c.id}) \in Nat
      BY <3>3, <3>4, FS_CardinalityType
    <3>6. QED
      BY <3>1, <3>2, <3>3, <3>4, <3>5, ResearchAssumption
  <2>3. CASE t # now
    <3>1. r # c.id /\ Stored(r) /\ t = run[r].at
      BY <1>3, <1>5, <2>3 DEF Stored
    <3>2. Recent(t)' = Recent(t)
      BY <1>1, <1>3, <2>1, <2>3 DEF Recent, Stored, ResearchTypeOK
    <3>3. Cardinality(Recent(t)) <= DailyLimit
      BY <3>1 DEF WithinLimit, Recent
    <3>4. QED
      BY <3>2, <3>3
  <2>4. QED
    BY <2>2, <2>3
<1>6. QED
  BY <1>5 DEF WithinLimit, Recent

\* Steps that let nobody in and let no time pass leave the room there is.
LEMMA RoomStays ==
    ASSUME RoomLeft, WithinLimit, now' = now,
           \A q \in Request : Stored(q)' = Stored(q),
           \A q \in Request : Stored(q) => run'[q].at = run[q].at,
           \A g \in Handler : call'[g].phase = "allowed" => call[g].phase = "allowed"
    PROVE  RoomLeft' /\ WithinLimit'
<1>1. PICK t : t = now
  OBVIOUS
<1>2. Recent(t)' = Recent(t) /\ WithinLimit'
  BY CountsStay
<1>3. ASSUME NEW g \in Handler, call'[g].phase = "allowed"
      PROVE  Cardinality(Recent(now)') < DailyLimit
  BY <1>1, <1>2, <1>3 DEF RoomLeft, Recent
<1>4. QED
  BY <1>2, <1>3 DEF RoomLeft

\* Every step keeps the limit.
LEMMA LimitKept ==
    ASSUME ResearchIInv, [ResearchNext]_researchVars
    PROVE  RoomLeft' /\ WithinLimit'
<1> USE DEF ResearchIInv
<1>1. ASSUME NEW h \in Handler, NEW r \in Request, NEW a \in Ask, Submit(h, r, a)
      PROVE  RoomLeft' /\ WithinLimit'
  <2>1. /\ UNCHANGED <<run, now>>
        /\ \A g \in Handler : call'[g].phase = "allowed" => call[g].phase = "allowed"
    BY <1>1 DEF Submit, ResearchTypeOK, NoCall
  <2>2. QED
    BY <2>1, RoomStays DEF Stored
<1>2. ASSUME NEW h \in Handler, Lock(h) PROVE RoomLeft' /\ WithinLimit'
  <2>1. /\ UNCHANGED <<run, now>>
        /\ \A g \in Handler : call'[g].phase = "allowed" => call[g].phase = "allowed"
    BY <1>2 DEF Lock, ResearchTypeOK, Call, NoCall
  <2>2. QED
    BY <2>1, RoomStays DEF Stored
<1>3. ASSUME NEW h \in Handler, Count(h) PROVE RoomLeft' /\ WithinLimit'
  <2>1. UNCHANGED <<run, now>>
    BY <1>3 DEF Count
  <2>2. WithinLimit'
    BY <2>1 DEF WithinLimit, Stored
  <2>3. CASE Used >= DailyLimit
    <3>1. \A g \in Handler : call'[g].phase = "allowed" => call[g].phase = "allowed"
      BY <1>3, <2>3 DEF Count, Leave, ResearchTypeOK, NoCall
    <3>2. QED
      BY <2>1, <3>1, RoomStays DEF Stored
  <2>4. CASE ~(Used >= DailyLimit)
    <3>1. Cardinality(Recent(now)) < DailyLimit
      BY <2>4, UsedIsRecent, RecentCounts, ResearchAssumption DEF Accounts
    <3>2. Recent(now)' = Recent(now)
      BY <2>1 DEF Recent, Stored
    <3>3. QED
      BY <2>2, <3>1, <3>2 DEF RoomLeft
  <2>5. QED
    BY <2>3, <2>4
<1>4. ASSUME NEW h \in Handler, Register(h) PROVE RoomLeft' /\ WithinLimit'
  <2>1. CASE Stored(call[h].id)
    <3>1. /\ UNCHANGED <<run, now>>
          /\ \A g \in Handler : call'[g].phase = "allowed" => call[g].phase = "allowed"
      BY <1>4, <2>1 DEF Register, Leave, ResearchTypeOK, NoCall
    <3>2. QED
      BY <3>1, RoomStays DEF Stored
  <2>2. CASE ~Stored(call[h].id)
    <3>1. WithinLimit'
      BY <1>4, <2>2, RegisterKeepsLimit
    <3>2. call[h].phase = "allowed" /\ call'[h].phase = "registered"
      BY <1>4, <2>2 DEF Register, ResearchTypeOK, Call
    <3>3. ASSUME NEW g \in Handler \ {h} PROVE call'[g].phase # "allowed"
      <4>1. call'[g] = call[g]
        BY <1>4, <2>2 DEF Register, ResearchTypeOK
      <4>2. QED
        BY <3>2, <4>1, Alone DEF Holding
    <3>4. QED
      BY <3>1, <3>2, <3>3 DEF RoomLeft
  <2>3. QED
    BY <2>1, <2>2
<1>5. ASSUME NEW h \in Handler, NEW pages, Search(h, pages) PROVE RoomLeft' /\ WithinLimit'
  <2>1. /\ UNCHANGED <<run, now>>
        /\ \A g \in Handler : call'[g].phase = "allowed" => call[g].phase = "allowed"
    BY <1>5 DEF Search, ResearchTypeOK, Call
  <2>2. QED
    BY <2>1, RoomStays DEF Stored
<1>6. ASSUME NEW h \in Handler, NEW refs \in SUBSET Page, Summarise(h, refs)
      PROVE  RoomLeft' /\ WithinLimit'
  <2>1. /\ UNCHANGED <<run, now>>
        /\ \A g \in Handler : call'[g].phase = "allowed" => call[g].phase = "allowed"
    BY <1>6 DEF Summarise, ResearchTypeOK, Call
  <2>2. QED
    BY <2>1, RoomStays DEF Stored
<1>7. ASSUME NEW h \in Handler, NEW outcome, ProviderFails(h, outcome)
      PROVE  RoomLeft' /\ WithinLimit'
  <2>1. /\ UNCHANGED <<run, now>>
        /\ \A g \in Handler : call'[g].phase = "allowed" => call[g].phase = "allowed"
    BY <1>7 DEF ProviderFails, ResearchTypeOK, Call
  <2>2. QED
    BY <2>1, RoomStays DEF Stored
<1>8. ASSUME NEW h \in Handler, Record(h) PROVE RoomLeft' /\ WithinLimit'
  <2>. PICK c : c = call[h]
    OBVIOUS
  <2>1. /\ now' = now /\ c.id \in Request /\ Stored(c.id) /\ c.outcome # "none"
        /\ \A g \in Handler : call'[g].phase = "allowed" => call[g].phase = "allowed"
    BY <1>8 DEF Record, Leave, ResearchTypeOK, NoCall, Accounts, CallInHand, Paying
  <2>2. /\ run'[c.id].status = c.outcome /\ run'[c.id].at = run[c.id].at
        /\ \A r \in Request \ {c.id} : run'[r] = run[r]
    BY <1>8, <2>1 DEF Record, ResearchTypeOK, RunRow
  <2>3. Stored(c.id)'
    BY <2>1, <2>2 DEF Stored, NoRun
  <2>4. /\ \A q \in Request : Stored(q)' = Stored(q)
        /\ \A q \in Request : Stored(q) => run'[q].at = run[q].at
    BY <2>1, <2>2, <2>3 DEF Stored
  <2>5. QED
    BY <2>1, <2>4, RoomStays
<1>9. ASSUME NEW g, CrashAndRestart(g) PROVE RoomLeft' /\ WithinLimit'
  <2>1. /\ UNCHANGED <<run, now>>
        /\ \A h \in Handler : call'[h].phase = "allowed" => call[h].phase = "allowed"
    BY <1>9 DEF CrashAndRestart, NoCall
  <2>2. QED
    BY <2>1, RoomStays DEF Stored
<1>10. CASE Tick
  <2>1. /\ UNCHANGED run /\ call' = call
        /\ Cardinality(Recent(now)') <= Cardinality(Recent(now))
    BY <1>10, ClockKeepsLimit DEF Tick, Accounts
  <2>2. WithinLimit'
    BY <2>1 DEF WithinLimit, Stored
  <2>3. IsFiniteSet(Recent(now)') /\ IsFiniteSet(Recent(now))
    <3>1. IsFiniteSet(Request) /\ Recent(now)' \subseteq Request
      BY ResearchAssumption DEF Recent
    <3>2. QED
      BY <3>1, FS_Subset, RecentCounts
  <2>4. Cardinality(Recent(now)') \in Nat /\ Cardinality(Recent(now)) \in Nat
    BY <2>3, FS_CardinalityType
  <2>5. QED
    BY <2>1, <2>2, <2>4, ResearchAssumption DEF RoomLeft
<1>11. CASE UNCHANGED researchVars
  BY <1>11, RoomStays DEF researchVars, Stored
<1>12. QED
  BY <1>1, <1>2, <1>3, <1>4, <1>5, <1>6, <1>7, <1>8, <1>9, <1>10, <1>11 DEF ResearchNext

-----------------------------------------------------------------------------
\* The server starts with nothing recorded, nothing paid and nobody at work.
LEMMA ResearchStarts == ASSUME ResearchInit PROVE ResearchIInv
<1>1. ResearchTypeOK
  BY DEF ResearchInit, ResearchTypeOK, NoRun, NoCall, RunRow, Call, Bill, ResearchPhases
<1>2. \A r \in Request : ~Stored(r) /\ paid[r].search = 0 /\ paid[r].summary = 0
  BY DEF ResearchInit, Stored
<1>3. \A h \in Handler : call[h].phase = "idle"
  BY DEF ResearchInit, NoCall
<1>4. Accounts
  <2>1. Exclusive
    BY <1>3 DEF ResearchInit, Exclusive, Holding
  <2>2. \A h \in Handler : CallInHand(call[h])
    BY <1>3 DEF CallInHand, Paying
  <2>3. Recorded
    BY <1>2 DEF Recorded
  <2>4. CitedFromEvidence
    BY DEF ResearchInit, CitedFromEvidence, NoRun
  <2>5. QED
    BY <2>1, <2>2, <2>3, <2>4 DEF Accounts
<1>5. RoomLeft /\ WithinLimit
  BY <1>2, <1>3 DEF RoomLeft, WithinLimit
<1>6. QED
  BY <1>1, <1>4, <1>5 DEF ResearchIInv

\* The invariant says all that the accounts promise.
LEMMA InvAccountable ==
    ASSUME ResearchIInv
    PROVE  ResearchAccountable
<1>1. PaidOnce
  BY DEF ResearchIInv, Accounts, Recorded, ResearchTypeOK, Bill, PaidOnce
<1>2. NoneForgotten
  <2>1. ASSUME NEW r \in Request, paid[r].search > 0, run[r].at + Patience < now
        PROVE  ShownStatus(r) \in {"needs_review", "uncertain", "failed"}
    <3>1. Stored(r) /\ run[r].status # "none"
      BY <2>1 DEF ResearchIInv, Accounts, Recorded, ResearchTypeOK, Bill
    <3>2. run[r].status \in {"none", "running"} \cup Outcomes
      BY DEF ResearchIInv, ResearchTypeOK, RunRow
    <3>3. QED
      BY <2>1, <3>1, <3>2 DEF ShownStatus, Outcomes
  <2>2. QED
    BY <2>1 DEF NoneForgotten
<1>3. QED
  BY <1>1, <1>2 DEF ResearchIInv, Accounts, ResearchAccountable

\* Manual research is accountable, whatever is retried, raced or interrupted:
\* each request is paid for at most once and within the daily limit, what
\* became of it is told, and a note rests on approved evidence (research_run
\* and fetch_zai_research).
THEOREM ResearchAccountableAlways ==
    ResearchSpec => []ResearchAccountable
<1>1. ResearchInit => ResearchIInv
  BY ResearchStarts
<1>2. ResearchIInv /\ [ResearchNext]_researchVars => ResearchIInv'
  BY TypesKept, AccountsKept, LimitKept DEF ResearchIInv
<1>3. ResearchIInv => ResearchAccountable
  BY InvAccountable
<1>4. QED
  BY <1>1, <1>2, <1>3, PTL DEF ResearchSpec

-----------------------------------------------------------------------------
(***************************************************************************)
(* Fetching and snapshots.                                                 *)
(***************************************************************************)

FetchPhases == {"idle", "asking", "written", "synced", "kept", "loaded"}

Receipts == [content : Content \cup {<<>>}, tag : Revisions \cup {NoTag}, right : BOOLEAN]

Sync == [phase : FetchPhases, at : DOMAIN Urls, attempt : Nat, synced : BOOLEAN,
         receipts : [Url -> Receipts]]

FetchTypeOK == /\ remote \in [Url -> Revisions]
               /\ sync \in Sync
               /\ last \in [Url -> Receipts]
               /\ rows \subseteq Content
               /\ files \in [Content -> {"absent", "whole", "torn"}]
               /\ backup \in [phase : {"none", "dumped"}, missing : SUBSET Content]

\* A receipt with a validator is one of a content of its url.
OfUrl(u, t) == t.tag # NoTag => t.content \in {u} \X Revisions

\* The content of the url in hand, once there is one.
ContentInHand == sync.phase \in {"written", "synced", "kept"} => Mine \in Content

ReceiptsHold == \A u \in Url : /\ OfUrl(u, last[u])
                               /\ OfUrl(u, sync.receipts[u])
                               /\ sync.receipts[u].right

\* What the store holds is whole because what is renamed has been flushed.
StoreHolds ==
    /\ \A x \in Content : files[x] # "torn"
    /\ \A x \in rows : files[x] = "whole" \/ x \in lost
    /\ sync.phase = "synced" => sync.synced
    /\ \A e \in unsettled : e[1] \in Content /\ e = <<e[1], TRUE>>
    /\ sync.phase = "kept" => files[Mine] = "whole"
    /\ IF backup.phase = "none" THEN backup.missing = {} ELSE backup.missing \subseteq rows

FetchIInv == FetchTypeOK /\ ContentInHand /\ ReceiptsHold /\ StoreHolds

-----------------------------------------------------------------------------
\* The first url is one.
LEMMA FirstUrl == /\ 1 \in DOMAIN Urls
                                               /\ Len(Urls) \in Nat
                                               /\ DOMAIN Urls = 1..Len(Urls)
  BY FetchAssumption

LEMMA IdleShape == Idle \in Sync /\ NoReceipt \in Receipts
  BY FirstUrl DEF Idle, Sync, FetchPhases, NoReceipt, Receipts

\* The url in hand is one of the source.
LEMMA HereIsUrl == ASSUME FetchTypeOK PROVE Here \in Url
  BY DEF FetchTypeOK, Sync, Here, Url

\* A receipt is one, and of the url it was asked for.
LEMMA ReceiptShape ==
    ASSUME FetchTypeOK, ReceiptsHold,
           NEW x \in {Here} \X Revisions, NEW tag \in Revisions \cup {NoTag}
    PROVE  Receipt(x, tag) \in Receipts /\ OfUrl(Here, Receipt(x, tag))
<1>1. Here \in Url /\ Last(Here) \in Receipts
  BY HereIsUrl DEF FetchTypeOK, Last
<1>2. x \in Content
  BY <1>1 DEF Content
<1>3. (Trusted(Last(Here)) => x = Served) \in BOOLEAN
  OBVIOUS
<1>4. QED
  BY <1>1, <1>2, <1>3 DEF Receipt, Receipts, OfUrl

\* A 304 confirms the content of the last receipt: its validator is the one of
\* the revision served now.
LEMMA ConfirmedContent ==
    ASSUME FetchIInv, Last(Here).tag = remote[Here]
    PROVE  /\ Last(Here).content \in {Here} \X Revisions
           /\ Trusted(Last(Here)) => Last(Here).content = Served
<1>1. Here \in Url /\ remote[Here] \in Revisions
  BY HereIsUrl DEF FetchIInv, FetchTypeOK
<1>2. remote[Here] # NoTag
  BY <1>1, FetchAssumption DEF Revisions, NoTag
<1>3. Last(Here).content \in {Here} \X Revisions
  BY <1>1, <1>2 DEF FetchIInv, ReceiptsHold, OfUrl, Last
<1>4. QED
  BY <1>1, <1>2, <1>3 DEF Trusted, Served

\* A run that ends without success leaves what it committed.
LEMMA RunEnds ==
    ASSUME FetchIInv, sync' = Idle,
           backup' = backup \/ backup' = NoBackup,
           UNCHANGED <<remote, last, disk>>
    PROVE  FetchIInv'
<1>1. /\ Idle \in Sync /\ Idle.phase = "idle" /\ Idle.synced = FALSE
      /\ \A u \in Url : Idle.receipts[u] = NoReceipt
  BY IdleShape DEF Idle
<1>2. \A u \in Url : OfUrl(u, NoReceipt) /\ NoReceipt.right
  BY DEF OfUrl, NoReceipt
<1>3. FetchTypeOK'
  BY <1>1 DEF FetchIInv, FetchTypeOK, disk, NoBackup
<1>4. ContentInHand'
  BY <1>1 DEF ContentInHand
<1>5. ReceiptsHold'
  BY <1>1, <1>2 DEF FetchIInv, ReceiptsHold
<1>6. StoreHolds'
  <2>1. NoBackup.phase = "none" /\ NoBackup.missing = {}
    BY DEF NoBackup
  <2>2. IF backup'.phase = "none" THEN backup'.missing = {} ELSE backup'.missing \subseteq rows
    BY <2>1 DEF FetchIInv, StoreHolds
  <2>3. QED
    BY <1>1, <2>2 DEF FetchIInv, StoreHolds, disk
<1>7. QED
  BY <1>3, <1>4, <1>5, <1>6 DEF FetchIInv

\* A step of the run that takes no receipt and touches no object.
LEMMA RunAdvances ==
    ASSUME FetchIInv, sync' \in Sync,
           sync'.receipts = sync.receipts,
           sync'.phase \in {"asking", "loaded"} \/ (sync'.phase = "synced" /\ sync'.synced
                                                   /\ sync'.at = sync.at
                                                   /\ sync.phase = "written"),
           UNCHANGED <<remote, last, disk, backup>>
    PROVE  FetchIInv'
<1>1. FetchTypeOK'
  BY DEF FetchIInv, FetchTypeOK, disk
<1>2. ContentInHand'
  BY DEF FetchIInv, ContentInHand, Mine, Here
<1>3. ReceiptsHold'
  BY DEF FetchIInv, ReceiptsHold
<1>4. StoreHolds'
  BY DEF FetchIInv, StoreHolds, disk
<1>5. QED
  BY <1>1, <1>2, <1>3, <1>4 DEF FetchIInv

\* A receipt is taken for a content that is whole, or not in the store yet.
LEMMA RunReceives ==
    ASSUME FetchIInv, NEW x \in {Here} \X Revisions,
           NEW tag \in Revisions \cup {NoTag}, NEW phase \in {"kept", "written"},
           Trusted(Last(Here)) => x = Served,
           phase = "kept" => files[x] = "whole",
           sync' = [sync EXCEPT !.phase = phase, !.receipts[Here] = Receipt(x, tag)],
           UNCHANGED <<remote, last, disk, backup>>
    PROVE  FetchIInv'
<1>1. /\ sync' \in Sync
      /\ sync'.at = sync.at /\ sync'.phase = phase
      /\ sync'.receipts[Here].content = x
      /\ \A u \in Url : OfUrl(u, sync'.receipts[u]) /\ sync'.receipts[u].right
  <2>1. /\ Here \in Url /\ Receipt(x, tag) \in Receipts
        /\ OfUrl(Here, Receipt(x, tag))
    BY HereIsUrl, ReceiptShape DEF FetchIInv
  <2>2. Receipt(x, tag).right /\ Receipt(x, tag).content = x
    BY DEF Receipt
  <2>3. sync \in Sync /\ phase \in FetchPhases
    BY DEF FetchIInv, FetchTypeOK, FetchPhases
  <2> PICK receipts : receipts = [sync.receipts EXCEPT ![Here] = Receipt(x, tag)]
    OBVIOUS
  <2>4. /\ receipts \in [Url -> Receipts]
        /\ \A u \in Url : receipts[u] = IF u = Here THEN Receipt(x, tag) ELSE sync.receipts[u]
    BY <2>1, <2>3 DEF Sync
  <2>5. sync' = [sync EXCEPT !.phase = phase, !.receipts = receipts]
    BY <2>3 DEF Sync
  <2>6. sync' \in Sync
    BY <2>3, <2>4, <2>5 DEF Sync
  <2>7. sync'.at = sync.at /\ sync'.phase = phase /\ sync'.receipts = receipts
    BY <2>3, <2>5 DEF Sync
  <2>8. \A u \in Url : OfUrl(u, receipts[u]) /\ receipts[u].right
    BY <2>1, <2>2, <2>4 DEF FetchIInv, ReceiptsHold
  <2>9. QED
    BY <2>1, <2>2, <2>4, <2>6, <2>7, <2>8
<1>2. Here' = Here /\ Mine' = x
  BY <1>1 DEF Here, Mine
<1>3. x \in Content
  BY HereIsUrl DEF FetchIInv, Content
<1>4. FetchTypeOK'
  BY <1>1 DEF FetchIInv, FetchTypeOK, disk
<1>5. ContentInHand'
  BY <1>2, <1>3 DEF ContentInHand
<1>6. ReceiptsHold'
  BY <1>1 DEF FetchIInv, ReceiptsHold
<1>7. StoreHolds'
  BY <1>1, <1>2 DEF FetchIInv, StoreHolds, disk
<1>8. QED
  BY <1>4, <1>5, <1>6, <1>7 DEF FetchIInv

-----------------------------------------------------------------------------
LEMMA FetchStarts == ASSUME FetchInit PROVE FetchIInv
<1>1. /\ Idle \in Sync /\ NoReceipt \in Receipts /\ Idle.phase = "idle"
      /\ \A u \in Url : Idle.receipts[u] = NoReceipt
  BY IdleShape DEF Idle
<1>2. NoReceipt.tag = NoTag /\ NoReceipt.right
  BY DEF NoReceipt
<1>3. 1 \in Revisions
  BY FetchAssumption DEF Revisions
<1>4. FetchTypeOK
  BY <1>1, <1>3 DEF FetchInit, FetchTypeOK, NoBackup
<1>5. ContentInHand
  BY <1>1 DEF FetchInit, ContentInHand
<1>6. ReceiptsHold
  BY <1>1, <1>2 DEF FetchInit, ReceiptsHold, OfUrl
<1>7. StoreHolds
  BY <1>1 DEF FetchInit, StoreHolds, NoBackup
<1>8. QED
  BY <1>4, <1>5, <1>6, <1>7 DEF FetchIInv

\* The steps of the run that ask, and those of the answers.
LEMMA AskingInv ==
    ASSUME FetchIInv,
           \/ Begin \/ AskAgain \/ Fail \/ Fsync
           \/ \E tag \in Revisions \cup {NoTag} : NotModified(tag) \/ Modified(tag)
    PROVE  FetchIInv'
<1>1. sync \in Sync /\ sync.attempt \in Nat
  BY DEF FetchIInv, FetchTypeOK, Sync
<1>2. CASE Begin
  <2>1. Idle \in Sync
    BY IdleShape
  <2>2. sync' \in Sync /\ sync'.phase = "asking" /\ sync'.receipts = Idle.receipts
    BY <1>2, <2>1 DEF Begin, Sync, FetchPhases
  <2>3. FetchTypeOK'
    BY <1>2, <2>2 DEF Begin, FetchIInv, FetchTypeOK, disk
  <2>4. ContentInHand'
    BY <2>2 DEF ContentInHand
  <2>5. ReceiptsHold'
    BY <1>2, <2>2 DEF Begin, FetchIInv, ReceiptsHold, Idle, NoReceipt, OfUrl
  <2>6. StoreHolds'
    BY <1>2, <2>2 DEF Begin, FetchIInv, StoreHolds, disk
  <2>7. QED
    BY <2>3, <2>4, <2>5, <2>6 DEF FetchIInv
<1>3. CASE AskAgain
  <2>1. CASE sync.attempt < Attempts
    <3>1. /\ sync' \in Sync /\ sync'.receipts = sync.receipts
          /\ sync'.phase = "asking"
      BY <1>1, <1>3, <2>1 DEF AskAgain, Sync
    <3>2. QED
      BY <1>3, <3>1, RunAdvances DEF AskAgain
  <2>2. CASE ~(sync.attempt < Attempts)
    BY <1>3, <2>2, RunEnds DEF AskAgain
  <2>3. QED
    BY <2>1, <2>2
<1>4. CASE Fail
  BY <1>4, RunEnds DEF Fail
<1>5. CASE Fsync
  <2>1. /\ sync' \in Sync /\ sync'.receipts = sync.receipts /\ sync'.at = sync.at
        /\ sync'.phase = "synced" /\ sync'.synced /\ sync.phase = "written"
    BY <1>1, <1>5 DEF Fsync, Flushed, Sync, FetchPhases
  <2>2. QED
    BY <1>5, <2>1, RunAdvances DEF Fsync
<1>6. ASSUME NEW tag \in Revisions \cup {NoTag}, NotModified(tag) PROVE FetchIInv'
  <2>1. /\ Last(Here).content \in {Here} \X Revisions
        /\ Trusted(Last(Here)) => Last(Here).content = Served
    BY <1>6, ConfirmedContent DEF NotModified
  <2>2. CASE Last(Here).content \in rows /\ files[Last(Here).content] = "whole"
    <3>1. sync' = [sync EXCEPT !.phase = "kept",
                               !.receipts[Here] = Receipt(Last(Here).content, tag)]
      BY <1>6, <2>2 DEF NotModified
    <3>2. QED
      BY <1>6, <2>1, <2>2, <3>1, RunReceives DEF NotModified
  <2>3. CASE ~(Last(Here).content \in rows /\ files[Last(Here).content] = "whole")
    BY <1>6, <2>3, RunEnds DEF NotModified
  <2>4. QED
    BY <2>2, <2>3
<1>7. ASSUME NEW tag \in Revisions \cup {NoTag}, Modified(tag) PROVE FetchIInv'
  <2>1. Served \in {Here} \X Revisions
    BY HereIsUrl DEF FetchIInv, FetchTypeOK, Served
  <2>2. CASE files[Served] = "torn"
    BY <1>7, <2>2, RunEnds DEF Modified
  <2>3. CASE files[Served] # "torn"
    <3> PICK phase \in {"kept", "written"} :
               phase = IF files[Served] = "whole" THEN "kept" ELSE "written"
      OBVIOUS
    <3>1. sync' = [sync EXCEPT !.phase = phase, !.receipts[Here] = Receipt(Served, tag)]
      BY <1>1, <1>7, <2>3 DEF Modified, Sync
    <3>2. QED
      BY <1>7, <2>1, <3>1, RunReceives DEF Modified
  <2>4. QED
    BY <2>2, <2>3
<1>8. QED
  BY <1>2, <1>3, <1>4, <1>5, <1>6, <1>7

\* The steps of the run that write.
LEMMA WritingInv ==
    ASSUME FetchIInv, Replace \/ Commit \/ Normalise
    PROVE  FetchIInv'
<1>1. sync \in Sync /\ Here \in Url
  BY HereIsUrl DEF FetchIInv, FetchTypeOK
<1>2. CASE Replace
  <2>1. /\ sync' \in Sync /\ sync'.receipts = sync.receipts /\ sync'.at = sync.at
        /\ sync'.phase = "kept"
    BY <1>1, <1>2 DEF Replace, Sync, FetchPhases
  <2>2. Mine' = Mine /\ Mine \in Content /\ sync.synced /\ sync.synced \in BOOLEAN
    BY <1>1, <1>2, <2>1 DEF Replace, FetchIInv, ContentInHand, StoreHolds, Mine, Here, Sync
  <2>3. FetchTypeOK'
    BY <1>2, <2>1, <2>2 DEF Replace, FetchIInv, FetchTypeOK
  <2>4. ContentInHand'
    BY <2>2 DEF ContentInHand
  <2>5. ReceiptsHold'
    BY <1>2, <2>1 DEF Replace, FetchIInv, ReceiptsHold
  <2>6. StoreHolds'
    <3>1. \A x \in Content : files'[x] = IF x = Mine THEN "whole" ELSE files[x]
      BY <1>2 DEF Replace, FetchIInv, FetchTypeOK
    <3>2. unsettled' = unsettled \cup {<<Mine, TRUE>>}
      BY <1>2, <2>2 DEF Replace
    <3>3. \A e \in unsettled' : e[1] \in Content /\ e = <<e[1], TRUE>>
      <4>1. <<Mine, TRUE>>[1] = Mine
        OBVIOUS
      <4>2. \A e \in unsettled : e[1] \in Content /\ e = <<e[1], TRUE>>
        BY DEF FetchIInv, StoreHolds
      <4>3. \A e \in unsettled' : e \in unsettled \/ e = <<Mine, TRUE>>
        BY <3>2
      <4>4. QED
        BY <2>2, <4>1, <4>2, <4>3
    <3>4. \A x \in rows' : files'[x] = "whole" \/ x \in lost'
      BY <1>2, <3>1 DEF Replace, FetchIInv, StoreHolds, FetchTypeOK
    <3>5. \A x \in Content : files'[x] # "torn"
      BY <3>1 DEF FetchIInv, StoreHolds
    <3>6. files'[Mine'] = "whole"
      BY <2>2, <3>1
    <3>7. IF backup'.phase = "none" THEN backup'.missing = {}
          ELSE backup'.missing \subseteq rows'
      BY <1>2 DEF Replace, FetchIInv, StoreHolds
    <3>8. QED
      BY <2>1, <3>3, <3>4, <3>5, <3>6, <3>7 DEF StoreHolds
  <2>7. QED
    BY <2>3, <2>4, <2>5, <2>6 DEF FetchIInv
<1>3. CASE Commit
  <2>1. sync' \in Sync /\ sync'.receipts = sync.receipts /\ sync'.phase = "loaded"
    BY <1>1, <1>3 DEF Commit, Sync, FetchPhases
  <2>2. Mine \in Content /\ files[Mine] = "whole"
    BY <1>3 DEF Commit, FetchIInv, ContentInHand, StoreHolds
  <2>3. FetchTypeOK'
    BY <1>3, <2>1, <2>2 DEF Commit, FetchIInv, FetchTypeOK
  <2>4. ContentInHand'
    BY <2>1 DEF ContentInHand
  <2>5. ReceiptsHold'
    BY <1>3, <2>1 DEF Commit, FetchIInv, ReceiptsHold
  <2>6. StoreHolds'
    BY <1>3, <2>1, <2>2 DEF Commit, FetchIInv, StoreHolds
  <2>7. QED
    BY <2>3, <2>4, <2>5, <2>6 DEF FetchIInv
<1>4. CASE Normalise
  <2>1. CASE sync.at < Len(Urls)
    <3>1. /\ sync' \in Sync /\ sync'.receipts = sync.receipts
          /\ sync'.phase = "asking" /\ last' = last
      <4>1. sync.at + 1 \in DOMAIN Urls
        BY <1>1, <2>1, FirstUrl DEF Sync
      <4> PICK at \in DOMAIN Urls : at = sync.at + 1
        BY <4>1
      <4>2. sync' = [sync EXCEPT !.phase = "asking", !.at = at, !.attempt = 1]
        BY <1>1, <1>4, <2>1 DEF Normalise
      <4>3. QED
        BY <1>1, <1>4, <2>1, <4>2 DEF Normalise, Sync, FetchPhases
    <3>2. QED
      BY <1>4, <3>1, RunAdvances DEF Normalise
  <2>2. CASE ~(sync.at < Len(Urls))
    <3>1. sync' = Idle /\ last' = sync.receipts /\ UNCHANGED <<remote, disk, backup>>
      BY <1>4, <2>2 DEF Normalise
    <3>2. /\ Idle \in Sync /\ Idle.phase = "idle"
          /\ \A u \in Url : Idle.receipts[u] = NoReceipt
      BY IdleShape DEF Idle
    <3>3. FetchTypeOK'
      BY <1>1, <3>1, <3>2 DEF FetchIInv, FetchTypeOK, disk, Sync
    <3>4. ContentInHand'
      BY <3>1, <3>2 DEF ContentInHand
    <3>5. ReceiptsHold'
      BY <3>1, <3>2 DEF FetchIInv, ReceiptsHold, OfUrl, NoReceipt
    <3>6. StoreHolds'
      BY <3>1, <3>2 DEF FetchIInv, StoreHolds, disk
    <3>7. QED
      BY <3>3, <3>4, <3>5, <3>6 DEF FetchIInv
  <2>3. QED
    BY <2>1, <2>2
<1>5. QED
  BY <1>2, <1>3, <1>4

\* A power loss tears nothing, since every rename came after its flush, and
\* what it takes is known to be lost.
LEMMA PowerLossInv ==
    ASSUME FetchIInv, NEW gone \in SUBSET Content, PowerLoss(gone)
    PROVE  FetchIInv'
<1>1. /\ \A x \in Content : files'[x] = IF x \in gone THEN "absent" ELSE files[x]
      /\ files' \in [Content -> {"absent", "whole", "torn"}]
  <2>1. \A x \in Content : <<x, FALSE>> \notin unsettled
    BY DEF FetchIInv, StoreHolds
  <2>2. QED
    BY <2>1 DEF PowerLoss, FetchIInv, FetchTypeOK
<1>2. /\ sync' = Idle /\ unsettled' = {} /\ lost' = lost \cup gone
      /\ backup' = IF backup.phase = "dumped" THEN NoBackup ELSE backup
      /\ UNCHANGED <<remote, last, rows>>
  BY DEF PowerLoss, Die
<1>3. /\ Idle \in Sync /\ Idle.phase = "idle"
      /\ \A u \in Url : Idle.receipts[u] = NoReceipt
  BY IdleShape DEF Idle
<1>4. backup' \in [phase : {"none", "dumped"}, missing : SUBSET Content]
  BY <1>2 DEF NoBackup, FetchIInv, FetchTypeOK
<1>5. FetchTypeOK'
  BY <1>1, <1>2, <1>3, <1>4 DEF FetchIInv, FetchTypeOK
<1>6. ContentInHand'
  BY <1>2, <1>3 DEF ContentInHand
<1>7. ReceiptsHold'
  BY <1>2, <1>3 DEF FetchIInv, ReceiptsHold, OfUrl, NoReceipt
<1>8. StoreHolds'
  <2>1. \A x \in Content : files'[x] # "torn"
    BY <1>1 DEF FetchIInv, StoreHolds
  <2>2. \A x \in rows' : files'[x] = "whole" \/ x \in lost'
    BY <1>1, <1>2 DEF FetchIInv, StoreHolds, FetchTypeOK
  <2>3. backup'.phase = "none" /\ backup'.missing = {}
    BY <1>2 DEF NoBackup, FetchIInv, StoreHolds, FetchTypeOK
  <2>4. QED
    BY <1>2, <1>3, <2>1, <2>2, <2>3 DEF StoreHolds
<1>9. QED
  BY <1>5, <1>6, <1>7, <1>8 DEF FetchIInv

\* What the source, the file system and the backup do.
LEMMA OutsideInv ==
    ASSUME FetchIInv,
           \/ \E u \in Url, rev \in Revisions : Publish(u, rev)
           \/ Settle \/ Crash \/ Dump \/ CopyTree
    PROVE  FetchIInv'
<1>1. CASE \E u \in Url, rev \in Revisions : Publish(u, rev)
  <2>1. /\ remote' \in [Url -> Revisions]
        /\ UNCHANGED <<sync, last, disk, backup>>
    BY <1>1 DEF Publish, FetchIInv, FetchTypeOK
  <2>2. QED
    BY <2>1 DEF FetchIInv, FetchTypeOK, ContentInHand,
             ReceiptsHold, StoreHolds, Mine, Here, disk
<1>2. CASE Settle
  BY <1>2 DEF Settle, FetchIInv, FetchTypeOK, ContentInHand,
             ReceiptsHold, StoreHolds, Mine, Here
<1>3. CASE Crash
  BY <1>3, RunEnds DEF Crash, Die
<1>4. CASE Dump
  <2>1. backup' \in [phase : {"none", "dumped"}, missing : SUBSET Content]
        /\ backup'.phase = "dumped" /\ backup'.missing = rows
    BY <1>4 DEF Dump, FetchIInv, FetchTypeOK
  <2>2. UNCHANGED <<remote, sync, last, disk>>
    BY <1>4 DEF Dump
  <2>3. QED
    BY <2>1, <2>2 DEF FetchIInv, FetchTypeOK, ContentInHand,
             ReceiptsHold, StoreHolds, Mine, Here, disk
<1>5. CASE CopyTree
  <2>1. \A x \in backup.missing : files[x] = "whole" \/ x \in lost
    BY <1>5 DEF CopyTree, FetchIInv, StoreHolds
  <2>2. backup' = [phase |-> "none", missing |-> {}]
    BY <1>5, <2>1 DEF CopyTree
  <2>3. UNCHANGED <<remote, sync, last, disk>>
    BY <1>5 DEF CopyTree
  <2>4. /\ backup' \in [phase : {"none", "dumped"}, missing : SUBSET Content]
        /\ backup'.phase = "none" /\ backup'.missing = {}
    BY <2>2
  <2>5. QED
    BY <2>3, <2>4 DEF FetchIInv, FetchTypeOK, ContentInHand,
             ReceiptsHold, StoreHolds, Mine, Here, disk
<1>6. QED
  BY <1>1, <1>2, <1>3, <1>4, <1>5

LEMMA FetchSteps == ASSUME FetchIInv, [FetchNext]_fetchVars PROVE FetchIInv'
<1>1. CASE UNCHANGED fetchVars
  BY <1>1 DEF fetchVars, disk, FetchIInv, FetchTypeOK, ContentInHand,
             ReceiptsHold, StoreHolds, Mine, Here
<1>2. CASE \E gone \in SUBSET Content : PowerLoss(gone)
  BY <1>2, PowerLossInv
<1>3. QED
  BY <1>1, <1>2, AskingInv, WritingInv, OutsideInv DEF FetchNext

LEMMA FetchInduction == FetchSpec => []FetchIInv
<1>1. FetchInit => FetchIInv
  BY FetchStarts
<1>2. FetchIInv /\ [FetchNext]_fetchVars => FetchIInv'
  BY FetchSteps
<1>3. QED
  BY <1>1, <1>2, PTL DEF FetchSpec

-----------------------------------------------------------------------------
\* A run normalises what the source served, 304s included, as long as the
\* validators it sent were those of their own contents (ingestion.py, lines
\* 83-161).
THEOREM FetchedAsServedAlways ==
    FetchSpec => []FetchedAsServed
<1>1. FetchIInv => FetchedAsServed
  BY DEF FetchIInv, ReceiptsHold, FetchedAsServed
<1>2. QED
  BY <1>1, FetchInduction, PTL

\* No object is torn by a crash or a power loss, no row is without its object
\* unless a power loss undid the rename, and a finished backup holds an object
\* for every row it dumped (transport.py, lines 28-50; scripts/data.py, lines
\* 48-102).
THEOREM SnapshotsRestorableAlways ==
    FetchSpec => []SnapshotsRestorable
<1>1. FetchIInv => SnapshotsRestorable
  <2>1. StoreHolds => SnapshotsRestorable
    BY DEF StoreHolds, SnapshotsRestorable
  <2>2. QED
    BY <2>1 DEF FetchIInv
<1>2. QED
  BY <1>1, FetchInduction, PTL

-----------------------------------------------------------------------------
(***************************************************************************)
(* The rate limiter.                                                       *)
(***************************************************************************)

\* A window: instants in the order they came, none of them after t.
Window(w, t) ==
    /\ w \in Seq(Nat)
    /\ \A i, j \in 1..Len(w) : i <= j => w[i] <= w[j]
    /\ \A i \in 1..Len(w) : w[i] <= t

\* The window holds nothing that has expired.
InPeriod(w, t) == \A i \in 1..Len(w) : ~Expired(w[i], t)

\* A bucket b and the POSTs a let through in the period agree from the end on;
\* what only the bucket holds has expired, and what it lost was let through
\* before the table was last full.
Tallies(b, a, fulls, t) ==
    /\ \A i \in 1..Len(a), j \in 1..Len(b) : Len(a) - i = Len(b) - j => a[i] = b[j]
    /\ \A j \in 1..Len(b) : Len(a) <= Len(b) - j => Expired(b[j], t)
    /\ \A i \in 1..Len(a) : Len(b) <= Len(a) - i => \E at \in fulls : a[i] <= at

TableBounded == /\ DOMAIN windows \subseteq Client
                /\ IsFiniteSet(DOMAIN windows)
                /\ Cardinality(DOMAIN windows) <= Capacity

ClientCounted(c) == /\ Window(Bucket(c), time)
                    /\ Len(Bucket(c)) <= Limit
                    /\ Window(admitted[c], time)
                    /\ InPeriod(admitted[c], time)
                    /\ Tallies(Bucket(c), admitted[c], full, time)

\* The inductive invariant.
RateIInv == /\ time \in Nat
            /\ full \subseteq 0..time
            /\ admitted \in [Client -> Seq(Nat)]
            /\ TableBounded
            /\ \A c \in Client : ClientCounted(c)

\* A set of numbers that is not empty has a least one.
LEMMA LeastExists ==
    ASSUME NEW S \in SUBSET Nat, S # {}
    PROVE  \E n \in S : \A m \in S : n <= m
<1> DEFINE T == {0..n : n \in S}
<1>1. IsWellFoundedOn(StrictSubsetOrdering(Nat), FiniteSubsetsOf(Nat))
  BY FS_StrictSubsetOrderingWellFounded
<1>2. T \subseteq FiniteSubsetsOf(Nat)
  <2>1. \A n \in Nat : IsFiniteSet(0..n) /\ 0..n \in SUBSET Nat
    BY FS_Interval
  <2> QED
    BY <2>1 DEF FiniteSubsetsOf
<1>3. T # {}
  OBVIOUS
<1> HIDE DEF T
<1>4. PICK R \in T : \A Q \in T : ~(<<Q, R>> \in StrictSubsetOrdering(Nat))
  BY <1>1, <1>2, <1>3, WFMin
<1>5. PICK n \in S : R = 0..n
  BY <1>4 DEF T
<1>6. ASSUME NEW m \in S, m < n PROVE FALSE
  <2>1. 0..m \in T
    BY DEF T
  <2>2. 0..m \in SUBSET Nat /\ 0..n \in SUBSET Nat
    OBVIOUS
  <2>3. 0..m \subseteq 0..n /\ n \in 0..n /\ n \notin 0..m
    BY <1>6
  <2>4. <<0..m, 0..n>> \in StrictSubsetOrdering(Nat)
    BY <2>2, <2>3 DEF StrictSubsetOrdering
  <2> QED
    BY <1>4, <1>5, <2>1, <2>4
<1> QED
  BY <1>6

\* What the loop leaves of a window: all but an expired head.
LEMMA LiveShape ==
    ASSUME NEW w \in Seq(Nat), NEW t \in Nat
    PROVE  \E n \in 0..Len(w) :
              /\ Live(w, t) \in Seq(Nat)
              /\ Len(Live(w, t)) = Len(w) - n
              /\ \A j \in 1..(Len(w) - n) : Live(w, t)[j] = w[n + j]
              /\ \A j \in 1..n : Expired(w[j], t)
              /\ n < Len(w) => ~Expired(w[n + 1], t)
<1> DEFINE head(i) == /\ \A j \in 1..(i - 1) : Expired(w[j], t)
                      /\ i <= Len(w) => ~Expired(w[i], t)
           ends == {i \in 1..(Len(w) + 1) : i <= Len(w) => ~Expired(w[i], t)}
           first == CHOOSE i \in 1..(Len(w) + 1) : head(i)
<1>1. Len(w) \in Nat /\ \A i \in 1..Len(w) : w[i] \in Nat
  OBVIOUS
<1>2. first \in 1..(Len(w) + 1) /\ head(first)
  <2>1. ends \in SUBSET Nat /\ Len(w) + 1 \in ends
    BY <1>1
  <2>2. PICK i \in ends : \A m \in ends : i <= m
    BY <2>1, LeastExists
  <2>3. head(i)
    BY <1>1, <2>2
  <2>4. i \in 1..(Len(w) + 1)
    BY <2>2
  <2> HIDE DEF head
  <2> QED
    BY <2>3, <2>4
<1>3. Live(w, t) = SubSeq(w, first, Len(w))
  BY DEF Live
<1> HIDE DEF first
<1>4. /\ SubSeq(w, first, Len(w)) \in Seq(Nat)
      /\ Len(SubSeq(w, first, Len(w))) = Len(w) - (first - 1)
      /\ \A j \in 1..(Len(w) - (first - 1)) : SubSeq(w, first, Len(w))[j] = w[(first - 1) + j]
  <2>1. \A i \in first..Len(w) : w[i] \in Nat
    BY <1>1, <1>2
  <2>2. /\ SubSeq(w, first, Len(w)) \in Seq(Nat)
        /\ Len(SubSeq(w, first, Len(w))) = IF first <= Len(w) THEN Len(w) - first + 1 ELSE 0
        /\ \A j \in 1..(Len(w) - first + 1) : SubSeq(w, first, Len(w))[j] = w[first + j - 1]
    BY <1>1, <1>2, <2>1, SubSeqProperties
  <2>3. \A j \in 1..(Len(w) - (first - 1)) : /\ j \in 1..(Len(w) - first + 1)
                                           /\ first + j - 1 = (first - 1) + j
    BY <1>1, <1>2
  <2> QED
    BY <1>1, <1>2, <2>2, <2>3
<1>0. first - 1 \in 0..Len(w)
  BY <1>1, <1>2
<1> WITNESS first - 1 \in 0..Len(w)
<1>5. \A j \in 1..(first - 1) : Expired(w[j], t)
  BY <1>2
<1>6. first - 1 < Len(w) => ~Expired(w[(first - 1) + 1], t)
  BY <1>1, <1>2
<1> QED
  BY <1>3, <1>4, <1>5, <1>6

\* A window without its expired head is one, and none of it has expired.
LEMMA LiveIsWindow ==
    ASSUME NEW w, NEW then \in Nat, Window(w, then), NEW t \in Nat, then <= t
    PROVE  /\ Window(Live(w, t), t)
           /\ InPeriod(Live(w, t), t)
           /\ Len(Live(w, t)) <= Len(w)
<1> DEFINE l == Live(w, t)
<1>1. Len(w) \in Nat /\ \A i \in 1..Len(w) : w[i] \in Nat
  BY DEF Window
<1>2. PICK n \in 0..Len(w) :
         /\ l \in Seq(Nat)
         /\ Len(l) = Len(w) - n
         /\ \A j \in 1..(Len(w) - n) : l[j] = w[n + j]
         /\ n < Len(w) => ~Expired(w[n + 1], t)
  BY LiveShape DEF Window
<1> HIDE DEF l
<1>3. \A i \in 1..Len(l) : l[i] = w[n + i] /\ n + i \in 1..Len(w) /\ n + 1 \in 1..Len(w)
  BY <1>1, <1>2
<1>4. Window(l, t)
  <2>1. ASSUME NEW i \in 1..Len(l), NEW j \in 1..Len(l), i <= j PROVE l[i] <= l[j]
    <3>1. n + i <= n + j
      BY <1>1, <1>2, <2>1
    <3>2. w[n + i] <= w[n + j]
      BY <1>3, <3>1 DEF Window
    <3> QED
      BY <1>3, <3>2
  <2>2. ASSUME NEW i \in 1..Len(l) PROVE l[i] <= t
    <3>1. w[n + i] <= then
      BY <1>3 DEF Window
    <3> QED
      BY <1>1, <1>3, <3>1
  <2> QED
    BY <1>2, <2>1, <2>2 DEF Window
<1>5. ASSUME NEW i \in 1..Len(l) PROVE ~Expired(l[i], t)
  <2>1. w[n + 1] <= w[n + i] /\ ~Expired(w[n + 1], t)
    BY <1>1, <1>2, <1>3 DEF Window
  <2> QED
    BY <1>1, <1>3, <2>1, RateAssumption DEF Expired
<1> QED
  BY <1>1, <1>2, <1>4, <1>5 DEF l, InPeriod

\* A POST at this instant extends a window.
LEMMA AppendIsWindow ==
    ASSUME NEW w, NEW t \in Nat, Window(w, t)
    PROVE  /\ Window(Append(w, t), t)
           /\ Len(Append(w, t)) = Len(w) + 1
           /\ InPeriod(w, t) => InPeriod(Append(w, t), t)
<1> DEFINE l == Append(w, t)
<1>1. Len(w) \in Nat /\ \A i \in 1..Len(w) : w[i] \in Nat
  BY DEF Window
<1>2. /\ l \in Seq(Nat)
      /\ Len(l) = Len(w) + 1
      /\ \A i \in 1..Len(w) : l[i] = w[i]
      /\ l[Len(w) + 1] = t
  BY AppendProperties DEF Window
<1> HIDE DEF l
<1>3. \A i \in 1..Len(l) : i \in 1..Len(w) \/ i = Len(w) + 1
  BY <1>1, <1>2
<1>4. Window(l, t)
  <2>1. \A i \in 1..Len(w) : l[i] <= t /\ l[i] = w[i]
    BY <1>2 DEF Window
  <2>2. ASSUME NEW i \in 1..Len(l), NEW j \in 1..Len(l), i <= j PROVE l[i] <= l[j]
    <3>1. CASE j = Len(w) + 1
      BY <1>2, <1>3, <2>1, <3>1
    <3>2. CASE j # Len(w) + 1
      <4>1. i \in 1..Len(w) /\ j \in 1..Len(w)
        BY <1>1, <1>2, <2>2, <3>2
      <4> QED
        BY <2>1, <2>2, <4>1 DEF Window
    <3> QED
      BY <3>1, <3>2
  <2>3. \A i \in 1..Len(l) : l[i] <= t
    BY <1>2, <1>3, <2>1
  <2> QED
    BY <1>2, <2>2, <2>3 DEF Window
<1>5. ~Expired(t, t)
  BY RateAssumption DEF Expired
<1> QED
  BY <1>2, <1>3, <1>4, <1>5 DEF l, InPeriod

\* Expired entries may leave the bucket.
LEMMA LiveTallies ==
    ASSUME NEW t \in Nat, NEW b, NEW a, NEW fulls,
           Window(b, t), Window(a, t), InPeriod(a, t), Tallies(b, a, fulls, t)
    PROVE  Tallies(Live(b, t), a, fulls, t)
<1> DEFINE l == Live(b, t)
<1>1. Len(b) \in Nat /\ Len(a) \in Nat
  BY DEF Window
<1>2. PICK n \in 0..Len(b) :
         /\ l \in Seq(Nat)
         /\ Len(l) = Len(b) - n
         /\ \A j \in 1..(Len(b) - n) : l[j] = b[n + j]
         /\ \A j \in 1..n : Expired(b[j], t)
  BY LiveShape DEF Window
<1>3. InPeriod(l, t)
  BY LiveIsWindow
<1> HIDE DEF l
<1>4. ASSUME NEW i \in 1..Len(a), NEW j \in 1..Len(l), Len(a) - i = Len(l) - j
      PROVE  a[i] = l[j]
  <2>1. n + j \in 1..Len(b) /\ Len(a) - i = Len(b) - (n + j)
    BY <1>1, <1>2, <1>4
  <2>2. a[i] = b[n + j]
    BY <2>1 DEF Tallies
  <2> QED
    BY <1>2, <2>2
<1>5. ASSUME NEW j \in 1..Len(l), Len(a) <= Len(l) - j
      PROVE  Expired(l[j], t)
  <2>1. n + j \in 1..Len(b) /\ Len(a) <= Len(b) - (n + j)
    BY <1>1, <1>2, <1>5
  <2>2. Expired(b[n + j], t)
    BY <2>1 DEF Tallies
  <2> QED
    BY <1>2, <2>2
<1>6. ASSUME NEW i \in 1..Len(a), Len(l) <= Len(a) - i
      PROVE  \E at \in fulls : a[i] <= at
  <2>1. CASE Len(b) <= Len(a) - i
    BY <2>1 DEF Tallies
  <2>2. CASE Len(b) > Len(a) - i
    <3>1. Len(b) - (Len(a) - i) \in 1..n
      BY <1>1, <1>2, <1>6, <2>2
    <3>2. n \in 1..Len(b) /\ Len(b) - (Len(a) - i) \in 1..Len(b)
      BY <1>1, <3>1
    <3>3. a[i] = b[Len(b) - (Len(a) - i)]
      <4>1. Len(a) - i = Len(b) - (Len(b) - (Len(a) - i))
        BY <1>1
      <4> QED
        BY <3>2, <4>1 DEF Tallies
    <3> QED
      BY <1>2, <3>1, <3>3 DEF InPeriod
  <2> QED
    BY <1>1, <2>1, <2>2
<1> QED
  BY <1>4, <1>5, <1>6 DEF Tallies, l

\* A POST that is let through enters both.
LEMMA AppendTallies ==
    ASSUME NEW t \in Nat, NEW b \in Seq(Nat), NEW a \in Seq(Nat), NEW fulls,
           Tallies(b, a, fulls, t)
    PROVE  Tallies(Append(b, t), Append(a, t), fulls, t)
<1> DEFINE bb == Append(b, t)
           aa == Append(a, t)
<1>1. /\ Len(b) \in Nat /\ Len(bb) = Len(b) + 1
      /\ \A j \in 1..Len(b) : bb[j] = b[j]
      /\ bb[Len(b) + 1] = t
  BY AppendProperties
<1>2. /\ Len(a) \in Nat /\ Len(aa) = Len(a) + 1
      /\ \A i \in 1..Len(a) : aa[i] = a[i]
      /\ aa[Len(a) + 1] = t
  BY AppendProperties
<1> HIDE DEF aa, bb
<1>3. ASSUME NEW i \in 1..Len(aa), NEW j \in 1..Len(bb), Len(aa) - i = Len(bb) - j
      PROVE  aa[i] = bb[j]
  <2>1. CASE i = Len(a) + 1
    BY <1>1, <1>2, <1>3, <2>1
  <2>2. CASE i # Len(a) + 1
    <3>1. i \in 1..(Len(a) + 1) /\ j \in 1..(Len(b) + 1) /\ Len(a) + 1 - i = Len(b) + 1 - j
      BY <1>1, <1>2, <1>3
    <3>2. Len(a) \in Nat /\ Len(b) \in Nat
      BY <1>1, <1>2
    <3>3. i \in 1..Len(a)
      BY <2>2, <3>1, <3>2
    <3>4. j # Len(b) + 1
      BY <3>1, <3>2, <3>3
    <3>5. j \in 1..Len(b)
      BY <3>1, <3>2, <3>4
    <3>6. Len(a) - i = Len(b) - j
      BY <3>1, <3>2, <3>3, <3>5
    <3> QED
      BY <1>1, <1>2, <3>3, <3>5, <3>6 DEF Tallies
  <2> QED
    BY <2>1, <2>2
<1>4. ASSUME NEW j \in 1..Len(bb), Len(aa) <= Len(bb) - j
      PROVE  Expired(bb[j], t)
  <2>1. j \in 1..Len(b) /\ Len(a) <= Len(b) - j
    BY <1>1, <1>2, <1>4
  <2> QED
    BY <1>1, <2>1 DEF Tallies
<1>5. ASSUME NEW i \in 1..Len(aa), Len(bb) <= Len(aa) - i
      PROVE  \E at \in fulls : aa[i] <= at
  <2>1. i \in 1..Len(a) /\ Len(b) <= Len(a) - i
    BY <1>1, <1>2, <1>5
  <2> QED
    BY <1>2, <2>1 DEF Tallies
<1> QED
  BY <1>3, <1>4, <1>5 DEF Tallies, aa, bb

\* A bucket may be dropped, or never have been, once the table was full.
LEMMA LostTallies ==
    ASSUME NEW t \in Nat, NEW a, Window(a, t), NEW fulls, t \in fulls
    PROVE  Tallies(<<>>, a, fulls, t)
  BY DEF Tallies, Window

\* More instants at which the table was full do no harm.
LEMMA FullerTallies ==
    ASSUME NEW t, NEW a, NEW b, NEW fulls, NEW more, fulls \subseteq more,
           Tallies(b, a, fulls, t)
    PROVE  Tallies(b, a, more, t)
  BY DEF Tallies

\* Time passes: what has expired leaves the history, not the buckets.
LEMMA AgedTallies ==
    ASSUME NEW t \in Nat, NEW b, NEW a, NEW fulls \in SUBSET Nat,
           Window(b, t), Window(a, t), Tallies(b, a, fulls, t)
    PROVE  Tallies(b, Live(a, t + 1), {at \in fulls : ~Expired(at, t + 1)}, t + 1)
<1> DEFINE l == Live(a, t + 1)
<1>1. /\ Len(b) \in Nat /\ Len(a) \in Nat /\ t + 1 \in Nat
      /\ \A i \in 1..Len(a) : a[i] \in Nat
      /\ \A j \in 1..Len(b) : b[j] \in Nat
  BY DEF Window
<1>2. PICK n \in 0..Len(a) :
         /\ l \in Seq(Nat)
         /\ Len(l) = Len(a) - n
         /\ \A j \in 1..(Len(a) - n) : l[j] = a[n + j]
         /\ \A j \in 1..n : Expired(a[j], t + 1)
  BY <1>1, LiveShape DEF Window
<1>3. InPeriod(l, t + 1)
  BY <1>1, LiveIsWindow
<1> HIDE DEF l
<1>4. ASSUME NEW i \in 1..Len(l), NEW j \in 1..Len(b), Len(l) - i = Len(b) - j
      PROVE  l[i] = b[j]
  <2>1. n + i \in 1..Len(a) /\ Len(a) - (n + i) = Len(b) - j
    BY <1>1, <1>2, <1>4
  <2> QED
    BY <1>2, <2>1 DEF Tallies
<1>5. ASSUME NEW j \in 1..Len(b), Len(l) <= Len(b) - j
      PROVE  Expired(b[j], t + 1)
  <2>1. CASE Len(a) <= Len(b) - j
    <3>1. Expired(b[j], t)
      BY <2>1 DEF Tallies
    <3> QED
      BY <1>1, <3>1, RateAssumption DEF Expired
  <2>2. CASE Len(a) > Len(b) - j
    <3>1. Len(a) - (Len(b) - j) \in 1..n
      BY <1>1, <1>2, <1>5, <2>2
    <3>2. Len(a) - (Len(b) - j) \in 1..Len(a)
      BY <1>1, <3>1
    <3>3. a[Len(a) - (Len(b) - j)] = b[j]
      <4>1. Len(a) - (Len(a) - (Len(b) - j)) = Len(b) - j
        BY <1>1
      <4> QED
        BY <3>2, <4>1 DEF Tallies
    <3> QED
      BY <1>2, <3>1, <3>3
  <2> QED
    BY <1>1, <2>1, <2>2
<1>6. ASSUME NEW i \in 1..Len(l), Len(b) <= Len(l) - i
      PROVE  \E at \in {f \in fulls : ~Expired(f, t + 1)} : l[i] <= at
  <2>1. n + i \in 1..Len(a) /\ Len(b) <= Len(a) - (n + i)
    BY <1>1, <1>2, <1>6
  <2>2. PICK at \in fulls : a[n + i] <= at
    BY <2>1 DEF Tallies
  <2>3. l[i] = a[n + i] /\ ~Expired(l[i], t + 1)
    BY <1>2, <1>3 DEF InPeriod
  <2>4. ~Expired(at, t + 1)
    BY <1>1, <2>1, <2>2, <2>3, RateAssumption DEF Expired
  <2> QED
    BY <2>2, <2>3, <2>4
<1> QED
  BY <1>4, <1>5, <1>6 DEF Tallies, l

\* A client nothing is known of has used nothing.
LEMMA NothingCounted ==
    ASSUME NEW t \in Nat, NEW fulls
    PROVE  /\ Window(<<>>, t) /\ InPeriod(<<>>, t) /\ Len(<<>>) <= Limit
           /\ Tallies(<<>>, <<>>, fulls, t)
  BY RateAssumption DEF Window, InPeriod, Tallies

\* What a POST does to the table.
LEMMA PostTable ==
    ASSUME RateIInv, NEW c \in Client, Post(c)
    PROVE  /\ TableBounded'
           /\ \A d \in Client : d # c =>
                 Bucket(d)' = Bucket(d) \/ (Bucket(d)' = <<>> /\ time \in full')
<1> DEFINE D == DOMAIN windows
<1>1. /\ D \subseteq Client /\ IsFiniteSet(D) /\ Cardinality(D) <= Capacity
      /\ Capacity \in Nat \ {0}
  BY RateAssumption DEF RateIInv, TableBounded
<1>2. DOMAIN windows' = Kept(c) \cup {c}
  BY DEF Post
<1>3. \A d \in Kept(c) : d # c => windows'[d] = windows[d]
  BY DEF Post
<1>4. Kept(c) \subseteq D
  BY DEF Kept
<1>5. IsFiniteSet(Kept(c)) /\ Cardinality(Kept(c)) \in Nat
  BY <1>1, <1>4, FS_Subset, FS_CardinalityType
<1>6. /\ IsFiniteSet(Kept(c) \cup {c})
      /\ Cardinality(Kept(c) \cup {c}) = IF c \in Kept(c) THEN Cardinality(Kept(c))
                                                       ELSE Cardinality(Kept(c)) + 1
  BY <1>5, FS_AddElement
<1>7. Cardinality(Kept(c) \cup {c}) <= Capacity
  <2>1. CASE c \in D
    <3>1. Kept(c) = D
      BY <2>1 DEF Kept, Full
    <3> QED
      BY <1>1, <1>6, <2>1, <3>1
  <2>2. CASE c \notin D /\ ~Full(c)
    <3>1. Kept(c) = D /\ ~(Cardinality(D) >= Capacity)
      BY <2>2 DEF Kept, Full
    <3> QED
      BY <1>1, <1>5, <1>6, <2>2, <3>1
  <2>3. CASE Full(c)
    <3>1. CASE Kept(c) = {}
      BY <1>1, <1>6, <3>1, FS_EmptySet
    <3>2. CASE Kept(c) # {}
      <4>1. ~(Cardinality(Kept(c)) >= Capacity)
        BY <2>3, <3>2 DEF Kept
      <4> QED
        BY <1>1, <1>5, <1>6, <4>1
    <3> QED
      BY <3>1, <3>2
  <2> QED
    BY <2>1, <2>2, <2>3
<1>8. TableBounded'
  BY <1>1, <1>2, <1>4, <1>6, <1>7 DEF TableBounded
<1>9. ASSUME NEW d \in Client, d # c
      PROVE  Bucket(d)' = Bucket(d) \/ (Bucket(d)' = <<>> /\ time \in full')
  <2>1. CASE d \in Kept(c)
    <3>1. d \in DOMAIN windows /\ d \in DOMAIN windows'
      BY <1>2, <1>4, <2>1
    <3>2. windows'[d] = windows[d]
      BY <1>3, <1>9, <2>1
    <3> QED
      BY <3>1, <3>2 DEF Bucket
  <2>2. CASE d \notin D
    <3>1. d \notin DOMAIN windows /\ d \notin DOMAIN windows'
      BY <1>2, <1>4, <1>9, <2>2
    <3> QED
      BY <3>1 DEF Bucket
  <2>3. CASE d \notin Kept(c) /\ d \in D
    <3>1. Full(c)
      BY <2>3 DEF Kept
    <3>2. time \in full'
      BY <3>1 DEF Post
    <3> QED
      BY <1>2, <1>9, <2>3, <3>2 DEF Bucket
  <2> QED
    BY <2>1, <2>2, <2>3
<1> QED
  BY <1>8, <1>9

\* What a POST does to the count of its client.
LEMMA PostCounts ==
    ASSUME RateIInv, NEW c \in Client, Post(c)
    PROVE  ClientCounted(c)' /\ admitted' \in [Client -> Seq(Nat)]
<1> DEFINE b == Bucket(c)
           a == admitted[c]
           l == Live(b, time)
<1>1. /\ time \in Nat /\ a \in Seq(Nat) /\ admitted \in [Client -> Seq(Nat)]
      /\ Window(b, time) /\ Len(b) <= Limit
      /\ Window(a, time) /\ InPeriod(a, time)
      /\ Tallies(b, a, full, time)
  BY DEF RateIInv, ClientCounted
<1>2. time' = time /\ full \subseteq full'
  BY DEF Post
<1>3. Tallies(l, a, full', time)
  BY <1>1, <1>2, LiveTallies, FullerTallies
<1>4. Window(l, time) /\ Len(l) <= Len(b)
  BY <1>1, LiveIsWindow
<1>5. l \in Seq(Nat) /\ Len(l) \in Nat /\ Len(b) \in Nat /\ Limit \in Nat
  BY <1>1, <1>4, RateAssumption DEF Window
<1>6. CASE HasRoom(l)
  <2>1. Bucket(c)' = Append(l, time) /\ admitted' = [admitted EXCEPT ![c] = Append(a, time)]
    BY <1>6 DEF Post, Bucket
  <2> HIDE DEF a, l
  <2>2. Append(a, time) \in Seq(Nat)
    BY <1>1, AppendProperties
  <2>3. admitted' \in [Client -> Seq(Nat)] /\ admitted'[c] = Append(a, time)
    BY <1>1, <2>1, <2>2
  <2>4. /\ Window(Append(l, time), time)
        /\ Len(Append(l, time)) = Len(l) + 1
        /\ Window(Append(a, time), time)
        /\ InPeriod(Append(a, time), time)
    BY <1>1, <1>4, AppendIsWindow
  <2>5. Len(l) + 1 <= Limit
    BY <1>5, <1>6 DEF HasRoom
  <2>6. Tallies(Append(l, time), Append(a, time), full', time)
    BY <1>1, <1>3, <1>5, AppendTallies
  <2> QED
    BY <1>2, <2>1, <2>3, <2>4, <2>5, <2>6 DEF ClientCounted
<1>7. CASE ~HasRoom(l)
  <2>1. Bucket(c)' = l /\ admitted' = admitted
    BY <1>7 DEF Post, Bucket
  <2>2. Len(l) <= Limit
    BY <1>1, <1>4, <1>5
  <2> HIDE DEF l
  <2> QED
    BY <1>1, <1>2, <1>3, <1>4, <2>1, <2>2 DEF ClientCounted
<1> QED
  BY <1>6, <1>7

\* A bucket and what was let through in the period agree from the end on,
\* through expiry, eviction and restarts.
THEOREM RateInduction == RateSpec => []RateIInv
<1>1. RateInit => RateIInv
  <2> SUFFICES ASSUME RateInit PROVE RateIInv
    OBVIOUS
  <2>1. DOMAIN windows = {} /\ \A c \in Client : Bucket(c) = <<>> /\ admitted[c] = <<>>
    BY DEF RateInit, NoWindows, Bucket
  <2>2. TableBounded
    <3>1. IsFiniteSet({}) /\ Cardinality({}) = 0 /\ 0 <= Capacity
      BY FS_EmptySet, RateAssumption
    <3> QED
      BY <2>1, <3>1 DEF TableBounded
  <2>3. \A c \in Client : ClientCounted(c)
    BY <2>1, NothingCounted DEF RateInit, ClientCounted
  <2> QED
    BY <2>2, <2>3 DEF RateInit, RateIInv
<1>2. RateIInv /\ [RateNext]_rateVars => RateIInv'
  <2> SUFFICES ASSUME RateIInv, [RateNext]_rateVars PROVE RateIInv'
    OBVIOUS
  <2>1. ASSUME NEW c \in Client, Post(c) PROVE RateIInv'
    <3>1. /\ time \in Nat /\ time' = time /\ full \subseteq full'
          /\ full' \subseteq 0..time'
      BY <2>1 DEF RateIInv, Post
    <3>2. ASSUME NEW d \in Client, d # c PROVE ClientCounted(d)'
      <4>1. admitted'[d] = admitted[d]
        BY <2>1, <3>2 DEF Post, RateIInv
      <4>2. /\ Window(Bucket(d), time) /\ Len(Bucket(d)) <= Limit
            /\ Window(admitted[d], time) /\ InPeriod(admitted[d], time)
            /\ Tallies(Bucket(d), admitted[d], full, time)
        BY DEF RateIInv, ClientCounted
      <4>3. CASE Bucket(d)' = Bucket(d)
        <5>1. Tallies(Bucket(d), admitted[d], full', time)
          BY <3>1, <4>2, FullerTallies
        <5> QED
          BY <3>1, <4>1, <4>2, <4>3, <5>1 DEF ClientCounted
      <4>4. CASE Bucket(d)' = <<>> /\ time \in full'
        <5>1. Tallies(<<>>, admitted[d], full', time)
          BY <3>1, <4>2, <4>4, LostTallies
        <5>2. Window(<<>>, time) /\ Len(<<>>) <= Limit
          BY RateAssumption DEF Window
        <5> QED
          BY <3>1, <4>1, <4>2, <4>4, <5>1, <5>2 DEF ClientCounted
      <4> QED
        BY <2>1, <3>2, <4>3, <4>4, PostTable
    <3> QED
      BY <2>1, <3>1, <3>2, PostTable, PostCounts DEF RateIInv
  <2>2. CASE Restart
    <3>1. /\ DOMAIN windows' = {} /\ time' = time
          /\ \A c \in Client : Bucket(c)' = <<>> /\ admitted'[c] = <<>>
      BY <2>2 DEF Restart, NoWindows, Bucket
    <3>2. TableBounded'
      <4>1. IsFiniteSet({}) /\ Cardinality({}) = 0 /\ 0 <= Capacity
        BY FS_EmptySet, RateAssumption
      <4> QED
        BY <3>1, <4>1 DEF TableBounded
    <3>3. \A c \in Client : ClientCounted(c)'
      BY <3>1, NothingCounted DEF RateIInv, ClientCounted
    <3> QED
      BY <2>2, <3>2, <3>3 DEF Restart, RateIInv
  <2>3. CASE TimePasses
    <3>1. /\ time \in Nat /\ time' = time + 1 /\ time + 1 \in Nat /\ time <= time + 1
          /\ full' = {at \in full : ~Expired(at, time + 1)} /\ full \in SUBSET Nat
          /\ full' \subseteq 0..time'
      <4>1. time \in Nat /\ full \subseteq 0..time
        BY DEF RateIInv
      <4>2. time' = time + 1 /\ full' = {at \in full : ~Expired(at, time + 1)}
        BY <2>3 DEF TimePasses
      <4>3. time + 1 \in Nat /\ time <= time + 1 /\ 0..time \subseteq 0..(time + 1)
        BY <4>1
      <4>4. full' \subseteq full
        BY <4>2
      <4>5. full' \subseteq 0..time'
        BY <4>1, <4>2, <4>3, <4>4
      <4>6. full \in SUBSET Nat
        BY <4>1
      <4> QED
        BY <4>1, <4>2, <4>3, <4>5, <4>6
    <3>2. ASSUME NEW c \in Client
          PROVE  ClientCounted(c)' /\ admitted'[c] \in Seq(Nat)
      <4>1. /\ Bucket(c)' = Bucket(c)
            /\ admitted'[c] = Live(admitted[c], time + 1)
        BY <2>3 DEF TimePasses, Bucket
      <4>2. /\ Window(Bucket(c), time) /\ Len(Bucket(c)) <= Limit
            /\ Window(admitted[c], time)
            /\ Tallies(Bucket(c), admitted[c], full, time)
        BY DEF RateIInv, ClientCounted
      <4>3. Window(Live(admitted[c], time + 1), time + 1)
            /\ InPeriod(Live(admitted[c], time + 1), time + 1)
        BY <3>1, <4>2, LiveIsWindow
      <4>4. Tallies(Bucket(c), Live(admitted[c], time + 1), full', time + 1)
        BY <3>1, <4>2, AgedTallies
      <4>5. Window(Bucket(c), time + 1)
        BY <3>1, <4>2 DEF Window
      <4> QED
        BY <3>1, <4>1, <4>2, <4>3, <4>4, <4>5 DEF ClientCounted, Window
    <3>3. TableBounded'
      BY <2>3 DEF TimePasses, RateIInv, TableBounded
    <3>4. admitted' \in [Client -> Seq(Nat)]
      BY <2>3, <3>2 DEF TimePasses
    <3> QED
      BY <3>1, <3>2, <3>3, <3>4 DEF RateIInv
  <2>4. CASE UNCHANGED rateVars
    BY <2>4 DEF rateVars, RateIInv, TableBounded, ClientCounted, Bucket
  <2> QED
    BY <2>1, <2>2, <2>3, <2>4 DEF RateNext
<1> QED
  BY <1>1, <1>2, PTL DEF RateSpec

\* A client exceeds its budget in a period only where the table was full in it,
\* its bucket counts no POST that was not let through, and the table stays
\* within its capacity (request_context, api.py, lines 80-97).
THEOREM BudgetIsKept == RateSpec => []BudgetHolds
<1>1. RateIInv => BudgetHolds
  <2> SUFFICES ASSUME RateIInv PROVE BudgetHolds
    OBVIOUS
  <2>1. Cardinality(DOMAIN windows) <= Capacity
    BY DEF RateIInv, TableBounded
  <2>2. ASSUME NEW c \in Client
        PROVE  /\ Len(admitted[c]) > Limit => full # {}
               /\ Len(Live(Bucket(c), time)) <= Len(admitted[c])
    <3> DEFINE b == Bucket(c)
               a == admitted[c]
               l == Live(b, time)
    <3>1. /\ time \in Nat /\ Window(b, time) /\ Len(b) <= Limit
          /\ Window(a, time) /\ InPeriod(a, time) /\ Tallies(b, a, full, time)
      BY DEF RateIInv, ClientCounted
    <3>2. Window(l, time) /\ InPeriod(l, time) /\ Tallies(l, a, full, time)
      BY <3>1, LiveIsWindow, LiveTallies
    <3>3. Len(a) \in Nat /\ Len(b) \in Nat /\ Len(l) \in Nat /\ Limit \in Nat
      BY <3>1, <3>2, RateAssumption DEF Window
    <3> HIDE DEF a, b, l
    <3>4. ASSUME Len(a) > Limit PROVE full # {}
      <4>1. 1 \in 1..Len(a) /\ Len(b) <= Len(a) - 1
        BY <3>1, <3>3, <3>4
      <4> QED
        BY <3>1, <4>1 DEF Tallies
    <3>5. ASSUME Len(l) > Len(a) PROVE FALSE
      <4>1. 1 \in 1..Len(l) /\ Len(a) <= Len(l) - 1
        BY <3>3, <3>5
      <4> QED
        BY <3>2, <4>1 DEF Tallies, InPeriod
    <3> QED
      BY <3>3, <3>4, <3>5 DEF a, b, l
  <2> QED
    BY <2>1, <2>2 DEF BudgetHolds
<1> QED
  BY <1>1, RateInduction, PTL

-----------------------------------------------------------------------------
(***************************************************************************)
(* The repair of conflicts.                                                *)
(***************************************************************************)

Fact == [src : Source, value : Value, at : Nat, step : Nat]

\* Every row refers to an observation there is.
WellFormed(d) ==
    /\ d.facts \subseteq Fact
    /\ d.prices = d.facts
    /\ d.claim \in [Source -> d.facts \cup {None}]
    /\ d.current \in d.facts \cup {None}
    /\ UNION d.conflicts \subseteq d.facts

PurgeTypeOK == /\ legacy \in [src : Source \cup {None}, met : Nat]
               /\ clock \in Nat

\* The repair and a sync exclude each other.
RepairedLast == legacy.src # None => before = None

PurgeIInv == PurgeTypeOK /\ RepairedLast /\ WellFormed(db) /\ PurgeSettles

\* Beats is a strict order on observations.
LEMMA BeatsOrder ==
    ASSUME NEW f \in Fact, NEW g \in Fact, NEW h \in Fact
    PROVE  ~Beats(f, f) /\ (Beats(f, g) /\ Beats(g, h) => Beats(f, h))
<1>1. /\ Authority[f.src] \in Nat /\ Authority[g.src] \in Nat /\ Authority[h.src] \in Nat
      /\ f.at \in Nat /\ g.at \in Nat /\ h.at \in Nat
  BY PurgeAssumption DEF Fact
<1> QED
  BY <1>1 DEF Beats

\* Among finitely many observations there is one that no other beats.
LEMMA BestExists ==
    ASSUME NEW E \in SUBSET Fact, IsFiniteSet(E), E # {}
    PROVE  \E e \in E : \A d \in E : ~Beats(d, e)
<1> DEFINE Better(e) == {d \in E : Beats(d, e)}
           T == {Better(e) : e \in E}
<1>1. IsWellFoundedOn(StrictSubsetOrdering(E), FiniteSubsetsOf(E))
  BY FS_StrictSubsetOrderingWellFounded
<1>2. T \subseteq FiniteSubsetsOf(E)
  <2>1. \A e \in E : Better(e) \in SUBSET E
    OBVIOUS
  <2>2. \A S \in SUBSET E : IsFiniteSet(S)
    BY FS_Subset
  <2> QED
    BY <2>1, <2>2 DEF FiniteSubsetsOf
<1>3. T # {}
  OBVIOUS
<1> HIDE DEF T
<1>4. PICK S \in T : \A R \in T : ~(<<R, S>> \in StrictSubsetOrdering(E))
  BY <1>1, <1>2, <1>3, WFMin
<1>5. PICK e \in E : S = Better(e)
  BY <1>4 DEF T
<1>6. ASSUME NEW d \in E, Beats(d, e) PROVE FALSE
  <2>1. Better(d) \in T
    BY DEF T
  <2>2. Better(d) \subseteq Better(e) /\ Better(d) # Better(e)
    <3>1. d \in Better(e) /\ d \notin Better(d)
      BY <1>6, BeatsOrder
    <3>2. Better(d) \subseteq Better(e)
      BY <1>6, BeatsOrder
    <3> QED
      BY <3>1, <3>2
  <2>3. Better(d) \in SUBSET E /\ Better(e) \in SUBSET E
    OBVIOUS
  <2> HIDE DEF Better
  <2>4. <<Better(d), Better(e)>> \in StrictSubsetOrdering(E)
    BY <2>2, <2>3 DEF StrictSubsetOrdering
  <2> QED
    BY <1>4, <1>5, <2>1, <2>4
<1> QED
  BY <1>6

\* What is claimed is finite.
LEMMA ClaimedFinite ==
    ASSUME NEW F, NEW claim \in [Source -> F], NEW S \in SUBSET Source
    PROVE  IsFiniteSet({claim[t] : t \in S})
<1> DEFINE image == [t \in S |-> claim[t]]
<1>1. IsFiniteSet(S)
  BY PurgeAssumption, FS_Subset
<1>2. image \in Surjection(S, {claim[t] : t \in S})
  BY DEF Surjection
<1> QED
  BY <1>1, <1>2, FS_Surjection

\* An observation leaves every row with an observation to refer to.
LEMMA ObserveWellFormed ==
    ASSUME NEW d, WellFormed(d), NEW s \in Source, NEW v \in Value, NEW at \in Nat
    PROVE  WellFormed(Observe(d, s, v, at))
<1> DEFINE prior == d.claim[s]
           f == [src |-> s, value |-> v, at |-> at,
                 step |-> IF prior = None THEN 1 ELSE prior.step + 1]
           claimed == [d.claim EXCEPT ![s] = f]
           others == {d.claim[t] : t \in Source \ {s}} \ {None}
           best == CHOOSE g \in others \cup {f} : \A h \in others \cup {f} : ~Beats(h, g)
<1>1. CASE prior # None /\ prior.value = v
  BY <1>1 DEF Observe
<1>2. CASE ~(prior # None /\ prior.value = v)
  <2>1. f \in Fact
    <3>1. prior # None => prior.step \in Nat
      BY DEF WellFormed, Fact
    <3> QED
      BY <3>1 DEF Fact
  <2>2. others \subseteq d.facts /\ d.facts \subseteq Fact
    BY DEF WellFormed
  <2>3. best \in others \cup {f}
    <3>1. IsFiniteSet(others \cup {f})
      <4>1. IsFiniteSet({d.claim[t] : t \in Source \ {s}})
        BY ClaimedFinite, Source \ {s} \in SUBSET Source DEF WellFormed
      <4>2. IsFiniteSet(others)
        BY <4>1, FS_Difference
      <4> QED
        BY <4>2, FS_AddElement
    <3>2. others \cup {f} \in SUBSET Fact /\ others \cup {f} # {}
      BY <2>1, <2>2
    <3> HIDE DEF f, others
    <3>3. \E g \in others \cup {f} : \A h \in others \cup {f} : ~Beats(h, g)
      BY <3>1, <3>2, BestExists
    <3> QED
      BY <3>3
  <2>4. claimed \in [Source -> d.facts \cup {f} \cup {None}]
    BY DEF WellFormed
  <2>5. UNION {{g, f} : g \in {h \in others : h.value # v}} \subseteq d.facts \cup {f}
    BY <2>2
  <2> DEFINE events == IF d.current = None \/ d.current.value = best.value THEN d.events
                       ELSE d.events \cup {[old |-> d.current, new |-> best, at |-> at]}
             after == [facts |-> d.facts \cup {f},
                       prices |-> d.prices \cup {f},
                       claim |-> claimed,
                       current |-> best,
                       conflicts |-> d.conflicts \cup {{g, f} : g \in {h \in others : h.value # v}},
                       events |-> events]
  <2>6. Observe(d, s, v, at) = after
    BY <1>2 DEF Observe
  <2> HIDE DEF f, claimed, others, best, events
  <2>7. WellFormed(after)
    BY <2>1, <2>2, <2>3, <2>4, <2>5 DEF WellFormed
  <2> QED
    BY <2>6, <2>7
<1> QED
  BY <1>1, <1>2

\* After a repair no two observations of an instant disagree.
LEMMA SurvivorsAgree ==
    ASSUME NEW f \in Survivors, NEW g \in Survivors, g.at = f.at
    PROVE  g.value = f.value
  BY DEF Survivors, Removed, Conflicted

\* The repair establishes what it promises.
LEMMA PurgeRepairs ==
    ASSUME PurgeIInv, NEW survivor, Purge(survivor)
    PROVE  WellFormed(db)' /\ PurgeSettles'
<1>1. survivor \in Survivors
  BY DEF Purge, Earliest
<1>2. Survivors \subseteq db.facts /\ Survivors = db.facts \ Removed
  BY DEF Survivors
<1>3. /\ db'.facts = Survivors
      /\ db'.prices = db.prices \ Removed
      /\ db'.claim = [s \in Source |-> Repointed(db.claim[s], survivor)]
      /\ db'.current = Repointed(db.current, survivor)
      /\ db'.conflicts = {c \in db.conflicts : c \cap Removed = {}}
      /\ db'.events = {e \in db.events : ~Announced(e)}
      /\ before' = db
  BY DEF Purge
<1>4. \A f \in db.facts \cup {None} : Repointed(f, survivor) \in Survivors \cup {None}
  BY <1>1, <1>2 DEF Repointed
<1>5. db'.current = db.current
  BY <1>3 DEF Repointed, Removed
<1>6. WellFormed(db)'
  <2>1. db'.facts \subseteq Fact /\ db'.prices = db'.facts
    BY <1>2, <1>3 DEF PurgeIInv, WellFormed
  <2>2. db'.claim \in [Source -> db'.facts \cup {None}]
    BY <1>3, <1>4 DEF PurgeIInv, WellFormed
  <2>3. db'.current \in db'.facts \cup {None}
    BY <1>3, <1>4 DEF PurgeIInv, WellFormed
  <2>4. UNION db'.conflicts \subseteq db'.facts
    BY <1>2, <1>3 DEF PurgeIInv, WellFormed
  <2> QED
    BY <2>1, <2>2, <2>3, <2>4 DEF WellFormed
<1>7. PurgeSettles'
  <2>1. {db'.claim[s] : s \in Source} \cup {db'.current} \subseteq db'.facts \cup {None}
    BY <1>6 DEF WellFormed
  <2>2. \A f \in db.facts : (\A g \in db.facts : g.at = f.at => g.value = f.value)
                                => f \in db'.facts
    BY <1>2, <1>3 DEF Removed, Conflicted
  <2>3. \A e \in db'.events : \A f \in db.facts :
           e.new.value = f.value /\ e.at = f.at => f \in db'.facts
    BY <1>2, <1>3 DEF Announced
  <2>4. Removed' = {}
    BY <1>3, SurvivorsAgree DEF Removed, Conflicted
  <2> QED
    BY <1>3, <1>5, <1>6, <2>1, <2>2, <2>3, <2>4 DEF PurgeSettles, WellFormed
<1> QED
  BY <1>6, <1>7

\* Every row refers to an observation there is, while old syncs race and after
\* the repair.
THEOREM PurgeInduction == PurgeSpec => []PurgeIInv
<1>1. PurgeInit => PurgeIInv
  BY DEF PurgeInit, PurgeIInv, PurgeTypeOK, RepairedLast, NoSync, WellFormed, PurgeSettles
<1>2. PurgeIInv /\ [PurgeNext]_purgeVars => PurgeIInv'
  <2> SUFFICES ASSUME PurgeIInv, [PurgeNext]_purgeVars PROVE PurgeIInv'
    OBVIOUS
  <2>1. ASSUME NEW s \in Source, LegacyBegin(s) PROVE PurgeIInv'
    BY <2>1 DEF LegacyBegin, NoSync, PurgeIInv, PurgeTypeOK, RepairedLast, WellFormed, PurgeSettles
  <2>2. ASSUME NEW v \in Value, LegacyMeet(v) PROVE PurgeIInv'
    <3>1. before = None
      BY <2>2 DEF LegacyMeet, PurgeIInv, RepairedLast
    <3>2. legacy.src \in Source /\ clock \in Nat
      BY <2>2 DEF LegacyMeet, PurgeIInv, PurgeTypeOK, RepairedLast, NoSync
    <3>3. WellFormed(db)'
      <4>1. WellFormed(Observe(db, legacy.src, v, clock))
        BY <3>2, ObserveWellFormed DEF PurgeIInv
      <4> QED
        BY <2>2, <4>1 DEF LegacyMeet
    <3> QED
      BY <2>2, <3>1, <3>3 DEF LegacyMeet, PurgeIInv, PurgeTypeOK, RepairedLast, PurgeSettles
  <2>3. CASE LegacyCommit
    BY <2>3 DEF LegacyCommit, NoSync, PurgeIInv, PurgeTypeOK, RepairedLast, WellFormed,
                 PurgeSettles, Removed, Conflicted
  <2>4. ASSUME NEW survivor \in db.facts, Purge(survivor) PROVE PurgeIInv'
    BY <2>4, PurgeRepairs DEF Purge, PurgeIInv, PurgeTypeOK, RepairedLast, NoSync
  <2>5. CASE UNCHANGED purgeVars
    BY <2>5 DEF purgeVars, PurgeIInv, PurgeTypeOK, RepairedLast, WellFormed,
                 PurgeSettles, Removed, Conflicted
  <2> QED
    BY <2>1, <2>2, <2>3, <2>4, <2>5 DEF PurgeNext
<1> QED
  BY <1>1, <1>2, PTL DEF PurgeSpec

\* The repair leaves no two observations of an instant that disagree, loses no
\* other, leaves the displayed value and every reference in place, and finds
\* nothing to do a second time (purge_concurrent_conflict_artifacts).
THEOREM PurgeIsSettled == PurgeSpec => []PurgeSettles
<1>1. PurgeIInv => PurgeSettles
  BY DEF PurgeIInv
<1> QED
  BY <1>1, PurgeInduction, PTL
=============================================================================
