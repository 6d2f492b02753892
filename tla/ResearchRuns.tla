---------------------------- MODULE ResearchRuns ----------------------------
(***************************************************************************)
(* Manual AI research: research_run (fener/research.py) and the provider   *)
(* calls it pays for (fener/zai_research.py).                              *)
(*                                                                         *)
(* A request carries an id the client chose.  Its row is committed before  *)
(* the paid search and summary, under a lock file that the operating       *)
(* system releases when the server dies.  An ask stands for the query with *)
(* the provider and model it was approved for; pages stand for excerpts.   *)
(***************************************************************************)
EXTENDS Naturals, FiniteSets, Sequences

CONSTANTS
    Request,      \* the request ids
    Ask,          \* what may be asked
    Current,      \* Current[g]: the asks for the model of configuration g; the first is 1
    Handler,      \* the server threads that handle a POST
    Page,         \* the pages a search may return
    Usable,       \* the pages of approved domains whose excerpt is not blank
    MaxEvidence,  \* excerpts passed to the model (10 in the code)
    DailyLimit,   \* fener_research_daily_limit
    Day,          \* 24 hours, in ticks
    Patience,     \* five minutes, in ticks
    MaxClock,     \* bound on the clock
    MaxCrashes    \* bound on the crashes of the server

ASSUME ResearchAssumption ==
    /\ IsFiniteSet(Request)
    /\ Current \in Seq(SUBSET Ask) /\ Current # <<>>
    /\ Usable \subseteq Page
    /\ MaxEvidence \in Nat \ {0}
    /\ DailyLimit \in Nat \ {0}
    /\ Day \in Nat
    /\ Patience \in Nat
    /\ MaxClock \in Nat
    /\ MaxCrashes \in Nat

VARIABLES
    now,      \* the clock
    config,   \* the configuration the server was started with
    run,      \* research_runs: run[r], or NoRun
    call,     \* call[h]: the request a thread handles
    locked,   \* the threads that hold research.lock
    paid,     \* history: paid[r], the provider calls made for r
    crashes   \* the crashes so far

researchVars == <<now, config, run, call, locked, paid, crashes>>

-----------------------------------------------------------------------------
NoRun == [status |-> "none", ask |-> {}, at |-> 0, cites |-> {}, evidence |-> {}]
NoCall == [phase |-> "idle", id |-> {}, ask |-> {}, evidence |-> {}, cites |-> {},
           outcome |-> "none"]

ResearchInit ==
    /\ now = 0
    /\ config = 1
    /\ run = [r \in Request |-> NoRun]
    /\ call = [h \in Handler |-> NoCall]
    /\ locked = {}
    /\ paid = [r \in Request |-> [search |-> 0, summary |-> 0]]
    /\ crashes = 0

Stored(r) == run[r] # NoRun

\* Mutant: the status is shown as stored.
StatusAsStored(r) == run[r].status

\* run_view: the status a client is shown.
ShownStatus(r) == IF run[r].status = "running" /\ run[r].at + Patience < now
                  THEN "uncertain" ELSE run[r].status

\* An id that has a row is answered from it, or refused when the question
\* differs: no state changes either way.
Answered(r) == Stored(r)

\* The lookup and the configuration checks, up to the lock.
Submit(h, r, a) ==
    /\ call[h] = NoCall
    /\ ~Answered(r)
    /\ a \in Current[config]
    /\ call' = [call EXCEPT ![h] = [NoCall EXCEPT !.phase = "asked", !.id = r, !.ask = a]]
    /\ UNCHANGED <<now, config, run, locked, paid, crashes>>

\* Mutant: the count is not protected.
LockFreeAlways == TRUE

LockFree == locked = {}

\* FileLock with timeout 0: a held lock is a 409.
Lock(h) ==
    /\ call[h].phase = "asked"
    /\ IF LockFree
       THEN /\ locked' = locked \cup {h}
            /\ call' = [call EXCEPT ![h].phase = "locked"]
       ELSE /\ UNCHANGED locked
            /\ call' = [call EXCEPT ![h] = NoCall]
    /\ UNCHANGED <<now, config, run, paid, crashes>>

\* The thread leaves the handler, and the lock with it.
Leave(h) == /\ call' = [call EXCEPT ![h] = NoCall]
            /\ locked' = locked \ {h}

\* Mutant: only attempts that ended well are counted.
UsedBySuccess == Cardinality({r \in Request : run[r].status = "needs_review"
                                              /\ run[r].at + Day >= now})

\* The attempts of the last 24 hours, whatever became of them.
Used == Cardinality({r \in Request : Stored(r) /\ run[r].at + Day >= now})

Count(h) ==
    /\ call[h].phase = "locked"
    /\ IF Used >= DailyLimit
       THEN Leave(h)
       ELSE /\ call' = [call EXCEPT ![h].phase = "allowed"]
            /\ UNCHANGED locked
    /\ UNCHANGED <<now, config, run, paid, crashes>>

\* The row is committed; an IntegrityError is a 409.
Register(h) ==
    LET c == call[h] IN
    /\ c.phase = "allowed"
    /\ IF Stored(c.id)
       THEN /\ Leave(h)
            /\ UNCHANGED run
       ELSE /\ run' = [run EXCEPT ![c.id] =
                 [NoRun EXCEPT !.status = "running", !.ask = c.ask, !.at = now]]
            /\ call' = [call EXCEPT ![h].phase = "registered"]
            /\ UNCHANGED locked
    /\ UNCHANGED <<now, config, paid, crashes>>

\* Mutant: the local allowlist is left to the search engine.
EvidenceUnfiltered(pages) == {pages[i] : i \in DOMAIN pages}

\* search_evidence: the usable pages among those returned, up to MaxEvidence in
\* their order; a page that is returned again does not count again.
Evidence(pages) ==
    LET before(i) == {pages[j] : j \in 1..i - 1} \cap Usable
    IN  {pages[i] : i \in {j \in DOMAIN pages : /\ pages[j] \in Usable
                                              /\ Cardinality(before(j)) < MaxEvidence}}

\* The paid search, and search_evidence on what it returned.
Search(h, pages) ==
    LET c == call[h] IN
    /\ c.phase = "registered"
    /\ paid' = [paid EXCEPT ![c.id].search = @ + 1]
    /\ call' = [call EXCEPT ![h] =
         IF Evidence(pages) = {}
         THEN [c EXCEPT !.phase = "ended", !.outcome = "failed"]
         ELSE [c EXCEPT !.phase = "searched", !.evidence = Evidence(pages)]]
    /\ UNCHANGED <<now, config, run, locked, crashes>>

\* The paid summary, and parse_summary: the paragraphs, like the benchmark
\* candidates, cite excerpts, at least one and only ones that were passed on.
Summarise(h, refs) ==
    LET c == call[h] IN
    /\ c.phase = "searched"
    /\ paid' = [paid EXCEPT ![c.id].summary = @ + 1]
    /\ call' = [call EXCEPT ![h] =
         IF refs # {} /\ refs \subseteq c.evidence
         THEN [c EXCEPT !.phase = "ended", !.outcome = "needs_review", !.cites = refs]
         ELSE [c EXCEPT !.phase = "ended", !.outcome = "failed"]]
    /\ UNCHANGED <<now, config, run, locked, crashes>>

\* post_json fails in either call: the connection (the usage may have been
\* charged) or an answer of another status, size or shape.
ProviderFails(h, outcome) ==
    LET c == call[h] IN
    /\ c.phase \in {"registered", "searched"}
    /\ outcome \in {"uncertain", "failed"}
    /\ paid' = IF c.phase = "registered" THEN [paid EXCEPT ![c.id].search = @ + 1]
               ELSE [paid EXCEPT ![c.id].summary = @ + 1]
    /\ call' = [call EXCEPT ![h] = [c EXCEPT !.phase = "ended", !.outcome = outcome]]
    /\ UNCHANGED <<now, config, run, locked, crashes>>

\* The outcome is committed and the answer sent.
Record(h) ==
    LET c == call[h] IN
    /\ c.phase = "ended"
    /\ run' = [run EXCEPT ![c.id] =
         [@ EXCEPT !.status = c.outcome, !.cites = c.cites,
                   !.evidence = IF c.outcome = "needs_review"
                                THEN c.evidence ELSE {}]]
    /\ Leave(h)
    /\ UNCHANGED <<now, config, paid, crashes>>

\* The server dies and is started again, perhaps with another model.
CrashAndRestart(g) ==
    /\ crashes < MaxCrashes
    /\ crashes' = crashes + 1
    /\ config' = g
    /\ call' = [h \in Handler |-> NoCall]
    /\ locked' = {}
    /\ UNCHANGED <<now, run, paid>>

Tick == /\ now < MaxClock
        /\ now' = now + 1
        /\ UNCHANGED <<config, run, call, locked, paid, crashes>>

\* What a search may return: few pages, in any order, with repetitions.
Results == UNION {[1..n -> Page] : n \in 0..MaxEvidence + 1}

ResearchNext ==
    \/ \E h \in Handler :
          \/ \E r \in Request, a \in Ask : Submit(h, r, a)
          \/ Lock(h)
          \/ Count(h)
          \/ Register(h)
          \/ \E pages \in Results : Search(h, pages)
          \/ \E refs \in SUBSET Page : Summarise(h, refs)
          \/ \E outcome \in {"uncertain", "failed"} : ProviderFails(h, outcome)
          \/ Record(h)
    \/ \E g \in DOMAIN Current : CrashAndRestart(g)
    \/ Tick

ResearchSpec == ResearchInit /\ [][ResearchNext]_researchVars

-----------------------------------------------------------------------------
\* No id pays twice, whatever is retried, raced or interrupted, and no call is
\* paid for without a row that shows it.
PaidOnce == \A r \in Request : /\ paid[r].search <= 1
                               /\ paid[r].summary <= paid[r].search
                               /\ paid[r].search > 0 => Stored(r)

\* Any 24 hours that end in an attempt hold DailyLimit attempts at most.
WithinLimit ==
    \A r \in Request : Stored(r) =>
        Cardinality({q \in Request : /\ Stored(q)
                                     /\ run[q].at <= run[r].at
                                     /\ run[q].at + Day >= run[r].at})
            <= DailyLimit

\* A note cites approved pages that its own search returned.
CitedFromEvidence ==
    \A r \in Request : run[r].status = "needs_review" =>
        /\ run[r].cites # {}
        /\ run[r].cites \subseteq run[r].evidence \cap Usable

\* A call that was paid for and that nobody waits for any more does not go on
\* looking like one under way: a crash leaves it shown as uncertain.
NoneForgotten ==
    \A r \in Request :
        /\ paid[r].search > 0
        /\ run[r].at + Patience < now
        /\ \A h \in Handler : call[h].id # r \/ call[h].phase = "asked"
        => ShownStatus(r) \in {"needs_review", "uncertain", "failed"}

\* Manual research is accountable: each approved request is paid for at most
\* once, within the daily limit, its outcome is told, and its note rests on
\* approved evidence (research.py, lines 51 and 118-170; docs/api.md, line 27).
ResearchAccountable == PaidOnce /\ WithinLimit /\ CitedFromEvidence /\ NoneForgotten
=============================================================================
