----------------------------- MODULE SyncQueue -----------------------------
(***************************************************************************)
(* Which process syncs which source, and when: the queue of manual sync    *)
(* requests (private_api.py enqueue_sync, worker/jobs.py process_queue),   *)
(* the schedule of the worker loop and the one-shot command                *)
(* (worker/cli.py), and the source lock with the run row of sync_source    *)
(* (sources/ingestion.py).  What a sync writes is EvidenceLedger.          *)
(*                                                                         *)
(* Time is the age of a row in ticks, cut off where the code stops telling *)
(* ages apart.                                                             *)
(***************************************************************************)
EXTENDS Naturals, FiniteSets

CONSTANTS
    Source,      \* SOURCES, the sources that are synced
    Retired,     \* sources of an earlier release, with requests left behind
    Worker,      \* the processes that run the worker loop
    Cli,         \* the processes that run the sync command
    None,
    Id,          \* bound: the sync requests of a behaviour
    Lease,       \* the age at which a running request is given up (2 hours)
    Interval,    \* interval_seconds, the time between scheduled runs
    MaxCrashes   \* bound on the processes that die

ASSUME QueueAssumption ==
    /\ Source \cap Retired = {}
    /\ Worker \cap Cli = {}
    /\ None \notin Source \cup Retired \cup Worker \cup Cli \cup Id
    /\ Lease \in Nat \ {0} /\ Interval \in Nat \ {0}
    /\ MaxCrashes \in Nat

VARIABLES
    request,    \* sync_requests: request[r]
    run,        \* ingestion_runs: the status of the latest run of a source
    since,      \* ticks since the latest run of a source started
    holder,     \* the advisory lock of a source
    proc,       \* what each process is doing
    crashes     \* the processes that died

vars == <<request, run, since, holder, proc, crashes>>

Proc == Worker \cup Cli

-----------------------------------------------------------------------------
\* age counts from created_at; ran, which no column holds, from "running".
NoRequest == [status |-> "none", source |-> None, active |-> FALSE,
              age |-> 0, ran |-> 0]

Queued(s) == [status |-> "queued", source |-> s, active |-> TRUE,
              age |-> 0, ran |-> 0]

\* The start of a pass of the worker loop, or no command.
Top == [at |-> "top", req |-> None, source |-> None,
        stale |-> {}, todo |-> {}, outcome |-> "none"]

Active == {r \in Id : request[r].active}

Init == /\ request \in [Id -> {NoRequest} \cup {Queued(s) : s \in Retired}]
        /\ \A q, r \in Active : request[q].source = request[r].source => q = r
        /\ run = [s \in Source |-> "none"]
        /\ since = [s \in Source |-> Interval]
        /\ holder = [s \in Source |-> None]
        /\ proc = [p \in Proc |-> Top]
        /\ crashes = 0

\* enqueue_sync; a request in progress, or a concurrent one that the unique
\* active_source lets through first, is returned instead.
Enqueue(r, s) ==
    /\ request[r].status = "none"
    /\ \A q \in Active : request[q].source # s
    /\ request' = [request EXCEPT ![r] = Queued(s)]
    /\ UNCHANGED <<run, since, holder, proc, crashes>>

-----------------------------------------------------------------------------
(* process_queue.                                                          *)

Ended(q, status) == [q EXCEPT !.status = status, !.active = FALSE]

\* The select of the running requests older than the lease.
ReadStale(w) ==
    LET stale == {r \in Id : request[r].status = "running" /\ request[r].age >= Lease} IN
    /\ proc[w].at = "top"
    /\ proc' = [proc EXCEPT ![w] = [Top EXCEPT !.at = "stale", !.stale = stale]]
    /\ UNCHANGED <<request, run, since, holder, crashes>>

\* Mutant: the source stays reserved.
InterruptKeepsActive(w) ==
    /\ proc[w].at = "stale"
    /\ request' = [r \in Id |-> IF r \in proc[w].stale
                                THEN [request[r] EXCEPT !.status = "interrupted"]
                                ELSE request[r]]
    /\ proc' = [proc EXCEPT ![w] = [proc[w] EXCEPT !.at = "sweep", !.stale = {}]]
    /\ UNCHANGED <<run, since, holder, crashes>>

\* Mutant: there is no lease.
InterruptNone(w) ==
    /\ proc[w].at = "stale"
    /\ proc' = [proc EXCEPT ![w] = [proc[w] EXCEPT !.at = "sweep", !.stale = {}]]
    /\ UNCHANGED <<request, run, since, holder, crashes>>

\* Their update, whatever has happened to them meanwhile.
Interrupt(w) ==
    /\ proc[w].at = "stale"
    /\ request' = [r \in Id |-> IF r \in proc[w].stale
                                THEN Ended(request[r], "interrupted")
                                ELSE request[r]]
    /\ proc' = [proc EXCEPT ![w] = [proc[w] EXCEPT !.at = "sweep", !.stale = {}]]
    /\ UNCHANGED <<run, since, holder, crashes>>

\* Queued requests of sources that are gone.
Retire(w) ==
    /\ proc[w].at = "sweep"
    /\ request' = [r \in Id |-> IF /\ request[r].status = "queued"
                                   /\ request[r].source \notin Source
                                THEN Ended(request[r], "retired")
                                ELSE request[r]]
    /\ proc' = [proc EXCEPT ![w] = [proc[w] EXCEPT !.at = "queue"]]
    /\ UNCHANGED <<run, since, holder, crashes>>

Oldest == {r \in Id : /\ request[r].status = "queued"
                      /\ \A q \in Id : request[q].status = "queued" =>
                            request[q].age <= request[r].age}

\* The locked row is marked running and committed.
Take(w, r) ==
    /\ proc[w].at = "queue"
    /\ r \in Oldest
    /\ request' = [request EXCEPT ![r] =
                      [request[r] EXCEPT !.status = "running", !.ran = 0]]
    /\ proc' = [proc EXCEPT ![w] =
         [proc[w] EXCEPT !.at = "start",
                         !.req = r,
                         !.source = request[r].source]]
    /\ UNCHANGED <<run, since, holder, crashes>>

QueueEmpty(w) ==
    /\ proc[w].at = "queue"
    /\ Oldest = {}
    /\ proc' = [proc EXCEPT ![w] =
         [proc[w] EXCEPT !.at = "schedule",
                         !.todo = Source]]
    /\ UNCHANGED <<request, run, since, holder, crashes>>

\* The outcome is written over whatever the row says now.
Report(w) ==
    /\ proc[w].at = "report"
    /\ request' = [request EXCEPT ![proc[w].req] =
                      Ended(request[proc[w].req], proc[w].outcome)]
    /\ proc' = [proc EXCEPT ![w] = [Top EXCEPT !.at = "schedule", !.todo = Source]]
    /\ UNCHANGED <<run, since, holder, crashes>>

-----------------------------------------------------------------------------
(* The rest of the worker loop, and the command.                           *)

\* Mutant: a source whose latest run says "running" is left alone.
CheckDueUnlessRunning(w, s) ==
    LET wait == since[s] < Interval \/ run[s] = "running" IN
    /\ proc[w].at = "schedule"
    /\ s \in proc[w].todo
    /\ proc' = [proc EXCEPT ![w] =
         [proc[w] EXCEPT !.todo = proc[w].todo \ {s},
                         !.at = IF wait THEN "schedule" ELSE "start",
                         !.source = IF wait THEN None ELSE s]]
    /\ UNCHANGED <<request, run, since, holder, crashes>>

\* One source of the schedule: its latest run is read, and a sync follows
\* unless that is less than the interval ago.
CheckDue(w, s) ==
    /\ proc[w].at = "schedule"
    /\ s \in proc[w].todo
    /\ proc' = [proc EXCEPT ![w] =
         [proc[w] EXCEPT !.todo = proc[w].todo \ {s},
                         !.at = IF since[s] < Interval THEN "schedule" ELSE "start",
                         !.source = IF since[s] < Interval THEN None ELSE s]]
    /\ UNCHANGED <<request, run, since, holder, crashes>>

\* time.sleep, and the next pass.
EndPass(w) ==
    /\ proc[w].at = "schedule"
    /\ proc[w].todo = {}
    /\ proc' = [proc EXCEPT ![w] = Top]
    /\ UNCHANGED <<request, run, since, holder, crashes>>

\* The command `sync --source s`.
Command(c, s) ==
    /\ proc[c].at = "top"
    /\ proc' = [proc EXCEPT ![c] = [proc[c] EXCEPT !.at = "start", !.source = s]]
    /\ UNCHANGED <<request, run, since, holder, crashes>>

-----------------------------------------------------------------------------
(* sync_source.                                                            *)

\* Mutant: a scheduled sync is reported like a queued one.
AfterReports(p, outcome) ==
    IF p \in Worker
    THEN [proc[p] EXCEPT !.at = "report", !.source = None, !.outcome = outcome]
    ELSE Top

\* Where a process goes when its sync has ended.
After(p, outcome) ==
    IF proc[p].req # None
    THEN [proc[p] EXCEPT !.at = "report", !.source = None, !.outcome = outcome]
    ELSE IF p \in Worker
         THEN [proc[p] EXCEPT !.at = "schedule", !.source = None]
         ELSE Top

\* Mutant: the lock is not tried.
AcquireBlindly(p) ==
    LET s == proc[p].source IN
    /\ proc[p].at = "start"
    /\ holder' = [holder EXCEPT ![s] = p]
    /\ run' = [run EXCEPT ![s] = "running"]
    /\ since' = [since EXCEPT ![s] = 0]
    /\ proc' = [proc EXCEPT ![p] = [proc[p] EXCEPT !.at = "sync"]]
    /\ UNCHANGED <<request, crashes>>

\* The lock, and the run row that is committed first.
Acquire(p) ==
    LET s == proc[p].source IN
    /\ proc[p].at = "start"
    /\ holder[s] = None
    /\ holder' = [holder EXCEPT ![s] = p]
    /\ run' = [run EXCEPT ![s] = "running"]
    /\ since' = [since EXCEPT ![s] = 0]
    /\ proc' = [proc EXCEPT ![p] = [proc[p] EXCEPT !.at = "sync"]]
    /\ UNCHANGED <<request, crashes>>

\* "Source sync already running".
Refused(p) ==
    /\ proc[p].at = "start"
    /\ holder[proc[p].source] # None
    /\ proc' = [proc EXCEPT ![p] = After(p, "failed")]
    /\ UNCHANGED <<request, run, since, holder, crashes>>

\* Mutant: the lock is released on success only.
EndSyncKeepsLock(p, outcome) ==
    LET s == proc[p].source IN
    /\ proc[p].at = "sync"
    /\ run' = [run EXCEPT ![s] = outcome]
    /\ holder' = [holder EXCEPT ![s] = IF outcome = "success" THEN None ELSE p]
    /\ proc' = [proc EXCEPT ![p] = After(p, outcome)]
    /\ UNCHANGED <<request, since, crashes>>

\* The sync commits or fails, visibly either way, and the lock goes.
EndSync(p, outcome) ==
    LET s == proc[p].source IN
    /\ proc[p].at = "sync"
    /\ run' = [run EXCEPT ![s] = outcome]
    /\ holder' = [holder EXCEPT ![s] = None]
    /\ proc' = [proc EXCEPT ![p] = After(p, outcome)]
    /\ UNCHANGED <<request, since, crashes>>

\* The process dies; the database drops its lock, nothing else.
Crash(p) ==
    /\ proc[p].at # "top"
    /\ crashes < MaxCrashes
    /\ crashes' = crashes + 1
    /\ holder' = [s \in Source |-> IF holder[s] = p THEN None ELSE holder[s]]
    /\ proc' = [proc EXCEPT ![p] = Top]
    /\ UNCHANGED <<request, run, since>>

UpTo(bound, n) == IF n < bound THEN n + 1 ELSE bound

Tick ==
    /\ request' = [r \in Id |->
         [request[r] EXCEPT
            !.age = IF request[r].active THEN UpTo(Lease, request[r].age)
                                         ELSE request[r].age,
            !.ran = IF request[r].status = "running" THEN UpTo(Lease, request[r].ran)
                                                     ELSE request[r].ran]]
    /\ since' = [s \in Source |-> UpTo(Interval, since[s])]
    /\ UNCHANGED <<run, holder, proc, crashes>>

\* The steps a live process takes by itself.
Work(p) == \/ ReadStale(p) /\ p \in Worker
           \/ Interrupt(p)
           \/ Retire(p)
           \/ \E r \in Id : Take(p, r)
           \/ QueueEmpty(p)
           \/ Report(p)
           \/ \E s \in Source : CheckDue(p, s)
           \/ EndPass(p)
           \/ Acquire(p)
           \/ Refused(p)
           \/ \E outcome \in {"success", "failed"} : EndSync(p, outcome)

Next == \/ \E r \in Id, s \in Source : Enqueue(r, s)
        \/ \E c \in Cli, s \in Source : Command(c, s)
        \/ \E p \in Proc : Work(p) \/ Crash(p)
        \/ Tick

\* The worker is restarted and its loop never stops, a fetch has a time
\* limit, time passes and finitely many processes die.
Fairness == /\ \A p \in Proc : WF_vars(Work(p))
            /\ WF_vars(Tick)

Spec == Init /\ [][Next]_vars /\ Fairness

-----------------------------------------------------------------------------
Status == {"none", "queued", "running", "success", "failed", "interrupted", "retired"}

TypeOK ==
    /\ request \in [Id -> [status : Status, source : Source \cup Retired \cup {None},
                           active : BOOLEAN, age : 0..Lease, ran : 0..Lease]]
    /\ run \in [Source -> {"none", "running", "success", "failed"}]
    /\ since \in [Source -> 0..Interval]
    /\ holder \in [Source -> Proc \cup {None}]
    /\ proc \in [Proc -> [at : {"top", "stale", "sweep", "queue", "start", "sync",
                                "report", "schedule"},
                          req : Id \cup {None}, source : Source \cup {None},
                          stale : SUBSET Id, todo : SUBSET Source,
                          outcome : {"none", "success", "failed"}]]
    /\ \A p \in Proc : /\ proc[p].at \in {"start", "sync"} <=> proc[p].source # None
                       /\ proc[p].at = "report" => proc[p].req # None
    /\ crashes \in 0..MaxCrashes

\* A source is reserved by exactly one request, and only by one that is
\* queued or running: neither a lease that ran out nor the late outcome of
\* its worker frees a source a newer request holds, or leaves one reserved.
ReservedWhilePending ==
    /\ \A r \in Id : request[r].active <=> request[r].status \in {"queued", "running"}
    /\ \A q, r \in Active : request[q].source = request[r].source => q = r

\* After the lease of a request whose worker lives on has run out, and in
\* spite of the schedule and the command, one process syncs a source
\* (the comment of process_queue).
NoDuplicateIngestion ==
    \A p, q \in Proc : proc[p].at = "sync" /\ proc[q].at = "sync"
                       /\ proc[p].source = proc[q].source => p = q

\* "A crashed worker must not leave a source permanently queued."
RequestsEnd == \A r \in Id : request[r].active ~> ~request[r].active

\* "Jobs running longer than two hours can be marked interrupted": while its
\* worker is alive, no request that runs for less is.
OnlyLateJobsInterrupted ==
    [][\A r \in Id :
          /\ request[r].status = "running"
          /\ request'[r].status = "interrupted"
          /\ \E w \in Worker : proc[w].req = r
          => request[r].ran >= Lease]_vars

\* "The worker [...] syncs each source" every interval: no failed sync, busy
\* lock, crash or stuck request keeps a source from its next run.
SourcesKeepSyncing == \A s \in Source : []<>(since[s] = 0)

\* A process that dies in a sync leaves a run that says "running", until a
\* later run of the source says how it ended.
RunsAreSuperseded == \A s \in Source : run[s] = "running" ~> run[s] # "running"
=============================================================================
