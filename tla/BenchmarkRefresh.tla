-------------------------- MODULE BenchmarkRefresh --------------------------
(***************************************************************************)
(* The queue of catalog-wide benchmark refreshes: POST /benchmark-refresh  *)
(* (benchmark_refresh_api.py), which starts or resumes one, and the pass   *)
(* of the worker that serves the oldest (worker/benchmark_jobs.py).        *)
(*                                                                         *)
(* A request reads without locks and writes back absolute values of what   *)
(* it changed; a pass is one transaction that holds the lock of its job.   *)
(*                                                                         *)
(* Scores, names and error texts are left out.  "failed_search" is an item *)
(* that failed with one of RECOVERABLE_FAILURE_PREFIXES, "failed" one that *)
(* failed otherwise: both date from an earlier release of the worker.      *)
(***************************************************************************)
EXTENDS Integers, FiniteSets

CONSTANTS
    Request,     \* the request ids, each the id of the refresh it starts
    Model,       \* the resolved catalog models
    Result,      \* the results of the published cohort
    Client,      \* the requests that may be in flight together
    Worker,      \* the processes that run the worker loop
    None,
    Overlap,     \* TRUE when requests may be in flight together
    MaxPosts,    \* bound on the requests
    MaxFaults    \* bound on the passes that die

ASSUME RefreshAssumption ==
    /\ Model # {} /\ IsFiniteSet(Model)
    /\ None \notin Request \cup Result
    /\ Overlap \in BOOLEAN
    /\ MaxPosts \in Nat
    /\ MaxFaults \in Nat

VARIABLES
    job,        \* benchmark_refreshes: job[r]
    item,       \* benchmark_refresh_items: item[r][m], their status
    results,    \* research_benchmarks imported by refreshes
    post,       \* post[c]: a request in flight
    pass,       \* pass[w]: the open transaction of a worker
    posts,      \* the requests so far
    faults      \* the passes that died

vars == <<job, item, results, post, pass, posts, faults>>

-----------------------------------------------------------------------------
Waiting == {"queued", "running", "blocked"}
Active == Waiting \cup {"paused"}
Finished == {"completed", "completed_with_errors"}
ToDo == {"queued", "running"}
Settled == {"success", "no_evidence", "failed", "failed_search"}

NoJob == [status |-> "none", created |-> 0, processed |-> 0, failed |-> 0, imported |-> 0]
NoPost == [phase |-> "idle", id |-> None, row |-> NoJob, requeued |-> {}]
NoPass == [job |-> None, items |-> {}]

Count(items, S) == Cardinality({m \in Model : items[m] \in S})

\* A job the earlier worker, which researched one model at a time and
\* imported nothing, left behind.
Legacy(status, items) ==
    [status |-> status, created |-> 1, processed |-> Count(items, Settled),
     failed |-> Count(items, {"failed", "failed_search"}), imported |-> 0]

Init == /\ \/ /\ job = [r \in Request |-> NoJob]
              /\ item = [r \in Request |-> [m \in Model |-> "none"]]
           \/ \E r \in Request, status \in Active \ {"queued"},
                 items \in [Model -> ToDo \cup (Settled \ {"success"})] :
                /\ job = [q \in Request |->
                            IF q = r THEN Legacy(status, items) ELSE NoJob]
                /\ item = [q \in Request |->
                            IF q = r THEN items ELSE [m \in Model |-> "none"]]
        /\ results = {}
        /\ post = [c \in Client |-> NoPost]
        /\ pass = [w \in Worker |-> NoPass]
        /\ posts = 0
        /\ faults = 0

\* The row lock a pass has on its job and items until it ends.
Held(r) == \E w \in Worker : pass[w].job = r

-----------------------------------------------------------------------------
(* start_refresh and resume_refresh.                                       *)

\* Mutant: a request that is sent again resumes its job whatever its status.
LookupResumesAny(c, r) ==
    /\ post[c].phase = "idle"
    /\ Overlap \/ \A d \in Client : post[d].phase = "idle"
    /\ posts < MaxPosts
    /\ posts' = posts + 1
    /\ post' = [post EXCEPT ![c] =
         IF job[r].status = "none"
         THEN [NoPost EXCEPT !.phase = "search", !.id = r]
         ELSE [NoPost EXCEPT !.phase = "resume", !.id = r, !.row = job[r]]]
    /\ UNCHANGED <<job, item, results, pass, faults>>

\* session.get(BenchmarkRefresh, request_id): a request sent again resumes a
\* paused job, and only reads any other.
Lookup(c, r) ==
    /\ post[c].phase = "idle"
    /\ Overlap \/ \A d \in Client : post[d].phase = "idle"
    /\ posts < MaxPosts
    /\ posts' = posts + 1
    /\ post' = [post EXCEPT ![c] =
         IF job[r].status = "none"
         THEN [NoPost EXCEPT !.phase = "search", !.id = r]
         ELSE IF job[r].status = "paused"
              THEN [NoPost EXCEPT !.phase = "resume", !.id = r, !.row = job[r]]
              ELSE NoPost]
    /\ UNCHANGED <<job, item, results, pass, faults>>

\* Mutant: a paused job does not count as active.
SearchWaiting(c) ==
    /\ post[c].phase = "search"
    /\ IF \E r \in Request : job[r].status \in Waiting
       THEN post' = [post EXCEPT ![c] = NoPost]
       ELSE post' = [post EXCEPT ![c].phase = "insert"]
    /\ UNCHANGED <<job, item, results, pass, posts, faults>>

\* The job in progress, any one of them, answers a request with a new id.
Search(c) ==
    LET active == {r \in Request : job[r].status \in Active} IN
    /\ post[c].phase = "search"
    /\ \/ /\ active = {}
          /\ post' = [post EXCEPT ![c].phase = "insert"]
       \/ \E r \in active :
            post' = [post EXCEPT ![c] =
              IF job[r].status = "paused"
              THEN [NoPost EXCEPT !.phase = "resume", !.id = r, !.row = job[r]]
              ELSE NoPost]
    /\ UNCHANGED <<job, item, results, pass, posts, faults>>

Made == {r \in Request : job[r].status # "none"}

\* The new job and an item for each resolved model; nothing when another
\* request has inserted the id.
Insert(c) ==
    LET r == post[c].id IN
    /\ post[c].phase = "insert"
    /\ post' = [post EXCEPT ![c] = NoPost]
    /\ IF job[r].status # "none" THEN UNCHANGED <<job, item>>
       ELSE /\ job' = [job EXCEPT ![r] =
                 [NoJob EXCEPT !.status = "queued", !.created = Cardinality(Made) + 1]]
            /\ item' = [item EXCEPT ![r] = [m \in Model |-> "queued"]]
    /\ UNCHANGED <<results, pass, posts, faults>>

\* resume_refresh reads the items worth another attempt.
Requeue(c) ==
    /\ post[c].phase = "resume"
    /\ post' = [post EXCEPT ![c] =
         [post[c] EXCEPT !.phase = "write",
                         !.requeued = {m \in Model : item[post[c].id][m]
                                          \in {"no_evidence", "failed_search"}}]]
    /\ UNCHANGED <<job, item, results, pass, posts, faults>>

\* An attribute is written when it differs from what was loaded.
Written(now, loaded, mine) == IF mine # loaded THEN mine ELSE now

\* Mutant: the counter is not kept from going below zero.
LessUnclamped(n, k) == n - k

\* max(0, n - k)
Less(n, k) == IF n > k THEN n - k ELSE 0

\* Mutant: the counters keep what the requeued items added.
ResumeKeepsCounters(c) ==
    LET r == post[c].id IN
    /\ post[c].phase = "write"
    /\ ~Held(r)
    /\ item' = [item EXCEPT ![r] = [m \in Model |->
                   IF m \in post[c].requeued THEN "queued" ELSE item[r][m]]]
    /\ job' = [job EXCEPT ![r].status = "queued"]
    /\ post' = [post EXCEPT ![c] = NoPost]
    /\ UNCHANGED <<results, pass, posts, faults>>

\* Its updates, once no pass holds the rows, and the commit.
Resume(c) ==
    LET r == post[c].id
        row == post[c].row
        n == Cardinality(post[c].requeued) IN
    /\ post[c].phase = "write"
    /\ ~Held(r)
    /\ item' = [item EXCEPT ![r] = [m \in Model |->
                   IF m \in post[c].requeued THEN "queued" ELSE item[r][m]]]
    /\ job' = [job EXCEPT ![r] =
         [job[r] EXCEPT
            !.status = "queued",
            !.processed = Written(job[r].processed, row.processed, Less(row.processed, n)),
            !.failed = Written(job[r].failed, row.failed, Less(row.failed, n))]]
    /\ post' = [post EXCEPT ![c] = NoPost]
    /\ UNCHANGED <<results, pass, posts, faults>>

-----------------------------------------------------------------------------
(* process_benchmark_refresh.                                              *)

\* The oldest job in progress that no other worker has locked.
Oldest == {r \in Request :
            /\ job[r].status \in Waiting /\ ~Held(r)
            /\ \A q \in Request : job[q].status \in Waiting /\ ~Held(q) =>
                  job[r].created <= job[q].created}

Open(r) == {m \in Model : item[r][m] \in ToDo}

Outcome(failed) == IF failed > 0 THEN "completed_with_errors" ELSE "completed"

\* Mutant: a job without open items is left as it is.
ServeItems(w) ==
    /\ pass[w] = NoPass
    /\ \E r \in Oldest :
         /\ Open(r) # {}
         /\ pass' = [pass EXCEPT ![w] = [job |-> r, items |-> Open(r)]]
         /\ UNCHANGED job
    /\ UNCHANGED <<item, results, post, posts, faults>>

\* The job is locked with its open items, or closed when it has none.
Serve(w) ==
    /\ pass[w] = NoPass
    /\ \E r \in Oldest :
         IF Open(r) # {}
         THEN /\ pass' = [pass EXCEPT ![w] = [job |-> r, items |-> Open(r)]]
              /\ UNCHANGED job
         ELSE /\ job' = [job EXCEPT ![r].status = Outcome(job[r].failed)]
              /\ UNCHANGED pass
    /\ UNCHANGED <<item, results, post, posts, faults>>

\* The dataset cannot be read: the job waits to be resumed.
Pause(w) ==
    LET r == pass[w].job IN
    /\ pass[w] # NoPass
    /\ job' = [job EXCEPT ![r].status = "paused"]
    /\ item' = [item EXCEPT ![r] = [m \in Model |->
                   IF m \in pass[w].items THEN "queued" ELSE item[r][m]]]
    /\ pass' = [pass EXCEPT ![w] = NoPass]
    /\ UNCHANGED <<results, post, posts, faults>>

\* Mutant: two models may share a result.
MatchedAny(items, cohort) == {m \in items : cohort[m] # None}

\* cohort[m] is the one result whose name is m's, if it has a score; a result
\* that two open items match is no evidence for either.
Matched(items, cohort) ==
    {m \in items : /\ cohort[m] # None
                   /\ \A n \in items \ {m} : cohort[n] # cohort[m]}

\* Every open item is settled.  The branch for a model that is gone cannot
\* be taken: items refer to models, and models are never deleted.
Finish(w, cohort) ==
    LET r == pass[w].job
        new == {[job |-> r, model |-> m, result |-> cohort[m]] :
                   m \in Matched(pass[w].items, cohort)} \ results
        imported == {x.model : x \in new}
    IN
    /\ pass[w] # NoPass
    /\ results' = results \cup new
    /\ item' = [item EXCEPT ![r] = [m \in Model |->
                   IF m \in imported THEN "success"
                   ELSE IF m \in pass[w].items THEN "no_evidence"
                   ELSE item[r][m]]]
    /\ job' = [job EXCEPT ![r] =
         [job[r] EXCEPT !.status = Outcome(job[r].failed),
                        !.processed = job[r].processed + Cardinality(pass[w].items),
                        !.imported = job[r].imported + Cardinality(imported)]]
    /\ pass' = [pass EXCEPT ![w] = NoPass]
    /\ UNCHANGED <<post, posts, faults>>

\* The process dies or the database fails: rollback.
Abort(w) ==
    /\ pass[w] # NoPass
    /\ faults < MaxFaults
    /\ faults' = faults + 1
    /\ pass' = [pass EXCEPT ![w] = NoPass]
    /\ UNCHANGED <<job, item, results, post, posts>>

Pass(w) == \/ Serve(w)
           \/ Pause(w)
           \/ \E cohort \in [Model -> Result \cup {None}] : Finish(w, cohort)

Post(c) == Search(c) \/ Insert(c) \/ Requeue(c) \/ Resume(c)

Next == \/ \E c \in Client, r \in Request : Lookup(c, r)
        \/ \E c \in Client : Post(c)
        \/ \E w \in Worker : Pass(w) \/ Abort(w)

\* The worker loop never stops.
Fairness == \A w \in Worker : WF_vars(Pass(w))

Spec == Init /\ [][Next]_vars /\ Fairness

-----------------------------------------------------------------------------
Job == [status : {"none"} \cup Active \cup Finished, created : Nat,
        processed : Nat, failed : Nat, imported : Nat]

TypeOK ==
    /\ job \in [Request -> Job]
    /\ item \in [Request -> [Model -> {"none"} \cup ToDo \cup Settled]]
    /\ results \subseteq [job : Request, model : Model, result : Result]
    /\ post \in [Client -> [phase : {"idle", "search", "insert", "resume", "write"},
                            id : Request \cup {None}, row : Job,
                            requeued : SUBSET Model]]
    /\ pass \in [Worker -> [job : Request \cup {None}, items : SUBSET Model]]
    /\ posts \in Nat
    /\ faults \in Nat

\* At most one refresh is in progress, whichever ids clients send.
OneRefresh ==
    \A q, r \in Request : job[q].status \in Active /\ job[r].status \in Active => q = r

\* The progress shown adds up: every settled item was counted once, through
\* pauses, rolled back passes and resumes, and every imported result too.
\* Failures can be undercounted (resume_refresh also subtracts the requeued
\* items that never counted as failed), never overcounted.
ProgressAddsUp ==
    \A r \in Request :
        /\ job[r].processed = Count(item[r], Settled)
        /\ job[r].imported = Cardinality({x \in results : x.job = r})
        /\ job[r].failed <= Count(item[r], {"failed", "failed_search"})

\* "Unique normalized source identities" (docs/api.md): one result of the
\* cohort is never evidence for two models of a refresh, over all its passes.
ResultsUnambiguous ==
    \A x, y \in results : x.job = y.job /\ x.result = y.result => x = y

\* A refresh that has finished is history: sending its request again, early
\* or late, does not start it over, and an imported result stays imported.
FinishedForGood ==
    [][\A r \in Request :
          /\ job[r].status \in Finished => job'[r] = job[r] /\ item'[r] = item[r]
          /\ \A m \in Model : item[r][m] = "success" => item'[r][m] = "success"]_vars

\* A refresh the worker is to serve finishes or pauses: a pass that died, an
\* earlier worker's status or a job with nothing left to do never blocks it.
RefreshEnds == \A r \in Request : job[r].status \in Waiting ~> job[r].status \notin Waiting
=============================================================================
