# A TLA+ model of Fener

Fener collects public catalogs of AI models (prices, limits, capabilities), keeps
every observation with its source, selects one value per field, and tells its
operator what changed. It is a FastAPI service, a worker loop and a web client
over one PostgreSQL database, read at READ COMMITTED through the SQLAlchemy ORM.
The ORM writes back the attributes that changed, as absolute values, without
version checks. Most of what can go wrong follows from that: a decision taken on
rows read earlier is written over whatever the rows say by then.

This directory models the parts of Fener that keep state, and the computation its
recommendations rest on, checks them with TLC and proves the main invariants with
TLAPS.

    tlc -config EvidenceSerial.cfg MC_EvidenceLedger.tla     # any run
    tlapm EvidenceLedger_proofs.tla                          # the proofs

## 1. The system

| component | state | operations | talks to |
|---|---|---|---|
| evidence ledger (`evidence.py`, `sources/persist.py`) | `fact_observations`, `source_claims`, `current_facts`, `source_conflicts`, `market_events`, columns of models and deployments | observe a field; commit or roll back a sync | called by a sync; its events feed the watchlist |
| catalog identity (`sources/persist.py`, `resolve_identity`) | models, deployments, aliases | attach a record, promote a candidate, correct an identity | decides the keys of the ledger |
| fetching and snapshots (`sources/transport.py`, `ingestion.py`, `scripts/data.py`) | receipts, snapshots, files | conditional GET with retries, store, read back, back up | feeds the adapters |
| source adapters (`models_dev.py`, `litellm.py`) | none | normalise a payload | feed persist |
| sync queue and schedule (`worker/jobs.py`, `worker/cli.py`, `enqueue_sync`, `source_lock`) | `sync_requests`, `ingestion_runs`, advisory locks | enqueue, take, interrupt, retire, report, schedule, command | starts syncs |
| watchlist notifications (`notify_watchlist`, `notify.py`) | `watchlist_items`, `notification_cursors` | edit the list, send a digest | reads the events of syncs |
| benchmark refresh (`benchmark_refresh_api.py`, `benchmark_jobs.py`) | `benchmark_refreshes`, their items, `research_benchmarks` | start, resume, serve, pause | API against worker |
| manual AI research (`research.py`, `zai_research.py`) | `research_runs`, a file lock | one metered search and summary per request id | external provider |
| policies, harnesses, telemetry, evaluations (`private_api.py`) | their tables | versioned create and approve, idempotent ingest | API only |
| recommendations and analytics (`recommendations.py`, `catalog.py`) | recorded runs | costs, eligibility, ranking, Pareto frontier | reads the ledger |
| maintenance (`maintenance.py`) | the ledger's tables | purge half-written facts | run by a migration |
| public API (`api.py`) | request windows of the rate limiter | read-only queries | reads everything |
| web client, configuration, migrations, scripts | none that matters here | | |

What is hard, and what makes each part correct:

* **Ledger.** A sync caches five tables at its start and decides on the caches. Two
  sources may sync at once. Correct means: the current fact is the claim that
  precedence selects, the column a query reads is its value, disagreeing claims have
  a conflict row, the feed replays to the current value, a value that alternates
  never meets its own primary key.
* **Identity.** A record belongs to the model of its alias, or of its canonical id, or
  of its deployment, in this order and as cached when the sync began; models are
  created and promoted on the way, and an operator moves deployments by hand.
  Correct means: a sync moves nothing that has a model, a correction is not undone,
  a resolved model keeps its identity, and known ids resolve.
* **Queue.** Four ways to start a sync (queue, schedule, command, a successor of a
  worker that was given up) meet one lock; a lease recovers from crashes. Correct
  means: one sync per source, one reservation per source, and nothing stuck.
* **Watchlist.** A message leaves the system before the watermark is committed, the
  watermark is an instant that many events share, and the fetch is bounded.
  Correct means: whatever is passed over, repeated or collapsed is so for a reason.
* **Benchmark refresh.** Requests decide on rows they have not locked while a pass
  holds the lock for as long as a download takes. Correct means: one refresh at a
  time, counters that add up through pauses and resumes, finished means finished.
* **Research.** The provider is paid before its answer is stored, the server may die in
  between, and the client repeats what it got no answer to. Correct means: an id pays
  once, a day has its limit, a note cites what its own search found, and a call that
  was cut off is shown as uncertain.
* **Fetching.** A 304 says that nothing has changed since a validator, and the content
  comes from disk. Correct means: a run normalises what the source serves, a crash
  leaves no partial object, and every row finds its object, in a backup too.
* **Private records.** Handlers read, decide and commit beside each other. Correct
  means: a policy version is new and approved once, the default is one that was
  approved, a run is stored as reported, an evaluation covers its suite.
* **Rate limiter.** The table has a capacity, and a full table must not give everybody
  a new budget.
* **Recommendations.** An absent price is not zero, an absent benchmark is not bad, old
  evidence does not qualify. Correct means: what is recommended qualifies, and nothing
  that qualifies is better in all that was asked for.
* **Maintenance.** Deleting half of a table must leave every reference to the other
  half in place, and the displayed value where it is.

`PROJECT.json` lists every hazard with the line at which it bites.

## 2. The modules

| module | models | code |
|---|---|---|
| `EvidenceFacts` | rows of the evidence tables, equality, ids and precedence | `evidence.py`, `value_comparison.py` |
| `EvidenceLedger` | a sync of each source: five reads, observations, commit, rollback | `EvidenceWriter`, `CatalogWriter.observe_once`, `_sync` |
| `PrecedenceLedger` | abstract: what a sync promises its readers | |
| `CatalogIdentity` | models, aliases and deployments; syncs of each source, corrections | `CatalogWriter.persist`, `resolve_identity` |
| `SyncQueue` | queue, worker loop, command, lock, run row, crashes, time | `jobs.process_queue`, `cli.py`, `source_lock`, `enqueue_sync` |
| `WatchlistNotify` | syncs that commit events, the watchlist, notification passes | `jobs.notify_watchlist`, watchlist handlers |
| `BenchmarkRefresh` | requests, resumes and passes over refresh jobs and items | `benchmark_refresh_api.py`, `benchmark_jobs.py` |
| `SourceFetch` | a run's requests, receipts, the object store and its disk, backups | `_sync.load`, `fetch`, `LocalSnapshotStore`, `scripts/data.py` |
| `ResearchRuns` | research requests, their lock, rows and provider calls | `research_run`, `fetch_zai_research` |
| `PrivateDesk` | harnesses, policies, telemetry, suites, evaluations | handlers of `private_api.py` |
| `RateLimiter` | the table of request windows | `request_context` |
| `ConflictPurge` | the tables of one field, as the old writer left them, and their repair | `purge_concurrent_conflict_artifacts` |
| `Recommender` | recommendations and the frontier over evidence that ages | `recommend`, `pareto_ids`, `frontier` |
| `MC_*` | small instances; `MC_Services` holds those of the last six modules | |
| `*_proofs` | theorems; `Services_proofs` holds those of research, fetching, the rate limiter and the repair | |

Operators whose name follows a comment "Mutant:" are variants of the definition
below them, with a plausible bug; no specification uses them. Putting the variant in
the place of the definition makes TLC find the property named in `PROJECT.json`
violated, which is how each property is known to say something about the code.

### EvidenceLedger

`writer[s]` is the open transaction of source s with its caches; `facts`, `claim`,
`current`, `shown`, `conflicts` and `events` are the committed tables. `LoadFacts`,
`LoadClaims`, `LoadCurrent` and `LoadColumns` are separate steps because they are
separate statements, each with its own snapshot. `Confirm` and `Observe` are the two
ends of `observe`; `Observe` is disabled where the code raises (a duplicate primary
key, a KeyError), and `Rollback`, enabled throughout, is what happens then.
`Commit` writes what the ORM would: new rows, and the attributes that differ from
what was loaded. A fact is a record; a row that refers to a fact by id holds the
fact, and `FactId` and `EventId` are the hashed keys (the position in the chain
stands for the hash of the previous observation). Row locks are not modelled: a
writer that waits and one that overwrites reach the same committed state, and a
deadlock victim is a `Rollback`. Raw records, verification labels, last-seen times and
the importance of events are left out, and so is the entity the key belongs to.
`Offer[s][k]` holds what source s may say of key k and with which authority: a name has
60 or 20 by the kind of the record, a price the fixed authority of its source.

### CatalogIdentity

`persist` on the other half of its state. A model is identified by the key it was
created with, because its id is the hash of that key; `key[m]` is the key it has now,
which promotion replaces. `alias`, `owner` and `described` are the pointers of
`model_aliases`, `deployments` and `deployment_aliases`. A sync reads them in the three
steps of `CatalogWriter.__init__` that matter, then `Persist` handles one record at a
time in the order `_sync` sorts them, on the caches; `Refuses` is where the code
raises, and `Commit` writes the attributes that changed. `Correct` is `resolve_identity`,
one short transaction at any moment. A record is the four fields identity depends on:
its id, the canonical id it names, whether it may create that identity, and its
deployment (access provider, API id and variant in one). `corrected` is a history
variable. The ledger's keys are taken as given there and made here; the two modules
share no variable, since facts never influence identity.

### SyncQueue

`request[r]` is a row of `sync_requests`; `proc[p]` is a program counter with the
local variables of a worker or command. Each commit or separate statement is an
action. Taking a request is one action, since the row is locked from select to
commit; selecting stale requests and updating them are two. Time is the age of rows
in ticks. `EndSync` fuses the final commit of a run with the release of the lock that
follows it. `ran`, the time since a request began to run, is kept for one property;
the code has no such column, which is the point of that property.

### WatchlistNotify

A sync takes its instant when it starts and commits its events under it. `ReadMark`,
`Fetch`, `Send` and `Advance` are the steps of a pass, `Fail` ends one anywhere.
`digests`, `scanned`, `owed` and `tardy` are history variables. Instants count syncs, so
`clock` bounds them.

### BenchmarkRefresh

`post[c]` is a request in flight: what `start_refresh` has read and where it is. A
pass is `Serve`, then `Pause`, `Finish` or `Abort`; its rows are locked from first to
last, so other transactions see only its outcome, and `Resume` waits for it. `Init`
allows one job of the previous release in any state it can have left (the release
that researched one model at a time, `docs/validation.md`). Whether a name matches a
result is an input, `cohort`; that one result may match two models is kept. Models are
never deleted, so the branch for a model that is gone is unreachable and left out.

### SourceFetch

`sync` is the run under the source's lock: the url it is at, the attempt, and the
receipts so far. An answer is `Modified` (200) or `NotModified` (304), and each may come
with a validator or without. The store is modelled down to the disk: the object is
written to a temporary file, `Fsync`, `Replace`, and only then is the row committed. A
rename is `unsettled` until the file system writes its journal, since the directory is
not flushed; `PowerLoss` may undo it, and tears a file renamed before its data was
flushed. `lost` remembers what went this way. `right` is the history of a receipt: whether
it holds what was served. The copy of the tree is one step: objects are only ever added,
so a copy that takes time finds no less. ETag and Last-Modified are one validator; the
allowlist of hosts, sizes and delays decide only when `Fail` happens.

### ResearchRuns

`call[h]` is a POST that a server thread handles: `Submit` finds the row or goes on,
`Lock` takes the lock file or leaves, `Count` checks the daily limit, `Register` commits
the row, `Search` and `Summarise` are the two paid calls, `Record` commits the outcome.
`CrashAndRestart` (a death of the process, no code of `src/`) may come anywhere: the lock goes with the process, the row stays `running`, and the new
server may have another configuration. `paid` is the history of what was paid for.
`Evidence` keeps the pages of approved domains up to the limit of ten; a summary may name
any pages and only those in hand are kept. `ShownStatus` is what `run_view` makes of a
`running` row that is too old.

### PrivateDesk

A handler is two actions where another may come between its read and its commit. Row
locks (`FOR UPDATE`) are guards: `RoleFree`, `PolicyFree`. They are PostgreSQL's; SQLite, which
the tests use, ignores the clause. A case score is one of `0..Unit`, the unit users
score in, which may be as small as one likes; the mean is rounded to `0..Perfect`, the unit of
the column (`Numeric(10,8)`; `Rounded`). So a mean can be full although a human gave one case a
little less. A case that is compared scores all or nothing, and one of them that failed
shows as long as a suite has fewer than `2 * Perfect` cases (two hundred million in the
code; a request carries a hundred at most). That the division rounds at its 28th digit
before the column rounds is not told apart. The endpoints for harnesses, telemetry and evaluations answer 410 in the present
release unless they are switched on; they are modelled as they work then.

### RateLimiter, ConflictPurge, Recommender

A POST is one step of `RateLimiter`, for nothing is awaited before it is counted. The loop
of `popleft` is `Live`: the window from its first entry that has not expired; `Bucket(c)` is
what the table holds for a client, and a missing bucket is an empty one (`defaultdict`).
`admitted` and `full` are history: the POSTs let through in the period, and when in it the
table was full.

`ConflictPurge` first builds tables by old syncs, which observe without the guard that was
added later: `LegacyBegin`, `LegacyMeet` for each key the model is met under, and
`LegacyCommit`. It then repairs them once, between syncs, as the migration does: the input of
`Purge` is every history the old writer can leave.

`Recommender` is a pure computation; `Lapse` and `Confirm` move the evidence under it. Costs
and values are whole numbers of a unit that may be as small as one likes, `One` of which is
the utility 1, and a quotient is rounded down; the code computes with 28 digits and rounds
each quotient too, and neither can turn an order around. A sum is over a set of metrics
(`SumFunction`). `Ranking` and `AkinFirst` are sets of pairs, and `InOrder` lists a set by
counting what comes before each element, which is what sorting by those keys yields. The
properties are stated without the scores and without the filter: `Outclasses` compares
two deployments in each thing asked for, and `Backed` spells out what has to be known of a
deployment, and fresh, for it to be named. `Confirm` is what a sync does to `last_seen_at`
(`observe`), on which freshness is judged.
Benchmark scores are a parameter, since `comparable_scores` returns none in the present
release while `recommend` and `frontier` still rank by them.

## 3. The runs

All finish in well under the limit of five minutes with two threads.

| run | instance | shows |
|---|---|---|
| `EvidenceSerial` | 3 sources (openrouter stands for one of an earlier release), a projected name (authority 20 or 60) and a price (100, 50, 40; a and a2 are one rate), values a, a2, b, 4 syncs, no overlap | precedence, projection, conflicts, feed, chains; refinement of `PrecedenceLedger` |
| `EvidenceOverlap` | 2 sources, name and price, 2 values, 3 overlapping syncs | `ReferencesHold`, `FreshChangeRepairs` |
| `EvidenceOverlapSelection` | 2 sources, the name | **violated**: `CurrentIsSelected` |
| `IdentityOverlap` | 2 sources, 3 canonical ids, 2 deployments, feeds of 5 and 3 records, 3 syncs, 1 correction | corrections hold, only corrections move, lasting identities, why a sync is refused |
| `IdentityKnown` | the same, 2 syncs in turn | **violated**: `KnownIdsResolve` |
| `SyncWorkers` | 2 workers, a command, 1 source, 1 retired, 2 requests, lease 1, 1 crash | exclusion, reservation, and that nothing gets stuck |
| `SyncLease` | 2 workers, 2 requests, lease 2 | **violated**: `OnlyLateJobsInterrupted` |
| `WatchDigests` | 2 models, a series each, window 2, 2 syncs that may overlap, 1 failure | what is told, repeated, passed over; progress |
| `WatchWindow` | 1 model, 2 series, window 1, 1 sync | **violated**: `AtLeastOnce` |
| `BenchmarkQueue` | 2 ids, 2 models, 2 results, 2 workers, 4 requests in turn, 1 crash | one refresh, counters, unambiguous results, finality, progress |
| `BenchmarkReplay` | 1 id, 2 requests at once, 1 worker | **violated**: `FinishedForGood` |
| `Services` | six components, each by itself: `MC_Services` | one property of each, two of fetching |

Why the bounds are enough: a third source is needed for a tie in authority besides an
order, and four syncs let every source speak and one change its mind or come back. Two syncs
that overlap and a third that repairs are the shortest story of `EvidenceOverlap`.
In `IdentityOverlap` a provider that publishes models too names another's model as
its base, so that candidates are promoted, keys are used again, and two sources
resolve one candidate differently; two syncs that overlap and one before them are
enough for each.
The lease of one tick runs out while a worker is still syncing, so `SyncWorkers`
contains the sync that outlives its lease, its successor, and the late report. Two syncs that
overlap let one commit behind the watermark. The window of
`WatchDigests` is smaller than the changes two syncs can make, so windows are cut at
and between instants. Two items let a job be half settled.

`Services` puts six components into one run. They share no state, so a behaviour
exercises one of them (`part`) while the others rest in their initial states, and the
run visits the sum of their state spaces and not the product. `MC_Services` extends the six
modules, whose specifications have names of their own (`FetchInit`, `ResearchNext`,
`DeskSpec`), so the properties it checks are the definitions the theorems are about.
Each is large enough for
its cases:

* research: 3 ids with a limit of 2 a day, 2 threads, 2 asks of which each configuration
  knows one, 2 pages of which one is usable, 1 crash, days of one tick;
* rate limiter: 3 clients for 2 buckets, 2 POSTs in 2 ticks, so that buckets are evicted
  empty, stale and half stale;
* fetching: 2 urls that share their validators, 2 revisions, 2 attempts, 2 publications
  (the second may be the first content again), 1 crash or power loss;
* private records: 2 threads, 1 harness with 2 roles, 2 versions, 2 deployments, 1 run that is
  reported in 2 ways, a suite with a case scored by a human and one by comparison, each out of 2
  and the mean out of 2, so that a human's 1 beside a full comparison is rounded to full;
* maintenance: 2 sources of different authority, 3 values, 2 syncs with up to 3 keys;
* recommendations: 6 deployments that lack each thing one can lack, 9 requests that
  weigh, require and allow different things, 1 stale fact at a time; amounts are
  chosen so that every cost that occurs is whole, and the utility 1 (twelve units) so that
  every value of a latency is; only the values of prices are rounded down.

`CHECK_DEADLOCK FALSE` is set where behaviours end because a bound on syncs or
requests is used up.

**Fairness.** `SyncQueue`: weak fairness of the steps a process takes by itself, and of
time. The loop of `worker/cli.py` catches what a pass raises, the container restarts a
worker that dies, and a fetch has time limits, so a sync ends. Nobody is assumed to
enqueue anything or to run the command. `WatchlistNotify` and
`BenchmarkRefresh`: weak fairness of the passes of a worker, and finitely many that
fail; no fairness for syncs, edits or requests. `EvidenceLedger` and the six services have no
liveness.

**What the violated runs say** is in `findings` of `PROJECT.json`: overlapping syncs
break precedence between sources; the watermark passes over the changes of a sync that
do not fit the window; a request that waited two hours is interrupted once it runs;
a resume sent twice can restart a finished refresh; a deployment that sorts before the
canonical record it names stays an unresolved candidate. The other findings have no run
of their own; where a property of a passing run names the behaviour as its exception,
that property is given:

* a candidate key used again after a promotion makes every sync fail that carries the
  record (`OnlyReusedKeysRefuse`: nothing else in the identities does, but for overlap);
* resuming undercounts failures (the reason `ProgressAddsUp` says `<=` there);
* a crash between sending and committing repeats a digest (`NewsOnlyOnce`);
* a full rate-limit table evicts buckets that are not fully expired (`BudgetHolds`: only
  then is a client admitted more often than the limit);
* the repair may move the claim of an outranked source to an observation of another
  source, and removes with the half-writes the event that told of the displayed value
  (`PurgeSettles` promises neither);
* the staleness test of recommendations leaves out `max_output` (`Backed` requires it to
  be known, not to be fresh).

Two more limits are no findings, since the repository promises nothing there. An answer
without a validator keeps the one of the answer before it, and a source that then
answers 304 is taken to mean the newer content: the promise of `FetchedAsServed` ends
at such a receipt. And a power loss may undo a rename although the row that names
the object is committed, as the directory is not flushed (`lost` in `SnapshotsRestorable`).

## 4. The proofs

Every theorem holds for all values of the constants that satisfy the named
assumptions; sets of sources, keys, processes and requests may be infinite.

* `LedgerTypes`: `Spec => []TypeOK` of `EvidenceLedger`.
* `SerialSelection`, `SerialProjection`, `SerialConflicts`, each under `~Concurrent`:
  `CurrentIsSelected`, `ProjectionFollowsSelection` and `DisagreementsRecorded`. None
  is inductive, for they speak of the tables while the work happens in the caches.
  `SerialInv` adds that at most one writer is not idle, that its caches equal the
  tables as far as they are loaded and not yet written, and that the caches of a writer
  that has observed something are themselves consistent: selected, projected and with
  conflicts. `ObservedConsistent` shows that one observation keeps a consistent set
  of caches consistent; it is the only place where precedence is argued. `Commit`
  then copies consistent caches to tables nobody else has touched.
* `QueueTypes`, `QueueReserves`, `QueueExcludes`: `TypeOK`, `ReservedWhilePending` and
  `NoDuplicateIngestion` of `SyncQueue`. Types need that a process past the sweep of
  retired requests only finds requests of known sources (`Swept`). Reservation is
  inductive given types. Exclusion follows from `LockHeld`: who syncs a source is
  its holder, whatever the lease says.
* `TypesHold`, `CorrectionsHoldAlways`, `OnlyCorrectionsMoveAlways` and
  `ResolvedForGoodAlways` of `CatalogIdentity`, overlap included. `CorrectionsHold` is not
  inductive: a sync that cached an alias before the correction might write it back.
  `IInv` adds that a sync's caches keep every alias, deployment, description and
  resolved identity it read (`AliasesKept`, `DeploymentsKept`, `ModelsKept`), that no
  alias the cache lacks is in the table, and that corrected records have both
  pointers. `CommitWrites` derives from it what a commit may overwrite; all three
  properties follow from that lemma.
* `OnlyReusedKeysRefuseAlways`: `KInv` adds the shape of keys (a model has the key it was
  created with, or a canonical one if that was a candidate's) and that the models a cache
  refers to are in the cache or in the table.

* `ResearchAccountableAlways`: `ResearchAccountable`, for any finite set of request ids
  (they are UUIDs; a daily count needs a finite table), any number of threads and crashes.
  `ResearchIInv` adds that whoever works holds the lock and nobody else does, what each phase of
  a call has paid for, that nothing is paid without a row, and `RoomLeft`: a thread that
  passed the count still has room when it registers. `WithinLimit` speaks of every
  window of a day and is kept because time only removes rows from the newest one, and a
  row is only added with the time of now. `NoneForgotten` follows from the shape of
  `ShownStatus` and the accounts.
* `FetchedAsServedAlways` and `SnapshotsRestorableAlways`, for any urls, revisions and
  accidents. `FetchIInv` adds that a receipt with a validator holds a content of its own
  url (`OfUrl`), so that a trusted 304 can only mean what is served; that a rename only
  ever follows its flush, so that nothing is torn; that a content in hand is whole
  before its row is committed; and that a backup in progress owes rows of the database
  only.

* `DeskAgreesAlways`: the whole of `DeskAgrees`, for any number of threads, harnesses, roles,
  runs and suites. `NumberInv` and `ApprovalInv` say what the row locks are for: one thread
  numbers policies of a role and one approves a policy, the number in hand is free, and
  the policy in hand is still a draft. The role of an approval is not locked, so what the
  thread has seen of its default may be old; but a default is given up only for another
  one, and so some approved version always names it. `ToldInv` says that what was told is
  what is stored, which is never overwritten. A sum of scores is counted in points, as the
  size of a set of pairs, so that its bounds are those of finite sets (`PointsBounded`: at
  most `Unit` for each case, and `Unit` less for each case that scored nothing). `RoundedBounds`
  says what rounding makes of them: it stays in the column, and a compared case that was
  missed or met shows in the result.

* `BudgetIsKept`: `BudgetHolds`, for any set of clients, capacity, limit and period.
  `RateIInv` adds that windows are in order of time, and `Tallies`: counted from their ends,
  a bucket and the POSTs let through in the period agree; what only the bucket holds has
  expired, and what it has lost was let through before the table was last full. A POST
  over the budget is therefore one whose bucket was given up in the period. Each of the
  things that happen to the two windows has a lemma: an expired head is dropped
  (`LiveTallies`), both grow (`AppendTallies`), the bucket is lost (`LostTallies`), the table
  is full once more (`FullerTallies`), time passes (`AgedTallies`), the server restarts
  (`NothingCounted`).
* `PurgeIsSettled`: `PurgeSettles`, for any finite set of sources, any values, and any number
  of syncs and keys. `PurgeIInv` adds that every row refers to an observation there is
  (`WellFormed`), while the old writer is at work too (`ObserveWellFormed`: the winner exists
  since `Beats` is a strict order and sources are finite), and that the repair and a sync
  exclude each other.
* `AdviceIsRight`: `RanksWhatQualifies`, for any offers, scores and requests. The inductive
  invariant is short: an answer is one that `recommend` or `frontier` gives of the catalog
  and the evidence as they are. What these give is argued in lemmas: `SumMonotone` (sums compare like
  their terms), `CheaperIsAsUseful` and `ScoresCompare` (a deployment that is at least as good
  in what is weighed scores as high, and higher if it is better), `RankingOrders` and
  `AkinOrders` (the sort keys decide between any two), `InOrderLists` (sorting lists each
  element once, behind what comes before it), `BetterIsAhead`; and for the frontier
  `FrontierUndominated` and `FrontierCovers` (each other point is dominated by one on the
  frontier). `QualifiesIsBacked` shows that the filter asks for all that `Backed` lists, and
  `FirstThenRest` that the alternatives continue the list the recommended one heads.

The sum of a set is defined by recursion in the library, and the provers have no rule of
induction to apply to it. `PartialExists` and `SumMonotone` argue by a smallest
counterexample instead: the library's theorem that finite sets are well-founded under strict
inclusion needs no operator to be instantiated. `FirstExists`, which finds a first element of
a finite order, is proved in the same way, and `LeastExists`, for numbers, too.

What `EvidenceLedger` keeps holds however syncs overlap:

* `References`, `Chains`, `Disagreements`: `ReferencesHold`, `ChainsIntact`,
  `ConflictsAreDisagreements`. `OverlapInv` says of the tables that they have these
  properties, with each claim at the end of a finite chain, and of a writer (`View`) that
  it is wrong about the world only where it does not matter: what it has cached of other
  sources is old but committed, and of its own source exact, as nobody else writes there.
* `FreshChanges`: the action property `FreshChangeRepairs`, from `OverlapInv`.

and, under `~Concurrent`, for what it publishes:

* `FeedsReplay`: `FeedReplays`. `FeedInv` says so of the tables and of the events a writer
  has pending, which lead from the selection it loaded to the cached one.
* `SyncsAreNeverRefused`: `NeverRefused`, in its three parts. The claims and selections a sync
  has loaded name facts it has loaded too, as its caches equal the tables (`SerialInv`) and the
  tables refer only to stored facts, so no lookup is a `KeyError`. No value it may still observe
  meets a stored primary key, for a fact's key holds its place in the chain, and the chain in
  the caches is the whole one. And nothing it is about to write meets a committed row.
  With overlap the first part fails: a claim may point to a fact committed between the
  statements that load the caches (`evidence.py`, line 52).
* `Refinement`: `Spec => ImplementsPromise`. `Commit` maps to a step of `PrecedenceLedger`,
  every other action to a stutter; what the caches hold at a commit is the promised
  function of the claims, by the selection invariant above and `FeedInv`.

`WatchlistNotify_proofs`, for any catalog, window and number of workers, and however
syncs overlap. The set of series is assumed finite, as the rows of a table are; without it
a pass could hold infinitely many rows and have no watermark to reach.

* `Types`: `TypeOK`, with `PassInv`: the rows of a pass are committed, later than its mark,
  and never none, so that `Latest` is defined (`LatestIsLast`).
* `News`: `LastWordTold`. `SentInv` adds that a pass past `Send` has told all its moves;
  `MoveExists` shows that collapsing a series leaves a move at least as late.
* `Causes`: `PassedOverForCause`. `ReachInv` adds that what lies at or before the mark of a
  pass is excused already, and that what lies before one of its rows is among them or
  follows one of its instant, for the window is closed to the front (`WindowIsPrefix`).
  With two workers and four overlapping syncs a change can be committed behind the mark
  of a pass although the other worker has moved the watermark back: this is why `Behind`
  asks for the marks too, which no run with one worker would show.
* `Once`: `NewsOnlyOnce` for one worker (`OneWorker`, which is what the compose file
  starts; two repeat each other). `NewsInv` adds that since the last failure only what the
  watermark has passed was told, or what the pass about to move it holds.

`BenchmarkRefresh_proofs`: `Types` without further assumption, and under `~Overlap`, requests
in turn, for any requests, models, results, workers and failures:

* `Lone` (`OneRefresh`), `Finality` (the action property `FinishedForGood`), `Unambiguous`
  (`ResultsUnambiguous`) and `Progress` (`ProgressAddsUp`). `StateInv` adds what a request in
  flight knows of the rows it read (`RequestInv`: a job it found paused is as it was, since
  no pass takes one, and where it found none in progress there is none), that a pass holds
  a job that still waits, alone, with the items it started from open (`LockInv`), and that
  only a finished refresh has results (`HistoryInv`), so that none imports in two passes. The
  counters change with disjoint sets of items, whose sizes add (`CountJoined`).

`~Overlap` and `~Concurrent` are needed: `BenchmarkReplay` and `EvidenceOverlapSelection` are
what happens without them. The inductive invariants were checked by TLC before they
were proved.

Model-checked only is liveness (`WatermarkReaches`, `RefreshEnds`, `RequestsEnd`,
`SourcesKeepSyncing`, `RunsAreSuperseded`): the proof system has no rule here for fairness or
ENABLED. Every invariant and every other action property that a passing run checks is a
theorem.

## 5. Not modelled

* The adapters (`models_dev.py`, `litellm.py`) and the parser of the benchmark page: pure
  conversions of upstream JSON and HTML, without state. What they may yield is the input
  of the ledger, of the identities and of the benchmark queue.
* The web client: it keeps no state but the form on screen, and calls the API.
* The read-only queries of `api.py`, `catalog.py` and `private_api.py`, apart from those the
  recommender needs.
* Configuration, migrations and scripts, apart from the backup: sequential, run by hand.
  The password rotation writes `.env` inside the transaction that alters the role, so a
  kill between the two, or a commit whose answer is lost, leaves them apart; its message
  asks the operator to check.
* The text of messages, and with it the cut of a digest at 3800 characters, which twenty
  lines of ordinary names do not reach.
* The digits of decimals: `Recommender` computes in whole units and rounds down.
* What two worker processes repeat to the reader: the compose file starts one, and
  `NewsOnlyOnce` is stated for one.

## 6. Plan

Models: benchmark requests at once with the duplicates they can make; what two workers may
repeat, and how often.

Proofs: with those models, the invariants that replace `~Overlap` and `OneWorker`.
