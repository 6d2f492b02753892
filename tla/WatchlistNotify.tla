-------------------------- MODULE WatchlistNotify --------------------------
(***************************************************************************)
(* Telegram digests of price changes on watched models: notify_watchlist   *)
(* (worker/jobs.py) as the worker loop runs it (worker/cli.py), beside the *)
(* syncs that commit events and the operator who edits the watchlist.      *)
(*                                                                         *)
(* A pass reads the watermark, reads at most Window events after it, sends *)
(* one digest and commits the watermark it reached.  All price changes of  *)
(* one sync carry the instant at which that sync started.                  *)
(*                                                                         *)
(* A series is one price metric of one deployment.  Message texts and      *)
(* amounts are left out; an event is noise when both prices are one rate.  *)
(***************************************************************************)
EXTENDS Naturals, Sequences, FiniteSets, Functions

CONSTANTS
    Series,      \* the (deployment, metric) pairs
    Model,       \* the models
    ModelOf,     \* ModelOf[x]: the model whose deployment series x prices
    Worker,      \* the processes that run the worker loop
    Window,      \* LIMIT of the fetch (20 in the code)
    Overlap,     \* TRUE when a sync may start before an earlier one commits
    MaxSyncs,    \* bound on the syncs of a behaviour
    MaxFaults    \* bound on the passes that fail

ASSUME WatchlistAssumption ==
    /\ IsFiniteSet(Series)
    /\ ModelOf \in [Series -> Model]
    /\ Window \in Nat \ {0}
    /\ Overlap \in BOOLEAN
    /\ MaxSyncs \in Nat
    /\ MaxFaults \in Nat

VARIABLES
    clock,      \* the instant of the last sync started
    open,       \* the instants of the syncs that have not committed
    feed,       \* market_events of type price_change
    watched,    \* watchlist_items: the models on the watchlist
    cursor,     \* notification_cursors: the watermark, 0 without a row
    pass,       \* pass[w]: the notification pass of worker w
    digests,    \* history: the digests delivered, with the faults before each
    scanned,    \* history: the events a completed pass has fetched
    owed,       \* history: the events of models watched ever since
    tardy,      \* history: the events committed behind what was fetched by then
    faults      \* the passes that failed

vars == <<clock, open, feed, watched, cursor, pass, digests, scanned, owed, tardy, faults>>

-----------------------------------------------------------------------------
\* id stands for the hashed primary key that breaks ties of detected_at.
Event == [series : Series, at : Nat, id : Nat, noise : BOOLEAN]

NoPass == [phase |-> "idle", mark |-> 0, rows |-> {}]

\* A database from before equal_values may hold formatting-only changes.
Init == /\ clock = 1
        /\ open = {}
        /\ feed \in {{}} \cup
             {{[series |-> x, at |-> 1, id |-> 1, noise |-> TRUE]} : x \in Series}
        /\ watched = {}
        /\ cursor = 0
        /\ pass = [w \in Worker |-> NoPass]
        /\ digests = <<>>
        /\ scanned = {}
        /\ owed = {}
        /\ tardy = {}
        /\ faults = 0

-----------------------------------------------------------------------------
(* The syncs and the operator.                                             *)

\* Mutant: the instant is taken again when the sync writes.
BeginSyncLater == /\ clock < MaxSyncs + 1
                  /\ Overlap \/ open = {}
                  /\ clock' = clock + 1
                  /\ open' = open \cup {clock + 2}
                  /\ UNCHANGED <<feed, watched, cursor, pass, digests, scanned, owed, tardy, faults>>

BeginSync == /\ clock < MaxSyncs + 1
             /\ Overlap \/ open = {}
             /\ clock' = clock + 1
             /\ open' = open \cup {clock + 1}
             /\ UNCHANGED <<feed, watched, cursor, pass, digests, scanned, owed, tardy, faults>>

\* The watermark, as it is or as a pass has read it, or what a pass has
\* fetched, is past the instant already.
Behind(i) ==
    \/ cursor >= i
    \/ \E w \in Worker : pass[w].mark >= i \/ \E e \in pass[w].rows : e.at >= i

\* A sync changes a series at most once; ids says how the hashes of the
\* changes compare.  Nothing when it rolls back.
CommitSync(i, B, ids) ==
    LET new == {[series |-> x, at |-> i, id |-> ids[x], noise |-> FALSE] : x \in B}
    IN  /\ i \in open
        /\ open' = open \ {i}
        /\ feed' = feed \cup new
        /\ owed' = owed \cup {e \in new : ModelOf[e.series] \in watched}
        /\ tardy' = IF Behind(i) THEN tardy \cup new ELSE tardy
        /\ UNCHANGED <<clock, watched, cursor, pass, digests, scanned, faults>>

WatchAdd(m) == /\ m \notin watched
               /\ watched' = watched \cup {m}
               /\ UNCHANGED <<clock, open, feed, cursor, pass, digests, scanned, owed, tardy, faults>>

WatchRemove(m) == /\ m \in watched
                  /\ watched' = watched \ {m}
                  /\ owed' = {e \in owed : ModelOf[e.series] # m}
                  /\ UNCHANGED <<clock, open, feed, cursor, pass, digests, scanned, tardy, faults>>

-----------------------------------------------------------------------------
(* notify_watchlist.                                                       *)

Before(d, e) == \/ d.at < e.at
                \/ d.at = e.at /\ d.id < e.id

\* ORDER BY detected_at, id LIMIT 20.
First(n, E) == {e \in E : Cardinality({d \in E : Before(d, e)}) < n}

\* Mutant: the window keeps the newest rows.
RowsNewest(mark) ==
    LET E == {e \in feed : e.at > mark /\ ModelOf[e.series] \in watched}
    IN  {e \in E : Cardinality({d \in E : Before(e, d)}) < Window}

Rows(mark) == First(Window, {e \in feed : /\ e.at > mark
                                          /\ ModelOf[e.series] \in watched})

\* _coalesce_moves: the latest change of each series, noise aside.
Moves(rows) ==
    LET real == {e \in rows : ~e.noise}
    IN  {e \in real : \A d \in real : d.series = e.series => ~Before(e, d)}

\* Mutant: the watermark stops at the first event of the digest.
LatestFirst(rows) == CHOOSE i \in {e.at : e \in rows} : \A e \in rows : i <= e.at

Latest(rows) == CHOOSE i \in {e.at : e \in rows} : \A e \in rows : i >= e.at

\* session.get(NotificationCursor, "telegram").
ReadMark(w) ==
    /\ pass[w].phase = "idle"
    /\ pass' = [pass EXCEPT ![w] = [phase |-> "marked", mark |-> cursor, rows |-> {}]]
    /\ UNCHANGED <<clock, open, feed, watched, cursor, digests, scanned, owed, tardy, faults>>

\* The query, and the early return when it is empty.
Fetch(w) ==
    LET rows == Rows(pass[w].mark) IN
    /\ pass[w].phase = "marked"
    /\ pass' = [pass EXCEPT ![w] =
         IF rows = {} THEN NoPass
         ELSE [phase |-> "fetched", mark |-> pass[w].mark, rows |-> rows]]
    /\ UNCHANGED <<clock, open, feed, watched, cursor, digests, scanned, owed, tardy, faults>>

\* send_telegram_message reaches the chat.
Send(w) ==
    /\ pass[w].phase = "fetched"
    /\ Moves(pass[w].rows) # {}
    /\ digests' = Append(digests, [moves |-> Moves(pass[w].rows), faults |-> faults])
    /\ pass' = [pass EXCEPT ![w].phase = "sent"]
    /\ UNCHANGED <<clock, open, feed, watched, cursor, scanned, owed, tardy, faults>>

\* The pass inserts the watermark row and another worker already has.
Refused(w) == pass[w].mark = 0 /\ cursor # 0

\* Mutant: the watermark is committed whether or not the digest was sent.
AdvanceUnsent(w) ==
    /\ pass[w].phase \in {"fetched", "sent"}
    /\ ~Refused(w)
    /\ cursor' = Latest(pass[w].rows)
    /\ scanned' = scanned \cup pass[w].rows
    /\ pass' = [pass EXCEPT ![w] = NoPass]
    /\ UNCHANGED <<clock, open, feed, watched, digests, owed, tardy, faults>>

\* Mutant: a pass that found only noise leaves the watermark where it is.
AdvanceNotOnNoise(w) ==
    /\ pass[w].phase = "sent"
    /\ ~Refused(w)
    /\ cursor' = Latest(pass[w].rows)
    /\ scanned' = scanned \cup pass[w].rows
    /\ pass' = [pass EXCEPT ![w] = NoPass]
    /\ UNCHANGED <<clock, open, feed, watched, digests, owed, tardy, faults>>

\* The watermark after the digest, or at once when all rows were noise.
Advance(w) ==
    /\ \/ pass[w].phase = "sent"
       \/ pass[w].phase = "fetched" /\ Moves(pass[w].rows) = {}
    /\ ~Refused(w)
    /\ cursor' = Latest(pass[w].rows)
    /\ scanned' = scanned \cup pass[w].rows
    /\ pass' = [pass EXCEPT ![w] = NoPass]
    /\ UNCHANGED <<clock, open, feed, watched, digests, owed, tardy, faults>>

\* Telegram refuses, the database fails or the process dies: the pass ends
\* where it is and the loop starts another.
Fail(w) ==
    /\ pass[w].phase # "idle"
    /\ Refused(w) \/ faults < MaxFaults
    /\ faults' = IF Refused(w) THEN faults ELSE faults + 1
    /\ pass' = [pass EXCEPT ![w] = NoPass]
    /\ UNCHANGED <<clock, open, feed, watched, cursor, digests, scanned, owed, tardy>>

Pass(w) == ReadMark(w) \/ Fetch(w) \/ Send(w) \/ Advance(w)

Next == \/ BeginSync
        \/ \E i \in open, B \in SUBSET Series :
              \E ids \in Bijection(B, 1..Cardinality(B)) : CommitSync(i, B, ids)
        \/ \E m \in Model : WatchAdd(m) \/ WatchRemove(m)
        \/ \E w \in Worker : Pass(w) \/ Fail(w)

\* The worker loop never stops, and finitely many of its passes fail.
Fairness == \A w \in Worker : WF_vars(Pass(w))

Spec == Init /\ [][Next]_vars /\ Fairness

-----------------------------------------------------------------------------
Digest == [moves : SUBSET Event, faults : Nat]

TypeOK == /\ clock \in Nat
          /\ open \subseteq 1..clock
          /\ feed \subseteq Event
          /\ watched \subseteq Model
          /\ cursor \in Nat
          /\ pass \in [Worker -> [phase : {"idle", "marked", "fetched", "sent"},
                                  mark : Nat, rows : SUBSET Event]]
          /\ digests \in Seq(Digest)
          /\ scanned \subseteq feed
          /\ owed \subseteq feed
          /\ tardy \subseteq feed
          /\ faults \in Nat

Told(e) == \E i \in DOMAIN digests : e \in digests[i].moves

\* At least once (jobs.py, lines 188-194): an event of a model that has been
\* watched all along is not passed over by the watermark.
AtLeastOnce == \A e \in owed : e.at <= cursor => e \in scanned

\* An event is passed over for one of two reasons: the window ended between
\* the changes of its sync, or its sync outlasted another one, whose later
\* instant a pass had reached before the event was committed (lines 202-219).
PassedOverForCause ==
    \A e \in owed : e.at <= cursor =>
        \/ e \in scanned
        \/ e \in tardy
        \/ \E d \in scanned : d.at = e.at /\ Before(d, e)

\* Collapsing a series and hiding noise never hides news: the reader has been
\* told of every fetched change, or of a later one of its series
\* (lines 163-185, 216-254).
LastWordTold ==
    \A e \in scanned : ~e.noise =>
        \E d \in feed : /\ Told(d)
                        /\ d.series = e.series
                        /\ ~Before(d, e)

\* One worker repeats itself, or announces an older price after a newer one,
\* only after a failed pass (lines 255-260; the watermark exists "so
\* notifications are sent exactly once").
NewsOnlyOnce ==
    \A i, j \in DOMAIN digests : i < j =>
        \A d \in digests[i].moves, e \in digests[j].moves :
            d.series = e.series =>
                Before(d, e) \/ digests[i].faults < digests[j].faults

\* Every price change of a model that stays watched is reached by the
\* watermark: neither noise, nor a full window, nor a failed pass stops it.
WatermarkReaches ==
    \A i \in 1..MaxSyncs + 1, x \in Series :
        (\E e \in owed : e.at = i /\ e.series = x)
            ~> (cursor >= i \/ ~\E e \in owed : e.at = i /\ e.series = x)
=============================================================================
