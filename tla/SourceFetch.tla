----------------------------- MODULE SourceFetch -----------------------------
(***************************************************************************)
(* How a source reaches the evidence: _sync and its load (ingestion.py),   *)
(* fetch and the LocalSnapshotStore (transport.py), and the backup that    *)
(* must hold every snapshot the database names (scripts/data.py).          *)
(*                                                                         *)
(* A source is read from its Urls in order, under its lock, so one sync    *)
(* runs at a time.  A content is a pair <<url, revision>>; its validator   *)
(* (ETag or Last-Modified) is the revision, which two urls may share.      *)
(***************************************************************************)
EXTENDS Naturals, Sequences

CONSTANTS
    Urls,         \* the urls of the source, in the order they are loaded
    MaxRevision,  \* the revisions a url may serve are 1..MaxRevision
    Attempts,     \* requests fetch makes for a url (4 in the code)
    MaxPublished, \* bound on the revisions published
    MaxAccidents  \* bound on the crashes and power losses

Url == {Urls[i] : i \in DOMAIN Urls}
Revisions == 1..MaxRevision
Content == Url \X Revisions
NoTag == 0

ASSUME FetchAssumption ==
    /\ Urls \in Seq(Url) /\ Urls # <<>>
    /\ MaxRevision \in Nat \ {0}
    /\ Attempts \in Nat \ {0}
    /\ MaxPublished \in Nat
    /\ MaxAccidents \in Nat

VARIABLES
    remote,     \* remote[u]: the revision u serves
    sync,       \* the sync under the lock: phase, url, attempt, receipts
    last,       \* last[u]: the receipt of u in the last successful run
    rows,       \* the contents named by rows of the table snapshots
    files,      \* files[x]: "absent", "whole" or "torn"
    unsettled,  \* files whose rename may not survive a power loss yet
    lost,       \* history: contents a power loss took from the store
    backup,     \* a backup: its phase, and the rows it still has no object for
    published,  \* the revisions published so far
    accidents   \* the crashes and power losses so far

fetchVars == <<remote, sync, last, rows, files, unsettled, lost, backup,
             published, accidents>>
disk == <<rows, files, unsettled, lost>>

-----------------------------------------------------------------------------
NoReceipt == [content |-> <<>>, tag |-> NoTag, right |-> TRUE]
Idle == [phase |-> "idle", at |-> 1, attempt |-> 1, synced |-> FALSE,
         receipts |-> [u \in Url |-> NoReceipt]]
NoBackup == [phase |-> "none", missing |-> {}]

FetchInit ==
    /\ remote = [u \in Url |-> 1]
    /\ sync = Idle
    /\ last = [u \in Url |-> NoReceipt]
    /\ rows = {}
    /\ files = [x \in Content |-> "absent"]
    /\ unsettled = {}
    /\ lost = {}
    /\ backup = NoBackup
    /\ published = 0
    /\ accidents = 0

Here == Urls[sync.at]

\* Mutant: the last receipt of the source, whatever its url.
LastOfSource(u) == last[Urls[Len(Urls)]]

\* The last receipt of the url in a run that succeeded.
Last(u) == last[u]

\* The content the url serves.
Served == <<Here, remote[Here]>>

\* The validator of receipt t is the one its own content came with.
Trusted(t) == t.tag = NoTag \/ t.tag = t.content[2]

\* The receipt load would add: a content, with the validator of the answer or
\* else that of the last receipt; and (history) whether it is what was served,
\* if the validator sent can be trusted to tell.
Receipt(x, tag) ==
    [content |-> x, tag |-> IF tag # NoTag THEN tag ELSE Last(Here).tag,
     right |-> Trusted(Last(Here)) => x = Served]

\* The run row is committed as "running".
Begin == /\ sync.phase = "idle"
         /\ sync' = [Idle EXCEPT !.phase = "asking"]
         /\ UNCHANGED <<remote, last, disk, backup, published, accidents>>

\* A timeout, a network error or a status worth a retry soon.
AskAgain == /\ sync.phase = "asking"
            /\ sync' = IF sync.attempt < Attempts
                       THEN [sync EXCEPT !.attempt = @ + 1] ELSE Idle
            /\ UNCHANGED <<remote, last, disk, backup, published, accidents>>

\* A status, redirect, size or Retry-After that ends the run; an answer that
\* cannot be parsed or normalised; an exception of the store, the database or
\* the writer.  The run is recorded as failed: what load committed stays.
Fail == /\ sync.phase # "idle"
        /\ sync' = Idle
        /\ UNCHANGED <<remote, last, disk, backup, published, accidents>>

\* 304: the content comes from the snapshot of the last receipt.
NotModified(tag) ==
    LET x == Last(Here).content IN
    /\ sync.phase = "asking"
    /\ Last(Here).tag = remote[Here]
    /\ tag \in {NoTag, remote[Here]}
    /\ sync' = IF x \in rows /\ files[x] = "whole"
               THEN [sync EXCEPT !.phase = "kept",
                                 !.receipts[Here] = Receipt(x, tag)]
               ELSE Idle
    /\ UNCHANGED <<remote, last, disk, backup, published, accidents>>

\* 200, with a validator or without.  put finds the object or writes it to a
\* temporary file; an object that is not what its name says ends the run.
Modified(tag) ==
    /\ sync.phase = "asking"
    /\ tag \in {NoTag, remote[Here]}
    /\ sync' = IF files[Served] = "torn" THEN Idle
               ELSE [sync EXCEPT !.receipts[Here] = Receipt(Served, tag),
                                 !.phase = IF files[Served] = "whole"
                                           THEN "kept" ELSE "written"]
    /\ UNCHANGED <<remote, last, disk, backup, published, accidents>>

\* Mutant: the temporary file is not flushed to the disk.
Unflushed(s) == [s EXCEPT !.phase = "synced"]

\* fsync.
Flushed(s) == [s EXCEPT !.phase = "synced", !.synced = TRUE]

Fsync == /\ sync.phase = "written"
         /\ sync' = Flushed(sync)
         /\ UNCHANGED <<remote, last, disk, backup, published, accidents>>

Mine == sync.receipts[Here].content

\* os.replace: from now on the object is there, as a whole.
Replace == /\ sync.phase = "synced"
           /\ files' = [files EXCEPT ![Mine] = "whole"]
           /\ unsettled' = unsettled \cup {<<Mine, sync.synced>>}
           /\ sync' = [sync EXCEPT !.phase = "kept", !.synced = FALSE]
           /\ UNCHANGED <<remote, last, rows, lost, backup, published, accidents>>

\* The snapshot row, if new, and the receipt are committed together.
Commit == /\ sync.phase = "kept"
          /\ rows' = rows \cup {Mine}
          /\ sync' = [sync EXCEPT !.phase = "loaded"]
          /\ UNCHANGED <<remote, last, files, unsettled, lost, backup, published, accidents>>

\* The content is normalised; after the last url the records are persisted and
\* the run succeeds.
Normalise ==
    /\ sync.phase = "loaded"
    /\ IF sync.at < Len(Urls)
       THEN /\ sync' = [sync EXCEPT !.phase = "asking", !.at = @ + 1, !.attempt = 1]
            /\ UNCHANGED last
       ELSE /\ sync' = Idle
            /\ last' = sync.receipts
    /\ UNCHANGED <<remote, disk, backup, published, accidents>>

-----------------------------------------------------------------------------
\* The source publishes another revision, or an old one again.
Publish(u, rev) == /\ published < MaxPublished
                   /\ published' = published + 1
                   /\ rev # remote[u]
                   /\ remote' = [remote EXCEPT ![u] = rev]
                   /\ UNCHANGED <<sync, last, disk, backup, accidents>>

\* The file system writes its journal.
Settle == /\ unsettled # {}
          /\ unsettled' = {}
          /\ UNCHANGED <<remote, sync, last, rows, files, lost, backup, published, accidents>>

Die == /\ accidents < MaxAccidents
       /\ accidents' = accidents + 1
       /\ sync' = Idle
       /\ backup' = IF backup.phase = "dumped" THEN NoBackup ELSE backup

Crash == /\ sync # Idle \/ backup.phase = "dumped"
         /\ Die
         /\ UNCHANGED <<remote, last, disk, published>>

\* The machine stops: a rename that has not settled may be undone, and a file
\* renamed before its data was flushed is torn if the rename survives.
PowerLoss(gone) ==
    LET names == {e[1] : e \in unsettled} IN
    /\ gone \subseteq names
    /\ unsettled # {}
    /\ Die
    /\ files' = [x \in Content |-> IF x \in gone THEN "absent"
                                   ELSE IF <<x, FALSE>> \in unsettled THEN "torn"
                                   ELSE files[x]]
    /\ lost' = lost \cup gone
    /\ unsettled' = {}
    /\ UNCHANGED <<remote, last, rows, published>>

-----------------------------------------------------------------------------
\* main of scripts/data.py: the database is dumped, then the tree is copied
\* (temporary and lock files apart), then the manifest is written.
Dump == /\ backup = NoBackup
        /\ backup' = [phase |-> "dumped", missing |-> rows]
        /\ UNCHANGED <<remote, sync, last, disk, published, accidents>>

CopyTree == /\ backup.phase = "dumped"
            /\ backup' = [phase |-> "none",
                          missing |-> {x \in backup.missing :
                                         files[x] # "whole" /\ x \notin lost}]
            /\ UNCHANGED <<remote, sync, last, disk, published, accidents>>

FetchNext ==
    \/ Begin
    \/ AskAgain
    \/ Fail
    \/ \E tag \in Revisions \cup {NoTag} : NotModified(tag) \/ Modified(tag)
    \/ Fsync
    \/ Replace
    \/ Commit
    \/ Normalise
    \/ \E u \in Url, rev \in Revisions : Publish(u, rev)
    \/ Settle
    \/ Crash
    \/ \E gone \in SUBSET Content : PowerLoss(gone)
    \/ Dump
    \/ CopyTree

FetchSpec == FetchInit /\ [][FetchNext]_fetchVars

-----------------------------------------------------------------------------
\* What a run normalises for a url is what the source served when it answered,
\* a 304 included, as long as the validator it had sent was the one its own
\* content came with (ingestion.py, line 141, keeps an older validator for an
\* answer that has none: there the promise ends).
FetchedAsServed ==
    \A u \in Url : sync.receipts[u].right

\* No object is ever partial; every snapshot row has its object unless a power
\* loss undid its rename; and so has every row of a finished backup
\* (transport.py, lines 37-38; scripts/verify_restore.py, lines 67-72).
SnapshotsRestorable ==
    /\ \A x \in Content : files[x] # "torn"
    /\ \A x \in rows : files[x] = "whole" \/ x \in lost
    /\ backup.phase = "none" => backup.missing = {}
=============================================================================
