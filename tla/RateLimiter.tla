----------------------------- MODULE RateLimiter -----------------------------
(***************************************************************************)
(* The rate limiter of the public API: request_context in fener/api.py.    *)
(*                                                                         *)
(* Every POST is counted against the address it came from, in a table of   *)
(* bounded size.  The handler runs in one event loop and awaits nothing    *)
(* before it has counted, so a POST is one step.  The table lives in       *)
(* memory: a restart of the server empties it.                             *)
(***************************************************************************)
EXTENDS Integers, Sequences, FiniteSets

CONSTANTS
    Client,    \* the addresses
    Capacity,  \* buckets in the table (4096 in the code)
    Limit,     \* POSTs admitted in a period (30 in the code)
    Period,    \* the period, in ticks (60 seconds in the code)
    MaxTime,   \* bound on the clock
    MaxPosts   \* bound on the POSTs one client is admitted in a period

ASSUME RateAssumption ==
    /\ Capacity \in Nat \ {0}
    /\ Limit \in Nat \ {0}
    /\ Period \in Nat \ {0}
    /\ MaxTime \in Nat
    /\ MaxPosts \in Nat

VARIABLES
    time,      \* the monotonic clock
    windows,   \* windows[c]: the bucket of client c, for each c in the table
    admitted,  \* history: admitted[c], when POSTs of c were let through, and
    full       \* when a new client found the table full: in the last Period

rateVars == <<time, windows, admitted, full>>

-----------------------------------------------------------------------------
NoWindows == [c \in {} |-> <<>>]

RateInit == /\ time = 0
            /\ windows = NoWindows
            /\ admitted = [c \in Client |-> <<>>]
            /\ full = {}

Expired(at, now) == at <= now - Period

\* The window w without its expired head, as the loop at its left end leaves
\* it: i is the first entry that stays, or the end.
Live(w, now) ==
    LET head(i) == /\ \A j \in 1..(i - 1) : Expired(w[j], now)
                   /\ i <= Len(w) => ~Expired(w[i], now)
    IN  SubSeq(w, CHOOSE i \in 1..(Len(w) + 1) : head(i), Len(w))

\* The buckets dropped when the table is full: those whose oldest entry has
\* expired (although a newer one may not have).
Evictable == {c \in DOMAIN windows : windows[c] = <<>> \/ Expired(windows[c][1], time)}

\* A new client meets a full table.
Full(c) == c \notin DOMAIN windows /\ Cardinality(DOMAIN windows) >= Capacity

\* The clients whose buckets stay when c posts.
Kept(c) ==
    LET left == DOMAIN windows \ Evictable IN
    IF ~Full(c) THEN DOMAIN windows
    ELSE IF Cardinality(left) >= Capacity THEN {}
    ELSE left

\* The bucket of c, empty if there is none.
Bucket(c) == IF c \in DOMAIN windows THEN windows[c] ELSE <<>>

\* Mutant: one POST too many is admitted.
HasRoomForOneMore(window) == Len(window) <= Limit

HasRoom(window) == Len(window) < Limit

\* A POST: counted and let through, or refused with 429.
Post(c) ==
    LET window == Live(Bucket(c), time)
        put(w) == [d \in Kept(c) \cup {c} |-> IF d = c THEN w ELSE windows[d]]
    IN
    /\ Len(admitted[c]) < MaxPosts
    /\ full' = IF Full(c) THEN full \cup {time} ELSE full
    /\ IF HasRoom(window)
       THEN /\ windows' = put(Append(window, time))
            /\ admitted' = [admitted EXCEPT ![c] = Append(@, time)]
       ELSE /\ windows' = put(window)
            /\ UNCHANGED admitted
    /\ UNCHANGED time

Restart == /\ windows' = NoWindows
           /\ admitted' = [c \in Client |-> <<>>]
           /\ full' = {}
           /\ UNCHANGED time

TimePasses == /\ time < MaxTime
              /\ time' = time + 1
              /\ admitted' = [c \in Client |-> Live(admitted[c], time + 1)]
              /\ full' = {at \in full : ~Expired(at, time + 1)}
              /\ UNCHANGED windows

RateNext == \/ \E c \in Client : Post(c)
            \/ Restart
            \/ TimePasses

RateSpec == RateInit /\ [][RateNext]_rateVars

-----------------------------------------------------------------------------
\* A client is admitted more than Limit times in a period only if the table
\* was full at some time of that period; a client that is refused was admitted
\* Limit times in it, since its bucket holds admitted POSTs only; and the table
\* is never larger than its capacity (api.py, lines 80-89: an address that
\* floods must not win every client a fresh budget).
BudgetHolds ==
    /\ Cardinality(DOMAIN windows) <= Capacity
    /\ \A c \in Client :
          /\ Len(admitted[c]) > Limit => full # {}
          /\ Len(Live(Bucket(c), time)) <= Len(admitted[c])
=============================================================================
