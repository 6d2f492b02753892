-------------------------- MODULE PrecedenceLedger --------------------------
(***************************************************************************)
(* What a catalog sync promises its readers: the claims of one source      *)
(* change in one step, and with them the selection of exactly the fields   *)
(* that changed, by authority first and recency next; the change feed      *)
(* gains an event for each field whose selected value moved, no more.      *)
(***************************************************************************)
EXTENDS EvidenceFacts

VARIABLES claim, current, events
pvars == <<claim, current, events>>

Init == /\ claim = NoClaims
        /\ current = NoFacts
        /\ events = {}

Changed(s) == {k \in Key : claim'[s][k] # claim[s][k]}

\* A new claim says something new, or is the first of its source.
NewClaim(s, k) ==
    /\ claim'[s][k] \in Fact
    /\ claim[s][k] # None =>
          ~SameValue(k, claim'[s][k].value, claim[s][k].value)

Moved(k) == /\ current[k] # None
            /\ ~SameValue(k, current[k].value, current'[k].value)

Publish(s) ==
    /\ \A t \in Source \ {s} : claim'[t] = claim[t]
    /\ \A k \in Key : IF k \in Changed(s)
                      THEN NewClaim(s, k) /\ Selected(claim', k, current'[k])
                      ELSE current'[k] = current[k]
    /\ \E now \in {claim'[s][k].at : k \in Changed(s)} :
          events' = events \cup
              {[key |-> k, old |-> current[k], new |-> current'[k], at |-> now] :
                  k \in {c \in Changed(s) : Moved(c)}}

Next == \E s \in Source : Publish(s)

Spec == Init /\ [][Next]_pvars
=============================================================================
