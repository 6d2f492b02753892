----------------------------- MODULE MC_Services -----------------------------
(***************************************************************************)
(* The services around the catalog, model-checked in one run.  They share  *)
(* no state with each other, so their states need not be multiplied: part  *)
(* is the component a behaviour exercises, the others rest in their        *)
(* initial states, and the run visits the sum of the six state spaces.     *)
(* The configuration gives them their constants.                           *)
(***************************************************************************)
EXTENDS SourceFetch, ResearchRuns, PrivateDesk, RateLimiter, ConflictPurge,
        Recommender, TLC

CONSTANTS
    r1, r2, r3,      \* research: request ids,
    a1, a2,          \* what is asked,
    p1, p2,          \* and pages
    h1, h2,          \* server threads
    c1, c2, c3,      \* clients
    u1, u2,          \* the urls of a source
    n1, l1, l2,      \* a harness and its roles,
    d1, d2,          \* deployments,
    e1, f1, f2,      \* a run and what is reported of it,
    s1, k1, k2,      \* a suite with its cases
    o1, o2,          \* sources
    v1, v2, v3,      \* observed values
    none             \* nothing

VARIABLE part

MCCurrent == <<{a1}, {a2}>>
MCUrls == <<u1, u2>>
MCHarnessOf == l1 :> n1 @@ l2 :> n1
MCAuthority == o1 :> 2 @@ o2 :> 1
MCScorerOf == s1 :> (k1 :> "human" @@ k2 :> "exact_match")

-----------------------------------------------------------------------------
\* The deployments on offer: two of model "a" (one with a surcharge for each
\* request), three of model "b" (one without a price for output, one free, one
\* a routing quote), and one of "c" like the second.
Dollars(n, per) == [amount |-> n, per |-> per, usd |-> TRUE]

AnOffer(m, facts, prices) ==
    [model |-> m, resolved |-> TRUE, provider |-> "p", quote |-> FALSE, open |-> TRUE,
     facts |-> facts, prices |-> prices]

FactsOf(ttft) == [availability |-> "listed", context_window |-> 8, max_output |-> 2,
                  ttft_seconds |-> ttft, tools |-> TRUE]

Surcharged == [input_tokens |-> Dollars(1, 2), output_tokens |-> Dollars(1, 1),
               request |-> Dollars(1, 1)]

TheOffers ==
    << AnOffer("a", FactsOf(1), [input_tokens |-> Dollars(1, 2),
                                 output_tokens |-> Dollars(4, 1)]),
       AnOffer("a", FactsOf(3), Surcharged),
       AnOffer("b", [availability |-> "available", context_window |-> 4, max_output |-> 1],
                    [input_tokens |-> Dollars(1, 2),
                     image |-> [Dollars(1, 1) EXCEPT !.usd = FALSE]]),
       AnOffer("b", FactsOf(0), [input_tokens |-> Dollars(0, 1),
                                 output_tokens |-> Dollars(0, 1)]),
       [AnOffer("b", FactsOf(2), [input_tokens |-> Dollars(3, 1),
                                  output_tokens |-> Dollars(3, 1),
                                  cached_input |-> Dollars(1, 1)])
          EXCEPT !.quote = TRUE],
       AnOffer("c", FactsOf(3), Surcharged) >>

Plain == [requests |-> 2, input |-> 2, output |-> 1, cached |-> 0, images |-> 0,
          context |-> 0, capabilities |-> {}, providers |-> {}, budget |-> {},
          weights |-> [price |-> 1], open |-> FALSE, old |-> FALSE, quotes |-> FALSE,
          unresolved |-> FALSE, zero |-> FALSE, limit |-> 2]

TheRequests ==
    { Plain,
      [Plain EXCEPT !.zero = TRUE, !.weights = [price |-> 1, latency |-> 2]],
      [Plain EXCEPT !.quotes = TRUE, !.cached = 1,
                    !.weights = [price |-> 1, latency |-> 1]],
      [Plain EXCEPT !.weights = [latency |-> 1], !.output = 0,
                    !.capabilities = {"tools"}],
      [Plain EXCEPT !.weights = [latency |-> 1], !.output = 0],
      [Plain EXCEPT !.budget = {5}, !.old = TRUE, !.limit = 1],
      [Plain EXCEPT !.images = 1],
      [Plain EXCEPT !.weights = [price |-> 1, bench |-> 2], !.context = 6],
      [Plain EXCEPT !.weights = [bench |-> 1], !.zero = TRUE, !.quotes = TRUE] }

TheScores == [a |-> [bench |-> 6], b |-> [bench |-> 8], c |-> [bench |-> 6]]

-----------------------------------------------------------------------------
Init == /\ part \in {"research", "rate", "fetch", "desk", "repair", "advice"}
        /\ ResearchInit
        /\ RateInit
        /\ FetchInit
        /\ DeskInit
        /\ PurgeInit
        /\ AdviceInit

Next == \/ /\ part = "research"
           /\ ResearchNext
           /\ UNCHANGED <<part, rateVars, fetchVars, deskVars,
                         purgeVars, adviceVars>>
        \/ /\ part = "rate"
           /\ RateNext
           /\ UNCHANGED <<part, researchVars, fetchVars, deskVars,
                         purgeVars, adviceVars>>
        \/ /\ part = "fetch"
           /\ FetchNext
           /\ UNCHANGED <<part, researchVars, rateVars, deskVars,
                         purgeVars, adviceVars>>
        \/ /\ part = "desk"
           /\ DeskNext
           /\ UNCHANGED <<part, researchVars, rateVars, fetchVars,
                         purgeVars, adviceVars>>
        \/ /\ part = "repair"
           /\ PurgeNext
           /\ UNCHANGED <<part, researchVars, rateVars, fetchVars,
                         deskVars, adviceVars>>
        \/ /\ part = "advice"
           /\ AdviceNext
           /\ UNCHANGED <<part, researchVars, rateVars, fetchVars,
                         deskVars, purgeVars>>

Spec == Init /\ [][Next]_<<part, researchVars, rateVars, fetchVars,
                           deskVars, purgeVars, adviceVars>>

=============================================================================
