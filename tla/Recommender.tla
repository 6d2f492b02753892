----------------------------- MODULE Recommender -----------------------------
(***************************************************************************)
(* Recommendations: recommend, its cost estimate and the Pareto frontier   *)
(* (fener/recommendations.py), asked through fener/api.py of deployments   *)
(* whose evidence grows stale (fener/catalog.py).                          *)
(*                                                                         *)
(* Deployments are numbered in the order of their ids.  Facts and prices   *)
(* are partial functions: a field that is absent is not known.  Amounts    *)
(* and utilities are whole numbers of a unit as small as one likes, in     *)
(* which decimals are rounded; One is the utility 1.                       *)
(***************************************************************************)
EXTENDS Integers, Sequences, FiniteSets, FiniteSetsExt, Functions

CONSTANTS
    Offers,     \* Offers[d]: model, resolved, provider, quote, open, facts, prices
    Requests,   \* the requests users make
    Scores,     \* Scores[m]: by metric, the comparable benchmark scores of model m
    One,        \* the utility 1
    MaxStale    \* bound on the facts that are stale at a time

Offered == DOMAIN Offers
Facts(d) == Offers[d].facts
Prices(d) == Offers[d].prices

OfferAssumption(d) ==
    /\ \A m \in DOMAIN Prices(d) : Prices(d)[m].amount \in Nat /\ Prices(d)[m].per \in Nat \ {0}
    /\ \A f \in {"ttft_seconds", "context_window"} \cap DOMAIN Facts(d) : Facts(d)[f] \in Int
    /\ \A k \in DOMAIN Scores[Offers[d].model] : /\ Scores[Offers[d].model][k] \in Nat
                                                 /\ k \notin {"price", "latency"}

RequestAssumption(q) ==
    /\ {q.requests, q.input, q.output, q.cached, q.images, q.context} \subseteq Nat
    /\ q.cached <= q.input
    /\ q.weights \in [DOMAIN q.weights -> Nat] /\ IsFiniteSet(DOMAIN q.weights)
    /\ q.limit \in Nat \ {0}

ASSUME RecommenderAssumption ==
    /\ Offered \subseteq Nat
    /\ \A d \in Offered : OfferAssumption(d)
    /\ \A q \in Requests : RequestAssumption(q)
    /\ One \in Nat
    /\ MaxStale \in Nat

VARIABLES
    listed,   \* the deployments in the catalog
    stale,    \* the <<deployment, field>> not confirmed for 48 hours
    answer    \* the last answer of the API, or NoAnswer

adviceVars == <<listed, stale, answer>>

-----------------------------------------------------------------------------
Known(d, field) == field \in DOMAIN Facts(d)

\* The usage of one request, by priced metric.
Usage(q) == [input_tokens |-> q.input - q.cached, output_tokens |-> q.output,
             cached_input |-> q.cached, request |-> 1, image |-> q.images]

\* The metrics the workload uses at all.
Consumed(q) == {m \in DOMAIN Usage(q) : Usage(q)[m] * q.requests # 0}

InDollars(d, m) == m \in DOMAIN Prices(d) /\ Prices(d)[m].usd

\* What keeps the cost unknown; a request surcharge may be absent.
Missing(d, q) == {m \in Consumed(q) : /\ ~InDollars(d, m)
                                      /\ m = "request" => m \in DOMAIN Prices(d)}

\* What the usage of metric m costs, as far as it can be priced.
Charge(d, q, m) ==
    IF m \in Consumed(q) /\ InDollars(d, m)
    THEN (Prices(d)[m].amount * Usage(q)[m] * q.requests) \div Prices(d)[m].per
    ELSE 0

\* estimate_cost.
Cost(d, q) == SumFunction([m \in DOMAIN Usage(q) |-> Charge(d, q, m)])

-----------------------------------------------------------------------------
\* The evidence that has to be fresh: every price, and the facts asked about
\* (the output limit is not among them).
Relevant(d, q) == DOMAIN Prices(d) \cup
    (DOMAIN Facts(d) \cap ({"availability", "context_window"} \cup q.capabilities))

\* A context that is needed is known and large enough.
Fits(d, q) ==
    LET needed == IF q.context > q.input + q.output THEN q.context ELSE q.input + q.output
    IN  needed > 0 => Known(d, "context_window") /\ Facts(d)["context_window"] >= needed

Emits(d, q) ==
    IF Known(d, "max_output") THEN Facts(d)["max_output"] >= q.output ELSE q.output = 0

\* Within the budget, and free only when that is asked for.
Affordable(d, q) ==
    /\ Missing(d, q) = {}
    /\ q.budget # {} => \A b \in q.budget : Cost(d, q) <= b
    /\ Cost(d, q) = 0 => q.zero \/ q.requests = 0

Fresh(d, q) == q.old \/ \A field \in Relevant(d, q) : <<d, field>> \notin stale

\* recommend: no reason to reject the deployment.
Qualifies(d, q) ==
    /\ Offers[d].resolved \/ q.unresolved
    /\ q.providers = {} \/ Offers[d].provider \in q.providers
    /\ Offers[d].quote => q.quotes
    /\ Known(d, "availability") /\ Facts(d)["availability"] \in {"available", "listed"}
    /\ \A c \in q.capabilities : Known(d, c) /\ Facts(d)[c]
    /\ Fits(d, q)
    /\ Emits(d, q)
    /\ q.open => Offers[d].open
    /\ Fresh(d, q)
    /\ Affordable(d, q)

Eligible(ds, q) == {d \in ds : Qualifies(d, q)}

-----------------------------------------------------------------------------
\* The dearest of ds.
MaxCost(ds, q) == Max({0} \cup {Cost(d, q) : d \in ds})

\* Mutant: a dearer deployment is the more useful one.
PriceUtilityInverted(d, ds, q) ==
    LET top == MaxCost(ds, q)
    IN  IF top = 0 THEN One ELSE (Cost(d, q) * One) \div top

\* 1 - cost / max_cost.
PriceUtility(d, ds, q) ==
    LET top == MaxCost(ds, q)
    IN  IF top = 0 THEN One ELSE ((top - Cost(d, q)) * One) \div top

\* The metrics with a value for d.
Valued(d) ==
    {"price"} \cup {k \in {"latency"} : /\ Known(d, "ttft_seconds")
                                       /\ Facts(d)["ttft_seconds"] >= 0}
              \cup DOMAIN Scores[Offers[d].model]

\* The value of metric k for d among the eligible ds.
Utility(d, ds, q, k) ==
    IF k = "price" THEN PriceUtility(d, ds, q)
    ELSE IF k = "latency" THEN One \div (1 + Facts(d)["ttft_seconds"])
    ELSE Scores[Offers[d].model][k]

\* The sum of the values by their weights; a metric without a value adds
\* nothing.  All sums are over the same total weight, which is left out.
Score(d, ds, q) ==
    SumFunction([k \in DOMAIN q.weights |->
                   IF k \in Valued(d) THEN q.weights[k] * Utility(d, ds, q, k) ELSE 0])

\* By score, then by cost, then by id.
Precedes(d, e, score, q) ==
    \/ score[d] > score[e]
    \/ /\ score[d] = score[e]
       /\ \/ Cost(d, q) < Cost(e, q)
          \/ Cost(d, q) = Cost(e, q) /\ d < e

\* The pairs of ds whose first ranks before the second.
Ranking(ds, q) ==
    LET score == [d \in ds |-> Score(d, ds, q)]
    IN  {p \in ds \X ds : Precedes(p[1], p[2], score, q)}

\* The elements of S in the order of the pairs in before.
InOrder(S, before) ==
    [i \in 1..Cardinality(S) |->
        CHOOSE d \in S : Cardinality({e \in S : <<e, d>> \in before}) = i - 1]

\* Something that was asked for is known.
Covered(d, q) == \E k \in DOMAIN q.weights \cap Valued(d) : q.weights[k] > 0

\* A candidate nothing is known of is dropped.
Rankable(ds, q) == {d \in Eligible(ds, q) : Covered(d, q)}

\* s[m:n].
Slice(s, m, n) == SubSeq(s, m, IF n < Len(s) THEN n ELSE Len(s))

\* The pairs in before, deployments of the model of d first.
AkinFirst(d, before) ==
    LET akin(e) == Offers[e].model = Offers[d].model
    IN  {p \in (DOMAIN Offers) \X (DOMAIN Offers) :
            \/ akin(p[1]) /\ ~akin(p[2])
            \/ (akin(p[1]) <=> akin(p[2])) /\ p \in before}

NoAnswer == [kind |-> "none"]

\* recommend: the recommended deployment, alternatives, fallback chain.
Recommendation(ds, q) ==
    LET usable == Rankable(ds, q)
        before == Ranking(Eligible(ds, q), q)
        ranked == InOrder(usable, before)
        primary == Slice(ranked, 1, 1)
        others == usable \ Range(primary)
    IN  [kind |-> "ranking",
         request |-> q,
         eligible |-> Eligible(ds, q),
         recommended |-> primary,
         alternatives |-> Slice(ranked, 2, q.limit),
         fallbacks |-> Slice(InOrder(others, AkinFirst(ranked[1], before)), 1, 3)]

-----------------------------------------------------------------------------
\* p is as cheap and as good as r, and better in one of the two.
Dominates(p, r) == /\ p.cost <= r.cost /\ p.quality >= r.quality
                   /\ p.cost < r.cost \/ p.quality > r.quality

\* Mutant: a point must be worse in both to be dominated.
ParetoIdsOfBoth(points) ==
    {p.id : p \in {r \in points : \A other \in points \ {r} :
                       ~(other.cost < r.cost /\ other.quality > r.quality)}}

ParetoIds(points) == {p.id : p \in {r \in points : \A other \in points \ {r} :
                                                       ~Dominates(other, r)}}

\* The weighted benchmarks of a request.
QualityKeys(q) == {k \in DOMAIN q.weights : k \notin {"price", "latency"} /\ q.weights[k] > 0}

Quality(d, q) ==
    SumFunction([k \in QualityKeys(q) |-> q.weights[k] * Scores[Offers[d].model][k]])

\* frontier: the deployments recommended on their own that have every score.
ChartPoints(ds, q) ==
    {[id |-> d, cost |-> Cost(d, q), quality |-> Quality(d, q)] :
       d \in {e \in ds : /\ QualityKeys(q) \subseteq DOMAIN Scores[Offers[e].model]
                         /\ Rankable({e}, q) # {}}}

Frontier(ds, q) ==
    LET points == IF QualityKeys(q) = {} THEN {} ELSE ChartPoints(ds, q)
    IN  [kind |-> "frontier", points |-> points, pareto |-> ParetoIds(points)]

-----------------------------------------------------------------------------
AdviceInit == /\ listed = {}
              /\ stale = {}
              /\ answer = NoAnswer

\* A sync lists a deployment, or confirms all of its facts again.
Confirm(d) == /\ listed' = listed \cup {d}
              /\ stale' = {e \in stale : e[1] # d}
              /\ answer' = NoAnswer

\* 48 hours pass without a confirmation of a fact.
Lapse(d, field) == /\ d \in listed
                   /\ Cardinality(stale) < MaxStale
                   /\ stale' = stale \cup {<<d, field>>}
                   /\ answer' = NoAnswer
                   /\ UNCHANGED listed

Recommend(q) == /\ answer = NoAnswer
                /\ answer' = Recommendation(listed, q)
                /\ UNCHANGED <<listed, stale>>

Chart(q) == /\ answer = NoAnswer
            /\ answer' = Frontier(listed, q)
            /\ UNCHANGED <<listed, stale>>

AdviceNext == \/ \E d \in Offered :
                    \/ Confirm(d)
                    \/ \E field \in DOMAIN Facts(d) \cup DOMAIN Prices(d) : Lapse(d, field)
              \/ \E q \in Requests : Recommend(q) \/ Chart(q)

AdviceSpec == AdviceInit /\ [][AdviceNext]_adviceVars

-----------------------------------------------------------------------------
\* e is at least as good as d in what q weighs, and better in some of it.
Outclasses(e, d, q) ==
    LET weighed == {k \in DOMAIN q.weights : q.weights[k] > 0}
        atLeast(k) == k \in Valued(d) =>
                        /\ k \in Valued(e)
                        /\ IF k = "price" THEN Cost(e, q) <= Cost(d, q)
                           ELSE Utility(e, {}, q, k) >= Utility(d, {}, q, k)
        better(k) == /\ k \in Valued(e) \cap Valued(d)
                     /\ IF k = "price" THEN Cost(e, q) < Cost(d, q)
                        ELSE Utility(e, {}, q, k) > Utility(d, {}, q, k)
    IN  (\A k \in weighed : atLeast(k)) /\ \E k \in weighed : better(k)

\* What the evidence has to say of a deployment that is named at all: it can
\* be had and does what is asked, its usage is priced in dollars, and nothing
\* of this is stale.  Only the output limit may be (recommendations.py, lines
\* 187-194).
Backed(d, q) ==
    LET length == q.input + q.output
        needed == DOMAIN Prices(d) \cup {"availability"} \cup q.capabilities
                    \cup {f \in {"context_window"} : length > 0 \/ q.context > 0}
    IN
    /\ Known(d, "availability") /\ Facts(d)["availability"] \in {"available", "listed"}
    /\ \A c \in q.capabilities : Known(d, c) /\ Facts(d)[c]
    /\ length > 0 => Known(d, "context_window") /\ Facts(d)["context_window"] >= length
    /\ q.output > 0 => Known(d, "max_output") /\ Facts(d)["max_output"] >= q.output
    /\ \A m \in Consumed(q) \ {"request"} : m \in DOMAIN Prices(d) /\ Prices(d)[m].usd
    /\ q.old \/ \A field \in needed : <<d, field>> \notin stale

\* Whatever is named qualifies, is covered, and rests on evidence.  Only what
\* comes before a chosen deployment may outclass it, so nothing outclasses the
\* recommended one.  The fallbacks are others, and leave out the same model
\* only when all of its deployments are used.
RankingHolds ==
    answer.kind = "ranking" =>
        LET q == answer.request
            usable == {d \in answer.eligible : Covered(d, q)}
            akin(d) == Offers[d].model = Offers[answer.recommended[1]].model
            chosen == answer.recommended \o answer.alternatives
        IN
        /\ \A d \in Range(chosen \o answer.fallbacks) : d \in usable /\ Backed(d, q)
        /\ (answer.recommended = <<>>) = (usable = {})
        /\ \A i \in DOMAIN chosen : \A e \in answer.eligible :
              Outclasses(e, chosen[i], q) => \E j \in 1..(i - 1) : chosen[j] = e
        /\ \A d \in Range(answer.fallbacks) : d \notin Range(answer.recommended)
        /\ \A d \in Range(answer.fallbacks) :
              ~akin(d) => \A e \in usable : akin(e) =>
                             e \in Range(answer.recommended \o answer.fallbacks)

\* The points on the frontier are those that nothing dominates, identical ones
\* together, and one of them dominates each of the others.
FrontierHolds ==
    answer.kind = "frontier" =>
        \A p \in answer.points :
            IF p.id \in answer.pareto
            THEN \A r \in answer.points : ~Dominates(r, p)
            ELSE \E r \in answer.points : r.id \in answer.pareto /\ Dominates(r, p)

\* What is recommended qualifies on fresh evidence and is not outclassed by
\* anything that qualifies, and the frontier is what nothing dominates
\* (docs/scoring.md, lines 7, 13, 19 and 31).
RanksWhatQualifies == RankingHolds /\ FrontierHolds
=============================================================================
