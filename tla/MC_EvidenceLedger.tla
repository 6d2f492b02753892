------------------------- MODULE MC_EvidenceLedger --------------------------
(* Small instances of EvidenceLedger: the name of a model, which each      *)
(* source observes with authority 60 or 20 as its record is canonical or   *)
(* not, and a price of a deployment, which openrouter, of an earlier       *)
(* release, outranks models_dev in, and models_dev litellm.  a and a2 are  *)
(* two forms of one price.                                                 *)
EXTENDS EvidenceLedger

CONSTANTS models_dev, litellm, openrouter, name, price, a, a2, b

MCRate ==
    [k \in Key |-> [v \in Value |-> IF v = b THEN 2
                                    ELSE IF v = a2 /\ k = name THEN 3 ELSE 1]]

Selling == [s \in Source |-> IF s = openrouter THEN 100
                             ELSE IF s = models_dev THEN 50 ELSE 40]

\* Every source changes its mind on the name; on the price only models_dev
\* and litellm do.
Asking == [s \in Source |-> IF s = models_dev THEN Value
                            ELSE IF s = litellm THEN {a, b} ELSE {b}]

MCOffer ==
    [s \in Source |-> [k \in Key |->
        IF k = name THEN [value : {a, b}, auth : IF s = openrouter THEN {60} ELSE {20, 60}]
        ELSE [value : Asking[s], auth : {Selling[s]}]]]
=============================================================================
