------------------------- MODULE MC_CatalogIdentity -------------------------
(***************************************************************************)
(* models_dev publishes the models ag and og, and the deployments ag and   *)
(* og of providers that publish models too; the base_model of a deployment *)
(* (its cid) may name another model, and an upstream edit changes it.      *)
(* litellm lists the deployment og by its bare name, which is canonical,   *)
(* and by its namespaced one, and the deployment ag.                       *)
(***************************************************************************)
EXTENDS CatalogIdentity

CONSTANTS models_dev, litellm, none

Rec(e, c, canonical, d) == [ext |-> e, cid |-> c, canonical |-> canonical, dep |-> d]

MCSource == {models_dev, litellm}
MCExt == {"ag", "og", "gpt"}
MCCid == {"ag", "fg", "og"}
MCDeployment == {"ag", "og"}

MCFeed == [s \in MCSource |->
    IF s = models_dev
    THEN {Rec("ag", "ag", TRUE, none), Rec("og", "og", TRUE, none),
          Rec("ag", "og", FALSE, "ag"),
          Rec("og", "og", FALSE, "og"), Rec("og", "fg", FALSE, "og")}
    ELSE {Rec("ag", "ag", FALSE, "ag"),
          Rec("og", "og", FALSE, "og"), Rec("gpt", "og", TRUE, "og")}]

\* Namespaced ids first, then by id; models.json before api.json.
MCRank == [r \in [ext : MCExt, cid : MCCid, canonical : BOOLEAN,
                  dep : MCDeployment \cup {none}] |->
    (CASE r.ext = "ag" -> 0 [] r.ext = "og" -> 2 [] OTHER -> 4)
      + (IF r.dep = none THEN 0 ELSE 1)]
=============================================================================
