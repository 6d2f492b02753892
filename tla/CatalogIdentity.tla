-------------------------- MODULE CatalogIdentity --------------------------
(***************************************************************************)
(* Which model a source record belongs to: CatalogWriter.persist           *)
(* (sources/persist.py) without the fields it observes, and the operator's *)
(* corrections (private_api.py, resolve_identity).                         *)
(*                                                                         *)
(* The id of a model is the hash of the identity key it was created with;  *)
(* promotion replaces the key and keeps the id.  A Deployment stands for   *)
(* an access provider, an API id and a variant, whose hash is its id.      *)
(* Names, publishers, providers and announcements are left out.            *)
(***************************************************************************)
EXTENDS Naturals, FiniteSets

CONSTANTS
    Source,        \* the catalog sources
    Ext,           \* the external ids of records
    Cid,           \* the canonical ids records name
    Deployment,    \* the deployments records describe
    None,
    Feed,          \* Feed[s]: the records s may publish
    Rank,          \* Rank[r]: the place of a record in a sorted payload
    Concurrent,    \* TRUE when syncs of different sources may overlap
    MaxSyncs,      \* bound on the syncs
    MaxCorrections \* bound on the corrections

Canonical(c) == <<"canonical", c>>
Candidate(s, c) == <<"candidate", s, c>>

CanonicalKey == {Canonical(c) : c \in Cid}

\* The identity keys, and the ids of the models created with them.
Key == CanonicalKey \cup {Candidate(s, c) : s \in Source, c \in Cid}

Record == [ext : Ext, cid : Cid, canonical : BOOLEAN, dep : Deployment \cup {None}]

ASSUME IdentityAssumption ==
    /\ Feed \in [Source -> SUBSET Record]
    /\ Rank \in [Record -> Nat]
    /\ None \notin Deployment
    /\ None \notin Key
    /\ Concurrent \in BOOLEAN
    /\ MaxSyncs \in Nat
    /\ MaxCorrections \in Nat

VARIABLES
    key,          \* models: key[m], the identity_key of model m
    alias,        \* model_aliases: alias[s][e], the model of a record
    owner,        \* deployments: owner[d], the model of a deployment
    described,    \* deployment_aliases: described[s][e], the deployment
    writer,       \* writer[s]: the open transaction of the sync of s
    corrected,    \* history: the records a correction has moved
    syncs, corrections

tables == <<key, alias, owner, described>>
vars == <<tables, writer, corrected, syncs, corrections>>

-----------------------------------------------------------------------------
NoModels == [m \in Key |-> None]
NoRecords == [e \in Ext |-> None]
NoOwners == [d \in Deployment |-> None]

Idle == [phase |-> "idle", todo |-> {}, key |-> NoModels, loaded |-> NoModels,
         alias |-> NoRecords, seen |-> NoRecords, owner |-> NoOwners,
         known |-> NoOwners, described |-> NoRecords]

Init == /\ key = NoModels
        /\ alias = [s \in Source |-> NoRecords]
        /\ owner = NoOwners
        /\ described = [s \in Source |-> NoRecords]
        /\ writer = [s \in Source |-> Idle]
        /\ corrected = {}
        /\ syncs = 0
        /\ corrections = 0

\* What one sync may download: an external id names one record of a feed of
\* models, and one of a feed of deployments.
Payloads(s) == {B \in SUBSET Feed[s] \ {{}} :
                  \A q, r \in B : q.ext = r.ext /\ (q.dep = None <=> r.dep = None) => q = r}

\* CatalogWriter.__init__ reads the models,
Begin(s, B) ==
    /\ writer[s].phase = "idle"
    /\ Concurrent \/ \A t \in Source : writer[t].phase = "idle"
    /\ syncs < MaxSyncs
    /\ syncs' = syncs + 1
    /\ writer' = [writer EXCEPT ![s] =
         [Idle EXCEPT !.phase = "models", !.todo = B, !.key = key, !.loaded = key]]
    /\ UNCHANGED <<tables, corrected, corrections>>

\* then the aliases of every source, of which it uses its own,
LoadAliases(s) ==
    /\ writer[s].phase = "models"
    /\ writer' = [writer EXCEPT ![s] =
         [writer[s] EXCEPT !.phase = "aliases", !.alias = alias[s], !.seen = alias[s]]]
    /\ UNCHANGED <<tables, corrected, syncs, corrections>>

\* then the deployments and their aliases.
LoadDeployments(s) ==
    /\ writer[s].phase = "aliases"
    /\ writer' = [writer EXCEPT ![s] =
         [writer[s] EXCEPT !.phase = "open", !.owner = owner, !.known = owner,
                           !.described = described[s]]]
    /\ UNCHANGED <<tables, corrected, syncs, corrections>>

-----------------------------------------------------------------------------
(* persist, on the caches w of a sync of s.                                *)

Holders(w, k) == {m \in Key : w.key[m] = k}

Resolved(w, m) == w.key[m] \in CanonicalKey

\* The models a record may belong to already, in the order of the lookups:
\* its alias, its canonical id, its deployment.
Existing(w, r) ==
    LET byAlias == {w.alias[r.ext]} \ {None} IN
    IF \E m \in byAlias : w.key[m] # None THEN byAlias
    ELSE IF Holders(w, Canonical(r.cid)) # {} THEN Holders(w, Canonical(r.cid))
    ELSE IF r.dep # None THEN {w.owner[r.dep]} \ {None}
    ELSE {}

\* Mutant: a canonical record gives its key to any model it belongs to.
PromotableAny(w, m, r) ==
    r.canonical /\ Holders(w, Canonical(r.cid)) \subseteq {m}

\* An unresolved model is promoted unless another one has the canonical key.
Promotable(w, m, r) ==
    /\ r.canonical
    /\ ~Resolved(w, m)
    /\ Holders(w, Canonical(r.cid)) \subseteq {m}

NewKey(s, r) == IF r.canonical THEN Canonical(r.cid) ELSE Candidate(s, r.cid)

\* Mutant: a promoted model gets its canonical id without the prefix.
ModelsUnprefixed(w, s, m, r) ==
    IF Existing(w, r) = {} /\ Holders(w, NewKey(s, r)) = {}
    THEN [w.key EXCEPT ![m] = NewKey(s, r)]
    ELSE IF Existing(w, r) # {} /\ Promotable(w, m, r)
         THEN [w.key EXCEPT ![m] = <<r.cid>>]
         ELSE w.key

\* The models after r: as they are, with one promoted, or with a new one.
Models(w, s, m, r) ==
    IF Existing(w, r) = {} /\ Holders(w, NewKey(s, r)) = {}
    THEN [w.key EXCEPT ![m] = NewKey(s, r)]
    ELSE IF Existing(w, r) # {} /\ Promotable(w, m, r)
         THEN [w.key EXCEPT ![m] = Canonical(r.cid)]
         ELSE w.key

\* The model r ends up with; the id of a new one is the hash of its key.
Target(w, s, r) ==
    IF Existing(w, r) # {} THEN Existing(w, r)
    ELSE IF Holders(w, NewKey(s, r)) # {} THEN Holders(w, NewKey(s, r))
    ELSE {NewKey(s, r)}

Unset(f, x, y) == IF f[x] = None THEN [f EXCEPT ![x] = y] ELSE f

\* Mutant: a record moves its alias to the model its canonical id names.
AliasedAnew(w, r, m) ==
    [w.alias EXCEPT ![r.ext] =
        IF Holders(w, Canonical(r.cid)) # {}
        THEN CHOOSE n \in Holders(w, Canonical(r.cid)) : TRUE ELSE m]

\* A record keeps the alias it has.
Aliased(w, r, m) == Unset(w.alias, r.ext, m)

\* The INSERT of a new model meets the id of an old one, or the model of a
\* deployment was committed after the models were read (KeyError).
Refuses(w, s, r) ==
    \/ /\ Existing(w, r) = {}
       /\ Holders(w, NewKey(s, r)) = {}
       /\ w.key[NewKey(s, r)] # None
    \/ \E m \in Existing(w, r) : w.key[m] = None

NextRecord(w) == {r \in w.todo : \A q \in w.todo : Rank[r] <= Rank[q]}

Persist(s, r) ==
    LET w == writer[s] IN
    /\ w.phase = "open"
    /\ r \in NextRecord(w)
    /\ ~Refuses(w, s, r)
    /\ \E m \in Target(w, s, r) :
         writer' = [writer EXCEPT ![s] =
           [w EXCEPT !.todo = w.todo \ {r},
                     !.key = Models(w, s, m, r),
                     !.alias = Aliased(w, r, m),
                     !.owner = IF r.dep = None THEN w.owner ELSE Unset(w.owner, r.dep, m),
                     !.described = IF r.dep = None THEN w.described
                                   ELSE Unset(w.described, r.ext, r.dep)]]
    /\ UNCHANGED <<tables, corrected, syncs, corrections>>

\* An INSERT or a new key that a row committed meanwhile refuses.
Clashes(w) ==
    \/ \E m \in Key : w.loaded[m] = None /\ w.key[m] # None /\ key[m] # None
    \/ \E m, n \in Key : /\ m # n
                         /\ w.key[m] # w.loaded[m]
                         /\ key[n] = w.key[m]
    \/ \E d \in Deployment : w.known[d] = None /\ w.owner[d] # None /\ owner[d] # None

\* Mutant: a sync writes every row it holds.
FlushedAll(now, loaded, mine) == mine

Flushed(now, loaded, mine) ==
    [x \in DOMAIN now |-> IF mine[x] # loaded[x] THEN mine[x] ELSE now[x]]

\* The transaction of a sync writes what it has changed since it read it.
Commit(s) ==
    LET w == writer[s] IN
    /\ w.phase = "open"
    /\ w.todo = {}
    /\ ~Clashes(w)
    /\ key' = Flushed(key, w.loaded, w.key)
    /\ alias' = [alias EXCEPT ![s] = Flushed(alias[s], w.seen, w.alias)]
    /\ owner' = Flushed(owner, w.known, w.owner)
    /\ described' = [described EXCEPT ![s] = w.described]
    /\ writer' = [writer EXCEPT ![s] = Idle]
    /\ UNCHANGED <<corrected, syncs, corrections>>

\* Any exception: a refused row, a clash, or a fault elsewhere in the sync.
Rollback(s) ==
    /\ writer[s].phase # "idle"
    /\ writer' = [writer EXCEPT ![s] = Idle]
    /\ UNCHANGED <<tables, corrected, syncs, corrections>>

-----------------------------------------------------------------------------
\* The records with a model that describe deployment d.
Describing(d) ==
    {x \in Source \X Ext : described[x[1]][x[2]] = d /\ alias[x[1]][x[2]] # None}

\* resolve_identity: an operator moves deployment d to the resolved model t,
\* and with it the model alias of every record that describes d.
Correct(d, t) ==
    /\ corrections < MaxCorrections
    /\ owner[d] \notin {None, t}
    /\ key[t] \in CanonicalKey
    /\ owner' = [owner EXCEPT ![d] = t]
    /\ alias' = [s \in Source |-> [e \in Ext |->
                    IF <<s, e>> \in Describing(d) THEN t ELSE alias[s][e]]]
    /\ corrected' = corrected \cup Describing(d)
    /\ corrections' = corrections + 1
    /\ UNCHANGED <<key, described, writer, syncs>>

Next == \/ \E s \in Source :
              \/ \E B \in Payloads(s) : Begin(s, B)
              \/ LoadAliases(s)
              \/ LoadDeployments(s)
              \/ \E r \in Feed[s] : Persist(s, r)
              \/ Commit(s)
              \/ Rollback(s)
        \/ \E d \in Deployment, t \in Key : Correct(d, t)

Spec == Init /\ [][Next]_vars

-----------------------------------------------------------------------------
KeyMap == [Key -> Key \cup {None}]
AliasMap == [Ext -> Key \cup {None}]
OwnerMap == [Deployment -> Key \cup {None}]
DescriptionMap == [Ext -> Deployment \cup {None}]

Writer == [phase : {"idle", "models", "aliases", "open"}, todo : SUBSET Record,
           key : KeyMap, loaded : KeyMap, alias : AliasMap, seen : AliasMap,
           owner : OwnerMap, known : OwnerMap, described : DescriptionMap]

\* Every table row and every cached one refers to rows of its own kind.
TypeOK ==
    /\ key \in KeyMap
    /\ alias \in [Source -> AliasMap]
    /\ owner \in OwnerMap
    /\ described \in [Source -> DescriptionMap]
    /\ writer \in [Source -> Writer]
    /\ corrected \subseteq Source \X Ext
    /\ syncs \in Nat
    /\ corrections \in Nat

\* A model that is resolved never takes another identity, although canonical
\* records of other ids come to it through aliases, deployments and
\* corrections (persist lets only unresolved models be promoted).  The one
\* exception is a lost update: a sync that read the model while it was still
\* a candidate promotes it to another id over the identity it has got since.
ResolvedForGood ==
    [][\A m \in Key : key[m] \in CanonicalKey /\ key'[m] # key[m] =>
          \E s \in Source : /\ writer[s].loaded[m] \notin CanonicalKey
                            /\ writer[s].key[m] = key'[m]]_vars

\* What an operator corrected stays corrected: the records a correction moved
\* keep the model of the deployment they describe, through later syncs, the
\* syncs that had loaded the old aliases, and corrections of other
\* deployments (resolve_identity against persist).
CorrectionsHold ==
    \A s \in Source, e \in Ext :
        <<s, e>> \in corrected => alias[s][e] = owner[described[s][e]]

\* Only a correction moves a record or a deployment to another model; a sync
\* never does, whatever its records say and whatever ran beside it.
OnlyCorrectionsMove ==
    [][corrections' = corrections =>
         /\ \A d \in Deployment : owner[d] # None => owner'[d] = owner[d]
         /\ \A s \in Source, e \in Ext :
              alias[s][e] # None => alias'[s][e] = alias[s][e]]_vars

\* What persist refuses is a new candidate under a key whose first holder has
\* been promoted, or a deployment whose model was committed after the sync
\* read the models: never a canonical record, never one with an alias that
\* its caches resolve.
OnlyReusedKeysRefuse ==
    \A s \in Source : writer[s].phase = "open" =>
        \A r \in NextRecord(writer[s]) : Refuses(writer[s], s, r) =>
            \/ ~r.canonical /\ Resolved(writer[s], Candidate(s, r.cid))
            \/ \E m \in Existing(writer[s], r) :
                  writer[s].loaded[m] = None /\ key[m] # None

\* docs/sources.md: "Known canonical IDs and exact deployment identifiers
\* resolve identities."  A record that names the id of a resolved model ends
\* up with a resolved model.
KnownIdsResolve ==
    [][\A s \in Source : \A r \in Feed[s] :
         Persist(s, r) /\ Holders(writer[s], Canonical(r.cid)) # {}
            => Resolved(writer'[s], writer'[s].alias[r.ext])]_vars
=============================================================================
