----------------------- MODULE CatalogIdentity_proofs -----------------------
(***************************************************************************)
(* The identities of the catalog, for any sources, feeds and schedules:    *)
(* the safety properties of CatalogIdentity from one inductive invariant,  *)
(* which relates the caches of an open sync to the tables.                 *)
(***************************************************************************)
EXTENDS CatalogIdentity, TLAPS

\* What a sync has cached of the aliases of its source is what the table has,
\* but for corrections: none has appeared, and those it read it keeps.
AliasesKept(s) ==
    writer[s].phase \in {"aliases", "open"} =>
        \A e \in Ext :
            /\ writer[s].seen[e] = None => alias[s][e] = None
            /\ writer[s].seen[e] # None => writer[s].alias[e] = writer[s].seen[e]

\* A sync keeps the deployments it read, which are in the table for good, and
\* the descriptions of its source, which nobody else writes.
DeploymentsKept(s) ==
    writer[s].phase = "open" =>
        /\ \A d \in Deployment : writer[s].known[d] # None =>
              /\ writer[s].owner[d] = writer[s].known[d]
              /\ owner[d] # None
        /\ \A e \in Ext : described[s][e] # None =>
              writer[s].described[e] = described[s][e]

\* A sync keeps the identities it read resolved.
ModelsKept(s) ==
    \A m \in Key : writer[s].loaded[m] \in CanonicalKey =>
        writer[s].key[m] = writer[s].loaded[m]

\* A record that a correction has moved has a model and a deployment.
CorrectedKnown ==
    \A s \in Source, e \in Ext : <<s, e>> \in corrected =>
        alias[s][e] # None /\ described[s][e] # None

IInv ==
    /\ TypeOK
    /\ \A s \in Source : AliasesKept(s) /\ DeploymentsKept(s) /\ ModelsKept(s)
    /\ CorrectedKnown
    /\ CorrectionsHold

-----------------------------------------------------------------------------
\* The maps of an idle writer hold nothing.
LEMMA IdleType == Idle \in Writer
  BY IdentityAssumption
     DEF Idle, Writer, NoModels, NoRecords, NoOwners, KeyMap, AliasMap,
         OwnerMap, DescriptionMap

\* They keep whatever they should.
LEMMA IdleKeeps ==
  /\ Idle.phase = "idle"
  /\ \A m \in Key : Idle.loaded[m] \notin CanonicalKey
<1>1. Idle.phase = "idle" /\ Idle.loaded = [m \in Key |-> None]
  BY DEF Idle, NoModels
<1>2. None \notin CanonicalKey
  BY IdentityAssumption DEF Key
<1>3. QED
  BY <1>1, <1>2

\* Canonical ids of records are identity keys.
LEMMA KeyType ==
  ASSUME NEW s \in Source, NEW r \in Record
  PROVE  /\ Canonical(r.cid) \in CanonicalKey
         /\ CanonicalKey \subseteq Key
         /\ NewKey(s, r) \in Key
         /\ None \notin CanonicalKey
  BY IdentityAssumption
     DEF Record, CanonicalKey, Key, NewKey

\* The model a record ends up with is a model.
LEMMA TargetType ==
  ASSUME NEW w \in Writer, NEW s \in Source, NEW r \in Record
  PROVE  Target(w, s, r) \subseteq Key
<1>1. Existing(w, r) \subseteq Key
  BY DEF Existing, Holders, Writer, AliasMap, OwnerMap, Record
<1>2. QED
  BY <1>1, KeyType DEF Target, Holders

\* The models a record leaves keep every resolved identity.
LEMMA ModelsKeep ==
  ASSUME NEW w \in Writer, NEW s \in Source, NEW r \in Record, NEW m \in Key,
         m \in Target(w, s, r), ~Refuses(w, s, r)
  PROVE  /\ Models(w, s, m, r) \in KeyMap
         /\ \A n \in Key : w.key[n] \in CanonicalKey => Models(w, s, m, r)[n] = w.key[n]
<1>1. w.key \in [Key -> Key \cup {None}]
  BY DEF Writer, KeyMap
<1>2. CASE Existing(w, r) = {} /\ Holders(w, NewKey(s, r)) = {}
  <2>1. m = NewKey(s, r) /\ w.key[m] = None
    BY <1>2 DEF Target, Refuses
  <2>2. Models(w, s, m, r) = [w.key EXCEPT ![m] = NewKey(s, r)]
    BY <1>2 DEF Models
  <2>3. QED
    BY <1>1, <2>1, <2>2, KeyType DEF KeyMap
<1>3. CASE Existing(w, r) # {} /\ Promotable(w, m, r)
  <2>1. Models(w, s, m, r) = [w.key EXCEPT ![m] = Canonical(r.cid)]
    BY <1>3 DEF Models
  <2>2. w.key[m] \notin CanonicalKey
    BY <1>3 DEF Promotable, Resolved
  <2>3. QED
    BY <1>1, <2>1, <2>2, KeyType DEF KeyMap
<1>4. CASE /\ ~(Existing(w, r) = {} /\ Holders(w, NewKey(s, r)) = {})
           /\ ~(Existing(w, r) # {} /\ Promotable(w, m, r))
  <2>1. Models(w, s, m, r) = w.key
    BY <1>4 DEF Models
  <2>2. QED
    BY <1>1, <2>1 DEF KeyMap
<1>5. QED
  BY <1>2, <1>3, <1>4

-----------------------------------------------------------------------------
\* Nothing is read or corrected at the start.
LEMMA InitIInv == Init => IInv
<1> SUFFICES ASSUME Init PROVE IInv
  OBVIOUS
<1>2. /\ key \in KeyMap /\ owner \in OwnerMap
      /\ alias \in [Source -> AliasMap] /\ described \in [Source -> DescriptionMap]
  BY DEF Init, NoModels, NoRecords, NoOwners, KeyMap, AliasMap, OwnerMap, DescriptionMap
<1>3. writer \in [Source -> Writer]
  BY IdleType DEF Init
<1>4. TypeOK
  BY <1>2, <1>3 DEF Init, TypeOK
<1>5. ASSUME NEW s \in Source
      PROVE  AliasesKept(s) /\ DeploymentsKept(s) /\ ModelsKept(s)
  <2>1. writer[s] = Idle
    BY DEF Init
  <2>2. QED
    BY <2>1, IdleKeeps DEF AliasesKept, DeploymentsKept, ModelsKept
<1>6. CorrectedKnown /\ CorrectionsHold
  <2>1. corrected = {}
    BY DEF Init
  <2>2. QED
    BY <2>1 DEF CorrectedKnown, CorrectionsHold
<1>7. QED
  BY <1>4, <1>5, <1>6 DEF IInv

\* A sync opens its transaction and reads the models.
LEMMA BeginIInv ==
  ASSUME IInv, NEW s \in Source, NEW B \in Payloads(s), Begin(s, B)
  PROVE  IInv'
<1>0. TypeOK /\ writer \in [Source -> Writer]
  BY DEF IInv, TypeOK
<1>1. B \subseteq Record
  BY IdentityAssumption DEF Payloads
<1> DEFINE w == [Idle EXCEPT !.phase = "models", !.todo = B, !.key = key, !.loaded = key]
<1>2. w \in Writer /\ w.phase = "models" /\ w.key = key /\ w.loaded = key
  BY <1>0, <1>1, IdleType DEF Writer, TypeOK
<1>3. writer' = [writer EXCEPT ![s] = w]
  BY DEF Begin
<1> HIDE DEF w
<1>4. TypeOK'
  BY <1>0, <1>2, <1>3 DEF Begin, TypeOK, tables
<1>5. ASSUME NEW t \in Source
      PROVE  (AliasesKept(t) /\ DeploymentsKept(t) /\ ModelsKept(t))'
  <2>1. AliasesKept(t) /\ DeploymentsKept(t) /\ ModelsKept(t)
    BY DEF IInv
  <2>2. CASE t = s
    BY <1>0, <1>2, <1>3, <2>2 DEF AliasesKept, DeploymentsKept, ModelsKept
  <2>3. CASE t # s
    BY <1>0, <1>3, <2>1, <2>3 DEF Begin, tables, AliasesKept, DeploymentsKept, ModelsKept
  <2>4. QED
    BY <2>2, <2>3
<1>6. (CorrectedKnown /\ CorrectionsHold)'
  BY DEF IInv, Begin, tables, CorrectedKnown, CorrectionsHold
<1>7. QED
  BY <1>4, <1>5, <1>6 DEF IInv

\* It reads the aliases of its source.
LEMMA LoadAliasesIInv ==
  ASSUME IInv, NEW s \in Source, LoadAliases(s)
  PROVE  IInv'
<1>0. TypeOK /\ writer \in [Source -> Writer] /\ alias[s] \in AliasMap
  BY DEF IInv, TypeOK
<1> DEFINE w == [writer[s] EXCEPT !.phase = "aliases", !.alias = alias[s], !.seen = alias[s]]
<1>1. writer[s] \in Writer
  BY <1>0
<1>2. /\ w \in Writer /\ w.phase = "aliases" /\ w.alias = alias[s] /\ w.seen = alias[s]
      /\ w.key = writer[s].key /\ w.loaded = writer[s].loaded
  BY <1>0, <1>1 DEF Writer
<1>3. writer' = [writer EXCEPT ![s] = w]
  BY DEF LoadAliases
<1> HIDE DEF w
<1>4. TypeOK'
  BY <1>0, <1>2, <1>3 DEF LoadAliases, TypeOK, tables
<1>5. ASSUME NEW t \in Source
      PROVE  (AliasesKept(t) /\ DeploymentsKept(t) /\ ModelsKept(t))'
  <2>1. AliasesKept(t) /\ DeploymentsKept(t) /\ ModelsKept(t)
    BY DEF IInv
  <2>2. CASE t = s
    BY <1>0, <1>2, <1>3, <2>1, <2>2
       DEF LoadAliases, tables, AliasesKept, DeploymentsKept, ModelsKept
  <2>3. CASE t # s
    BY <1>0, <1>3, <2>1, <2>3
       DEF LoadAliases, tables, AliasesKept, DeploymentsKept, ModelsKept
  <2>4. QED
    BY <2>2, <2>3
<1>6. (CorrectedKnown /\ CorrectionsHold)'
  BY DEF IInv, LoadAliases, tables, CorrectedKnown, CorrectionsHold
<1>7. QED
  BY <1>4, <1>5, <1>6 DEF IInv

\* It reads the deployments.
LEMMA LoadDeploymentsIInv ==
  ASSUME IInv, NEW s \in Source, LoadDeployments(s)
  PROVE  IInv'
<1>0. /\ TypeOK /\ writer \in [Source -> Writer] /\ owner \in OwnerMap
      /\ described[s] \in DescriptionMap
  BY DEF IInv, TypeOK
<1> DEFINE w == [writer[s] EXCEPT !.phase = "open", !.owner = owner, !.known = owner,
                                  !.described = described[s]]
<1>1. writer[s] \in Writer /\ writer[s].phase = "aliases"
  BY <1>0 DEF LoadDeployments
<1>2. /\ w \in Writer /\ w.phase = "open" /\ w.owner = owner /\ w.known = owner
      /\ w.described = described[s]
      /\ w.alias = writer[s].alias /\ w.seen = writer[s].seen
      /\ w.key = writer[s].key /\ w.loaded = writer[s].loaded
  BY <1>0, <1>1 DEF Writer
<1>3. writer' = [writer EXCEPT ![s] = w]
  BY DEF LoadDeployments
<1> HIDE DEF w
<1>4. TypeOK'
  BY <1>0, <1>2, <1>3 DEF LoadDeployments, TypeOK, tables
<1>5. ASSUME NEW t \in Source
      PROVE  (AliasesKept(t) /\ DeploymentsKept(t) /\ ModelsKept(t))'
  <2>1. AliasesKept(t) /\ DeploymentsKept(t) /\ ModelsKept(t)
    BY DEF IInv
  <2>2. CASE t = s
    BY <1>0, <1>1, <1>2, <1>3, <2>1, <2>2
       DEF LoadDeployments, tables, AliasesKept, DeploymentsKept, ModelsKept
  <2>3. CASE t # s
    BY <1>0, <1>3, <2>1, <2>3
       DEF LoadDeployments, tables, AliasesKept, DeploymentsKept, ModelsKept
  <2>4. QED
    BY <2>2, <2>3
<1>6. (CorrectedKnown /\ CorrectionsHold)'
  BY DEF IInv, LoadDeployments, tables, CorrectedKnown, CorrectionsHold
<1>7. QED
  BY <1>4, <1>5, <1>6 DEF IInv

\* It attaches a record in its caches.
LEMMA PersistIInv ==
  ASSUME IInv, NEW s \in Source, NEW r \in Feed[s], Persist(s, r)
  PROVE  IInv'
<1>0. TypeOK /\ writer \in [Source -> Writer] /\ r \in Record
  BY IdentityAssumption DEF IInv, TypeOK
<1> DEFINE v == writer[s]
<1>1. v \in Writer /\ v.phase = "open"
  BY <1>0 DEF Persist
<1>2. PICK m \in Target(v, s, r) :
         writer' = [writer EXCEPT ![s] =
           [v EXCEPT !.todo = v.todo \ {r},
                     !.key = Models(v, s, m, r),
                     !.alias = Aliased(v, r, m),
                     !.owner = IF r.dep = None THEN v.owner ELSE Unset(v.owner, r.dep, m),
                     !.described = IF r.dep = None THEN v.described
                                   ELSE Unset(v.described, r.ext, r.dep)]]
  BY DEF Persist
<1>3. m \in Key
  BY <1>0, <1>1, TargetType
<1> DEFINE A == Aliased(v, r, m)
           O == IF r.dep = None THEN v.owner ELSE Unset(v.owner, r.dep, m)
           D == IF r.dep = None THEN v.described ELSE Unset(v.described, r.ext, r.dep)
           K == Models(v, s, m, r)
<1>4. A \in AliasMap /\ \A e \in Ext : v.alias[e] # None => A[e] = v.alias[e]
  <2>1. v.alias \in [Ext -> Key \cup {None}]
    BY <1>1 DEF Writer, AliasMap
  <2>2. r.ext \in Ext
    BY <1>0 DEF Record
  <2>3. m \in Key \cup {None}
    BY <1>3
  <2>4. /\ Unset(v.alias, r.ext, m) \in [Ext -> Key \cup {None}]
        /\ \A e \in Ext : v.alias[e] # None => Unset(v.alias, r.ext, m)[e] = v.alias[e]
    BY <2>1, <2>2, <2>3 DEF Unset
  <2>5. QED
    BY <2>4 DEF Aliased, AliasMap
<1>5. O \in OwnerMap /\ \A d \in Deployment : v.owner[d] # None => O[d] = v.owner[d]
  <2>1. v.owner \in [Deployment -> Key \cup {None}]
    BY <1>1 DEF Writer, OwnerMap
  <2>2. m \in Key \cup {None}
    BY <1>3
  <2>3. CASE r.dep = None
    BY <2>1, <2>3 DEF OwnerMap
  <2>4. CASE r.dep # None
    <3>1. r.dep \in Deployment
      BY <1>0, <2>4 DEF Record
    <3>2. /\ Unset(v.owner, r.dep, m) \in [Deployment -> Key \cup {None}]
          /\ \A d \in Deployment :
                v.owner[d] # None => Unset(v.owner, r.dep, m)[d] = v.owner[d]
      BY <2>1, <2>2, <3>1 DEF Unset
    <3>3. QED
      BY <2>4, <3>2 DEF OwnerMap
  <2>5. QED
    BY <2>3, <2>4
<1>6. D \in DescriptionMap /\ \A e \in Ext : v.described[e] # None => D[e] = v.described[e]
  <2>1. v.described \in [Ext -> Deployment \cup {None}]
    BY <1>1 DEF Writer, DescriptionMap
  <2>2. r.dep \in Deployment \cup {None}
    BY <1>0 DEF Record
  <2>3. r.ext \in Ext
    BY <1>0 DEF Record
  <2>4. /\ Unset(v.described, r.ext, r.dep) \in [Ext -> Deployment \cup {None}]
        /\ \A e \in Ext : v.described[e] # None =>
              Unset(v.described, r.ext, r.dep)[e] = v.described[e]
    BY <2>1, <2>2, <2>3 DEF Unset
  <2>5. QED
    BY <2>1, <2>4 DEF DescriptionMap
<1>7. K \in KeyMap /\ \A n \in Key : v.key[n] \in CanonicalKey => K[n] = v.key[n]
  <2>1. ~Refuses(v, s, r)
    BY DEF Persist
  <2>2. QED
    BY <1>0, <1>1, <1>2, <1>3, <2>1, ModelsKeep
<1> DEFINE w == [v EXCEPT !.todo = v.todo \ {r}, !.key = K, !.alias = A, !.owner = O,
                          !.described = D]
<1> HIDE DEF A, O, D, K, v
<1>8. /\ w \in Writer /\ w.phase = "open"
      /\ w.key = K /\ w.alias = A /\ w.owner = O /\ w.described = D
      /\ w.loaded = v.loaded /\ w.seen = v.seen /\ w.known = v.known
  BY <1>1, <1>4, <1>5, <1>6, <1>7 DEF Writer
<1>9. writer' = [writer EXCEPT ![s] = w]
  BY <1>2 DEF v, A, O, D, K
<1> HIDE DEF w
<1>10. TypeOK'
  BY <1>0, <1>8, <1>9 DEF Persist, TypeOK, tables
<1>11. ASSUME NEW t \in Source
       PROVE  (AliasesKept(t) /\ DeploymentsKept(t) /\ ModelsKept(t))'
  <2>1. AliasesKept(t) /\ DeploymentsKept(t) /\ ModelsKept(t)
    BY DEF IInv
  <2>2. UNCHANGED <<key, alias, owner, described>>
    BY DEF Persist, tables
  <2>3. CASE t = s
    <3>1. writer'[t] = w /\ writer[t] = v
      BY <1>0, <1>9, <2>3 DEF v
    <3>2. AliasesKept(t)'
      BY <1>1, <1>4, <1>8, <2>1, <2>2, <3>1 DEF AliasesKept
    <3>3. DeploymentsKept(t)'
      BY <1>1, <1>5, <1>6, <1>8, <2>1, <2>2, <3>1 DEF DeploymentsKept
    <3>4. ModelsKept(t)'
      BY <1>1, <1>7, <1>8, <2>1, <3>1 DEF ModelsKept
    <3>5. QED
      BY <3>2, <3>3, <3>4
  <2>4. CASE t # s
    BY <1>0, <1>9, <2>1, <2>2, <2>4 DEF AliasesKept, DeploymentsKept, ModelsKept
  <2>5. QED
    BY <2>3, <2>4
<1>12. (CorrectedKnown /\ CorrectionsHold)'
  BY DEF IInv, Persist, tables, CorrectedKnown, CorrectionsHold
<1>13. QED
  BY <1>10, <1>11, <1>12 DEF IInv

\* What a commit writes over the tables: no alias and no owner that is there,
\* no description of a source but its own, and identities the sync changed.
LEMMA CommitWrites ==
  ASSUME IInv, NEW s \in Source, Commit(s)
  PROVE  /\ \A t \in Source, e \in Ext : alias[t][e] # None => alias'[t][e] = alias[t][e]
         /\ \A d \in Deployment : owner[d] # None => owner'[d] = owner[d]
         /\ \A t \in Source, e \in Ext :
               described[t][e] # None => described'[t][e] = described[t][e]
         /\ \A t \in Source, e \in Ext : t # s => alias'[t][e] = alias[t][e]
         /\ \A t \in Source, e \in Ext : t # s => described'[t][e] = described[t][e]
         /\ \A m \in Key : key'[m] # key[m] =>
               /\ writer[s].key[m] = key'[m]
               /\ writer[s].loaded[m] \notin CanonicalKey
         /\ TypeOK'
         /\ writer' = [writer EXCEPT ![s] = Idle]
         /\ corrected' = corrected
<1> DEFINE w == writer[s]
<1>1. w \in Writer /\ w.phase = "open"
  BY DEF IInv, TypeOK, Commit
<1>2. AliasesKept(s) /\ DeploymentsKept(s) /\ ModelsKept(s)
  BY DEF IInv
<1>3. /\ key \in KeyMap /\ alias \in [Source -> AliasMap] /\ owner \in OwnerMap
      /\ described \in [Source -> DescriptionMap] /\ writer \in [Source -> Writer]
  BY DEF IInv, TypeOK
<1>4. /\ key' = Flushed(key, w.loaded, w.key)
      /\ alias' = [alias EXCEPT ![s] = Flushed(alias[s], w.seen, w.alias)]
      /\ owner' = Flushed(owner, w.known, w.owner)
      /\ described' = [described EXCEPT ![s] = w.described]
      /\ writer' = [writer EXCEPT ![s] = Idle]
      /\ corrected' = corrected /\ syncs' = syncs /\ corrections' = corrections
      /\ ~Clashes(w)
  BY DEF Commit
<1>5. /\ w.key \in [Key -> Key \cup {None}] /\ w.loaded \in [Key -> Key \cup {None}]
      /\ w.alias \in [Ext -> Key \cup {None}] /\ w.seen \in [Ext -> Key \cup {None}]
      /\ w.owner \in [Deployment -> Key \cup {None}]
      /\ w.known \in [Deployment -> Key \cup {None}]
      /\ w.described \in [Ext -> Deployment \cup {None}]
  BY <1>1 DEF Writer, KeyMap, AliasMap, OwnerMap, DescriptionMap
<1>6. /\ \A e \in Ext : w.seen[e] = None => alias[s][e] = None
      /\ \A e \in Ext : w.seen[e] # None => w.alias[e] = w.seen[e]
      /\ \A d \in Deployment : w.known[d] # None => w.owner[d] = w.known[d]
      /\ \A e \in Ext : described[s][e] # None => w.described[e] = described[s][e]
      /\ \A m \in Key : w.loaded[m] \in CanonicalKey => w.key[m] = w.loaded[m]
      /\ \A d \in Deployment : w.known[d] = None /\ w.owner[d] # None => owner[d] = None
  BY <1>1, <1>2, <1>4 DEF AliasesKept, DeploymentsKept, ModelsKept, Clashes
<1> HIDE DEF w
<1>7. /\ key' = [m \in Key |-> IF w.key[m] # w.loaded[m] THEN w.key[m] ELSE key[m]]
      /\ owner' = [d \in Deployment |->
                     IF w.owner[d] # w.known[d] THEN w.owner[d] ELSE owner[d]]
  BY <1>3, <1>4 DEF Flushed, KeyMap, OwnerMap
<1>8. /\ alias'[s] = [e \in Ext |-> IF w.alias[e] # w.seen[e] THEN w.alias[e] ELSE alias[s][e]]
      /\ alias' \in [Source -> AliasMap]
      /\ \A t \in Source : t # s => alias'[t] = alias[t]
  <2> DEFINE a == Flushed(alias[s], w.seen, w.alias)
  <2>1. a = [e \in Ext |-> IF w.alias[e] # w.seen[e] THEN w.alias[e] ELSE alias[s][e]]
    BY <1>3 DEF Flushed, AliasMap
  <2>2. a \in AliasMap
    BY <1>3, <1>5, <2>1 DEF AliasMap
  <2>3. alias' = [alias EXCEPT ![s] = a]
    BY <1>4
  <2> HIDE DEF a
  <2>4. alias'[s] = a /\ alias' \in [Source -> AliasMap]
    BY <1>3, <2>2, <2>3
  <2>5. QED
    BY <1>3, <2>1, <2>3, <2>4
<1>9. TypeOK'
  <2>1. key' \in KeyMap /\ owner' \in OwnerMap
    BY <1>3, <1>5, <1>7 DEF KeyMap, OwnerMap
  <2>2. described' \in [Source -> DescriptionMap]
    BY <1>3, <1>4, <1>5 DEF DescriptionMap
  <2>3. writer' \in [Source -> Writer]
    BY <1>3, <1>4, IdleType
  <2>4. QED
    BY <1>4, <1>8, <2>1, <2>2, <2>3 DEF IInv, TypeOK
<1>10. \A t \in Source, e \in Ext : alias[t][e] # None => alias'[t][e] = alias[t][e]
  BY <1>6, <1>8
<1>11. \A d \in Deployment : owner[d] # None => owner'[d] = owner[d]
  BY <1>6, <1>7
<1>12. \A t \in Source, e \in Ext :
          described[t][e] # None => described'[t][e] = described[t][e]
  BY <1>3, <1>4, <1>6
<1>13. /\ \A t \in Source, e \in Ext : t # s => alias'[t][e] = alias[t][e]
       /\ \A t \in Source, e \in Ext : t # s => described'[t][e] = described[t][e]
  BY <1>3, <1>4, <1>8
<1>14. \A m \in Key : key'[m] # key[m] =>
          w.key[m] = key'[m] /\ w.loaded[m] \notin CanonicalKey
  BY <1>6, <1>7
<1>15. QED
  BY <1>4, <1>9, <1>10, <1>11, <1>12, <1>13, <1>14 DEF w

\* The transaction of a sync ends: its caches are gone, those of the others
\* are of other sources and of deployments that are still there.
LEMMA CommitIInv ==
  ASSUME IInv, NEW s \in Source, Commit(s)
  PROVE  IInv'
<1>1. /\ writer' = [writer EXCEPT ![s] = Idle] /\ TypeOK' /\ corrected' = corrected
      /\ \A t \in Source, e \in Ext : alias[t][e] # None => alias'[t][e] = alias[t][e]
      /\ \A d \in Deployment : owner[d] # None => owner'[d] = owner[d]
      /\ \A t \in Source, e \in Ext :
            described[t][e] # None => described'[t][e] = described[t][e]
      /\ \A t \in Source, e \in Ext : t # s => alias'[t][e] = alias[t][e]
      /\ \A t \in Source, e \in Ext : t # s => described'[t][e] = described[t][e]
  BY CommitWrites
<1>2. writer \in [Source -> Writer] /\ described \in [Source -> DescriptionMap]
  BY DEF IInv, TypeOK
<1>3. ASSUME NEW t \in Source
      PROVE  (AliasesKept(t) /\ DeploymentsKept(t) /\ ModelsKept(t))'
  <2>1. AliasesKept(t) /\ DeploymentsKept(t) /\ ModelsKept(t)
    BY DEF IInv
  <2>2. CASE t = s
    <3>1. writer'[t] = Idle
      BY <1>1, <1>2, <2>2
    <3>2. QED
      BY <3>1, IdleKeeps DEF AliasesKept, DeploymentsKept, ModelsKept
  <2>3. CASE t # s
    <3>1. writer'[t] = writer[t]
      BY <1>1, <1>2, <2>3
    <3>2. AliasesKept(t)'
      BY <1>1, <2>1, <2>3, <3>1 DEF AliasesKept
    <3>3. DeploymentsKept(t)'
      BY <1>1, <2>1, <2>3, <3>1 DEF DeploymentsKept
    <3>4. ModelsKept(t)'
      BY <2>1, <3>1 DEF ModelsKept
    <3>5. QED
      BY <3>2, <3>3, <3>4
  <2>4. QED
    BY <2>2, <2>3
<1>4. CorrectedKnown' /\ CorrectionsHold'
  <2>1. CorrectedKnown /\ CorrectionsHold
    BY DEF IInv
  <2>2. SUFFICES ASSUME NEW t \in Source, NEW e \in Ext, <<t, e>> \in corrected
                 PROVE  /\ alias'[t][e] # None /\ described'[t][e] # None
                        /\ alias'[t][e] = owner'[described'[t][e]]
    BY <1>1 DEF CorrectedKnown, CorrectionsHold
  <2>3. /\ alias[t][e] # None /\ described[t][e] # None
        /\ alias[t][e] = owner[described[t][e]]
    BY <2>1, <2>2 DEF CorrectedKnown, CorrectionsHold
  <2>4. described[t][e] \in Deployment
    BY <1>2, <2>3 DEF DescriptionMap
  <2>5. QED
    BY <1>1, <2>3, <2>4
<1>5. QED
  BY <1>1, <1>3, <1>4 DEF IInv

\* It fails: only its caches go.
LEMMA RollbackIInv ==
  ASSUME IInv, NEW s \in Source, Rollback(s)
  PROVE  IInv'
<1>1. writer' = [writer EXCEPT ![s] = Idle] /\ writer \in [Source -> Writer]
  BY DEF Rollback, IInv, TypeOK
<1>2. TypeOK'
  BY <1>1, IdleType DEF IInv, Rollback, TypeOK, tables
<1>3. ASSUME NEW t \in Source
      PROVE  (AliasesKept(t) /\ DeploymentsKept(t) /\ ModelsKept(t))'
  <2>1. AliasesKept(t) /\ DeploymentsKept(t) /\ ModelsKept(t)
    BY DEF IInv
  <2>2. CASE t = s
    <3>1. writer'[t] = Idle
      BY <1>1, <2>2
    <3>2. QED
      BY <3>1, IdleKeeps DEF AliasesKept, DeploymentsKept, ModelsKept
  <2>3. CASE t # s
    BY <1>1, <2>1, <2>3 DEF Rollback, tables, AliasesKept, DeploymentsKept, ModelsKept
  <2>4. QED
    BY <2>2, <2>3
<1>4. (CorrectedKnown /\ CorrectionsHold)'
  BY DEF IInv, Rollback, tables, CorrectedKnown, CorrectionsHold
<1>5. QED
  BY <1>2, <1>3, <1>4 DEF IInv

\* A correction moves a deployment and every record that describes it, the
\* corrected ones among them.
LEMMA CorrectIInv ==
  ASSUME IInv, NEW d \in Deployment, NEW t \in Key, Correct(d, t)
  PROVE  IInv'
<1>1. /\ alias \in [Source -> AliasMap] /\ owner \in OwnerMap
      /\ described \in [Source -> DescriptionMap] /\ writer \in [Source -> Writer]
      /\ t # None
  BY IdentityAssumption DEF IInv, TypeOK
<1>2. /\ owner[d] # None /\ owner' = [owner EXCEPT ![d] = t]
      /\ alias' = [s \in Source |-> [e \in Ext |->
                     IF <<s, e>> \in Describing(d) THEN t ELSE alias[s][e]]]
      /\ corrected' = corrected \cup Describing(d)
      /\ UNCHANGED <<key, described, writer, syncs>>
      /\ corrections' = corrections + 1
  BY DEF Correct
<1>3. ASSUME NEW s \in Source, NEW e \in Ext
      PROVE  /\ <<s, e>> \in Describing(d) <=> described[s][e] = d /\ alias[s][e] # None
             /\ alias'[s][e] = IF <<s, e>> \in Describing(d) THEN t ELSE alias[s][e]
  BY <1>2 DEF Describing
<1>4. TypeOK'
  <2>1. owner' \in OwnerMap
    BY <1>1, <1>2 DEF OwnerMap
  <2>2. alias' \in [Source -> AliasMap]
    BY <1>1, <1>2 DEF AliasMap
  <2>3. corrected' \subseteq Source \X Ext
    BY <1>2 DEF IInv, TypeOK, Describing
  <2>4. QED
    BY <1>2, <2>1, <2>2, <2>3 DEF IInv, TypeOK
<1>5. ASSUME NEW s \in Source
      PROVE  (AliasesKept(s) /\ DeploymentsKept(s) /\ ModelsKept(s))'
  <2>1. AliasesKept(s) /\ DeploymentsKept(s) /\ ModelsKept(s)
    BY DEF IInv
  <2>2. AliasesKept(s)'
    BY <1>2, <1>3, <2>1 DEF AliasesKept
  <2>3. \A c \in Deployment : owner[c] # None => owner'[c] # None
    BY <1>1, <1>2 DEF OwnerMap
  <2>4. DeploymentsKept(s)'
    BY <1>2, <2>1, <2>3 DEF DeploymentsKept
  <2>5. ModelsKept(s)'
    BY <1>2, <2>1 DEF ModelsKept
  <2>6. QED
    BY <2>2, <2>4, <2>5
<1>6. CorrectedKnown' /\ CorrectionsHold'
  <2>1. SUFFICES ASSUME NEW s \in Source, NEW e \in Ext, <<s, e>> \in corrected'
                 PROVE  /\ alias'[s][e] # None /\ described'[s][e] # None
                        /\ alias'[s][e] = owner'[described'[s][e]]
    BY DEF CorrectedKnown, CorrectionsHold
  <2>2. CASE <<s, e>> \in Describing(d)
    <3>1. described[s][e] = d /\ alias'[s][e] = t
      BY <1>3, <2>2
    <3>2. QED
      BY <1>1, <1>2, <3>1, IdentityAssumption DEF OwnerMap
  <2>3. CASE <<s, e>> \notin Describing(d)
    <3>1. <<s, e>> \in corrected
      BY <1>2, <2>1, <2>3
    <3>2. /\ alias[s][e] # None /\ described[s][e] # None
          /\ alias[s][e] = owner[described[s][e]]
      BY <3>1 DEF IInv, CorrectedKnown, CorrectionsHold
    <3>3. described[s][e] # d /\ described[s][e] \in Deployment
      BY <1>1, <1>3, <2>3, <3>2 DEF DescriptionMap
    <3>4. QED
      BY <1>1, <1>2, <1>3, <2>3, <3>2, <3>3 DEF OwnerMap
  <2>4. QED
    BY <2>2, <2>3
<1>7. QED
  BY <1>4, <1>5, <1>6 DEF IInv

-----------------------------------------------------------------------------
\* Every step keeps the invariant.
LEMMA NextIInv == IInv /\ [Next]_vars => IInv'
<1> SUFFICES ASSUME IInv, [Next]_vars PROVE IInv'
  OBVIOUS
<1>1. ASSUME NEW s \in Source, NEW B \in Payloads(s), Begin(s, B) PROVE IInv'
  BY <1>1, BeginIInv
<1>2. ASSUME NEW s \in Source, LoadAliases(s) PROVE IInv'
  BY <1>2, LoadAliasesIInv
<1>3. ASSUME NEW s \in Source, LoadDeployments(s) PROVE IInv'
  BY <1>3, LoadDeploymentsIInv
<1>4. ASSUME NEW s \in Source, NEW r \in Feed[s], Persist(s, r) PROVE IInv'
  BY <1>4, PersistIInv
<1>5. ASSUME NEW s \in Source, Commit(s) PROVE IInv'
  BY <1>5, CommitIInv
<1>6. ASSUME NEW s \in Source, Rollback(s) PROVE IInv'
  BY <1>6, RollbackIInv
<1>7. ASSUME NEW d \in Deployment, NEW t \in Key, Correct(d, t) PROVE IInv'
  BY <1>7, CorrectIInv
<1>8. CASE UNCHANGED vars
  BY <1>8 DEF vars, tables, IInv, TypeOK, AliasesKept, DeploymentsKept,
              ModelsKept, CorrectedKnown, CorrectionsHold
<1>9. QED
  BY <1>1, <1>2, <1>3, <1>4, <1>5, <1>6, <1>7, <1>8 DEF Next

\* The invariant holds in every state.
LEMMA SpecIInv == Spec => []IInv
<1>1. Init => IInv
  BY InitIInv
<1>2. IInv /\ [Next]_vars => IInv'
  BY NextIInv
<1>3. QED
  BY <1>1, <1>2, PTL DEF Spec

\* The tables and the caches of every sync are well formed.
THEOREM TypesHold == Spec => []TypeOK
<1>1. IInv => TypeOK
  BY DEF IInv
<1>2. QED
  BY <1>1, SpecIInv, PTL

\* What an operator corrected stays corrected, for any sources, any feeds and
\* any overlap of syncs.
THEOREM CorrectionsHoldAlways == Spec => []CorrectionsHold
<1>1. IInv => CorrectionsHold
  BY DEF IInv
<1>2. QED
  BY <1>1, SpecIInv, PTL

\* No sync moves a record or a deployment that has a model.
THEOREM OnlyCorrectionsMoveAlways == Spec => OnlyCorrectionsMove
<1> DEFINE Moves == corrections' = corrections =>
             /\ \A d \in Deployment : owner[d] # None => owner'[d] = owner[d]
             /\ \A s \in Source, e \in Ext :
                  alias[s][e] # None => alias'[s][e] = alias[s][e]
<1>1. IInv /\ [Next]_vars => [Moves]_vars
  <2> SUFFICES ASSUME IInv, Next PROVE Moves
    OBVIOUS
  <2>1. ASSUME NEW s \in Source, Commit(s) PROVE Moves
    BY <2>1, CommitWrites
  <2>2. ASSUME UNCHANGED <<owner, alias>> PROVE Moves
    BY <2>2
  <2>3. ASSUME NEW d \in Deployment, NEW t \in Key, Correct(d, t) PROVE Moves
    BY <2>3 DEF Correct, IInv, TypeOK
  <2>4. QED
    BY <2>1, <2>2, <2>3
       DEF Next, Begin, LoadAliases, LoadDeployments, Persist, Rollback, tables
<1>2. QED
  BY <1>1, SpecIInv, PTL DEF Spec, OnlyCorrectionsMove

\* A resolved model keeps its identity but for the lost update of a sync that
\* read it as a candidate.
THEOREM ResolvedForGoodAlways == Spec => ResolvedForGood
<1> DEFINE Lasts == \A m \in Key : key[m] \in CanonicalKey /\ key'[m] # key[m] =>
             \E s \in Source : /\ writer[s].loaded[m] \notin CanonicalKey
                               /\ writer[s].key[m] = key'[m]
<1>1. IInv /\ [Next]_vars => [Lasts]_vars
  <2> SUFFICES ASSUME IInv, Next PROVE Lasts
    OBVIOUS
  <2>1. ASSUME NEW s \in Source, Commit(s) PROVE Lasts
    BY <2>1, CommitWrites
  <2>2. ASSUME UNCHANGED key PROVE Lasts
    BY <2>2
  <2>3. QED
    BY <2>1, <2>2
       DEF Next, Begin, LoadAliases, LoadDeployments, Persist, Rollback, Correct, tables
<1>2. QED
  BY <1>1, SpecIInv, PTL DEF Spec, ResolvedForGood

-----------------------------------------------------------------------------
(* Which records persist refuses.                                          *)

\* A model has the key it was created with or, when that was a candidate's,
\* a canonical one.
Shaped(k) ==
    \A m \in Key : /\ k[m] \in {None, m} \cup CanonicalKey
                   /\ m \in CanonicalKey => k[m] \in {None, m}

\* The models a sync has read are there, in its caches and in the table.
ModelsKnown(s) ==
    /\ Shaped(writer[s].key)
    /\ \A m \in Key : writer[s].loaded[m] # None =>
          writer[s].key[m] # None /\ key[m] # None

\* The models of the deployments it has cached are in the one or the other.
OwnersKnown(s) ==
    writer[s].phase = "open" =>
        \A d \in Deployment : writer[s].owner[d] # None =>
            \/ key[writer[s].owner[d]] # None
            \/ writer[s].key[writer[s].owner[d]] # None

KInv ==
    /\ Shaped(key)
    /\ \A d \in Deployment : owner[d] # None => key[owner[d]] # None
    /\ \A s \in Source : ModelsKnown(s) /\ OwnersKnown(s)

\* The keys of canonical ids and of candidates are told apart.
LEMMA ShapedStep ==
  ASSUME NEW w \in Writer, NEW s \in Source, NEW r \in Record, NEW m \in Key,
         m \in Target(w, s, r), ~Refuses(w, s, r), Shaped(w.key)
  PROVE  /\ Shaped(Models(w, s, m, r))
         /\ Models(w, s, m, r)[m] # None
         /\ \A n \in Key : w.key[n] # None => Models(w, s, m, r)[n] # None
<1>1. w.key \in [Key -> Key \cup {None}] /\ None \notin Key
  BY IdentityAssumption DEF Writer, KeyMap
<1>2. CASE Existing(w, r) = {} /\ Holders(w, NewKey(s, r)) = {}
  <2>1. m = NewKey(s, r) /\ w.key[m] = None
    BY <1>2 DEF Target, Refuses
  <2>2. Models(w, s, m, r) = [w.key EXCEPT ![m] = m]
    BY <1>2, <2>1 DEF Models
  <2>3. QED
    BY <1>1, <2>2 DEF Shaped
<1>3. CASE Existing(w, r) # {} /\ Promotable(w, m, r)
  <2>1. Models(w, s, m, r) = [w.key EXCEPT ![m] = Canonical(r.cid)]
    BY <1>3 DEF Models
  <2>2. m \in Existing(w, r) /\ w.key[m] # None /\ w.key[m] \notin CanonicalKey
    BY <1>3 DEF Target, Refuses, Promotable, Resolved
  <2>3. m \notin CanonicalKey
    BY <2>2 DEF Shaped
  <2>4. Canonical(r.cid) \in CanonicalKey /\ CanonicalKey \subseteq Key
    BY KeyType
  <2>5. QED
    BY <1>1, <2>1, <2>3, <2>4 DEF Shaped
<1>4. CASE /\ ~(Existing(w, r) = {} /\ Holders(w, NewKey(s, r)) = {})
           /\ ~(Existing(w, r) # {} /\ Promotable(w, m, r))
  <2>1. Models(w, s, m, r) = w.key
    BY <1>4 DEF Models
  <2>2. w.key[m] # None
    <3>1. CASE Existing(w, r) # {}
      BY <3>1 DEF Target, Refuses
    <3>2. CASE Existing(w, r) = {}
      <4>1. m \in Holders(w, NewKey(s, r))
        BY <1>4, <3>2 DEF Target
      <4>2. NewKey(s, r) \in Key
        BY KeyType
      <4>3. QED
        BY <1>1, <4>1, <4>2 DEF Holders
    <3>3. QED
      BY <3>1, <3>2
  <2>3. QED
    BY <2>1, <2>2
<1>5. QED
  BY <1>2, <1>3, <1>4

\* An idle sync has read nothing.
LEMMA IdleKnows ==
  /\ Shaped(Idle.key)
  /\ \A m \in Key : Idle.loaded[m] = None
  /\ Idle.phase = "idle"
<1>1. /\ Idle.key = [m \in Key |-> None] /\ Idle.loaded = [m \in Key |-> None]
      /\ Idle.phase = "idle"
  BY DEF Idle, NoModels
<1>2. QED
  BY <1>1 DEF Shaped

\* There are no models to speak of at the start.
LEMMA InitKInv == Init => KInv
<1> SUFFICES ASSUME Init PROVE KInv
  OBVIOUS
<1>1. key = [m \in Key |-> None] /\ owner = [d \in Deployment |-> None]
  BY DEF Init, NoModels, NoOwners
<1>2. ASSUME NEW s \in Source PROVE ModelsKnown(s) /\ OwnersKnown(s)
  <2>1. writer[s] = Idle
    BY DEF Init
  <2>2. QED
    BY <2>1, IdleKnows DEF ModelsKnown, OwnersKnown
<1>3. QED
  BY <1>1, <1>2 DEF KInv, Shaped

\* A sync reads the models there are.
LEMMA BeginKInv ==
  ASSUME IInv, KInv, NEW s \in Source, NEW B \in Payloads(s), Begin(s, B)
  PROVE  KInv'
<1> DEFINE w == [Idle EXCEPT !.phase = "models", !.todo = B, !.key = key, !.loaded = key]
<1>1. w.phase = "models" /\ w.key = key /\ w.loaded = key
  BY DEF Idle
<1>2. writer' = [writer EXCEPT ![s] = w] /\ writer \in [Source -> Writer]
  BY DEF Begin, IInv, TypeOK
<1> HIDE DEF w
<1>3. UNCHANGED <<key, owner>>
  BY DEF Begin, tables
<1>4. ASSUME NEW t \in Source PROVE (ModelsKnown(t) /\ OwnersKnown(t))'
  <2>1. ModelsKnown(t) /\ OwnersKnown(t) /\ Shaped(key)
    BY DEF KInv
  <2>2. CASE t = s
    BY <1>1, <1>2, <1>3, <2>1, <2>2 DEF ModelsKnown, OwnersKnown, Shaped
  <2>3. CASE t # s
    BY <1>2, <1>3, <2>1, <2>3 DEF ModelsKnown, OwnersKnown, Shaped
  <2>4. QED
    BY <2>2, <2>3
<1>5. QED
  BY <1>3, <1>4 DEF KInv, Shaped

\* The deployments it reads belong to models in the table.
LEMMA LoadKInv ==
  ASSUME IInv, KInv, NEW s \in Source, LoadAliases(s) \/ LoadDeployments(s)
  PROVE  KInv'
<1>1. PICK w : /\ writer' = [writer EXCEPT ![s] = w]
               /\ w.key = writer[s].key /\ w.loaded = writer[s].loaded
               /\ w.phase = "open" => w.owner = owner
  <2>1. writer[s] \in Writer
    BY DEF IInv, TypeOK
  <2> DEFINE a == [writer[s] EXCEPT !.phase = "aliases", !.alias = alias[s],
                                    !.seen = alias[s]]
             o == [writer[s] EXCEPT !.phase = "open", !.owner = owner,
                                    !.known = owner, !.described = described[s]]
  <2>2. a.phase = "aliases" /\ a.key = writer[s].key /\ a.loaded = writer[s].loaded
    BY <2>1 DEF Writer
  <2>3. o.owner = owner /\ o.key = writer[s].key /\ o.loaded = writer[s].loaded
    BY <2>1 DEF Writer
  <2>4. writer' = [writer EXCEPT ![s] = a] \/ writer' = [writer EXCEPT ![s] = o]
    BY DEF LoadAliases, LoadDeployments
  <2> HIDE DEF a, o
  <2>5. QED
    BY <2>2, <2>3, <2>4
<1>2. UNCHANGED <<key, owner>> /\ writer \in [Source -> Writer]
  BY DEF LoadAliases, LoadDeployments, tables, IInv, TypeOK
<1>3. ASSUME NEW t \in Source PROVE (ModelsKnown(t) /\ OwnersKnown(t))'
  <2>1. /\ ModelsKnown(t) /\ OwnersKnown(t)
        /\ \A d \in Deployment : owner[d] # None => key[owner[d]] # None
    BY DEF KInv
  <2>2. CASE t = s
    BY <1>1, <1>2, <2>1, <2>2 DEF ModelsKnown, OwnersKnown, Shaped
  <2>3. CASE t # s
    BY <1>1, <1>2, <2>1, <2>3 DEF ModelsKnown, OwnersKnown, Shaped
  <2>4. QED
    BY <2>2, <2>3
<1>4. QED
  BY <1>2, <1>3 DEF KInv, Shaped

\* The model a record ends up with is in the cache.
LEMMA PersistKInv ==
  ASSUME IInv, KInv, NEW s \in Source, NEW r \in Feed[s], Persist(s, r)
  PROVE  KInv'
<1> DEFINE v == writer[s]
<1>0. r \in Record /\ v \in Writer /\ v.phase = "open" /\ ~Refuses(v, s, r)
  BY IdentityAssumption DEF Persist, IInv, TypeOK
<1>1. PICK m \in Target(v, s, r) :
         writer' = [writer EXCEPT ![s] =
           [v EXCEPT !.todo = v.todo \ {r},
                     !.key = Models(v, s, m, r),
                     !.alias = Aliased(v, r, m),
                     !.owner = IF r.dep = None THEN v.owner ELSE Unset(v.owner, r.dep, m),
                     !.described = IF r.dep = None THEN v.described
                                   ELSE Unset(v.described, r.ext, r.dep)]]
  BY DEF Persist
<1>2. m \in Key
  BY <1>0, TargetType
<1> DEFINE K == Models(v, s, m, r)
           O == IF r.dep = None THEN v.owner ELSE Unset(v.owner, r.dep, m)
           w == [v EXCEPT !.todo = v.todo \ {r}, !.key = K, !.alias = Aliased(v, r, m),
                          !.owner = O,
                          !.described = IF r.dep = None THEN v.described
                                        ELSE Unset(v.described, r.ext, r.dep)]
<1>3. ModelsKnown(s) /\ OwnersKnown(s) /\ Shaped(v.key)
  BY DEF KInv, ModelsKnown
<1>4. Shaped(K) /\ K[m] # None /\ \A n \in Key : v.key[n] # None => K[n] # None
  BY <1>0, <1>1, <1>2, <1>3, ShapedStep
<1>5. v.owner \in [Deployment -> Key \cup {None}]
  BY <1>0 DEF Writer, OwnerMap
<1>6. \A d \in Deployment : O[d] \in {v.owner[d], m}
  BY <1>5 DEF Unset
<1> HIDE DEF K, O, v
<1>7. w.key = K /\ w.owner = O /\ w.loaded = v.loaded /\ w.phase = "open"
  BY <1>0 DEF Writer
<1>8. writer' = [writer EXCEPT ![s] = w] /\ writer \in [Source -> Writer]
  BY <1>1 DEF IInv, TypeOK, K, O, v
<1> HIDE DEF w
<1>9. UNCHANGED <<key, owner>>
  BY DEF Persist, tables
<1>10. ASSUME NEW t \in Source PROVE (ModelsKnown(t) /\ OwnersKnown(t))'
  <2>1. ModelsKnown(t) /\ OwnersKnown(t)
    BY DEF KInv
  <2>2. CASE t = s
    <3>1. writer'[t] = w /\ writer[t] = v
      BY <1>8, <2>2 DEF v
    <3>2. ModelsKnown(t)'
      BY <1>4, <1>7, <1>9, <2>1, <3>1 DEF ModelsKnown, Shaped
    <3>3. OwnersKnown(t)'
      BY <1>0, <1>4, <1>5, <1>6, <1>7, <1>9, <2>1, <3>1 DEF OwnersKnown
    <3>4. QED
      BY <3>2, <3>3
  <2>3. CASE t # s
    BY <1>8, <1>9, <2>1, <2>3 DEF ModelsKnown, OwnersKnown, Shaped
  <2>4. QED
    BY <2>2, <2>3
<1>11. QED
  BY <1>9, <1>10 DEF KInv, Shaped

\* A commit takes no model out of the table and puts in those of its cache.
LEMMA CommitKInv ==
  ASSUME IInv, KInv, NEW s \in Source, Commit(s)
  PROVE  KInv'
<1> DEFINE w == writer[s]
<1>1. w \in Writer /\ w.phase = "open" /\ ModelsKnown(s) /\ OwnersKnown(s)
  BY DEF IInv, TypeOK, KInv, Commit
<1>2. /\ key \in KeyMap /\ owner \in OwnerMap /\ writer \in [Source -> Writer]
  BY DEF IInv, TypeOK
<1>3. /\ key' = Flushed(key, w.loaded, w.key)
      /\ owner' = Flushed(owner, w.known, w.owner)
      /\ writer' = [writer EXCEPT ![s] = Idle]
  BY DEF Commit
<1>4. /\ key' = [m \in Key |-> IF w.key[m] # w.loaded[m] THEN w.key[m] ELSE key[m]]
      /\ owner' = [d \in Deployment |->
                     IF w.owner[d] # w.known[d] THEN w.owner[d] ELSE owner[d]]
  BY <1>2, <1>3 DEF Flushed, KeyMap, OwnerMap
<1>5. Shaped(w.key) /\ \A m \in Key : w.loaded[m] # None => w.key[m] # None /\ key[m] # None
  BY <1>1 DEF ModelsKnown
<1>6. \A d \in Deployment : w.owner[d] # None =>
         /\ w.owner[d] \in Key
         /\ key[w.owner[d]] # None \/ w.key[w.owner[d]] # None
  BY <1>1 DEF OwnersKnown, Writer, OwnerMap
<1> HIDE DEF w
<1>7. \A m \in Key : key[m] # None \/ w.key[m] # None => key'[m] # None
  BY <1>4, <1>5
<1>8. Shaped(key)'
  BY <1>4, <1>5 DEF KInv, Shaped
<1>9. ASSUME NEW d \in Deployment, owner'[d] # None PROVE key'[owner'[d]] # None
  <2>1. CASE w.owner[d] # w.known[d]
    <3>1. owner'[d] = w.owner[d]
      BY <1>4, <2>1
    <3>2. QED
      BY <1>6, <1>7, <1>9, <3>1
  <2>2. CASE w.owner[d] = w.known[d]
    <3>1. owner'[d] = owner[d]
      BY <1>4, <2>2
    <3>2. key[owner[d]] # None /\ owner[d] \in Key
      BY <1>2, <1>9, <3>1 DEF KInv, OwnerMap
    <3>3. QED
      BY <1>7, <3>1, <3>2
  <2>3. QED
    BY <2>1, <2>2
<1>10. ASSUME NEW t \in Source PROVE (ModelsKnown(t) /\ OwnersKnown(t))'
  <2>1. ModelsKnown(t) /\ OwnersKnown(t)
    BY DEF KInv
  <2>2. CASE t = s
    <3>1. writer'[t] = Idle
      BY <1>2, <1>3, <2>2
    <3>2. QED
      BY <3>1, IdleKnows DEF ModelsKnown, OwnersKnown
  <2>3. CASE t # s
    <3>1. writer'[t] = writer[t]
      BY <1>2, <1>3, <2>3
    <3>2. ModelsKnown(t)'
      BY <1>7, <2>1, <3>1 DEF ModelsKnown, Shaped
    <3>3. writer[t].owner \in [Deployment -> Key \cup {None}]
      BY <1>2 DEF Writer, OwnerMap
    <3>4. OwnersKnown(t)'
      BY <1>7, <2>1, <3>1, <3>3 DEF OwnersKnown
    <3>5. QED
      BY <3>2, <3>4
  <2>4. QED
    BY <2>2, <2>3
<1>11. QED
  BY <1>8, <1>9, <1>10 DEF KInv

\* A sync that fails leaves the tables as they were.
LEMMA RollbackKInv ==
  ASSUME IInv, KInv, NEW s \in Source, Rollback(s)
  PROVE  KInv'
<1>1. /\ writer' = [writer EXCEPT ![s] = Idle] /\ writer \in [Source -> Writer]
      /\ UNCHANGED <<key, owner>>
  BY DEF Rollback, tables, IInv, TypeOK
<1>2. ASSUME NEW t \in Source PROVE (ModelsKnown(t) /\ OwnersKnown(t))'
  <2>1. ModelsKnown(t) /\ OwnersKnown(t)
    BY DEF KInv
  <2>2. CASE t = s
    <3>1. writer'[t] = Idle
      BY <1>1, <2>2
    <3>2. QED
      BY <3>1, IdleKnows DEF ModelsKnown, OwnersKnown
  <2>3. CASE t # s
    BY <1>1, <2>1, <2>3 DEF ModelsKnown, OwnersKnown, Shaped
  <2>4. QED
    BY <2>2, <2>3
<1>3. QED
  BY <1>1, <1>2 DEF KInv, Shaped

\* A correction moves a deployment to a model in the table.
LEMMA CorrectKInv ==
  ASSUME IInv, KInv, NEW d \in Deployment, NEW t \in Key, Correct(d, t)
  PROVE  KInv'
<1>1. /\ owner' = [owner EXCEPT ![d] = t] /\ owner \in [Deployment -> Key \cup {None}]
      /\ key[t] # None
      /\ UNCHANGED <<key, writer>>
  BY KeyType, IdentityAssumption DEF Correct, IInv, TypeOK, OwnerMap, Key
<1>2. \A c \in Deployment : owner'[c] # None => key'[owner'[c]] # None
  BY <1>1 DEF KInv
<1>3. ASSUME NEW s \in Source PROVE (ModelsKnown(s) /\ OwnersKnown(s))'
  BY <1>1 DEF KInv, ModelsKnown, OwnersKnown, Shaped
<1>4. QED
  BY <1>1, <1>2, <1>3 DEF KInv, Shaped

\* Every step keeps what is known of keys and models.
LEMMA NextKInv == IInv /\ KInv /\ [Next]_vars => KInv'
<1> SUFFICES ASSUME IInv, KInv, [Next]_vars PROVE KInv'
  OBVIOUS
<1>1. ASSUME NEW s \in Source, NEW B \in Payloads(s), Begin(s, B) PROVE KInv'
  BY <1>1, BeginKInv
<1>2. ASSUME NEW s \in Source, LoadAliases(s) \/ LoadDeployments(s) PROVE KInv'
  BY <1>2, LoadKInv
<1>3. ASSUME NEW s \in Source, NEW r \in Feed[s], Persist(s, r) PROVE KInv'
  BY <1>3, PersistKInv
<1>4. ASSUME NEW s \in Source, Commit(s) PROVE KInv'
  BY <1>4, CommitKInv
<1>5. ASSUME NEW s \in Source, Rollback(s) PROVE KInv'
  BY <1>5, RollbackKInv
<1>6. ASSUME NEW d \in Deployment, NEW t \in Key, Correct(d, t) PROVE KInv'
  BY <1>6, CorrectKInv
<1>7. CASE UNCHANGED vars
  BY <1>7 DEF vars, tables, KInv, ModelsKnown, OwnersKnown, Shaped
<1>8. QED
  BY <1>1, <1>2, <1>3, <1>4, <1>5, <1>6, <1>7 DEF Next

\* What the invariants say of a refused record.
LEMMA RefusalExplained == IInv /\ KInv => OnlyReusedKeysRefuse
<1> SUFFICES ASSUME IInv, KInv, NEW s \in Source, writer[s].phase = "open",
                    NEW r \in NextRecord(writer[s]), Refuses(writer[s], s, r)
             PROVE  \/ ~r.canonical /\ Resolved(writer[s], Candidate(s, r.cid))
                    \/ \E m \in Existing(writer[s], r) :
                          writer[s].loaded[m] = None /\ key[m] # None
  BY DEF OnlyReusedKeysRefuse
<1> DEFINE w == writer[s]
<1>1. w \in Writer /\ r \in Record
  BY DEF IInv, TypeOK, Writer, NextRecord
<1>2. ModelsKnown(s) /\ OwnersKnown(s)
  BY DEF KInv
<1>3. NewKey(s, r) \in Key /\ CanonicalKey \subseteq Key /\ None \notin Key
  BY <1>1, KeyType, IdentityAssumption
<1>4. CASE /\ Existing(w, r) = {}
           /\ Holders(w, NewKey(s, r)) = {}
           /\ w.key[NewKey(s, r)] # None
  <2>1. w.key[NewKey(s, r)] # NewKey(s, r)
    BY <1>3, <1>4 DEF Holders
  <2>2. w.key[NewKey(s, r)] \in CanonicalKey /\ NewKey(s, r) \notin CanonicalKey
    BY <1>2, <1>3, <1>4, <2>1 DEF ModelsKnown, Shaped
  <2>3. Canonical(r.cid) \in CanonicalKey
    BY <1>1, KeyType
  <2>4. ~r.canonical /\ NewKey(s, r) = Candidate(s, r.cid)
    BY <2>2, <2>3 DEF NewKey
  <2>5. QED
    BY <2>2, <2>4 DEF Resolved
<1>5. CASE \E m \in Existing(w, r) : w.key[m] = None
  <2>1. PICK m \in Existing(w, r) : w.key[m] = None
    BY <1>5
  <2>2. Holders(w, Canonical(r.cid)) = {} \/ m \notin Holders(w, Canonical(r.cid))
    BY <1>1, <1>3, <2>1, KeyType DEF Holders
  <2>3. r.dep # None /\ m = w.owner[r.dep] /\ m # None
    BY <2>1, <2>2 DEF Existing
  <2>4. r.dep \in Deployment /\ m \in Key
    BY <1>1, <2>3 DEF Record, Writer, OwnerMap
  <2>5. key[m] # None
    BY <1>2, <2>1, <2>3, <2>4 DEF OwnersKnown
  <2>6. w.loaded[m] = None
    BY <1>2, <2>1, <2>4 DEF ModelsKnown
  <2>7. QED
    BY <2>1, <2>5, <2>6
<1>6. QED
  BY <1>4, <1>5 DEF Refuses

\* A sync is refused only over the reused key of a promoted candidate or the
\* deployment of a model it has not read, for any feeds and any overlap.
THEOREM OnlyReusedKeysRefuseAlways == Spec => []OnlyReusedKeysRefuse
<1>1. Init => KInv
  BY InitKInv
<1>2. IInv /\ KInv /\ [Next]_vars => KInv'
  BY NextKInv
<1>3. IInv /\ KInv => OnlyReusedKeysRefuse
  BY RefusalExplained
<1>4. QED
  BY <1>1, <1>2, <1>3, SpecIInv, PTL DEF Spec
=============================================================================
