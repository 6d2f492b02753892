----------------------------- MODULE PrivateDesk -----------------------------
(***************************************************************************)
(* The private side of the API (fener/private_api.py): harnesses and their *)
(* roles, versioned policies and their approval, telemetry, evaluations.   *)
(*                                                                         *)
(* Each request is a transaction of its own at read committed.  A handler  *)
(* is split where another may come between: a row lock (FOR UPDATE) is     *)
(* held from its read to its commit.  A commit that breaks a unique        *)
(* constraint leaves nothing.                                              *)
(***************************************************************************)
EXTENDS Integers, Sequences, FiniteSets

CONSTANTS
    Thread,       \* the server threads
    Harness,      \* the names of harnesses
    Role,         \* the roles
    HarnessOf,    \* HarnessOf[r]: the harness of role r
    Deployment,   \* the catalog's deployments
    NoDeployment, \* no deployment
    RunId,        \* the external run ids of a harness
    Fingerprint,  \* what a telemetry report may say
    NoReport,     \* no fingerprint
    Suite,        \* the suites, each a name with a version
    ScorerOf,     \* ScorerOf[s]: the cases of suite s, each with its scorer
    Unit,         \* a case that is fully met, in the unit users score in
    Perfect,      \* the same in the unit a score is stored in
    MaxVersions,  \* bound on the policies of a role
    MaxScored     \* bound on the evaluation runs

ASSUME DeskAssumption ==
    /\ HarnessOf \in [Role -> Harness]
    /\ Unit \in Nat \ {0}
    /\ Perfect \in Nat \ {0}
    /\ NoDeployment \notin Deployment
    /\ NoReport \notin Fingerprint
    /\ MaxVersions \in Nat
    /\ MaxScored \in Nat
    /\ \A s \in Suite : /\ IsFiniteSet(DOMAIN ScorerOf[s])
                        /\ Cardinality(DOMAIN ScorerOf[s]) \in 1..(2 * Perfect - 1)

VARIABLES
    harnesses,  \* the harnesses created
    policies,   \* policies[r]: by version, the deployment approved or NoDeployment
    default,    \* default[r]: the default deployment of a role, or NoDeployment
    telemetry,  \* telemetry[<<n, e>>]: what is stored of run e of harness n
    suites,     \* the suites created
    scored,     \* the evaluation runs recorded
    op,         \* op[h]: the request a thread is in the middle of
    grants,     \* history: how often each <<role, version>> was approved
    told        \* history: <<n, e, f>> when someone was told f is stored

deskVars == <<harnesses, policies, default, telemetry, suites, scored, op, grants, told>>
book == <<harnesses, policies, default, grants>>
marks == <<suites, scored>>

-----------------------------------------------------------------------------
NoOp == [kind |-> "none"]
Version == 1..MaxVersions

DeskInit ==
    /\ harnesses = {}
    /\ policies = [r \in Role |-> <<>>]
    /\ default = [r \in Role |-> NoDeployment]
    /\ telemetry = [k \in Harness \X RunId |-> NoReport]
    /\ suites = {}
    /\ scored = {}
    /\ op = [h \in Thread |-> NoOp]
    /\ grants = [k \in Role \X Version |-> 0]
    /\ told = {}

Doing(kind) == {op[h] : h \in {g \in Thread : op[g].kind = kind}}

\* Mutant: the role is read without its lock.
RoleUnguarded(r) == TRUE

\* No other transaction holds the lock of the role.
RoleFree(r) == \A o \in Doing("policy") : o.role # r

\* Mutant: the policy is read without its lock.
PolicyUnguarded(r, v) == TRUE

\* No other transaction holds the lock of the policy.
PolicyFree(r, v) == \A o \in Doing("approval") : <<o.role, o.version>> # <<r, v>>

\* create_harness: the name and the roles come together, or a 409.
CreateHarness(n) == /\ n \notin harnesses
                    /\ harnesses' = harnesses \cup {n}
                    /\ UNCHANGED <<policies, default, grants, telemetry, marks, op, told>>

\* create_policy, up to its version number.
NumberPolicy(h, r) ==
    /\ op[h] = NoOp
    /\ HarnessOf[r] \in harnesses
    /\ Len(policies[r]) < MaxVersions
    /\ RoleFree(r)
    /\ op' = [op EXCEPT ![h] = [kind |-> "policy", role |-> r,
                                version |-> Len(policies[r]) + 1]]
    /\ UNCHANGED <<book, telemetry, marks, told>>

\* The draft is committed.
CreatePolicy(h) ==
    LET o == op[h] IN
    /\ o.kind = "policy"
    /\ policies' = IF o.version > Len(policies[o.role])
                   THEN [policies EXCEPT ![o.role] = Append(@, NoDeployment)]
                   ELSE policies
    /\ op' = [op EXCEPT ![h] = NoOp]
    /\ UNCHANGED <<harnesses, default, grants, telemetry, marks, told>>

\* approve_policy, up to its commit: the role is read, not locked.
ReadForApproval(h, r, v, d) ==
    /\ op[h] = NoOp
    /\ v <= Len(policies[r])
    /\ PolicyFree(r, v)
    /\ policies[r][v] = NoDeployment
    /\ op' = [op EXCEPT ![h] = [kind |-> "approval", role |-> r, version |-> v,
                                deployment |-> d, seen |-> default[r]]]
    /\ UNCHANGED <<book, telemetry, marks, told>>

\* The update of the role waits for its lock, and is only sent when the
\* deployment differs from the one this transaction has read.
ApprovePolicy(h) ==
    LET o == op[h] IN
    /\ o.kind = "approval"
    /\ o.deployment # o.seen => RoleFree(o.role)
    /\ policies' = [policies EXCEPT ![o.role][o.version] = o.deployment]
    /\ default' = IF o.deployment # o.seen
                  THEN [default EXCEPT ![o.role] = o.deployment] ELSE default
    /\ grants' = [grants EXCEPT ![<<o.role, o.version>>] = @ + 1]
    /\ op' = [op EXCEPT ![h] = NoOp]
    /\ UNCHANGED <<harnesses, telemetry, marks, told>>

-----------------------------------------------------------------------------
\* telemetry, up to its insert: a run that is stored is a duplicate if the
\* fingerprint agrees, else a 409.
Report(h, r, e, f) ==
    LET k == <<HarnessOf[r], e>> IN
    /\ op[h] = NoOp
    /\ HarnessOf[r] \in harnesses
    /\ IF telemetry[k] = NoReport
       THEN /\ op' = [op EXCEPT ![h] = [kind |-> "report", run |-> k, print |-> f]]
            /\ UNCHANGED told
       ELSE /\ told' = IF telemetry[k] = f THEN told \cup {<<k, f>>} ELSE told
            /\ UNCHANGED op
    /\ UNCHANGED <<book, telemetry, marks>>

\* Mutant: a run that got there first is taken for a duplicate, as it is.
DuplicateAnyway(k, f) == telemetry[k] # NoReport

\* The concurrent row says the same.
Duplicate(k, f) == telemetry[k] = f

\* The insert; an IntegrityError reads the row that got there first.
StoreReport(h) ==
    LET o == op[h] IN
    /\ o.kind = "report"
    /\ telemetry' = IF telemetry[o.run] = NoReport
                    THEN [telemetry EXCEPT ![o.run] = o.print] ELSE telemetry
    /\ told' = IF telemetry[o.run] = NoReport \/ Duplicate(o.run, o.print)
               THEN told \cup {<<o.run, o.print>>} ELSE told
    /\ op' = [op EXCEPT ![h] = NoOp]
    /\ UNCHANGED <<book, marks>>

-----------------------------------------------------------------------------
\* create_suite: a suite and its cases come together, once, or a 409.
CreateSuite(s) == /\ s \notin suites
                  /\ suites' = suites \cup {s}
                  /\ UNCHANGED <<book, telemetry, scored, op, told>>

\* An output: whether it matches the reference, and a human score or -1.
Output == [matched : BOOLEAN, human : {-1} \cup 0..Unit]

\* Mutant: the outputs may leave cases out.
AcceptsSome(s, outputs) ==
    /\ DOMAIN outputs \in SUBSET (DOMAIN ScorerOf[s]) \ {{}}
    /\ \A c \in DOMAIN outputs : ScorerOf[s][c] = "human" => outputs[c].human # -1

\* Exactly one output for each case, with a score where a human gives it.
Accepts(s, outputs) ==
    /\ DOMAIN outputs = DOMAIN ScorerOf[s]
    /\ \A c \in DOMAIN outputs : ScorerOf[s][c] = "human" => outputs[c].human # -1

CaseScore(scorer, output) == IF scorer = "human" THEN output.human
                             ELSE IF output.matched THEN Unit ELSE 0

\* The sum of the scores, counted in points.
Points(scores) ==
    Cardinality({p \in (DOMAIN scores) \X (1..Unit) : p[2] <= scores[p[1]]})

\* The mean as the column holds it: rounded to the nearest, halves upwards.
\* What the division rounds before, in its 28th digit, is not told apart.
Rounded(points, cases) == (2 * points * Perfect + cases * Unit) \div (2 * cases * Unit)

\* evaluate: the scores of the cases are kept as given, their mean is rounded.
Evaluate(s, outputs) ==
    LET scores == [c \in DOMAIN outputs |-> CaseScore(ScorerOf[s][c], outputs[c])]
        mean == Rounded(Points(scores), Cardinality(DOMAIN scores))
    IN
    /\ Cardinality(scored) < MaxScored
    /\ s \in suites
    /\ Accepts(s, outputs)
    /\ scored' = scored \cup {[suite |-> s, scores |-> scores, mean |-> mean]}
    /\ UNCHANGED <<book, telemetry, suites, op, told>>

-----------------------------------------------------------------------------
\* The server dies: transactions are rolled back, their locks released.
CrashDesk == /\ \E h \in Thread : op[h] # NoOp
             /\ op' = [h \in Thread |-> NoOp]
             /\ UNCHANGED <<book, telemetry, marks, told>>

\* What may be sent for a suite: outputs for some of the cases.
Outputs(s) == UNION {[cases -> Output] : cases \in SUBSET DOMAIN ScorerOf[s]}

DeskNext ==
    \/ \E n \in Harness : CreateHarness(n)
    \/ \E h \in Thread, r \in Role :
          \/ NumberPolicy(h, r)
          \/ \E v \in Version, d \in Deployment : ReadForApproval(h, r, v, d)
          \/ \E e \in RunId, f \in Fingerprint : Report(h, r, e, f)
    \/ \E h \in Thread : CreatePolicy(h) \/ ApprovePolicy(h) \/ StoreReport(h)
    \/ \E s \in Suite : \/ CreateSuite(s)
                        \/ \E outputs \in Outputs(s) : Evaluate(s, outputs)
    \/ CrashDesk

DeskSpec == DeskInit /\ [][DeskNext]_deskVars

-----------------------------------------------------------------------------
\* A version number in hand is still free, a policy is approved once at most,
\* and the default of a role is a deployment some approval of it named.
PoliciesAgree ==
    /\ \A o \in Doing("policy") : o.version = Len(policies[o.role]) + 1
    /\ \A r \in Role :
          LET approved == {v \in DOMAIN policies[r] : policies[r][v] # NoDeployment} IN
          /\ \A v \in Version : grants[<<r, v>>] = IF v \in approved THEN 1 ELSE 0
          /\ IF approved = {} THEN default[r] = NoDeployment
             ELSE \E v \in approved : default[r] = policies[r][v]

\* Whoever was told that a report is stored finds that report.
ReportsStored == \A t \in told : telemetry[t[1]] = t[2]

\* An evaluation covers its suite.  Its rounded mean is full when every case
\* is, and hides no case that was compared and missed, though it may hide a
\* human's score just below full; likewise at zero.
EvaluationsComplete ==
    \A e \in scored :
        LET cases == DOMAIN ScorerOf[e.suite]
            compared == {c \in cases : ScorerOf[e.suite][c] # "human"}
        IN
        /\ DOMAIN e.scores = cases
        /\ e.mean \in 0..Perfect
        /\ (\A c \in cases : e.scores[c] = Unit) => e.mean = Perfect
        /\ (\A c \in cases : e.scores[c] = 0) => e.mean = 0
        /\ e.mean = Perfect => \A c \in compared : e.scores[c] = Unit
        /\ e.mean = 0 => \A c \in compared : e.scores[c] = 0

\* The private records agree with what their users were told, whatever
\* requests overlap: each policy version is new and approved once, a run is
\* stored as reported, a score covers its suite (private_api.py, lines
\* 174-178, 229-248 and 373-374; docs/api.md, lines 36-39).
DeskAgrees == PoliciesAgree /\ ReportsStored /\ EvaluationsComplete
=============================================================================
