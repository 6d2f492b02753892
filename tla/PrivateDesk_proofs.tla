------------------------- MODULE PrivateDesk_proofs -------------------------
(***************************************************************************)
(* Machine-checked facts about PrivateDesk, for any number of threads,     *)
(* harnesses, roles, runs and suites, and however requests overlap.        *)
(***************************************************************************)
EXTENDS PrivateDesk, FiniteSetTheorems, TLAPS

-----------------------------------------------------------------------------
Chosen == Deployment \cup {NoDeployment}

\* What a thread may be in the middle of.
PolicyOp == [kind : {"policy"}, role : Role, version : Nat]
ApprovalOp == [kind : {"approval"}, role : Role, version : Nat,
               deployment : Deployment, seen : Chosen]
ReportOp == [kind : {"report"}, run : Harness \X RunId, print : Fingerprint]

TypeOK == /\ policies \in [Role -> Seq(Chosen)]
          /\ \A r \in Role : Len(policies[r]) <= MaxVersions
          /\ default \in [Role -> Chosen]
          /\ telemetry \in [Harness \X RunId -> Fingerprint \cup {NoReport}]
          /\ op \in [Thread -> {NoOp} \cup PolicyOp \cup ApprovalOp \cup ReportOp]
          /\ grants \in [Role \X Version -> Nat]

\* The lock of a role: one thread numbers a policy of it, and the number it
\* has in hand stays free.
Numbering(h) == op[h].kind = "policy"

NumberInv ==
    /\ \A g, h \in Thread :
          Numbering(g) /\ Numbering(h) /\ op[g].role = op[h].role => g = h
    /\ \A h \in Thread : Numbering(h) =>
          /\ op[h].version = Len(policies[op[h].role]) + 1
          /\ op[h].version <= MaxVersions

\* The lock of a policy: one thread approves it, and it stays a draft until
\* then.  The role's default may change meanwhile, but is never taken away.
Approving(h) == op[h].kind = "approval"

ApprovalInv ==
    /\ \A g, h \in Thread :
          Approving(g) /\ Approving(h) /\ op[g].role = op[h].role
            /\ op[g].version = op[h].version => g = h
    /\ \A h \in Thread : Approving(h) =>
          /\ op[h].version \in 1..Len(policies[op[h].role])
          /\ policies[op[h].role][op[h].version] = NoDeployment
          /\ op[h].seen # NoDeployment => default[op[h].role] # NoDeployment

\* What PoliciesAgree says of one role.
Approved(r) == {v \in DOMAIN policies[r] : policies[r][v] # NoDeployment}

RoleAgrees(r) ==
    /\ \A v \in Version : grants[<<r, v>>] = IF v \in Approved(r) THEN 1 ELSE 0
    /\ IF Approved(r) = {} THEN default[r] = NoDeployment
       ELSE \E v \in Approved(r) : default[r] = policies[r][v]

\* What was told is of a run and a report.
ToldInv == /\ told \subseteq (Harness \X RunId) \X Fingerprint
           /\ ReportsStored

BookInv == NumberInv /\ ApprovalInv /\ \A r \in Role : RoleAgrees(r)

IInv == TypeOK /\ BookInv /\ ToldInv /\ EvaluationsComplete

-----------------------------------------------------------------------------
(* Evaluations.                                                            *)

\* A quotient that is rounded down.
LEMMA Quotient ==
    ASSUME NEW a \in Nat, NEW d \in Nat \ {0}
    PROVE  a \div d \in Nat /\ d * (a \div d) <= a /\ a < d * (a \div d) + d
<1>1. a = d * (a \div d) + (a % d) /\ a % d \in 0..d - 1 /\ a \div d \in Int
  OBVIOUS
<1> QED
  <2>1. PICK q \in Int, r \in 0..d - 1 : q = a \div d /\ a = d * q + r
    BY <1>1
  <2>2. q >= 0
    <3>1. ASSUME q <= -1 PROVE FALSE
      <4>1. d * q <= -d
        BY <3>1
      <4> QED
        BY <2>1, <4>1
    <3> QED
      BY <3>1
  <2> QED
    BY <2>1, <2>2

\* The points of cases whose scores have a bound.
LEMMA PointsBounded ==
    ASSUME NEW S, IsFiniteSet(S), NEW f \in [S -> 0..Unit]
    PROVE  /\ Points(f) \in 0..Unit * Cardinality(S)
           /\ (\A c \in S : f[c] = Unit) => Points(f) = Unit * Cardinality(S)
           /\ (\A c \in S : f[c] = 0) => Points(f) = 0
           /\ \A c \in S : f[c] = 0 => Points(f) <= Unit * (Cardinality(S) - 1)
           /\ \A c \in S : f[c] = Unit => Points(f) >= Unit
<1> DEFINE all == S \X (1..Unit)
           got == {p \in all : p[2] <= f[p[1]]}
<1>1. Unit \in Nat /\ Unit > 0
  BY DeskAssumption
<1>2. Points(f) = Cardinality(got)
  BY DEF Points
<1>3. IsFiniteSet(1..Unit) /\ Cardinality(1..Unit) = Unit
  BY <1>1, FS_Interval
<1>4. \A T \in SUBSET S : /\ IsFiniteSet(T) /\ Cardinality(T) \in Nat
                          /\ IsFiniteSet(T \X (1..Unit))
                          /\ Cardinality(T \X (1..Unit)) = Unit * Cardinality(T)
  <2>1. ASSUME NEW T \in SUBSET S
        PROVE  /\ IsFiniteSet(T) /\ Cardinality(T) \in Nat
               /\ IsFiniteSet(T \X (1..Unit))
               /\ Cardinality(T \X (1..Unit)) = Unit * Cardinality(T)
    <3>1. IsFiniteSet(T) /\ Cardinality(T) \in Nat
      BY FS_Subset, FS_CardinalityType
    <3>2. /\ IsFiniteSet(T \X (1..Unit))
          /\ Cardinality(T \X (1..Unit)) = Cardinality(T) * Unit
      BY <1>3, <3>1, FS_Product
    <3> QED
      BY <1>1, <3>1, <3>2
  <2> QED
    BY <2>1
<1>5. \A T \in SUBSET S : got \subseteq T \X (1..Unit)
                              => Cardinality(got) \in 0..Unit * Cardinality(T)
  <2>1. ASSUME NEW T \in SUBSET S, got \subseteq T \X (1..Unit)
        PROVE  Cardinality(got) \in 0..Unit * Cardinality(T)
    <3>1. IsFiniteSet(got) /\ Cardinality(got) <= Cardinality(T \X (1..Unit))
      BY <1>4, <2>1, FS_Subset
    <3>2. Cardinality(got) \in Nat
      BY <3>1, FS_CardinalityType
    <3>3. Cardinality(T \X (1..Unit)) = Unit * Cardinality(T)
      BY <1>4
    <3>4. PICK c \in Nat : c = Cardinality(got)
      BY <3>2
    <3> HIDE DEF got
    <3>5. c <= Unit * Cardinality(T)
      BY <3>1, <3>3, <3>4
    <3>6. Unit * Cardinality(T) \in Nat
      <4>1. PICK n \in Nat : n = Cardinality(T)
        BY <1>4
      <4> QED
        BY <1>1, <4>1
    <3> QED
      BY <3>4, <3>5, <3>6
  <2> QED
    BY <2>1
<1>6. Cardinality(got) \in 0..Unit * Cardinality(S)
  BY <1>5
<1>7. ASSUME \A c \in S : f[c] = Unit PROVE Cardinality(got) = Unit * Cardinality(S)
  <2>1. got = all
    BY <1>1, <1>7
  <2> QED
    BY <1>4, <2>1
<1>8. ASSUME \A c \in S : f[c] = 0 PROVE Cardinality(got) = 0
  <2>1. got = {}
    BY <1>8
  <2> QED
    BY <2>1, FS_EmptySet
<1>9. ASSUME NEW c \in S, f[c] = 0 PROVE Cardinality(got) <= Unit * (Cardinality(S) - 1)
  <2>1. got \subseteq (S \ {c}) \X (1..Unit)
    BY <1>9
  <2>2. Cardinality(S \ {c}) = Cardinality(S) - 1
    BY FS_RemoveElement
  <2> QED
    BY <1>5, <2>1, <2>2
<1>10. ASSUME NEW c \in S, f[c] = Unit PROVE Cardinality(got) >= Unit
  <2>1. {c} \X (1..Unit) \subseteq got
    BY <1>1, <1>10
  <2>2. IsFiniteSet(got)
    BY <1>4, FS_Subset
  <2>3. Cardinality({c} \X (1..Unit)) <= Cardinality(got)
    BY <2>1, <2>2, FS_Subset
  <2>4. Cardinality({c}) = 1
    BY FS_Singleton
  <2>5. Cardinality({c} \X (1..Unit)) = Unit
    <3>1. Cardinality({c} \X (1..Unit)) = Unit * Cardinality({c})
      BY <1>4
    <3>2. Unit * 1 = Unit
      BY <1>1
    <3> QED
      BY <2>4, <3>1, <3>2, Zenon
  <2>6. Cardinality(got) \in Nat
    BY <2>2, FS_CardinalityType
  <2> QED
    BY <1>1, <2>3, <2>5, <2>6
<1> QED
  BY <1>2, <1>6, <1>7, <1>8, <1>9, <1>10

\* Rounding keeps the two ends, and nothing as far from one as a whole case is
\* rounded to it.
LEMMA RoundedBounds ==
    ASSUME NEW n \in 1..(2 * Perfect - 1), NEW p \in 0..Unit * n
    PROVE  /\ Rounded(p, n) \in 0..Perfect
           /\ p = Unit * n => Rounded(p, n) = Perfect
           /\ p = 0 => Rounded(p, n) = 0
           /\ p <= Unit * (n - 1) => Rounded(p, n) < Perfect
           /\ p >= Unit => Rounded(p, n) > 0
<1>1. Unit \in Nat \ {0} /\ Perfect \in Nat \ {0} /\ n \in Nat \ {0} /\ n < 2 * Perfect
  BY DeskAssumption
<1>2. Unit * n \in Nat \ {0}
  BY <1>1
<1>3. PICK m \in Nat \ {0} : m = Unit * n
  BY <1>2
<1>4. 2 * n * Unit = 2 * m /\ n * Unit = m
  BY <1>1, <1>3
<1>5. PICK x \in Nat : x = p * Perfect
  BY <1>1, <1>3
<1>6. 2 * p * Perfect = 2 * x
  BY <1>1, <1>3, <1>5
<1>7. Rounded(p, n) = (2 * x + m) \div (2 * m)
  BY <1>4, <1>6 DEF Rounded
<1>8. PICK q \in Nat : /\ q = Rounded(p, n)
                       /\ (2 * m) * q <= 2 * x + m
                       /\ 2 * x + m < (2 * m) * q + 2 * m
  <2>1. 2 * x + m \in Nat /\ 2 * m \in Nat \ {0}
    BY <1>3, <1>5
  <2> HIDE <1>7
  <2>2. PICK a \in Nat, d \in Nat \ {0} : a = 2 * x + m /\ d = 2 * m
    BY <2>1
  <2>3. a \div d \in Nat /\ d * (a \div d) <= a /\ a < d * (a \div d) + d
    BY <2>2, Quotient
  <2> QED
    BY <1>7, <2>2, <2>3
\* A quotient that is too small or too large is off by a whole divisor.
<1>9. \A j \in Nat : /\ q < j => m * q + m <= m * j
                     /\ q > j => m * q >= m * j + m
  <2>1. ASSUME NEW j \in Nat, q < j PROVE m * q + m <= m * j
    <3>1. PICK i \in Nat : j = q + 1 + i
      BY <2>1
    <3>2. m * j = m * q + m + m * i /\ m * i >= 0
      BY <3>1
    <3> QED
      BY <3>2
  <2>2. ASSUME NEW j \in Nat, q > j PROVE m * q >= m * j + m
    <3>1. PICK i \in Nat : q = j + 1 + i
      BY <2>2
    <3>2. m * q = m * j + m + m * i /\ m * i >= 0
      BY <3>1
    <3> QED
      BY <3>2
  <2> QED
    BY <2>1, <2>2
<1>10. (2 * m) * q = 2 * (m * q) /\ m * q \in Nat
  BY <1>3, <1>8
<1>11. x <= m * Perfect
  <2>1. p \in Nat /\ p <= m
    BY <1>3
  <2>2. PICK i \in Nat : m = p + i
    BY <1>3, <2>1
  <2>3. m * Perfect = p * Perfect + i * Perfect /\ i * Perfect \in Nat
    BY <1>1, <2>1, <2>2
  <2> QED
    BY <1>5, <2>3
<1>12. m * Perfect \in Nat
  BY <1>1, <1>3
<1>13. q <= Perfect
  <2>1. ASSUME q > Perfect PROVE FALSE
    <3>1. m * q >= m * Perfect + m
      BY <1>1, <1>9, <2>1
    <3> QED
      BY <1>8, <1>10, <1>11, <1>12, <3>1
  <2> QED
    BY <1>1, <2>1
<1>14. ASSUME p = Unit * n PROVE q = Perfect
  <2>1. x = m * Perfect
    BY <1>3, <1>5, <1>14
  <2>2. ASSUME q < Perfect PROVE FALSE
    <3>1. m * q + m <= m * Perfect
      BY <1>1, <1>9, <2>2
    <3> QED
      BY <1>8, <1>10, <1>12, <2>1, <3>1
  <2> QED
    BY <1>1, <1>13, <2>2
<1>15. ASSUME p = 0 PROVE q = 0
  <2>1. x = 0
    BY <1>1, <1>5, <1>15
  <2>2. ASSUME q > 0 PROVE FALSE
    <3>1. m * q >= m * 0 + m
      BY <1>9, <2>2
    <3> QED
      BY <1>8, <1>10, <2>1, <3>1
  <2> QED
    BY <2>2
\* A case is worth Unit * Perfect, which is more than half of m.
<1>16. PICK y \in Nat : y = Unit * Perfect /\ m < 2 * y
  <2>1. Unit * Perfect \in Nat
    BY <1>1
  <2>2. PICK i \in Nat : 2 * Perfect = n + 1 + i
    <3>1. 2 * Perfect - (n + 1) \in Nat /\ 2 * Perfect = n + 1 + (2 * Perfect - (n + 1))
      BY <1>1
    <3> QED
      BY <3>1, Zenon
  <2>3. Unit * (2 * Perfect) = Unit * n + Unit + Unit * i /\ Unit * i \in Nat
    BY <1>1, <2>2
  <2>4. Unit * (2 * Perfect) = 2 * (Unit * Perfect)
    BY <1>1
  <2> QED
    BY <1>1, <1>3, <2>1, <2>3, <2>4
<1>17. ASSUME p <= Unit * (n - 1) PROVE q < Perfect
  <2>1. Unit * (n - 1) = m - Unit
    BY <1>1, <1>3
  <2>2. PICK i \in Nat : m = p + Unit + i
    BY <1>1, <1>3, <1>17, <2>1
  <2>3. m * Perfect = p * Perfect + Unit * Perfect + i * Perfect /\ i * Perfect \in Nat
    BY <1>1, <2>2
  <2>4. x + y <= m * Perfect
    BY <1>5, <1>16, <2>3
  <2>5. ASSUME q = Perfect PROVE FALSE
    BY <1>8, <1>10, <1>16, <2>4, <2>5
  <2> QED
    BY <1>1, <1>13, <2>5
<1>18. ASSUME p >= Unit PROVE q > 0
  <2>1. PICK i \in Nat : p = Unit + i
    BY <1>1, <1>3, <1>18
  <2>2. p * Perfect = Unit * Perfect + i * Perfect /\ i * Perfect \in Nat
    BY <1>1, <2>1
  <2>3. x >= y
    BY <1>5, <1>16, <2>2
  <2>4. ASSUME q = 0 PROVE FALSE
    BY <1>8, <1>10, <1>16, <2>3, <2>4
  <2> QED
    BY <2>4
<1> QED
  BY <1>1, <1>8, <1>13, <1>14, <1>15, <1>17, <1>18

\* What EvaluationsComplete says of one evaluation.
RunComplete(e) ==
    LET cases == DOMAIN ScorerOf[e.suite]
        compared == {c \in cases : ScorerOf[e.suite][c] # "human"}
    IN
    /\ DOMAIN e.scores = cases
    /\ e.mean \in 0..Perfect
    /\ (\A c \in cases : e.scores[c] = Unit) => e.mean = Perfect
    /\ (\A c \in cases : e.scores[c] = 0) => e.mean = 0
    /\ e.mean = Perfect => \A c \in compared : e.scores[c] = Unit
    /\ e.mean = 0 => \A c \in compared : e.scores[c] = 0

LEMMA EvaluateCompletes ==
    ASSUME EvaluationsComplete, NEW s \in Suite, NEW outputs \in Outputs(s),
           Evaluate(s, outputs)
    PROVE  EvaluationsComplete'
<1> DEFINE cases == DOMAIN ScorerOf[s]
           scores == [c \in DOMAIN outputs |-> CaseScore(ScorerOf[s][c], outputs[c])]
           mean == Rounded(Points(scores), Cardinality(DOMAIN scores))
           run == [suite |-> s, scores |-> scores, mean |-> mean]
<1>1. /\ DOMAIN outputs = cases
      /\ \A c \in cases : ScorerOf[s][c] = "human" => outputs[c].human # -1
      /\ scored' = scored \cup {run}
  BY DEF Evaluate, Accepts
<1>2. outputs \in [cases -> Output]
  <2>1. \E some \in SUBSET cases : outputs \in [some -> Output]
    BY DEF Outputs
  <2> QED
    BY <1>1, <2>1
<1>3. ASSUME NEW c \in cases
      PROVE  /\ CaseScore(ScorerOf[s][c], outputs[c]) \in 0..Unit
             /\ ScorerOf[s][c] # "human" =>
                   CaseScore(ScorerOf[s][c], outputs[c]) \in {0, Unit}
  <2>1. outputs[c].human \in {-1} \cup 0..Unit
    BY <1>2 DEF Output
  <2> QED
    BY <1>1, <2>1, DeskAssumption DEF CaseScore
<1>4. /\ scores \in [cases -> 0..Unit]
      /\ \A c \in cases : ScorerOf[s][c] # "human" => scores[c] \in {0, Unit}
      /\ DOMAIN scores = cases
  BY <1>1, <1>3
<1>5. IsFiniteSet(cases) /\ Cardinality(cases) \in 1..(2 * Perfect - 1)
  BY DeskAssumption
<1>6. run.suite = s /\ run.scores = scores /\ run.mean = Rounded(Points(scores), Cardinality(cases))
  BY <1>4
<1> HIDE DEF scores, run
<1>7. /\ Points(scores) \in 0..Unit * Cardinality(cases)
      /\ (\A c \in cases : scores[c] = Unit) => Points(scores) = Unit * Cardinality(cases)
      /\ (\A c \in cases : scores[c] = 0) => Points(scores) = 0
      /\ \A c \in cases : scores[c] = 0 => Points(scores) <= Unit * (Cardinality(cases) - 1)
      /\ \A c \in cases : scores[c] = Unit => Points(scores) >= Unit
  BY <1>4, <1>5, PointsBounded
<1>8. RunComplete(run)
  <2> DEFINE p == Points(scores)
             n == Cardinality(cases)
  <2>1. /\ Rounded(p, n) \in 0..Perfect
        /\ p = Unit * n => Rounded(p, n) = Perfect
        /\ p = 0 => Rounded(p, n) = 0
        /\ p <= Unit * (n - 1) => Rounded(p, n) < Perfect
        /\ p >= Unit => Rounded(p, n) > 0
    BY <1>5, <1>7, RoundedBounds
  <2>2. Perfect \in Nat /\ run.mean = Rounded(p, n)
    BY <1>6, DeskAssumption
  <2>3. ASSUME NEW c \in cases, ScorerOf[s][c] # "human"
        PROVE  /\ Rounded(p, n) = Perfect => scores[c] = Unit
               /\ Rounded(p, n) = 0 => scores[c] = 0
    <3>1. scores[c] \in {0, Unit}
      BY <1>4, <2>3
    <3> HIDE DEF p, n
    <3>2. scores[c] = 0 => Rounded(p, n) < Perfect
      BY <1>7, <2>1 DEF p, n
    <3>3. scores[c] = Unit => Rounded(p, n) > 0
      BY <1>7, <2>1 DEF p, n
    <3> QED
      BY <2>1, <2>2, <3>1, <3>2, <3>3
  <2> QED
    BY <1>4, <1>6, <1>7, <2>1, <2>2, <2>3 DEF RunComplete
<1>9. \A e \in scored : RunComplete(e)
  BY DEF EvaluationsComplete, RunComplete
<1>10. \A e \in scored' : RunComplete(e)
  BY <1>1, <1>8, <1>9
<1> QED
  BY <1>10 DEF EvaluationsComplete, RunComplete

-----------------------------------------------------------------------------
(* Policies and reports.                                                   *)

LEMMA OpKinds ==
    ASSUME TypeOK, NEW h \in Thread
    PROVE  /\ Numbering(h) => op[h] \in PolicyOp
           /\ Approving(h) => op[h] \in ApprovalOp
           /\ op[h].kind = "report" => op[h] \in ReportOp
           /\ op[h] = NoOp => ~Numbering(h) /\ ~Approving(h)
<1>1. op[h] \in {NoOp} \cup PolicyOp \cup ApprovalOp \cup ReportOp
  BY DEF TypeOK
<1> QED
  BY <1>1 DEF Numbering, Approving, NoOp, PolicyOp, ApprovalOp, ReportOp

LEMMA AgreesFromInv ==
    ASSUME TypeOK, BookInv
    PROVE  PoliciesAgree
<1>1. \A o \in Doing("policy") : o.version = Len(policies[o.role]) + 1
  BY DEF Doing, BookInv, NumberInv, Numbering
<1>2. \A r \in Role :
        LET approved == {v \in DOMAIN policies[r] : policies[r][v] # NoDeployment} IN
        /\ \A v \in Version : grants[<<r, v>>] = IF v \in approved THEN 1 ELSE 0
        /\ IF approved = {} THEN default[r] = NoDeployment
           ELSE \E v \in approved : default[r] = policies[r][v]
  BY DEF BookInv, RoleAgrees, Approved
<1> QED
  BY <1>1, <1>2 DEF PoliciesAgree

\* A request that takes no part in policies.
LEMMA BookKept ==
    ASSUME BookInv, UNCHANGED <<policies, default, grants>>,
           \A h \in Thread : \/ op'[h] = op[h]
                             \/ op'[h].kind \notin {"policy", "approval"}
    PROVE  BookInv'
<1>1. \A h \in Thread : /\ Numbering(h)' => Numbering(h) /\ op'[h] = op[h]
                        /\ Approving(h)' => Approving(h) /\ op'[h] = op[h]
  BY DEF Numbering, Approving
<1>2. NumberInv'
  BY <1>1 DEF BookInv, NumberInv
<1>3. ApprovalInv'
  BY <1>1 DEF BookInv, ApprovalInv
<1>4. \A r \in Role : RoleAgrees(r)'
  BY DEF BookInv, RoleAgrees, Approved
<1> QED
  BY <1>2, <1>3, <1>4 DEF BookInv

LEMMA NumberKeeps ==
    ASSUME TypeOK, BookInv, NEW h \in Thread, NEW r \in Role, NumberPolicy(h, r)
    PROVE  TypeOK' /\ BookInv'
<1> DEFINE o == [kind |-> "policy", role |-> r, version |-> Len(policies[r]) + 1]
<1>1. /\ Len(policies[r]) < MaxVersions
      /\ RoleFree(r)
      /\ op' = [op EXCEPT ![h] = o]
      /\ UNCHANGED <<policies, default, grants, telemetry>>
  BY DEF NumberPolicy, book
<1>2. Len(policies[r]) \in Nat /\ MaxVersions \in Nat
  BY DeskAssumption DEF TypeOK
<1>3. o \in PolicyOp
  BY <1>2 DEF PolicyOp
<1>4. o.kind = "policy" /\ o.role = r /\ o.version = Len(policies[r]) + 1
  OBVIOUS
<1> HIDE DEF o
<1>5. /\ op'[h] = o
      /\ \A g \in Thread \ {h} : op'[g] = op[g]
  BY <1>1 DEF TypeOK
<1>6. TypeOK'
  BY <1>1, <1>3 DEF TypeOK
\* The lock of the role was free.
<1>7. \A g \in Thread : Numbering(g) => op[g].role # r
  BY <1>1 DEF RoleFree, Doing, Numbering
<1>8. NumberInv'
  BY <1>1, <1>2, <1>4, <1>5, <1>7 DEF BookInv, NumberInv, Numbering
<1>9. ApprovalInv'
  <2>1. \A g \in Thread : Approving(g)' => Approving(g) /\ op'[g] = op[g]
    BY <1>4, <1>5 DEF Approving
  <2> QED
    BY <1>1, <2>1 DEF BookInv, ApprovalInv
<1>10. \A q \in Role : RoleAgrees(q)'
  BY <1>1 DEF BookInv, RoleAgrees, Approved
<1> QED
  BY <1>6, <1>8, <1>9, <1>10 DEF BookInv

LEMMA CreateKeeps ==
    ASSUME TypeOK, BookInv, NEW h \in Thread, CreatePolicy(h)
    PROVE  TypeOK' /\ BookInv'
<1>1. PICK r : r = op[h].role
  OBVIOUS
<1>2. Numbering(h)
  BY DEF CreatePolicy, Numbering
<1>3. r \in Role
  BY <1>1, <1>2, OpKinds DEF PolicyOp
<1>4. op[h].version = Len(policies[r]) + 1 /\ op[h].version <= MaxVersions
  BY <1>1, <1>2 DEF BookInv, NumberInv
<1>5. policies[r] \in Seq(Chosen) /\ Len(policies[r]) \in Nat
  BY <1>3 DEF TypeOK
<1>6. /\ policies' = [policies EXCEPT ![r] = Append(@, NoDeployment)]
      /\ op' = [op EXCEPT ![h] = NoOp]
      /\ UNCHANGED <<default, grants, telemetry>>
  BY <1>1, <1>4, <1>5 DEF CreatePolicy
<1> DEFINE longer == Append(policies[r], NoDeployment)
<1>7. /\ longer \in Seq(Chosen)
      /\ Len(longer) = Len(policies[r]) + 1
      /\ longer[Len(policies[r]) + 1] = NoDeployment
      /\ \A v \in 1..Len(policies[r]) : longer[v] = policies[r][v]
  BY <1>5 DEF Chosen
<1>8. /\ policies'[r] = longer
      /\ \A q \in Role \ {r} : policies'[q] = policies[q]
  BY <1>3, <1>6 DEF TypeOK
<1> HIDE DEF longer
<1>9. TypeOK'
  <2>1. policies' \in [Role -> Seq(Chosen)]
    BY <1>6, <1>7 DEF TypeOK, longer
  <2>2. \A q \in Role : Len(policies'[q]) <= MaxVersions
    BY <1>4, <1>7, <1>8 DEF TypeOK
  <2> QED
    BY <1>6, <2>1, <2>2 DEF TypeOK
<1>10. \A g \in Thread : \/ g = h /\ ~Numbering(g)' /\ ~Approving(g)'
                         \/ g # h /\ op'[g] = op[g]
  BY <1>6 DEF TypeOK, Numbering, Approving, NoOp
<1>11. NumberInv'
  <2>1. \A g \in Thread \ {h} : Numbering(g) => op[g].role # r
    BY <1>1, <1>2 DEF BookInv, NumberInv
  <2>2. \A g \in Thread : Numbering(g)' => g # h /\ Numbering(g) /\ op'[g] = op[g]
    BY <1>10 DEF Numbering
  <2>3. \A g \in Thread : Numbering(g) => op[g].role \in Role
    BY OpKinds DEF PolicyOp
  <2> QED
    BY <1>8, <2>1, <2>2, <2>3 DEF BookInv, NumberInv
<1>12. ApprovalInv'
  <2>1. \A g \in Thread : Approving(g)' => g # h /\ Approving(g) /\ op'[g] = op[g]
    BY <1>10 DEF Approving
  <2>2. \A g \in Thread : Approving(g) => op[g].role \in Role
    BY OpKinds DEF ApprovalOp
  <2>3. ASSUME NEW g \in Thread, Approving(g)'
        PROVE  /\ op'[g].version \in 1..Len(policies'[op'[g].role])
               /\ policies'[op'[g].role][op'[g].version] = NoDeployment
               /\ op'[g].seen # NoDeployment => default'[op'[g].role] # NoDeployment
    <3>1. /\ op[g].version \in 1..Len(policies[op[g].role])
          /\ policies[op[g].role][op[g].version] = NoDeployment
          /\ op[g].seen # NoDeployment => default[op[g].role] # NoDeployment
          /\ op'[g] = op[g] /\ op[g].role \in Role
      BY <2>1, <2>2, <2>3 DEF BookInv, ApprovalInv
    <3> QED
      BY <1>5, <1>6, <1>7, <1>8, <3>1
  <2> QED
    BY <2>1, <2>3 DEF BookInv, ApprovalInv
<1>13. ASSUME NEW q \in Role PROVE RoleAgrees(q)'
  <2>1. Approved(q)' = Approved(q) /\ \A v \in Approved(q) : policies'[q][v] = policies[q][v]
    BY <1>5, <1>7, <1>8 DEF Approved
  <2>2. RoleAgrees(q) /\ default' = default /\ grants' = grants
    BY <1>6 DEF BookInv
  <2> HIDE DEF Approved
  <2> QED
    BY <2>1, <2>2 DEF RoleAgrees
<1> QED
  BY <1>9, <1>11, <1>12, <1>13 DEF BookInv

LEMMA ReadKeeps ==
    ASSUME TypeOK, BookInv, NEW h \in Thread, NEW r \in Role, NEW v \in Version,
           NEW d \in Deployment, ReadForApproval(h, r, v, d)
    PROVE  TypeOK' /\ BookInv'
<1> DEFINE o == [kind |-> "approval", role |-> r, version |-> v,
                 deployment |-> d, seen |-> default[r]]
<1>1. /\ v <= Len(policies[r])
      /\ PolicyFree(r, v)
      /\ policies[r][v] = NoDeployment
      /\ op' = [op EXCEPT ![h] = o]
      /\ UNCHANGED <<policies, default, grants, telemetry>>
  BY DEF ReadForApproval, book
<1>2. o \in ApprovalOp
  BY DEF TypeOK, ApprovalOp, Version
<1>3. o.kind = "approval" /\ o.role = r /\ o.version = v /\ o.seen = default[r]
  OBVIOUS
<1> HIDE DEF o
<1>4. /\ op'[h] = o
      /\ \A g \in Thread \ {h} : op'[g] = op[g]
  BY <1>1 DEF TypeOK
<1>5. TypeOK'
  BY <1>1, <1>2 DEF TypeOK
<1>6. NumberInv'
  <2>1. \A g \in Thread : Numbering(g)' => Numbering(g) /\ op'[g] = op[g]
    BY <1>3, <1>4 DEF Numbering
  <2> QED
    BY <1>1, <2>1 DEF BookInv, NumberInv
\* The lock of the policy was free.
<1>7. \A g \in Thread : Approving(g) => op[g].role # r \/ op[g].version # v
  BY <1>1 DEF PolicyFree, Doing, Approving
<1>8. ApprovalInv'
  <2>1. v \in 1..Len(policies[r])
    BY <1>1 DEF TypeOK, Version
  <2>2. \A g \in Thread : Approving(g)' => g = h \/ (Approving(g) /\ op'[g] = op[g])
    BY <1>4 DEF Approving
  <2> QED
    BY <1>1, <1>3, <1>4, <1>7, <2>1, <2>2 DEF BookInv, ApprovalInv
<1>9. \A q \in Role : RoleAgrees(q)'
  BY <1>1 DEF BookInv, RoleAgrees, Approved
<1> QED
  BY <1>5, <1>6, <1>8, <1>9 DEF BookInv

LEMMA ApproveKeeps ==
    ASSUME TypeOK, BookInv, NEW h \in Thread, ApprovePolicy(h)
    PROVE  TypeOK' /\ BookInv'
<1>1. PICK r, v, d, seen : /\ r = op[h].role /\ v = op[h].version
                           /\ d = op[h].deployment /\ seen = op[h].seen
  OBVIOUS
<1>2. Approving(h)
  BY DEF ApprovePolicy, Approving
<1>3. r \in Role /\ v \in Nat /\ d \in Deployment /\ d # NoDeployment
  BY <1>1, <1>2, OpKinds, DeskAssumption DEF ApprovalOp
<1>4. /\ v \in 1..Len(policies[r])
      /\ policies[r][v] = NoDeployment
      /\ seen # NoDeployment => default[r] # NoDeployment
  BY <1>1, <1>2 DEF BookInv, ApprovalInv
<1>5. v \in Version
  BY <1>3, <1>4, DeskAssumption DEF TypeOK, Version
<1>6. /\ policies' = [policies EXCEPT ![r][v] = d]
      /\ default' = IF d # seen THEN [default EXCEPT ![r] = d] ELSE default
      /\ grants' = [grants EXCEPT ![<<r, v>>] = @ + 1]
      /\ op' = [op EXCEPT ![h] = NoOp]
      /\ telemetry' = telemetry
  BY <1>1 DEF ApprovePolicy
<1>7. policies[r] \in Seq(Chosen) /\ d \in Chosen
  BY <1>3 DEF TypeOK, Chosen
<1>8. /\ [policies[r] EXCEPT ![v] = d] \in Seq(Chosen)
      /\ Len([policies[r] EXCEPT ![v] = d]) = Len(policies[r])
      /\ [policies[r] EXCEPT ![v] = d][v] = d
      /\ \A w \in 1..Len(policies[r]) \ {v} : [policies[r] EXCEPT ![v] = d][w] = policies[r][w]
  BY <1>4, <1>7
<1>9. /\ policies'[r] \in Seq(Chosen)
      /\ Len(policies'[r]) = Len(policies[r])
      /\ policies'[r][v] = d
      /\ \A w \in 1..Len(policies[r]) \ {v} : policies'[r][w] = policies[r][w]
      /\ \A q \in Role \ {r} : policies'[q] = policies[q]
  BY <1>3, <1>6, <1>8 DEF TypeOK
<1>10. /\ policies' \in [Role -> Seq(Chosen)]
       /\ \A q \in Role : Len(policies'[q]) = Len(policies[q])
  BY <1>3, <1>6, <1>8, <1>9 DEF TypeOK
<1>11. TypeOK'
  <2>1. default' \in [Role -> Chosen]
    BY <1>6, <1>7 DEF TypeOK
  <2>2. grants' \in [Role \X Version -> Nat]
    <3>1. <<r, v>> \in Role \X Version
      BY <1>3, <1>5
    <3> QED
      BY <1>6, <3>1 DEF TypeOK
  <2>3. op' \in [Thread -> {NoOp} \cup PolicyOp \cup ApprovalOp \cup ReportOp]
    BY <1>6 DEF TypeOK
  <2> QED
    BY <1>6, <1>10, <2>1, <2>2, <2>3 DEF TypeOK
<1>12. \A g \in Thread : \/ g = h /\ ~Numbering(g)' /\ ~Approving(g)'
                         \/ g # h /\ op'[g] = op[g]
  BY <1>6 DEF TypeOK, Numbering, Approving, NoOp
<1>13. NumberInv'
  <2>1. \A g \in Thread : Numbering(g)' => g # h /\ Numbering(g) /\ op'[g] = op[g]
    BY <1>12 DEF Numbering
  <2>2. \A g \in Thread : Numbering(g) => op[g].role \in Role
    BY OpKinds DEF PolicyOp
  <2>3. \A g \in Thread : Numbering(g)' =>
           /\ op'[g].version = Len(policies'[op'[g].role]) + 1
           /\ op'[g].version <= MaxVersions
    <3> SUFFICES ASSUME NEW g \in Thread, Numbering(g)'
                 PROVE  /\ op'[g].version = Len(policies'[op'[g].role]) + 1
                        /\ op'[g].version <= MaxVersions
      OBVIOUS
    <3>1. /\ op[g].version = Len(policies[op[g].role]) + 1
          /\ op[g].version <= MaxVersions
      BY <2>1 DEF BookInv, NumberInv
    <3>2. op'[g] = op[g] /\ Len(policies'[op[g].role]) = Len(policies[op[g].role])
      BY <1>10, <2>1, <2>2
    <3> QED
      BY <3>1, <3>2
  <2>4. \A f, g \in Thread :
           Numbering(f)' /\ Numbering(g)' /\ op'[f].role = op'[g].role => f = g
    BY <2>1 DEF BookInv, NumberInv
  <2> QED
    BY <2>3, <2>4 DEF NumberInv
\* A default is given up for another one only.
<1>14. \A q \in Role : default[q] # NoDeployment => default'[q] # NoDeployment
  BY <1>3, <1>6 DEF TypeOK
<1>15. ApprovalInv'
  <2>1. \A g \in Thread : Approving(g)' => g # h /\ Approving(g) /\ op'[g] = op[g]
    BY <1>12 DEF Approving
  <2>2. \A g \in Thread : Approving(g) => op[g].role \in Role
    BY OpKinds DEF ApprovalOp
  <2>3. ASSUME NEW g \in Thread, Approving(g)'
        PROVE  /\ op'[g].version \in 1..Len(policies'[op'[g].role])
               /\ policies'[op'[g].role][op'[g].version] = NoDeployment
               /\ op'[g].seen # NoDeployment => default'[op'[g].role] # NoDeployment
    <3>1. g # h /\ Approving(g) /\ op'[g] = op[g] /\ op[g].role \in Role
      BY <2>1, <2>2, <2>3
    <3>2. op[g].role # r \/ op[g].version # v
      BY <1>1, <1>2, <3>1 DEF BookInv, ApprovalInv
    <3>3. /\ op[g].version \in 1..Len(policies[op[g].role])
          /\ policies[op[g].role][op[g].version] = NoDeployment
          /\ op[g].seen # NoDeployment => default[op[g].role] # NoDeployment
      BY <3>1 DEF BookInv, ApprovalInv
    <3> QED
      BY <1>9, <1>10, <1>14, <3>1, <3>2, <3>3
  <2> QED
    BY <2>1, <2>3 DEF BookInv, ApprovalInv
<1>16. ASSUME NEW q \in Role, q # r PROVE RoleAgrees(q)'
  <2>1. /\ policies'[q] = policies[q] /\ default'[q] = default[q]
        /\ \A w \in Version : grants'[<<q, w>>] = grants[<<q, w>>]
    BY <1>6, <1>9, <1>16 DEF TypeOK
  <2> QED
    BY <2>1 DEF BookInv, RoleAgrees, Approved
<1>17. RoleAgrees(r)'
  <2>1. DOMAIN policies[r] = 1..Len(policies[r]) /\ DOMAIN policies'[r] = 1..Len(policies[r])
    BY <1>7, <1>9
  <2>2. Approved(r)' = Approved(r) \cup {v} /\ v \notin Approved(r)
    BY <1>3, <1>4, <1>9, <2>1 DEF Approved
  <2>3. \A w \in Approved(r) : policies'[r][w] = policies[r][w]
    BY <1>9, <2>1, <2>2 DEF Approved
  <2>4. \A w \in Version : grants'[<<r, w>>] = IF w \in Approved(r)' THEN 1 ELSE 0
    <3>1. grants'[<<r, v>>] = grants[<<r, v>>] + 1
      BY <1>3, <1>5, <1>6 DEF TypeOK
    <3>2. \A w \in Version \ {v} : grants'[<<r, w>>] = grants[<<r, w>>]
      BY <1>3, <1>5, <1>6 DEF TypeOK
    <3>3. \A w \in Version : grants[<<r, w>>] = IF w \in Approved(r) THEN 1 ELSE 0
      BY <1>3 DEF BookInv, RoleAgrees
    <3> QED
      BY <1>5, <2>2, <3>1, <3>2, <3>3
  <2>5. \E w \in Approved(r)' : default'[r] = policies'[r][w]
    <3>1. CASE d # seen
      BY <1>3, <1>6, <1>9, <2>2, <3>1 DEF TypeOK
    <3>2. CASE d = seen
      <4>1. default'[r] = default[r] /\ default[r] # NoDeployment
        BY <1>3, <1>4, <1>6, <3>2
      <4>2. \E w \in Approved(r) : default[r] = policies[r][w]
        BY <1>3, <4>1 DEF BookInv, RoleAgrees
      <4> QED
        BY <2>2, <2>3, <4>1, <4>2
    <3> QED
      BY <3>1, <3>2
  <2> QED
    BY <2>2, <2>4, <2>5 DEF RoleAgrees
<1> QED
  BY <1>11, <1>13, <1>15, <1>16, <1>17 DEF BookInv

-----------------------------------------------------------------------------
(* Reports.                                                                *)

LEMMA ReportKeeps ==
    ASSUME TypeOK, ToldInv, NEW h \in Thread, NEW r \in Role, NEW e \in RunId,
           NEW f \in Fingerprint, Report(h, r, e, f)
    PROVE  TypeOK' /\ ToldInv'
<1>1. PICK k \in Harness \X RunId : k = <<HarnessOf[r], e>>
  BY DeskAssumption
<1>2. UNCHANGED <<policies, default, grants, telemetry>>
  BY DEF Report, book
<1>3. \/ op' = [op EXCEPT ![h] = [kind |-> "report", run |-> k, print |-> f]]
      \/ op' = op
  BY <1>1 DEF Report
<1>4. TypeOK'
  <2>1. [kind |-> "report", run |-> k, print |-> f] \in ReportOp
    BY DEF ReportOp
  <2> QED
    BY <1>2, <1>3, <2>1 DEF TypeOK
<1>5. told' = told \/ (told' = told \cup {<<k, f>>} /\ telemetry[k] = f)
  BY <1>1 DEF Report
<1>6. ToldInv'
  BY <1>2, <1>5 DEF ToldInv, ReportsStored
<1> QED
  BY <1>4, <1>6

LEMMA StoreKeeps ==
    ASSUME TypeOK, ToldInv, NEW h \in Thread, StoreReport(h)
    PROVE  TypeOK' /\ ToldInv'
<1>1. PICK k, f : k = op[h].run /\ f = op[h].print
  OBVIOUS
<1>2. k \in Harness \X RunId /\ f \in Fingerprint
  BY <1>1, OpKinds DEF StoreReport, ReportOp
<1>3. /\ telemetry' = IF telemetry[k] = NoReport
                      THEN [telemetry EXCEPT ![k] = f] ELSE telemetry
      /\ told' = IF telemetry[k] = NoReport \/ Duplicate(k, f)
                 THEN told \cup {<<k, f>>} ELSE told
      /\ op' = [op EXCEPT ![h] = NoOp]
      /\ UNCHANGED <<policies, default, grants>>
  BY <1>1 DEF StoreReport, book
<1>4. TypeOK'
  BY <1>2, <1>3 DEF TypeOK
\* A report that is stored is never overwritten.
<1>5. /\ \A j \in Harness \X RunId :
            telemetry[j] # NoReport => telemetry'[j] = telemetry[j]
      /\ telemetry[k] = NoReport \/ Duplicate(k, f) => telemetry'[k] = f
  BY <1>2, <1>3 DEF TypeOK, Duplicate
<1>6. \A t \in told : telemetry'[t[1]] = t[2]
  <2>1. \A t \in told : /\ t[1] \in Harness \X RunId /\ t[2] # NoReport
                        /\ telemetry[t[1]] = t[2]
    BY DeskAssumption DEF ToldInv, ReportsStored
  <2> QED
    BY <1>5, <2>1
<1>7. ToldInv'
  BY <1>2, <1>3, <1>5, <1>6 DEF ToldInv, ReportsStored
<1> QED
  BY <1>4, <1>7

-----------------------------------------------------------------------------
(* The invariant.                                                          *)

LEMMA DeskStarts == DeskInit => IInv
<1> SUFFICES ASSUME DeskInit PROVE IInv
  OBVIOUS
<1>1. \A r \in Role : policies[r] = <<>>
  BY DEF DeskInit
<1>2. TypeOK
  <2>1. <<>> \in Seq(Chosen) /\ Len(<<>>) = 0
    OBVIOUS
  <2> QED
    BY <2>1, DeskAssumption DEF DeskInit, TypeOK, Chosen
<1>3. NumberInv /\ ApprovalInv
  <2>1. \A h \in Thread : ~Numbering(h) /\ ~Approving(h)
    BY DEF DeskInit, NoOp, Numbering, Approving
  <2> QED
    BY <2>1 DEF NumberInv, ApprovalInv
<1>4. ASSUME NEW r \in Role PROVE RoleAgrees(r)
  <2>1. Approved(r) = {}
    BY <1>1 DEF Approved
  <2>2. /\ \A v \in Version : grants[<<r, v>>] = 0
        /\ default[r] = NoDeployment
    BY DEF DeskInit
  <2> QED
    BY <2>1, <2>2 DEF RoleAgrees
<1>5. ToldInv /\ EvaluationsComplete
  BY DEF DeskInit, ToldInv, ReportsStored, EvaluationsComplete
<1> QED
  BY <1>2, <1>3, <1>4, <1>5 DEF IInv, BookInv

LEMMA DeskSteps == IInv /\ [DeskNext]_deskVars => IInv'
<1> SUFFICES ASSUME IInv, [DeskNext]_deskVars PROVE IInv'
  OBVIOUS
<1> USE DEF IInv
\* What a request that does not touch a part leaves of it.
<1>1. ASSUME UNCHANGED <<telemetry, told>> PROVE ToldInv'
  BY <1>1 DEF ToldInv, ReportsStored
<1>2. ASSUME UNCHANGED scored PROVE EvaluationsComplete'
  BY <1>2 DEF EvaluationsComplete
<1>3. ASSUME UNCHANGED <<policies, default, telemetry, op, grants>>
      PROVE  TypeOK' /\ BookInv'
  <2>1. TypeOK'
    BY <1>3 DEF TypeOK
  <2> QED
    BY <1>3, <2>1, BookKept
<1>4. ASSUME NEW n \in Harness, CreateHarness(n) PROVE IInv'
  BY <1>1, <1>2, <1>3, <1>4 DEF CreateHarness, marks
<1>5. ASSUME NEW h \in Thread, NEW r \in Role, NumberPolicy(h, r) PROVE IInv'
  BY <1>1, <1>2, <1>5, NumberKeeps DEF NumberPolicy, marks
<1>6. ASSUME NEW h \in Thread, NEW r \in Role, NEW v \in Version, NEW d \in Deployment,
             ReadForApproval(h, r, v, d)
      PROVE  IInv'
  BY <1>1, <1>2, <1>6, ReadKeeps DEF ReadForApproval, marks
<1>7. ASSUME NEW h \in Thread, NEW r \in Role, NEW e \in RunId, NEW f \in Fingerprint,
             Report(h, r, e, f)
      PROVE  IInv'
  <2>1. UNCHANGED <<policies, default, grants, scored>>
    BY <1>7 DEF Report, book, marks
  <2>2. \A g \in Thread : op'[g] = op[g] \/ op'[g].kind \notin {"policy", "approval"}
    BY <1>7 DEF Report, TypeOK
  <2> QED
    BY <1>2, <1>7, <2>1, <2>2, BookKept, ReportKeeps
<1>8. ASSUME NEW h \in Thread, CreatePolicy(h) PROVE IInv'
  BY <1>1, <1>2, <1>8, CreateKeeps DEF CreatePolicy, marks
<1>9. ASSUME NEW h \in Thread, ApprovePolicy(h) PROVE IInv'
  BY <1>1, <1>2, <1>9, ApproveKeeps DEF ApprovePolicy, marks
<1>10. ASSUME NEW h \in Thread, StoreReport(h) PROVE IInv'
  <2>1. UNCHANGED <<policies, default, grants, scored>>
    BY <1>10 DEF StoreReport, book, marks
  <2>2. \A g \in Thread : op'[g] = op[g] \/ op'[g].kind \notin {"policy", "approval"}
    BY <1>10 DEF StoreReport, TypeOK, NoOp
  <2> QED
    BY <1>2, <1>10, <2>1, <2>2, BookKept, StoreKeeps
<1>11. ASSUME NEW s \in Suite, CreateSuite(s) PROVE IInv'
  BY <1>1, <1>2, <1>3, <1>11 DEF CreateSuite, book
<1>12. ASSUME NEW s \in Suite, NEW outputs \in Outputs(s), Evaluate(s, outputs)
       PROVE  IInv'
  <2>1. EvaluationsComplete'
    BY <1>12, EvaluateCompletes
  <2>2. UNCHANGED <<policies, default, telemetry, op, grants, told>>
    BY <1>12 DEF Evaluate, book
  <2> QED
    BY <1>1, <1>3, <2>1, <2>2
<1>13. CASE CrashDesk
  <2>1. op' = [h \in Thread |-> NoOp]
    BY <1>13 DEF CrashDesk
  <2>2. UNCHANGED <<policies, default, grants, telemetry, scored, told>>
    BY <1>13 DEF CrashDesk, book, marks
  <2>3. TypeOK'
    BY <2>1, <2>2 DEF TypeOK
  <2>4. \A g \in Thread : op'[g].kind \notin {"policy", "approval"}
    BY <2>1 DEF NoOp
  <2> QED
    BY <1>1, <1>2, <2>2, <2>3, <2>4, BookKept
<1>14. CASE UNCHANGED deskVars
  BY <1>1, <1>2, <1>3, <1>14 DEF deskVars
<1> QED
  BY <1>4, <1>5, <1>6, <1>7, <1>8, <1>9, <1>10, <1>11, <1>12, <1>13, <1>14 DEF DeskNext

\* However requests overlap and threads die: each version of a policy is new
\* and approved once at most, a default is one that was approved, whoever was
\* told that a report is stored finds it, and a score covers its suite
\* (private_api.py, create_policy, approve_policy, telemetry, evaluate).
THEOREM DeskAgreesAlways == DeskSpec => []DeskAgrees
<1>1. IInv => DeskAgrees
  BY AgreesFromInv DEF IInv, ToldInv, DeskAgrees
<1> QED
  BY <1>1, DeskStarts, DeskSteps, PTL DEF DeskSpec
=============================================================================
