----------------------- MODULE LearningOutcomesProofs -----------------------
(***************************************************************************)
(* Proofs about LearningOutcomes: for every batch, every search order of   *)
(* contexts and every combination of claims.                               *)
(***************************************************************************)
EXTENDS LearningOutcomes, SequenceTheorems, SetSums

(* The first value said, as the code finds it and as the policy puts it.   *)
LEMMA FirstMeaning ==
  ASSUME NEW n \in Nat, NEW s, DOMAIN s = 1..n, NEW v, v # None
  PROVE  First(s) = v <=> FirstSaid(s, v)
<1> DEFINE said == {k \in 1..n : s[k] # None}
<1>1. First(s) = IF said = {} THEN None ELSE s[Min(said)]
  BY DEF First
<1>2. ASSUME First(s) = v PROVE FirstSaid(s, v)
  <2>1. said # {} /\ said \in SUBSET Nat
    BY <1>1, <1>2
  <2>2. \E k \in said : \A m \in said : k <= m
    BY <2>1, LeastNumber
  <2>3. Min(said) \in said /\ \A m \in said : Min(said) <= m
    BY <2>2 DEF Min
  <2>4. Min(said) \in 1..n /\ s[Min(said)] = v
    BY <1>1, <1>2, <2>1, <2>3
  <2>5. \A m \in 1..Min(said) - 1 : s[m] = None
    BY <2>3, <2>4
  <2> QED BY <2>4, <2>5 DEF FirstSaid
<1>3. ASSUME FirstSaid(s, v) PROVE First(s) = v
  <2>1. PICK k \in 1..n : s[k] = v /\ \A m \in 1..k - 1 : s[m] = None
    BY <1>3 DEF FirstSaid
  <2>2. k \in said /\ \A m \in said : k <= m
    BY <2>1
  <2>3. Min(said) \in said /\ \A m \in said : Min(said) <= m
    BY <2>2 DEF Min
  <2>4. Min(said) = k
    BY <2>2, <2>3
  <2> QED BY <1>1, <2>1, <2>2, <2>4
<1> QED BY <1>2, <1>3

(* _first finds nothing exactly when nothing is said.                      *)
LEMMA FirstSilent ==
  ASSUME NEW n \in Nat, NEW s, DOMAIN s = 1..n
  PROVE  First(s) = None <=> \A k \in 1..n : s[k] = None
<1>1. ASSUME \A k \in 1..n : s[k] = None PROVE First(s) = None
  BY <1>1 DEF First
<1>2. ASSUME First(s) = None, NEW k \in 1..n, s[k] # None PROVE FALSE
  <2> DEFINE said == {m \in 1..n : s[m] # None}
  <2>1. said # {} /\ said \in SUBSET Nat
    BY <1>2
  <2>2. \E m \in said : \A l \in said : m <= l
    BY <2>1, LeastNumber
  <2>3. Min(said) \in said
    BY <2>2 DEF Min
  <2> QED BY <1>2, <2>1, <2>3 DEF First
<1> QED BY <1>1, <1>2

(* _first of two values: the second counts only when the first is absent.  *)
LEMMA FirstOfTwo ==
  ASSUME NEW a, NEW b, NEW v, v # None
  PROVE  First(<<a, b>>) = v <=> a = v \/ (a = None /\ b = v)
<1> DEFINE s == <<a, b>>
<1>1. DOMAIN s = 1..2 /\ s[1] = a /\ s[2] = b
  OBVIOUS
<1> HIDE DEF s
<1>2. FirstSaid(s, v) <=> a = v \/ (a = None /\ b = v)
  BY <1>1 DEF FirstSaid
<1>3. First(s) = v <=> FirstSaid(s, v)
  BY <1>1, FirstMeaning
<1> QED BY <1>2, <1>3 DEF s

(* _first of three values.                                                 *)
LEMMA FirstOfThree ==
  ASSUME NEW a, NEW b, NEW c, NEW v, v # None
  PROVE  First(<<a, b, c>>) = v
           <=> a = v \/ (a = None /\ b = v) \/ (a = None /\ b = None /\ c = v)
<1> DEFINE s == <<a, b, c>>
<1>1. DOMAIN s = 1..3 /\ s[1] = a /\ s[2] = b /\ s[3] = c
  OBVIOUS
<1> HIDE DEF s
<1>2. FirstSaid(s, v)
        <=> a = v \/ (a = None /\ b = v) \/ (a = None /\ b = None /\ c = v)
  BY <1>1 DEF FirstSaid
<1>3. First(s) = v <=> FirstSaid(s, v)
  BY <1>1, FirstMeaning
<1> QED BY <1>2, <1>3 DEF s

(* A value of last resort counts only when the contexts are silent.        *)
LEMMA SaidAppended ==
  ASSUME NEW n \in Nat, NEW s, s = [k \in 1..n |-> s[k]],
         NEW x, NEW v, v # None
  PROVE  FirstSaid(Append(s, x), v) <=> First(s) = v \/ (First(s) = None /\ x = v)
<1> DEFINE t == Append(s, x)
           S == {s[k] : k \in 1..n} \cup {x}
<1>1. s \in [1..n -> S] /\ x \in S /\ DOMAIN s = 1..n
  OBVIOUS
<1>2. s \in Seq(S) /\ Len(s) = n
  BY <1>1, SeqDef, LenProperties
<1>3. /\ DOMAIN t = 1..n + 1 /\ t[n + 1] = x
      /\ \A k \in 1..n : t[k] = s[k]
  BY <1>1, <1>2, AppendProperties, LenProperties
<1> HIDE DEF t
<1>4. FirstSaid(t, v) <=> FirstSaid(s, v) \/ (x = v /\ \A k \in 1..n : s[k] = None)
  <2>1. ASSUME FirstSaid(t, v), ~FirstSaid(s, v)
        PROVE  x = v /\ \A k \in 1..n : s[k] = None
    <3>1. PICK k \in 1..n + 1 : t[k] = v /\ \A m \in 1..k - 1 : t[m] = None
      BY <1>3, <2>1 DEF FirstSaid
    <3>2. k \notin 1..n
      BY <1>1, <1>3, <2>1, <3>1 DEF FirstSaid
    <3>3. k = n + 1
      BY <3>2
    <3> QED BY <1>3, <3>1, <3>3
  <2>2. ASSUME FirstSaid(s, v) PROVE FirstSaid(t, v)
    <3>1. PICK k \in 1..n : s[k] = v /\ \A m \in 1..k - 1 : s[m] = None
      BY <1>1, <2>2 DEF FirstSaid
    <3>2. k \in DOMAIN t /\ t[k] = v
      BY <1>3, <3>1
    <3>3. \A m \in 1..k - 1 : m \in 1..n
      BY <3>1
    <3>4. \A m \in 1..k - 1 : t[m] = None
      BY <1>3, <3>1, <3>3
    <3> QED BY <3>2, <3>4 DEF FirstSaid
  <2>3. ASSUME x = v, \A k \in 1..n : s[k] = None PROVE FirstSaid(t, v)
    BY <1>3, <2>3 DEF FirstSaid
  <2> QED BY <2>1, <2>2, <2>3
<1>5. First(s) = v <=> FirstSaid(s, v)
  BY <1>1, FirstMeaning
<1>6. First(s) = None <=> \A k \in 1..n : s[k] = None
  BY <1>1, FirstSilent
<1> QED BY <1>4, <1>5, <1>6 DEF t

(* A value looked at before the contexts hides them.                       *)
LEMMA SaidBefore ==
  ASSUME NEW S, NEW s \in Seq(S), NEW a \in S, NEW v, v # None
  PROVE  FirstSaid(<<a>> \o s, v) <=> a = v \/ (a = None /\ FirstSaid(s, v))
<1> DEFINE t == <<a>> \o s
           n == Len(s)
<1>1. n \in Nat /\ DOMAIN s = 1..n
  BY LenProperties
<1>2. <<a>> \in Seq(S) /\ Len(<<a>>) = 1 /\ <<a>>[1] = a
  OBVIOUS
<1>3. t \in Seq(S) /\ Len(t) = 1 + n
  BY <1>2, ConcatProperties
<1>4. DOMAIN t = 1..n + 1
  BY <1>1, <1>3, LenProperties
<1>5. t[1] = a /\ \A k \in 2..n + 1 : t[k] = s[k - 1]
  BY <1>1, <1>2, ConcatProperties
<1> HIDE DEF t, n
<1>6. ASSUME FirstSaid(t, v) PROVE a = v \/ (a = None /\ FirstSaid(s, v))
  <2>1. PICK k \in 1..n + 1 : t[k] = v /\ \A m \in 1..k - 1 : t[m] = None
    BY <1>4, <1>6 DEF FirstSaid
  <2>2. CASE k = 1
    BY <1>5, <2>1, <2>2
  <2>3. CASE k # 1
    <3>1. k - 1 \in 1..n /\ s[k - 1] = v /\ a = None
      BY <1>1, <1>5, <2>1, <2>3
    <3>2. \A m \in 1..(k - 1) - 1 : s[m] = None
      <4>1. ASSUME NEW m \in 1..(k - 1) - 1 PROVE s[m] = None
        <5>1. m + 1 \in 2..n + 1 /\ m + 1 \in 1..k - 1 /\ (m + 1) - 1 = m
          BY <1>1, <2>1, <4>1
        <5> QED BY <1>5, <2>1, <5>1
      <4> QED BY <4>1
    <3> QED BY <1>1, <3>1, <3>2 DEF FirstSaid
  <2> QED BY <2>2, <2>3
<1>7. ASSUME a = v PROVE FirstSaid(t, v)
  BY <1>1, <1>4, <1>5, <1>7 DEF FirstSaid
<1>8. ASSUME a = None, FirstSaid(s, v) PROVE FirstSaid(t, v)
  <2>1. PICK k \in 1..n : s[k] = v /\ \A m \in 1..k - 1 : s[m] = None
    BY <1>1, <1>8 DEF FirstSaid
  <2>2. k + 1 \in DOMAIN t /\ t[k + 1] = v
    BY <1>1, <1>4, <1>5, <2>1
  <2>3. \A m \in 1..(k + 1) - 1 : t[m] = None
    <3>1. ASSUME NEW m \in 1..(k + 1) - 1 PROVE t[m] = None
      <4>1. CASE m = 1
        BY <1>5, <1>8, <4>1
      <4>2. CASE m # 1
        <5>1. m \in 2..n + 1 /\ m - 1 \in 1..k - 1
          BY <1>1, <2>1, <3>1, <4>2
        <5> QED BY <1>5, <2>1, <5>1
      <4> QED BY <4>1, <4>2
    <3> QED BY <3>1
  <2> QED BY <2>2, <2>3 DEF FirstSaid
<1> QED BY <1>6, <1>7, <1>8 DEF t

-----------------------------------------------------------------------------
(* The checks of _record_issues, one by one, against the policy.           *)
LEMMA ContextsOfPlan ==
  ASSUME NEW p \in Plan
  PROVE  \E n \in Nat : DOMAIN p.contexts = 1..n
BY LenProperties DEF Plan

(* _find_value over the contexts, then the plan's own field.               *)
LEMMA FoundThenOwn ==
  ASSUME NEW p \in Plan, NEW field, NEW x, NEW v, v # None
  PROVE  First(<<Found(p, field), x>>) = v
           <=> FirstSaid(Append(Said(p, field), x), v)
<1> DEFINE s == Said(p, field)
<1>1. PICK n \in Nat : DOMAIN p.contexts = 1..n
  BY ContextsOfPlan
<1>2. s = [k \in 1..n |-> s[k]]
  BY <1>1 DEF Said
<1>3. Found(p, field) = First(s)
  BY DEF Found, Said
<1> HIDE DEF s
<1>4. FirstSaid(Append(s, x), v) <=> First(s) = v \/ (First(s) = None /\ x = v)
  BY <1>2, SaidAppended
<1>5. First(<<First(s), x>>) = v <=> First(s) = v \/ (First(s) = None /\ x = v)
  BY FirstOfTwo
<1> QED BY <1>3, <1>4, <1>5 DEF s

(* The execution status check is rule 1 of the policy.                     *)
LEMMA StatusCheck ==
  ASSUME NEW p \in Plan
  PROVE  ExecutionStatus(p) \in LEARNABLE_EXECUTION_STATUSES <=>
           \E v \in LEARNABLE_EXECUTION_STATUSES :
             FirstSaid(Append(Said(p, "status"), p.status), v)
<1>1. \A v \in LEARNABLE_EXECUTION_STATUSES : v # None
  BY RecordsAssumption DEF Statuses
<1>2. \A v \in LEARNABLE_EXECUTION_STATUSES :
        ExecutionStatus(p) = v <=> FirstSaid(Append(Said(p, "status"), p.status), v)
  BY <1>1, FoundThenOwn DEF ExecutionStatus
<1> QED BY <1>2

(* The risk check is rule 5: an explicit risk_approved hides the approval  *)
(* id.                                                                     *)
LEMMA RiskCheck ==
  ASSUME NEW p \in Plan
  PROVE  RiskApproved(p) = TRUE
           <=> FirstSaid(Append(Said(p, "risk"), p.approved), TRUE)
<1>1. TRUE # None
  BY RecordsAssumption
<1> QED BY <1>1, FoundThenOwn DEF RiskApproved

(* The evidence gate: classification, then contexts, then summary.         *)
LEMMA OwnFoundThenOther ==
  ASSUME NEW p \in Plan, NEW v, v # None
  PROVE  GatePassed(p) = v
           <=> FirstSaid(<<p.gate>> \o Append(Said(p, "gate"), p.passed), v)
<1> DEFINE s == Said(p, "gate")
           S == {s[k] : k \in DOMAIN s} \cup {p.passed, p.gate}
<1>2. PICK n \in Nat : DOMAIN p.contexts = 1..n
  BY ContextsOfPlan
<1>3. s = [k \in 1..n |-> s[k]] /\ s \in [1..n -> S]
  BY <1>2 DEF Said
<1>4. s \in Seq(S) /\ p.passed \in S /\ p.gate \in S
  BY <1>3, SeqDef
<1>5. Append(s, p.passed) \in Seq(S)
  BY <1>4, AppendProperties
<1>6. Found(p, "gate") = First(s)
  BY DEF Found, Said
<1> HIDE DEF s, S
<1>7. FirstSaid(<<p.gate>> \o Append(s, p.passed), v)
        <=> \/ p.gate = v
            \/ p.gate = None /\ FirstSaid(Append(s, p.passed), v)
  <2>1. \A a \in S, q \in Seq(S) :
          FirstSaid(<<a>> \o q, v) <=> a = v \/ (a = None /\ FirstSaid(q, v))
    BY SaidBefore
  <2> QED BY <1>4, <1>5, <2>1, Zenon
<1>8. FirstSaid(Append(s, p.passed), v)
        <=> First(s) = v \/ (First(s) = None /\ p.passed = v)
  BY <1>3, SaidAppended
<1>9. GatePassed(p) = v
        <=> \/ p.gate = v
            \/ p.gate = None /\ First(s) = v
            \/ p.gate = None /\ First(s) = None /\ p.passed = v
  <2> DEFINE f == First(s)
  <2>1. GatePassed(p) = First(<<p.gate, f, p.passed>>)
    BY <1>6 DEF GatePassed
  <2> HIDE DEF f
  <2>2. First(<<p.gate, f, p.passed>>) = v
          <=> \/ p.gate = v
              \/ p.gate = None /\ f = v
              \/ p.gate = None /\ f = None /\ p.passed = v
    BY FirstOfThree
  <2> QED BY <2>1, <2>2 DEF f
<1> QED BY <1>7, <1>8, <1>9 DEF s

(* The gate check is rule 6.                                               *)
LEMMA GateCheck ==
  ASSUME NEW p \in Plan
  PROVE  GatePassed(p) = TRUE
           <=> FirstSaid(<<p.gate>> \o Append(Said(p, "gate"), p.passed), TRUE)
<1>1. TRUE # None
  BY RecordsAssumption
<1> QED BY <1>1, OwnFoundThenOther

(* The P&L check is rule 2: some fill that names the plan carries a P&L.   *)
LEMMA FillsCheck ==
  ASSUME NEW p
  PROVE  RealizedFills(p) # {} <=>
           \E k \in DOMAIN fills :
             /\ fills[k].pnl # None
             /\ p.id = fills[k].plan \/ fills[k].order \in {p.order} \ {None}
BY DEF RealizedFills, FillsForPlan

(* The six bucket checks together say that the only controlled bucket      *)
(* claimed, on each side, is the plan's.                                   *)
LEMMA BucketsCheck ==
  ASSUME NEW p \in Plan
  PROVE  /\ p.bucket \in KnownBuckets
         /\ ManagerBuckets(p) # {} /\ Cardinality(ManagerBuckets(p)) <= 1
         /\ ExecutionBuckets(p) # {} /\ Cardinality(ExecutionBuckets(p)) <= 1
         /\ ~Mismatch(p)
         <=>
         /\ p.bucket \in KnownBuckets
         /\ \A b \in KnownBuckets :
              /\ b = p.bucket <=> ClaimsManager(p, b)
              /\ b = p.bucket <=> ClaimsExecution(p, b)
<1> DEFINE M == ManagerBuckets(p)
           E == ExecutionBuckets(p)
<1>0. IsFiniteSet(M) /\ IsFiniteSet(E)
  <2>1. M \subseteq KnownBuckets /\ E \subseteq KnownBuckets
    BY DEF ManagerBuckets, ExecutionBuckets
  <2> QED BY <2>1, FS_Subset, RecordsAssumption
<1>1. /\ M # {} /\ Cardinality(M) <= 1 <=> Cardinality(M) = 1
      /\ E # {} /\ Cardinality(E) <= 1 <=> Cardinality(E) = 1
  <2>1. \A S : IsFiniteSet(S) => Cardinality(S) \in Nat /\ (Cardinality(S) = 0 <=> S = {})
    BY FS_CardinalityType, FS_EmptySet
  <2> QED BY <1>0, <2>1
<1>2. /\ Cardinality(M) = 1 <=> \E b : M = {b}
      /\ Cardinality(E) = 1 <=> \E b : E = {b}
  BY <1>0, FS_Singleton
<1>3. /\ M = {b \in KnownBuckets : ClaimsManager(p, b)}
      /\ E = {b \in KnownBuckets : ClaimsExecution(p, b)}
  BY DEF ManagerBuckets, ExecutionBuckets, Requested, ClaimsManager, ClaimsExecution
<1>4. Mismatch(p) <=> /\ p.bucket \in KnownBuckets
                      /\ Cardinality(M) = 1 /\ Cardinality(E) = 1
                      /\ ~(M = {p.bucket} /\ E = {p.bucket})
  BY DEF Mismatch
<1> HIDE DEF M, E
<1>5. p.bucket \in KnownBuckets =>
        (M = {p.bucket} <=> \A b \in KnownBuckets : b = p.bucket <=> ClaimsManager(p, b))
  BY <1>3
<1>6. p.bucket \in KnownBuckets =>
        (E = {p.bucket} <=> \A b \in KnownBuckets : b = p.bucket <=> ClaimsExecution(p, b))
  BY <1>3
<1>7. /\ p.bucket \in KnownBuckets
      /\ M # {} /\ Cardinality(M) <= 1 /\ E # {} /\ Cardinality(E) <= 1
      /\ ~Mismatch(p)
      <=> p.bucket \in KnownBuckets /\ M = {p.bucket} /\ E = {p.bucket}
  BY <1>1, <1>2, <1>4
<1> QED BY <1>5, <1>6, <1>7 DEF M, E

(* The version check of one source: the direct version hides the           *)
(* summary's.                                                              *)
LEMMA VersionCheck ==
  ASSUME NEW p \in Plan, NEW s \in Sources
  PROVE  Version(p, s) = "supported" <=>
           FirstSaid(<<p.direct.versions[s], p.summary.versions[s]>>, "supported")
<1> DEFINE t == <<p.direct.versions[s], p.summary.versions[s]>>
<1>1. DOMAIN t = 1..2 /\ "supported" # None
  BY RecordsAssumption
<1>2. Version(p, s) = First(t)
  BY DEF Version
<1> HIDE DEF t
<1>3. First(t) = "supported" <=> FirstSaid(t, "supported")
  BY <1>1, FirstMeaning
<1> QED BY <1>2, <1>3 DEF t

(* The status check of one source, once validation has allowed the plan.   *)
LEMMA EvidenceStatusCheck ==
  ASSUME NEW p \in Plan, Allowed(p), p.class = "classified", NEW s \in Sources
  PROVE  Status(p, s) # None /\ Status(p, s) \notin {"other", "review"} <=>
           "allowed" \in {p.direct.statuses[s], p.summary.statuses[s]} \/ s = "manager"
<1> DEFINE a == p.summary.statuses[s]
           b == p.direct.statuses[s]
           c == IF s = "manager" THEN p.class ELSE None
<1>1. a \in {"allowed", None} /\ b \in {"allowed", None}
  BY DEF Allowed, Plan, Note
<1>2. c = IF s = "manager" THEN "classified" ELSE None
  OBVIOUS
<1>3. Status(p, s) = First(<<a, b, c>>)
  BY DEF Status
<1>4. /\ None \notin {"allowed", "classified", "other", "review"}
  BY RecordsAssumption
<1> HIDE DEF a, b, c
<1>5. \A v : v # None =>
        (First(<<a, b, c>>) = v
           <=> a = v \/ (a = None /\ b = v) \/ (a = None /\ b = None /\ c = v))
  BY FirstOfThree
<1>6. CASE "allowed" \in {a, b}
  <2>1. First(<<a, b, c>>) = "allowed"
    BY <1>1, <1>4, <1>5, <1>6
  <2> QED BY <1>3, <1>4, <1>6, <2>1 DEF a, b
<1>7. CASE "allowed" \notin {a, b} /\ s = "manager"
  <2>1. First(<<a, b, c>>) = "classified"
    BY <1>1, <1>2, <1>4, <1>5, <1>7
  <2> QED BY <1>3, <1>4, <1>7, <2>1
<1>8. CASE "allowed" \notin {a, b} /\ s # "manager"
  <2>1. a = None /\ b = None /\ c = None
    BY <1>1, <1>2, <1>8
  <2>2. First(<<a, b, c>>) = None
    BY <1>5, <2>1
  <2> QED BY <1>3, <1>8, <2>2 DEF a, b
<1> QED BY <1>6, <1>7, <1>8

(* No check fails exactly when the documented policy holds.                *)
AllChecks(p) ==
  /\ ExecutionStatus(p) \in LEARNABLE_EXECUTION_STATUSES
  /\ RealizedFills(p) # {}
  /\ p.priced
  /\ p.bucket \in KnownBuckets
  /\ ManagerBuckets(p) # {} /\ Cardinality(ManagerBuckets(p)) <= 1
  /\ ExecutionBuckets(p) # {} /\ Cardinality(ExecutionBuckets(p)) <= 1
  /\ ~Mismatch(p)
  /\ RiskApproved(p) = TRUE
  /\ GatePassed(p) = TRUE
  /\ p.class = "classified"
  /\ p.classifier = "supported"
  /\ \A s \in Sources : Version(p, s) = "supported"
  /\ \A s \in Sources : Status(p, s) # None
  /\ \A s \in Sources : Status(p, s) \notin {"other", "review"}
  /\ p.inputs

(* No issue is raised exactly when every check passes.                     *)
LEMMA NoIssueMeansAllChecks ==
  ASSUME NEW p
  PROVE  Issues(p) = {} <=> AllChecks(p)
BY DEF Issues, Unless, Executed, AllChecks

(* For a plan that validation allows, _record_issues finds nothing         *)
(* exactly when the documented policy holds of all that the plan claims.   *)
LEMMA PolicyIsTheChecks ==
  ASSUME NEW p \in Plan, Allowed(p)
  PROVE  Issues(p) = {} <=> Learnable(p)
<1>1. Issues(p) = {} <=> AllChecks(p)
  BY NoIssueMeansAllChecks
<1>2. (\A s \in Sources : Version(p, s) = "supported") <=>
        \A s \in Sources :
          FirstSaid(<<p.direct.versions[s], p.summary.versions[s]>>, "supported")
  BY VersionCheck
<1>3. p.class = "classified" =>
        ( (\A s \in Sources : Status(p, s) # None)
            /\ (\A s \in Sources : Status(p, s) \notin {"other", "review"})
          <=> \A s \in Sources :
                \/ "allowed" \in {p.direct.statuses[s], p.summary.statuses[s]}
                \/ s = "manager" )
  BY EvidenceStatusCheck
<1>4. AllChecks(p) <=> Learnable(p)
  BY <1>2, <1>3, StatusCheck, RiskCheck, GateCheck, FillsCheck, BucketsCheck
     DEF AllChecks, Learnable
<1> QED BY <1>1, <1>4

-----------------------------------------------------------------------------
(* Type correctness.                                                       *)
IsSequence(s) == \E S : s \in Seq(S)

BatchOK ==
  /\ plans \in Seq(Plan)
  /\ pc \in {"validate", "refused"} => i = 1
  /\ pc \in {"build", "done"} => \A k \in DOMAIN plans : Allowed(plans[k])
  /\ fills \in Seq(Fill)
  /\ IsSequence(fills) /\ IsSequence(outcomes) /\ IsSequence(rejected)

(* The length and the domain of a sequence.                                *)
LEMMA SequenceFacts ==
  ASSUME NEW s, IsSequence(s)
  PROVE  Len(s) \in Nat /\ DOMAIN s = 1..Len(s)
BY LenProperties DEF IsSequence

(* What append does to a sequence.                                         *)
LEMMA AppendFacts ==
  ASSUME NEW s, IsSequence(s), NEW e
  PROVE  /\ IsSequence(Append(s, e))
         /\ Len(Append(s, e)) = Len(s) + 1
         /\ DOMAIN Append(s, e) = 1..Len(s) + 1
         /\ \A k \in 1..Len(s) : Append(s, e)[k] = s[k]
         /\ Append(s, e)[Len(s) + 1] = e
<1>1. PICK S : s \in Seq(S)
  BY DEF IsSequence
<1> DEFINE T == S \cup {e}
<1>2. s \in Seq(T) /\ e \in T
  BY <1>1, SeqMonotonic
<1> HIDE DEF T
<1>3. Append(s, e) \in Seq(T)
  BY <1>2, AppendProperties
<1>4. Len(Append(s, e)) = Len(s) + 1 /\ Append(s, e)[Len(s) + 1] = e
      /\ \A k \in 1..Len(s) : Append(s, e)[k] = s[k]
  BY <1>2, AppendProperties
<1>5. IsSequence(Append(s, e))
  BY <1>3 DEF IsSequence
<1> QED BY <1>3, <1>4, <1>5, LenProperties

(* A request as it arrives is well typed.                                  *)
LEMMA InitType == Init => TypeOK /\ BatchOK
<1> SUFFICES ASSUME Init PROVE TypeOK /\ BatchOK
  OBVIOUS
<1>1. PICK m \in Nat : plans \in [1..m -> PlanRecords]
  BY RecordsAssumption DEF Init, BoundedSeqs
<1>2. PICK n \in Nat : fills \in [1..n -> FillRecords]
  BY RecordsAssumption DEF Init, BoundedSeqs
<1>3. plans \in Seq(PlanRecords) /\ fills \in Seq(FillRecords)
  BY <1>1, <1>2, SeqDef
<1>4. plans \in Seq(Plan) /\ IsSequence(fills) /\ fills \in Seq(Fill)
  BY <1>3, SeqMonotonic, RecordsAssumption DEF IsSequence
<1>5. IsSequence(<< >>) /\ Len(<< >>) = 0 /\ DOMAIN << >> = {}
  BY EmptySeq DEF IsSequence
<1>6. Len(plans) \in Nat
  BY <1>4, LenProperties
<1> QED BY <1>4, <1>5, <1>6 DEF Init, TypeOK, BatchOK, Reviewed

(* Inside the loop there is a validated plan to look at.                   *)
LEMMA ThePlan ==
  ASSUME TypeOK, BatchOK, AtPlan
  PROVE  /\ i \in 1..Len(plans) /\ i \in DOMAIN plans /\ Len(plans) \in Nat
         /\ plans[i] \in Plan /\ Allowed(plans[i])
         /\ Reviewed \in Nat /\ Reviewed' = Reviewed + 1 /\ Reviewed' = i
         /\ 1..Reviewed' = (1..Reviewed) \cup {i}
<1>1. i \in 1..Len(plans) /\ Len(plans) \in Nat /\ DOMAIN plans = 1..Len(plans)
  BY LenProperties DEF TypeOK, BatchOK, AtPlan
<1>2. plans[i] \in Plan
  BY <1>1, ElementOfSeq DEF BatchOK
<1> QED BY <1>1, <1>2 DEF AtPlan, BatchOK, Reviewed

(* A pass of the loop marks the id of its plan as seen.                    *)
LEMMA SeenStep ==
  ASSUME TypeOK, BatchOK, AtPlan,
         seen_plan_ids' = seen_plan_ids \cup {plans[i].id}
  PROVE  seen_plan_ids' = {plans[k].id : k \in 1..Reviewed}'
<1>1. 1..Reviewed' = (1..Reviewed) \cup {i} /\ plans' = plans
  BY ThePlan DEF AtPlan, request
<1> QED BY <1>1 DEF TypeOK

(* A pass that answers its plan once keeps the types.                      *)
LEMMA LoopType ==
  ASSUME TypeOK, BatchOK, AtPlan,
         seen_plan_ids' = {plans[k].id : k \in 1..Reviewed}',
         Reviewed' = Len(outcomes') + Len(rejected'),
         IsSequence(outcomes'), IsSequence(rejected'),
         \A k \in DOMAIN outcomes' :
           outcomes'[k].id \in PlanIds /\ outcomes'[k].bucket \in KnownBuckets
  PROVE  TypeOK' /\ BatchOK'
<1>1. /\ plans' = plans /\ fills' = fills /\ pc' = pc /\ pc = "build"
      /\ unmatched' = unmatched
  BY DEF AtPlan, request
<1>2. i' \in 1..Len(plans') + 1
  BY <1>1, ThePlan DEF AtPlan
<1>3. TypeOK'
  BY <1>1, <1>2 DEF TypeOK
<1>4. \A k \in DOMAIN plans' : Allowed(plans'[k])
  BY <1>1 DEF BatchOK, Allowed
<1>5. plans' \in Seq(Plan) /\ IsSequence(fills') /\ fills' \in Seq(Fill)
  BY <1>1 DEF BatchOK
<1>6. BatchOK'
  BY <1>1, <1>4, <1>5 DEF BatchOK, Allowed
<1> QED BY <1>3, <1>6

(* _index_fills counts the unmatched fills.                                *)
LEMMA IndexCounts ==
  ASSUME BatchOK, IndexFills
  PROVE  unmatched' \in Nat
<1>1. IsFiniteSet(DOMAIN fills)
  BY SequenceFacts, FS_Interval DEF BatchOK
<1> QED BY <1>1, FS_Subset, FS_CardinalityType DEF IndexFills

(* Every step of build_learning_outcomes keeps the types and the batch.    *)
LEMMA NextType ==
  ASSUME TypeOK, BatchOK, [Next]_vars
  PROVE  TypeOK' /\ BatchOK'
<1>0. Len(plans) \in Nat /\ DOMAIN plans = 1..Len(plans)
  BY LenProperties DEF BatchOK
<1> USE DEF request
<1>1. CASE RefuseRequest
  BY <1>0, <1>1 DEF RefuseRequest, TypeOK, BatchOK, Reviewed
<1>2. CASE IndexFills
  BY <1>0, <1>2, IndexCounts DEF IndexFills, TypeOK, BatchOK, Reviewed, Allowed
<1>3. CASE RejectDuplicate
  <2>1. seen_plan_ids' = {plans[k].id : k \in 1..Reviewed}'
    BY <1>3, SeenStep DEF RejectDuplicate
  <2>2. IsSequence(rejected') /\ Len(rejected') = Len(rejected) + 1
    BY <1>3, AppendFacts DEF RejectDuplicate, Reject, BatchOK
  <2>3. Reviewed' = Len(outcomes') + Len(rejected')
    BY <1>3, <2>2, ThePlan, SequenceFacts
       DEF RejectDuplicate, Reject, TypeOK, BatchOK
  <2> QED BY <1>3, <2>1, <2>2, <2>3, LoopType
          DEF RejectDuplicate, Reject, TypeOK, BatchOK
<1>4. CASE RejectPlan
  <2>1. seen_plan_ids' = {plans[k].id : k \in 1..Reviewed}'
    BY <1>4, SeenStep DEF RejectPlan
  <2>2. IsSequence(rejected') /\ Len(rejected') = Len(rejected) + 1
    BY <1>4, AppendFacts DEF RejectPlan, Reject, BatchOK
  <2>3. Reviewed' = Len(outcomes') + Len(rejected')
    BY <1>4, <2>2, ThePlan, SequenceFacts DEF RejectPlan, Reject, TypeOK, BatchOK
  <2> QED BY <1>4, <2>1, <2>2, <2>3, LoopType
          DEF RejectPlan, Reject, TypeOK, BatchOK
<1>5. CASE BuildOutcome
  <2> DEFINE e == [id           |-> plans[i].id,
                   bucket       |-> plans[i].bucket,
                   realized_pnl |-> RealizedPnl(plans[i])]
  <2>1. seen_plan_ids' = {plans[k].id : k \in 1..Reviewed}'
    BY <1>5, SeenStep DEF BuildOutcome
  <2>2. outcomes' = Append(outcomes, e) /\ e.id = plans[i].id /\ e.bucket = plans[i].bucket
    BY <1>5 DEF BuildOutcome
  <2>3. e.id \in PlanIds /\ e.bucket \in KnownBuckets
    <3>1. plans[i] \in Plan /\ AllChecks(plans[i])
      BY <1>5, ThePlan, NoIssueMeansAllChecks DEF BuildOutcome
    <3> QED BY <2>2, <3>1 DEF Plan, AllChecks
  <2> HIDE DEF e
  <2>4. /\ IsSequence(outcomes') /\ Len(outcomes') = Len(outcomes) + 1
        /\ DOMAIN outcomes' = 1..Len(outcomes) + 1
        /\ \A k \in 1..Len(outcomes) : outcomes'[k] = outcomes[k]
        /\ outcomes'[Len(outcomes) + 1] = e
        /\ Len(outcomes) \in Nat /\ DOMAIN outcomes = 1..Len(outcomes)
    BY <2>2, AppendFacts, SequenceFacts DEF BatchOK
  <2>5. Reviewed' = Len(outcomes') + Len(rejected')
    BY <1>5, <2>4, ThePlan, SequenceFacts DEF BuildOutcome, TypeOK, BatchOK
  <2>6. \A k \in DOMAIN outcomes' :
          outcomes'[k].id \in PlanIds /\ outcomes'[k].bucket \in KnownBuckets
    BY <2>3, <2>4 DEF TypeOK
  <2> QED BY <1>5, <2>1, <2>4, <2>5, <2>6, LoopType DEF BuildOutcome, BatchOK
<1>6. CASE FinishBatch
  BY <1>0, <1>6 DEF FinishBatch, TypeOK, BatchOK, Reviewed, Allowed
<1>7. CASE Returned \/ UNCHANGED vars
  BY <1>0, <1>7 DEF Returned, vars, TypeOK, BatchOK, Reviewed, Allowed
<1> QED BY <1>1, <1>2, <1>3, <1>4, <1>5, <1>6, <1>7 DEF Next

(* Every record reviewed is answered, by an outcome or by a rejection.     *)
THEOREM TypeCorrect == Spec => [](TypeOK /\ BatchOK)
<1>1. TypeOK /\ BatchOK /\ [Next]_vars => (TypeOK /\ BatchOK)'
  BY NextType
<1> QED BY <1>1, InitType, PTL DEF Spec

-----------------------------------------------------------------------------
(* Which records became outcomes.                                          *)
OutcomeIds == {outcomes[n].id : n \in DOMAIN outcomes}
LearnableFirsts == {m \in 1..Reviewed : FirstRecord(m) /\ Learnable(plans[m])}
NoIdTwice == \A m, n \in DOMAIN outcomes : outcomes[m].id = outcomes[n].id => m = n

(* FirstRecordDecides as the two facts proved of a step.                   *)
LEMMA FirstRecordDecidesParts ==
  FirstRecordDecides <=>
    OutcomeIds = {plans[k].id : k \in LearnableFirsts} /\ NoIdTwice
BY DEF FirstRecordDecides, OutcomeIds, LearnableFirsts, NoIdTwice

(* The same, after a step.                                                 *)
LEMMA PartsAfter ==
  ASSUME OutcomeIds' = {plans[k].id : k \in LearnableFirsts}', NoIdTwice'
  PROVE  FirstRecordDecides'
BY DEF FirstRecordDecides, OutcomeIds, LearnableFirsts, NoIdTwice

(* A pass adds its plan to the learnable first records, or leaves them.    *)
LEMMA FirstsGrow ==
  ASSUME TypeOK, BatchOK, AtPlan
  PROVE  LearnableFirsts' =
           LearnableFirsts \cup
             {m \in {i} : plans[m].id \notin seen_plan_ids /\ Learnable(plans[m])}
<1>1. plans' = plans /\ fills' = fills
  BY DEF AtPlan, request
<1>2. 1..Reviewed' = (1..Reviewed) \cup {i}
  BY ThePlan
<1>3. LearnableFirsts' = {m \in (1..Reviewed) \cup {i} :
                            FirstRecord(m) /\ Learnable(plans[m])}
  <2>1. \A m : FirstRecord(m)' /\ Learnable(plans[m])'
                <=> FirstRecord(m) /\ Learnable(plans[m])
    BY <1>1 DEF FirstRecord, Learnable, ClaimsManager, ClaimsExecution, FirstSaid, Said
  <2> QED BY <1>1, <1>2, <2>1 DEF LearnableFirsts
<1>4. FirstRecord(i) <=> plans[i].id \notin seen_plan_ids
  BY DEF FirstRecord, TypeOK, Reviewed
<1> QED BY <1>3, <1>4 DEF LearnableFirsts

(* The id of an outcome counts as seen.                                    *)
LEMMA OutcomeIdsSeen ==
  ASSUME TypeOK, FirstRecordDecides
  PROVE  OutcomeIds \subseteq seen_plan_ids
BY FirstRecordDecidesParts DEF LearnableFirsts, TypeOK

(* Every step keeps the outcomes those of the learnable first records.     *)
LEMMA DecideStep ==
  ASSUME TypeOK, BatchOK, FirstRecordDecides, [Next]_vars
  PROVE  FirstRecordDecides'
<1> DEFINE new == {m \in {i} : plans[m].id \notin seen_plan_ids /\ Learnable(plans[m])}
<1>1. CASE AtPlan
  <2>1. plans' = plans /\ LearnableFirsts' = LearnableFirsts \cup new
    BY <1>1, FirstsGrow DEF AtPlan, request
  <2>2. Issues(plans[i]) = {} <=> Learnable(plans[i])
    BY <1>1, ThePlan, PolicyIsTheChecks
  <2>3. CASE RejectDuplicate \/ RejectPlan
    <3>1. new = {} /\ outcomes' = outcomes
      BY <2>2, <2>3 DEF RejectDuplicate, RejectPlan, Reject
    <3>2. OutcomeIds' = OutcomeIds /\ (NoIdTwice' <=> NoIdTwice)
      BY <3>1 DEF OutcomeIds, NoIdTwice
    <3>3. {plans[k].id : k \in LearnableFirsts}' = {plans[k].id : k \in LearnableFirsts}
      BY <2>1, <3>1
    <3> QED BY <3>2, <3>3, FirstRecordDecidesParts, PartsAfter
  <2>4. CASE BuildOutcome
    <3> DEFINE e == [id           |-> plans[i].id,
                     bucket       |-> plans[i].bucket,
                     realized_pnl |-> RealizedPnl(plans[i])]
               n == Len(outcomes)
    <3>1. outcomes' = Append(outcomes, e) /\ e.id = plans[i].id
      BY <2>4 DEF BuildOutcome
    <3>2. new = {i} /\ plans[i].id \notin seen_plan_ids
      BY <2>2, <2>4 DEF BuildOutcome
    <3> HIDE DEF e
    <3>3. /\ DOMAIN outcomes' = 1..n + 1 /\ n \in Nat /\ DOMAIN outcomes = 1..n
          /\ \A k \in 1..n : outcomes'[k] = outcomes[k]
          /\ outcomes'[n + 1].id = plans[i].id
      BY <3>1, AppendFacts, SequenceFacts DEF BatchOK
    <3> HIDE DEF n
    <3>4. OutcomeIds' = OutcomeIds \cup {plans[i].id}
      <4>1. 1..n + 1 = (1..n) \cup {n + 1}
        BY <3>3
      <4> QED BY <3>3, <4>1 DEF OutcomeIds
    <3>5. {plans[k].id : k \in LearnableFirsts}'
            = {plans[k].id : k \in LearnableFirsts} \cup {plans[i].id}
      BY <2>1, <3>2
    <3>6. plans[i].id \notin OutcomeIds
      BY <3>2, OutcomeIdsSeen
    <3>7. NoIdTwice'
      <4>1. ASSUME NEW k \in 1..n + 1, NEW m \in 1..n + 1,
                   outcomes'[k].id = outcomes'[m].id
            PROVE  k = m
        <5>1. CASE k \in 1..n /\ m \in 1..n
          BY <3>3, <4>1, <5>1, FirstRecordDecidesParts DEF NoIdTwice
        <5>2. CASE k \in 1..n /\ m = n + 1
          BY <3>3, <3>6, <4>1, <5>2 DEF OutcomeIds
        <5>3. CASE k = n + 1 /\ m \in 1..n
          BY <3>3, <3>6, <4>1, <5>3 DEF OutcomeIds
        <5> QED BY <3>3, <4>1, <5>1, <5>2, <5>3
      <4> QED BY <3>3, <4>1 DEF NoIdTwice
    <3> QED BY <3>4, <3>5, <3>7, FirstRecordDecidesParts, PartsAfter
  <2> QED BY <1>1, <2>3, <2>4
          DEF Next, RefuseRequest, IndexFills, FinishBatch, Returned, vars, AtPlan
<1>2. CASE ~AtPlan
  <2>1. /\ plans' = plans /\ fills' = fills /\ outcomes' = outcomes /\ i' = i
    BY <1>2 DEF Next, RefuseRequest, IndexFills, RejectDuplicate, RejectPlan,
       BuildOutcome, FinishBatch, Returned, vars, request
  <2>2. LearnableFirsts' = LearnableFirsts
    <3>1. \A m : FirstRecord(m)' /\ Learnable(plans[m])'
                  <=> FirstRecord(m) /\ Learnable(plans[m])
      BY <2>1 DEF FirstRecord, Learnable, ClaimsManager, ClaimsExecution,
         FirstSaid, Said
    <3> QED BY <2>1, <3>1 DEF LearnableFirsts, Reviewed
  <2>3. /\ OutcomeIds' = OutcomeIds /\ (NoIdTwice' <=> NoIdTwice)
        /\ {plans[k].id : k \in LearnableFirsts}' = {plans[k].id : k \in LearnableFirsts}
    BY <2>1, <2>2 DEF OutcomeIds, NoIdTwice
  <2> QED BY <2>3, FirstRecordDecidesParts, PartsAfter
<1> QED BY <1>1, <1>2

(* Before the loop there are no outcomes and no records reviewed.          *)
LEMMA DecideInit == Init => FirstRecordDecides
<1> SUFFICES ASSUME Init PROVE FirstRecordDecides
  OBVIOUS
<1>1. DOMAIN outcomes = {} /\ Reviewed = 0
  BY EmptySeq DEF Init, Reviewed
<1> QED BY <1>1 DEF FirstRecordDecides

(* In every batch the outcomes are exactly the first records of their ids  *)
(* that satisfy the documented policy, each once.                          *)
THEOREM PolicyDecides == Spec => []FirstRecordDecides
<1>1. TypeOK /\ BatchOK /\ FirstRecordDecides /\ [Next]_vars => FirstRecordDecides'
  BY DecideStep
<1> QED BY <1>1, DecideInit, TypeCorrect, PTL DEF Spec

-----------------------------------------------------------------------------
(* Validation leaves no status to refuse but the manager's own, which the  *)
(* classification has refused too.                                         *)
LEMMA ShadowedIssue ==
  ASSUME NEW p \in Plan, Allowed(p), "evidence_not_learnable" \in Issues(p)
  PROVE  "manager_classification_not_approved" \in Issues(p)
<1>1. PICK s \in Sources : Status(p, s) \in {"other", "review"}
  BY DEF Issues, Unless
<1> DEFINE a == p.summary.statuses[s]
           b == p.direct.statuses[s]
           c == IF s = "manager" THEN p.class ELSE None
           v == Status(p, s)
<1>2. a \in {"allowed", None} /\ b \in {"allowed", None}
  BY DEF Allowed, Plan, Note
<1>3. v = First(<<a, b, c>>)
  BY DEF Status
<1>4. None \notin {"allowed", "other", "review"}
  BY RecordsAssumption
<1>5. v \in {"other", "review"} /\ v # None
  BY <1>1, <1>4
<1> HIDE DEF a, b, v
<1>6. c = v
  <2> HIDE DEF c
  <2> QED BY <1>2, <1>3, <1>4, <1>5, FirstOfThree
<1>7. p.class # "classified"
  BY <1>5, <1>6
<1> QED BY <1>7 DEF Issues, Unless

(* Every step keeps what the rejections say of the status check.           *)
LEMMA ShadowStep ==
  ASSUME TypeOK, BatchOK, StatusCheckIsShadowed, [Next]_vars
  PROVE  StatusCheckIsShadowed'
<1>1. ASSUME AtPlan, NEW issues, Reject(issues),
             "evidence_not_learnable" \in issues
               => "manager_classification_not_approved" \in issues
      PROVE  StatusCheckIsShadowed'
  <2> DEFINE r == [id |-> plans[i].id, issues |-> issues]
             n == Len(rejected)
  <2>1. rejected' = Append(rejected, r) /\ r.issues = issues
    BY <1>1 DEF Reject
  <2> HIDE DEF r
  <2>2. /\ n \in Nat /\ DOMAIN rejected = 1..n /\ DOMAIN rejected' = 1..n + 1
        /\ \A k \in 1..n : rejected'[k] = rejected[k]
        /\ rejected'[n + 1] = r
    BY <2>1, AppendFacts, SequenceFacts DEF BatchOK
  <2> HIDE DEF n
  <2>3. \A k \in 1..n + 1 : k \in 1..n \/ k = n + 1
    BY <2>2
  <2> QED BY <1>1, <2>1, <2>2, <2>3 DEF StatusCheckIsShadowed
<1>2. CASE RejectDuplicate
  BY <1>1, <1>2 DEF RejectDuplicate
<1>3. CASE RejectPlan
  <2>1. AtPlan /\ Reject(Issues(plans[i]))
    BY <1>3 DEF RejectPlan
  <2>2. plans[i] \in Plan /\ Allowed(plans[i])
    BY <2>1, ThePlan
  <2> QED BY <1>1, <2>1, <2>2, ShadowedIssue
<1>4. CASE ~RejectDuplicate /\ ~RejectPlan
  <2>1. rejected' = rejected
    BY <1>4 DEF Next, RefuseRequest, IndexFills, BuildOutcome, FinishBatch,
       Returned, vars
  <2> QED BY <2>1 DEF StatusCheckIsShadowed
<1> QED BY <1>2, <1>3, <1>4

(* In every batch, the status check of the builder rejects nothing that    *)
(* the classification check does not.                                      *)
THEOREM StatusCheckAddsNothing == Spec => []StatusCheckIsShadowed
<1>1. TypeOK /\ BatchOK /\ StatusCheckIsShadowed /\ [Next]_vars
        => StatusCheckIsShadowed'
  BY ShadowStep
<1>2. Init => StatusCheckIsShadowed
  BY EmptySeq DEF Init, StatusCheckIsShadowed
<1> QED BY <1>1, <1>2, TypeCorrect, PTL DEF Spec

-----------------------------------------------------------------------------
(* The P&L of the outcomes.  An outcome has that of the first record of    *)
(* its id.                                                                 *)
Earned ==
  \A n \in DOMAIN outcomes :
    \E m \in 1..Reviewed : /\ FirstRecord(m) /\ plans[m].id = outcomes[n].id
                           /\ outcomes[n].realized_pnl = RealizedPnl(plans[m])

(* The records and what they earn depend on the request only.              *)
LEMMA RequestStays ==
  ASSUME plans' = plans, fills' = fills
  PROVE  /\ \A m : FirstRecord(m)' <=> FirstRecord(m)
         /\ \A p : RealizedPnl(p)' = RealizedPnl(p)
<1>1. \A m : FirstRecord(m)' <=> FirstRecord(m)
  BY DEF FirstRecord
<1>2. \A p : RealizedFills(p)' = RealizedFills(p)
  BY DEF RealizedFills, FillsForPlan
<1>3. ASSUME NEW ks, NEW js, js = ks
      PROVE  SumOver([k \in js |-> fills'[k].pnl]) = SumOver([k \in ks |-> fills[k].pnl])
  <2>1. [k \in js |-> fills'[k].pnl] = [k \in ks |-> fills[k].pnl]
    BY <1>3
  <2> QED BY <2>1, Zenon
<1>4. \A p : RealizedPnl(p)' = RealizedPnl(p)
  BY <1>2, <1>3, Zenon DEF RealizedPnl
<1> QED BY <1>1, <1>4

(* Every step keeps it; only BuildOutcome has something to earn.           *)
LEMMA EarnStep ==
  ASSUME TypeOK, BatchOK, Earned, [Next]_vars
  PROVE  Earned'
<1> USE DEF request
<1>1. plans' = plans /\ fills' = fills
  BY DEF Next, RefuseRequest, IndexFills, RejectDuplicate, RejectPlan, BuildOutcome, AtPlan,
     FinishBatch, Returned, vars
<1>2. 1..Reviewed \subseteq 1..Reviewed'
  <2>1. CASE AtPlan
    BY <2>1, ThePlan
  <2>2. CASE ~AtPlan
    BY <2>2 DEF Next, RefuseRequest, IndexFills, RejectDuplicate, RejectPlan, BuildOutcome,
       FinishBatch, Returned, vars, Reviewed
  <2> QED BY <2>1, <2>2
<1>3. ASSUME NEW n \in DOMAIN outcomes, outcomes'[n] = outcomes[n]
      PROVE  \E m \in 1..Reviewed' : /\ FirstRecord(m)' /\ plans'[m].id = outcomes'[n].id
                                     /\ outcomes'[n].realized_pnl = RealizedPnl(plans[m])'
  <2>1. PICK m \in 1..Reviewed : /\ FirstRecord(m) /\ plans[m].id = outcomes[n].id
                                 /\ outcomes[n].realized_pnl = RealizedPnl(plans[m])
    BY DEF Earned
  <2>2. m \in 1..Reviewed' /\ FirstRecord(m)'
    BY <1>1, <1>2, <2>1, RequestStays
  <2>3. RealizedPnl(plans[m])' = RealizedPnl(plans[m])
    BY <1>1, RequestStays
  <2> QED BY <1>1, <1>3, <2>1, <2>2, <2>3
<1>4. CASE BuildOutcome
  <2> DEFINE e == [id           |-> plans[i].id,
                   bucket       |-> plans[i].bucket,
                   realized_pnl |-> RealizedPnl(plans[i])]
             n == Len(outcomes)
  <2>1. outcomes' = Append(outcomes, e) /\ AtPlan /\ plans[i].id \notin seen_plan_ids
    BY <1>4 DEF BuildOutcome
  <2>2. e.id = plans[i].id /\ e.realized_pnl = RealizedPnl(plans[i])
    OBVIOUS
  <2> HIDE DEF e
  <2>3. /\ DOMAIN outcomes' = 1..n + 1 /\ n \in Nat /\ DOMAIN outcomes = 1..n
        /\ \A k \in 1..n : outcomes'[k] = outcomes[k]
        /\ outcomes'[n + 1] = e
    BY <2>1, AppendFacts, SequenceFacts DEF BatchOK
  <2>4. i \in 1..Reviewed' /\ FirstRecord(i)
    <3>1. FirstRecord(i)
      BY <2>1 DEF FirstRecord, TypeOK, Reviewed
    <3> QED BY <2>1, <3>1, ThePlan
  <2>5. PICK m \in 1..Reviewed' :
          /\ FirstRecord(m)' /\ plans[m].id = e.id
          /\ RealizedPnl(plans[m])' = e.realized_pnl
    <3>1. PICK m : m = i
      OBVIOUS
    <3>2. FirstRecord(m)' /\ RealizedPnl(plans[m])' = RealizedPnl(plans[m])
      BY <1>1, <2>4, <3>1, RequestStays
    <3>3. m \in 1..Reviewed' /\ plans[m].id = e.id /\ RealizedPnl(plans[m]) = e.realized_pnl
      BY <2>2, <2>4, <3>1
    <3> QED BY <3>2, <3>3
  <2> HIDE DEF n
  <2>6. ASSUME NEW k \in DOMAIN outcomes'
        PROVE  \E l \in 1..Reviewed' : /\ FirstRecord(l)' /\ plans'[l].id = outcomes'[k].id
                                       /\ outcomes'[k].realized_pnl = RealizedPnl(plans[l])'
    <3>1. CASE k \in 1..n
      BY <1>3, <2>3, <3>1
    <3>2. CASE k = n + 1
      BY <1>1, <2>3, <2>5, <3>2
    <3> QED BY <2>3, <3>1, <3>2
  <2> QED BY <1>1, <2>6 DEF Earned
<1>5. CASE ~BuildOutcome
  <2>1. outcomes' = outcomes
    BY <1>5 DEF Next, RefuseRequest, IndexFills, RejectDuplicate, RejectPlan, Reject,
       FinishBatch, Returned, vars
  <2>2. \A n \in DOMAIN outcomes' :
          \E m \in 1..Reviewed' : /\ FirstRecord(m)' /\ plans'[m].id = outcomes'[n].id
                                  /\ outcomes'[n].realized_pnl = RealizedPnl(plans[m])'
    BY <1>3, <2>1
  <2> QED BY <1>1, <2>2 DEF Earned
<1> QED BY <1>4, <1>5

(* A fill that is not contested is of one plan only.                       *)
LEMMA OnePlanNames ==
  ASSUME BatchOK, Uncontested, NEW k \in DOMAIN fills,
         NEW l \in DOMAIN plans, NEW m \in DOMAIN plans,
         k \in FillsForPlan(plans[l]), k \in FillsForPlan(plans[m])
  PROVE  plans[l] = plans[m]
<1> DEFINE all == {plans[n] : n \in DOMAIN plans}
           naming == PlansNaming(k)
<1>1. Cardinality(naming) <= 1
  BY DEF Uncontested
<1>2. IsFiniteSet(naming)
  <2> DEFINE plan == [n \in DOMAIN plans |-> plans[n]]
  <2>1. IsFiniteSet(DOMAIN plans)
    BY LenProperties, FS_Interval DEF BatchOK
  <2>2. plan \in Surjection(DOMAIN plans, all)
    BY DEF Surjection
  <2>3. IsFiniteSet(all)
    BY <2>1, <2>2, FS_Surjection
  <2> QED BY <2>3, FS_Subset DEF PlansNaming
<1>3. plans[l] \in naming /\ plans[m] \in naming
  BY DEF PlansNaming
<1> HIDE DEF naming
<1>4. Cardinality(naming) \in Nat /\ Cardinality(naming) # 0
  BY <1>2, <1>3, FS_CardinalityType, FS_EmptySet
<1>5. Cardinality(naming) = 1
  BY <1>1, <1>4
<1>6. PICK p : naming = {p}
  BY <1>2, <1>5, FS_Singleton
<1> QED BY <1>3, <1>6

(* The outcomes' P&L, when no fill is contested: the fills that name an    *)
(* accepted record fall into parts, one of each outcome.                   *)
LEMMA PnlOfParts ==
  ASSUME TypeOK, BatchOK, FirstRecordDecides, Earned
  PROVE  PnlConserved
<1> DEFINE naming == {k \in DOMAIN fills :
             /\ fills[k].pnl # None
             /\ \E n \in DOMAIN outcomes, m \in 1..Reviewed :
                  /\ plans[m].id = outcomes[n].id /\ FirstRecord(m)
                  /\ \/ fills[k].plan = plans[m].id
                     \/ fills[k].order \in {plans[m].order} \ {None}}
           f == [k \in naming |-> fills[k].pnl]
           earned == [n \in DOMAIN outcomes |-> outcomes[n].realized_pnl]
           record == [n \in DOMAIN outcomes |-> CHOOSE m \in 1..Reviewed :
                        /\ FirstRecord(m) /\ plans[m].id = outcomes[n].id
                        /\ outcomes[n].realized_pnl = RealizedPnl(plans[m])]
           of(n) == RealizedFills(plans[record[n]])
           part == [k \in naming |-> CHOOSE n \in DOMAIN outcomes : k \in of(n)]
           parts == [n \in DOMAIN outcomes |-> TotalOf(f, {k \in naming : part[k] = n})]
<1> SUFFICES ASSUME Uncontested
             PROVE  2 * Distance(Fine * SumOver(earned), SumOver(f)) <= Fine * Len(outcomes)
  BY Zenon DEF PnlConserved
<1>1. /\ IsFiniteSet(DOMAIN outcomes) /\ IsFiniteSet(naming)
      /\ DOMAIN plans = 1..Len(plans) /\ Len(plans) \in Nat
      /\ \A m \in 1..Reviewed : m \in DOMAIN plans /\ m \in Nat
  <2>1. IsFiniteSet(DOMAIN outcomes) /\ IsFiniteSet(DOMAIN fills)
    BY SequenceFacts, FS_Interval DEF BatchOK
  <2>2. IsFiniteSet(naming)
    BY <2>1, FS_Subset
  <2> HIDE DEF naming
  <2>3. DOMAIN plans = 1..Len(plans) /\ Len(plans) \in Nat
    BY LenProperties DEF BatchOK
  <2>4. \A m \in 1..Reviewed : m \in 1..Len(plans) /\ m \in Nat
    BY <2>3 DEF Reviewed, TypeOK
  <2> QED BY <2>1, <2>2, <2>3, <2>4
<1>2. \A k \in naming : f[k] = fills[k].pnl /\ f[k] \in Int
  <2>1. \A k \in DOMAIN fills : fills[k] \in Fill
    BY LenProperties, ElementOfSeq DEF BatchOK
  <2> QED BY <2>1, AmountsAssumption DEF Fill
<1>3. \A n \in DOMAIN outcomes :
        /\ record[n] \in 1..Reviewed /\ FirstRecord(record[n])
        /\ plans[record[n]].id = outcomes[n].id
        /\ outcomes[n].realized_pnl = RealizedPnl(plans[record[n]])
  BY DEF Earned
<1>4. \A n \in DOMAIN outcomes : \A m \in 1..Reviewed :
        plans[m].id = outcomes[n].id /\ FirstRecord(m) => m = record[n]
  <2>1. \A l, m \in 1..Reviewed :
          FirstRecord(l) /\ FirstRecord(m) /\ plans[l].id = plans[m].id => l = m
    <3>1. \A l, m \in 1..Reviewed :
            FirstRecord(m) /\ plans[l].id = plans[m].id => ~(l < m)
      BY <1>1 DEF FirstRecord
    <3> QED BY <1>1, <3>1
  <2> HIDE DEF record
  <2> QED BY <1>3, <2>1
<1> HIDE DEF record
<1>5. \A k : k \in naming <=> \E n \in DOMAIN outcomes : k \in of(n)
  <2>1. \A n \in DOMAIN outcomes : \A k : k \in of(n) <=>
          /\ k \in DOMAIN fills /\ fills[k].pnl # None
          /\ \/ fills[k].plan = plans[record[n]].id
             \/ fills[k].order \in {plans[record[n]].order} \ {None}
    BY DEF RealizedFills, FillsForPlan
  <2> HIDE DEF of
  <2> QED BY <1>3, <1>4, <2>1
<1>6. ASSUME NEW k, NEW l \in DOMAIN outcomes, NEW n \in DOMAIN outcomes, k \in of(l), k \in of(n)
      PROVE  l = n
  <2>1. k \in FillsForPlan(plans[record[l]]) /\ k \in FillsForPlan(plans[record[n]])
    BY <1>6 DEF RealizedFills
  <2>2. k \in DOMAIN fills /\ record[l] \in DOMAIN plans /\ record[n] \in DOMAIN plans
    BY <1>1, <1>3, <2>1 DEF FillsForPlan
  <2>3. plans[record[l]] = plans[record[n]]
    BY <2>1, <2>2, OnePlanNames
  <2>4. outcomes[l].id = outcomes[n].id
    BY <1>3, <2>3
  <2> QED BY <2>4, FirstRecordDecidesParts DEF NoIdTwice
<1> HIDE DEF of
<1>7. \A k \in naming : part[k] \in DOMAIN outcomes /\ k \in of(part[k])
  BY <1>5
<1>8. ASSUME NEW n \in DOMAIN outcomes PROVE {k \in naming : part[k] = n} = of(n)
  BY <1>5, <1>6, <1>7
<1> HIDE DEF naming, part
<1>9. ASSUME NEW n \in DOMAIN outcomes
      PROVE  earned[n] = Nearest(parts[n], Fine) /\ parts[n] \in Int
  <2> DEFINE g == [k \in of(n) |-> fills[k].pnl]
  <2>1. earned[n] = RealizedPnl(plans[record[n]])
    BY <1>3
  <2>2. earned[n] = Nearest(TotalOf(g, of(n)), Fine)
    BY <2>1 DEF RealizedPnl, SumOver, TotalOf, of
  <2>3. of(n) \in SUBSET naming
    BY <1>5
  <2>4. IsFiniteSet(of(n)) /\ \A k \in of(n) : g[k] = f[k]
    BY <1>1, <1>2, <2>3, FS_Subset
  <2> HIDE DEF g, f
  <2>5. TotalOf(g, of(n)) = TotalOf(f, of(n))
    BY <2>4, TotalAgree
  <2>6. TotalOf(f, of(n)) = parts[n]
    BY <1>8, Zenon
  <2>7. TotalOf(f, of(n)) \in Int
    BY <1>2, <2>3, <2>4, TotalType
  <2> QED BY <2>2, <2>5, <2>6, <2>7, Zenon
<1>10. SumOver(earned) = TotalOf(earned, DOMAIN outcomes) /\ SumOver(f) = TotalOf(f, naming)
  BY DEF SumOver, TotalOf
<1> HIDE DEF f
<1>11. TotalOf(f, naming) = TotalOf(parts, DOMAIN outcomes)
  BY <1>1, <1>2, <1>7, TotalOfParts
<1> HIDE DEF parts, earned
<1> DEFINE S == DOMAIN outcomes
           sum == TotalOf(earned, S)
           exact == TotalOf(parts, S)
<1>12. /\ sum \in Int /\ exact \in Int /\ Fine * sum \in Int
       /\ Cardinality(S) * Fine \in Nat
       /\ 2 * exact - Cardinality(S) * Fine <= 2 * (Fine * sum)
       /\ 2 * (Fine * sum) <= 2 * exact + Cardinality(S) * Fine
  BY <1>1, <1>9, RoundedTotal, FineAssumption
<1>13. Cardinality(S) * Fine = Fine * Len(outcomes)
  <2>1. S = 1..Len(outcomes) /\ Len(outcomes) \in Nat
    BY SequenceFacts DEF BatchOK
  <2>2. \A n \in Nat : Cardinality(1..n) = n /\ n * Fine = Fine * n
    BY FS_Interval, FineAssumption
  <2> QED BY <2>1, <2>2
<1> HIDE DEF sum, exact
<1>14. 2 * Distance(Fine * sum, exact) <= Fine * Len(outcomes)
  BY <1>12, <1>13 DEF Distance
<1> QED BY <1>10, <1>11, <1>14, Zenon DEF sum, exact, S

(* In every batch in which no fill names two plans, the outcomes' P&L is   *)
(* that of the fills that name an accepted record, each counted once, but  *)
(* for half of the last digit of each outcome.                             *)
THEOREM PnlIsConserved == Spec => []PnlConserved
<1>1. Init => Earned
  BY EmptySeq DEF Init, Earned
<1>2. TypeOK /\ BatchOK /\ Earned /\ [Next]_vars => Earned'
  BY EarnStep
<1>3. TypeOK /\ BatchOK /\ FirstRecordDecides /\ Earned => PnlConserved
  BY PnlOfParts
<1> QED BY <1>1, <1>2, <1>3, TypeCorrect, PolicyDecides, PTL DEF Spec
=============================================================================
