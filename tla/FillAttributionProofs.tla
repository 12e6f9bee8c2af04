------------------------ MODULE FillAttributionProofs ------------------------
(***************************************************************************)
(* Proofs about FillAttribution: for every batch of plans and fills.       *)
(***************************************************************************)
EXTENDS FillAttribution, SequenceTheorems, SetSums

(* A bounded sequence of a batch is a sequence.                            *)
LEMMA BoundedSeqsAreSeqs ==
  ASSUME NEW S, NEW n \in Nat, NEW s \in BoundedSeqs(S, n)
  PROVE  s \in Seq(S)
<1>1. PICK m \in 0..n : s \in [1..m -> S]
  BY DEF BoundedSeqs
<1> QED BY <1>1, SeqDef

(* assigned[plan_id].append(fill) adds one fingerprint to the plan's.      *)
LEMMA AppendFingerprints ==
  ASSUME NEW s \in Seq(Fill), NEW f \in Fill
  PROVE  FingerprintsIn(Append(s, f)) = FingerprintsIn(s) \cup {Fingerprint(f)}
<1> DEFINE t == Append(s, f)
<1>1. /\ Len(s) \in Nat /\ DOMAIN s = 1..Len(s) /\ DOMAIN t = 1..Len(s) + 1
      /\ \A k \in 1..Len(s) : t[k] = s[k]
      /\ t[Len(s) + 1] = f
  BY AppendProperties, LenProperties
<1> HIDE DEF t
<1>2. FingerprintsIn(t) = {Fingerprint(t[k]) : k \in 1..Len(s) + 1}
  BY <1>1 DEF FingerprintsIn
<1>3. FingerprintsIn(s) = {Fingerprint(s[k]) : k \in 1..Len(s)}
  BY <1>1 DEF FingerprintsIn
<1>4. 1..Len(s) + 1 = (1..Len(s)) \cup {Len(s) + 1}
  BY <1>1
<1>5. \A k \in 1..Len(s) : Fingerprint(t[k]) = Fingerprint(s[k])
  BY <1>1
<1>6. FingerprintsIn(t) = FingerprintsIn(s) \cup {Fingerprint(f)}
  BY <1>1, <1>2, <1>3, <1>4, <1>5
<1> QED BY <1>6 DEF t

-----------------------------------------------------------------------------
(* Type correctness; the batch holds records of its own kind throughout.   *)
BatchOK == plans \in Seq(PlanRecords) /\ fills \in Seq(FillRecords)

(* A request as it arrives is well typed.                                  *)
LEMMA InitType == Init => TypeOK /\ BatchOK
<1> SUFFICES ASSUME Init PROVE TypeOK /\ BatchOK
  OBVIOUS
<1>1. plans \in Seq(PlanRecords) /\ fills \in Seq(FillRecords)
  BY BoundedSeqsAreSeqs, RecordsAssumption DEF Init
<1>2. plans \in Seq(Plan) /\ fills \in Seq(Fill)
  BY <1>1, SeqMonotonic, RecordsAssumption
<1>3. << >> \in Seq(Fill)
  BY EmptySeq
<1>4. Len(fills) \in Nat
  BY <1>2, LenProperties
<1>5. Reported = {}
  BY DEF Init, Reported, FillsTaken
<1> QED BY <1>1, <1>2, <1>3, <1>4, <1>5 DEF Init, TypeOK, BatchOK

(* Inside the loop there is a fill to look at.                             *)
LEMMA TheFill ==
  ASSUME TypeOK, AtFill
  PROVE  /\ fills[i] \in Fill
         /\ i \in DOMAIN fills /\ i \in 1..Len(fills)
<1>1. i \in 1..Len(fills) /\ DOMAIN fills = 1..Len(fills)
  BY LenProperties DEF TypeOK, AtFill
<1> QED BY <1>1, ElementOfSeq DEF TypeOK

(* A pass of the loop over the fills reports one fingerprint more.         *)
LEMMA ReportedGrows ==
  ASSUME TypeOK, AtFill
  PROVE  Reported' = Reported \cup {Fingerprint(fills[i])}
<1>1. /\ i \in 1..Len(fills) /\ i' - 1 = i /\ Len(fills) \in Nat
      /\ pc = "assign" /\ pc' = "assign" /\ fills' = fills
  BY LenProperties DEF TypeOK, AtFill
<1>2. Reported = {Fingerprint(fills[k]) : k \in 1..i - 1}
  BY <1>1 DEF Reported, FillsTaken
<1>3. Reported' = {Fingerprint(fills[k]) : k \in 1..i}
  BY <1>1 DEF Reported, FillsTaken, Fingerprint
<1>4. 1..i = (1..i - 1) \cup {i}
  BY <1>1
<1> QED BY <1>2, <1>3, <1>4

(* Outside that loop nothing more is reported.                             *)
LEMMA ReportedStays ==
  ASSUME TypeOK, fills' = fills, FillsTaken' = FillsTaken
  PROVE  Reported' = Reported
BY DEF Reported, Fingerprint

(* Assignment appends to the list of one plan.                             *)
LEMMA AssignType ==
  ASSUME TypeOK, AssignFill,
         NEW p \in PlanIds,
         assigned' = [assigned EXCEPT ![p] = Append(@, fills[i])]
  PROVE  /\ assigned' \in [PlanIds -> Seq(Fill)]
         /\ assigned'[p] = Append(assigned[p], fills[i])
         /\ \A q \in PlanIds \ {p} : assigned'[q] = assigned[q]
<1>1. fills[i] \in Fill
  BY TheFill DEF AssignFill
<1>2. Append(assigned[p], fills[i]) \in Seq(Fill)
  BY <1>1, AppendProperties DEF TypeOK
<1> QED BY <1>2 DEF TypeOK

(* Every step of the summary keeps the types and the batch.                *)
LEMMA NextType ==
  ASSUME TypeOK, BatchOK, [Next]_vars
  PROVE  TypeOK' /\ BatchOK'
<1> USE DEF counts
<1>0. Len(fills) \in Nat /\ Len(plans) \in Nat
  BY LenProperties DEF TypeOK
<1>1. CASE SkipDuplicate
  <2>1. seen' = Reported'
    BY <1>1, ReportedGrows DEF SkipDuplicate, TypeOK
  <2> QED BY <1>0, <1>1, <2>1 DEF SkipDuplicate, AtFill, TypeOK, BatchOK
<1>2. CASE CountOrphan
  <2>1. seen' = Reported'
    BY <1>2, ReportedGrows DEF CountOrphan, Mark, TypeOK
  <2> QED BY <1>0, <1>2, <2>1 DEF CountOrphan, AtFill, TypeOK, BatchOK
<1>3. CASE CountConflict
  <2>1. seen' = Reported'
    BY <1>3, ReportedGrows DEF CountConflict, Mark, TypeOK
  <2> QED BY <1>0, <1>3, <2>1 DEF CountConflict, AtFill, TypeOK, BatchOK
<1>4. CASE AssignFill
  <2>1. PICK p \in PlanIds :
          assigned' = [assigned EXCEPT ![p] = Append(@, fills[i])]
    BY <1>4 DEF AssignFill
  <2>2. assigned' \in [PlanIds -> Seq(Fill)]
    BY <1>4, <2>1, AssignType
  <2>3. seen' = Reported'
    BY <1>4, ReportedGrows DEF AssignFill, Mark, TypeOK
  <2> QED BY <1>0, <1>4, <2>2, <2>3 DEF AssignFill, AtFill, TypeOK, BatchOK
<1>5. CASE EndFills
  <2>1. FillsTaken' = FillsTaken
    BY <1>0, <1>5 DEF EndFills, FillsTaken, TypeOK
  <2>2. seen' = Reported'
    BY <1>5, <2>1, ReportedStays DEF EndFills, TypeOK
  <2> QED BY <1>0, <1>5, <2>2 DEF EndFills, TypeOK, BatchOK
<1>6. CASE SummarizePlan
  <2>1. seen' = Reported'
    BY <1>6, ReportedStays DEF SummarizePlan, FillsTaken, TypeOK
  <2> QED BY <1>0, <1>6, <2>1 DEF SummarizePlan, TypeOK, BatchOK
<1>7. CASE Report
  <2>1. seen' = Reported'
    BY <1>7, ReportedStays DEF Report, FillsTaken, TypeOK
  <2> QED BY <1>0, <1>7, <2>1 DEF Report, TypeOK, BatchOK
<1>8. CASE Returned \/ UNCHANGED vars
  <2>1. seen' = Reported'
    BY <1>8, ReportedStays DEF Returned, vars, FillsTaken, TypeOK
  <2> QED BY <1>0, <1>8, <2>1 DEF Returned, vars, TypeOK, BatchOK
<1> QED BY <1>1, <1>2, <1>3, <1>4, <1>5, <1>6, <1>7, <1>8 DEF Next

(* For every batch, the variables of _assign_fills_to_plans keep their     *)
(* types and seen_fingerprints is what the fills taken report.             *)
THEOREM TypeCorrect == Spec => [](TypeOK /\ BatchOK)
<1>1. TypeOK /\ BatchOK /\ [Next]_vars => (TypeOK /\ BatchOK)'
  BY NextType
<1> QED BY <1>1, InitType, PTL DEF Spec

-----------------------------------------------------------------------------
(* The fills a plan holds are uncontested and all marked as seen, so the   *)
(* next fill, which is not, differs from each of them.                     *)
HeldSeen == \A p \in PlanIds : FingerprintsIn(assigned[p]) \subseteq seen

HoldInv == HeldSeen /\ NoExecutionTwice /\ OnlyUncontestedFills

(* A step that assigns nothing keeps the invariant about what plans hold.  *)
LEMMA SameHoldings ==
  ASSUME HoldInv, assigned' = assigned, plans' = plans, seen \subseteq seen'
  PROVE  HoldInv'
BY DEF HoldInv, HeldSeen, NoExecutionTwice, OnlyUncontestedFills,
       Candidates, PlanIdsOfBatch, PlansOfOrder

(* Every step keeps it; only AssignFill gives a plan something to hold.    *)
LEMMA HoldStep ==
  ASSUME TypeOK, HoldInv, [Next]_vars
  PROVE  HoldInv'
<1>1. CASE AssignFill
  <2> DEFINE f == fills[i]
  <2>1. PICK p \in PlanIds :
          /\ Candidates(f) = {p}
          /\ assigned' = [assigned EXCEPT ![p] = Append(@, f)]
    BY <1>1 DEF AssignFill
  <2>2. /\ f \in Fill /\ plans' = plans
        /\ Fingerprint(f) \notin seen /\ seen' = seen \cup {Fingerprint(f)}
    BY <1>1, TheFill DEF AssignFill, AtFill, Mark
  <2> HIDE DEF f
  <2>3. /\ assigned'[p] = Append(assigned[p], f)
        /\ \A q \in PlanIds \ {p} : assigned'[q] = assigned[q]
    BY <1>1, <2>1, AssignType DEF f
  <2> DEFINE n == Len(assigned[p])
  <2>4. /\ assigned[p] \in Seq(Fill) /\ n \in Nat
        /\ DOMAIN assigned[p] = 1..n /\ DOMAIN assigned'[p] = 1..n + 1
        /\ \A m \in 1..n : assigned'[p][m] = assigned[p][m]
        /\ assigned'[p][n + 1] = f
    BY <2>2, <2>3, AppendProperties, LenProperties DEF TypeOK
  <2>5. \A q \in PlanIds : \A m \in DOMAIN assigned[q] :
          Fingerprint(assigned[q][m]) # Fingerprint(f)
    BY <2>2 DEF HoldInv, HeldSeen, FingerprintsIn
  <2> HIDE DEF n
  \* each position of assigned' is an old one or the new fill's
  <2>6. ASSUME NEW q \in PlanIds, NEW m \in DOMAIN assigned'[q]
        PROVE  \/ m \in DOMAIN assigned[q] /\ assigned'[q][m] = assigned[q][m]
               \/ q = p /\ m = n + 1 /\ assigned'[q][m] = f
    <3>1. CASE q = p
      <4>1. m \in 1..n + 1
        BY <2>4, <2>6, <3>1
      <4>2. m \in 1..n \/ m = n + 1
        BY <2>4, <4>1
      <4> QED BY <2>4, <3>1, <4>2
    <3>2. CASE q # p
      <4>1. assigned'[q] = assigned[q]
        BY <2>3, <3>2
      <4> QED BY <2>6, <4>1
    <3> QED BY <3>1, <3>2
  <2>7. HeldSeen'
    <3>1. ASSUME NEW q \in PlanIds PROVE FingerprintsIn(assigned'[q]) \subseteq seen'
      <4>1. CASE q = p
        BY <2>2, <2>3, <2>4, <4>1, AppendFingerprints DEF HoldInv, HeldSeen
      <4>2. CASE q # p
        BY <2>2, <2>3, <4>2 DEF HoldInv, HeldSeen
      <4> QED BY <4>1, <4>2
    <3> QED BY <3>1 DEF HeldSeen
  <2>8. NoExecutionTwice'
    <3>1. ASSUME NEW q \in PlanIds, NEW r \in PlanIds,
                 NEW m \in DOMAIN assigned'[q], NEW k \in DOMAIN assigned'[r],
                 Fingerprint(assigned'[q][m]) = Fingerprint(assigned'[r][k])
          PROVE  q = r /\ m = k
      <4>1. CASE /\ m \in DOMAIN assigned[q] /\ assigned'[q][m] = assigned[q][m]
                 /\ k \in DOMAIN assigned[r] /\ assigned'[r][k] = assigned[r][k]
        BY <3>1, <4>1 DEF HoldInv, NoExecutionTwice
      <4>2. CASE \/ q = p /\ m = n + 1 /\ assigned'[q][m] = f
                 \/ r = p /\ k = n + 1 /\ assigned'[r][k] = f
        BY <2>5, <2>6, <3>1, <4>2
      <4> QED BY <2>6, <4>1, <4>2
    <3> QED BY <3>1 DEF NoExecutionTwice
  <2>9. OnlyUncontestedFills'
    <3>1. \A g : Candidates(g)' = Candidates(g)
      BY <2>2 DEF Candidates, PlanIdsOfBatch, PlansOfOrder
    <3>2. ASSUME NEW q \in PlanIds, NEW m \in DOMAIN assigned'[q]
          PROVE  Candidates(assigned'[q][m]) = {q}
      BY <2>1, <2>6 DEF HoldInv, OnlyUncontestedFills
    <3> QED BY <2>2, <3>2
            DEF OnlyUncontestedFills, Candidates, PlanIdsOfBatch, PlansOfOrder
  <2> QED BY <2>7, <2>8, <2>9 DEF HoldInv
<1>2. CASE ~AssignFill
  <2>1. assigned' = assigned /\ plans' = plans /\ seen \subseteq seen'
    BY <1>2 DEF Next, SkipDuplicate, CountOrphan, CountConflict, AtFill, Mark,
       EndFills, SummarizePlan, Report, Returned, vars
  <2> QED BY <2>1, SameHoldings
<1> QED BY <1>1, <1>2

(* At the start no plan holds anything.                                    *)
LEMMA HoldInit == Init => HoldInv
<1> SUFFICES ASSUME Init PROVE HoldInv
  OBVIOUS
<1>1. \A p \in PlanIds : assigned[p] = << >> /\ DOMAIN assigned[p] = {}
  BY EmptySeq DEF Init
<1> QED BY <1>1 DEF HoldInv, HeldSeen, NoExecutionTwice, OnlyUncontestedFills,
           FingerprintsIn

(* The invariant about what plans hold, for every batch.                   *)
LEMMA HoldAlways == Spec => []HoldInv
<1>1. TypeOK /\ BatchOK /\ HoldInv /\ [Next]_vars => HoldInv'
  BY HoldStep
<1> QED BY <1>1, HoldInit, TypeCorrect, PTL DEF Spec

(* In every batch, each execution counts for at most one plan, once.       *)
THEOREM CountedOnce == Spec => []NoExecutionTwice
<1>1. HoldInv => NoExecutionTwice
  BY DEF HoldInv
<1> QED BY <1>1, HoldAlways, PTL

(* In every batch, a plan is given only fills no other plan can claim.     *)
THEOREM UncontestedOnly == Spec => []OnlyUncontestedFills
<1>1. HoldInv => OnlyUncontestedFills
  BY DEF HoldInv
<1> QED BY <1>1, HoldAlways, PTL

-----------------------------------------------------------------------------
(* Attribution implements the ledger.                                      *)
FateBar == [e \in Executions |-> FateOf(e)]

(* One execution leaving Unsettled while the others stay is a ledger       *)
(* step.                                                                   *)
LEMMA SettleStep ==
  ASSUME NEW e \in Executions, NEW outcome \in PlanIds \cup {Excluded},
         FateOf(e) = Unsettled,
         FateOf(e)' = outcome,
         \A x : x # e => FateOf(x)' = FateOf(x)
  PROVE  Ledger!Next
<1>1. FateBar' = [FateBar EXCEPT ![e] = outcome]
  BY DEF FateBar
<1>2. FateBar[e] = Unsettled
  BY DEF FateBar
<1> QED BY <1>1, <1>2 DEF Ledger!Next, Ledger!Settle, FateBar

(* An execution neither newly seen nor newly held keeps its fate.          *)
LEMMA SameFate ==
  ASSUME TypeOK, TypeOK', NEW x,
         x \in seen' <=> x \in seen, HoldersOf(x)' = HoldersOf(x)
  PROVE  FateOf(x)' = FateOf(x)
<1>1. FateOf(x)' = IF x \notin Reported' THEN Unsettled
                   ELSE IF HoldersOf(x)' = {} THEN Excluded
                   ELSE CHOOSE p \in PlanIds : p \in HoldersOf(x)'
  BY DEF FateOf
<1>2. Reported' = seen' /\ Reported = seen
  BY DEF TypeOK
<1> QED BY <1>1, <1>2 DEF FateOf

(* A pass over a new fingerprint is a ledger step; a duplicate, and all    *)
(* that follows the loop, is a stutter.                                    *)
LEMMA LedgerStep ==
  ASSUME TypeOK, BatchOK, HoldInv, [Next]_vars
  PROVE  [Ledger!Next]_FateBar
<1>0. TypeOK' /\ Reported' = seen' /\ Reported = seen
  <2>1. TypeOK'
    BY NextType
  <2> QED BY <2>1 DEF TypeOK
<1>1. CASE assigned' = assigned /\ seen' = seen
  <2>1. \A x : HoldersOf(x)' = HoldersOf(x)
    BY <1>1 DEF HoldersOf
  <2>3. \A x : FateOf(x)' = FateOf(x)
    BY <1>0, <1>1, <2>1, SameFate
  <2>2. FateBar' = FateBar
    BY <2>3 DEF FateBar
  <2> QED BY <2>2
<1>2. CASE AtFill /\ Mark
  <2>1. PICK e : e = Fingerprint(fills[i])
    OBVIOUS
  <2>2. e \in Executions /\ fills[i] \in Fill
    <3>1. i \in 1..Len(fills) /\ fills[i] \in Fill
      BY <1>2, TheFill
    <3>2. fills[i] \in FillRecords
      BY <3>1, ElementOfSeq DEF BatchOK
    <3> QED BY <2>1, <3>1, <3>2 DEF Executions
  <2>3. e \notin seen /\ seen' = seen \cup {e} /\ HoldersOf(e) = {}
    BY <1>2, <2>1 DEF Mark, HoldInv, HeldSeen, HoldersOf
  <2>4. FateOf(e) = Unsettled
    BY <1>0, <2>3 DEF FateOf
  <2>5. CASE CountOrphan \/ CountConflict
    <3>1. assigned' = assigned
      BY <2>5 DEF CountOrphan, CountConflict
    <3>2. \A x : HoldersOf(x)' = HoldersOf(x)
      BY <3>1 DEF HoldersOf
    <3>3. FateOf(e)' = Excluded
      BY <1>0, <2>3, <3>2 DEF FateOf
    <3>4. \A x : x # e => FateOf(x)' = FateOf(x)
      BY <1>0, <2>3, <3>2, SameFate
    <3> QED BY <2>2, <2>4, <3>3, <3>4, SettleStep
  <2>6. CASE AssignFill
    <3>1. PICK p \in PlanIds :
            assigned' = [assigned EXCEPT ![p] = Append(@, fills[i])]
      BY <2>6 DEF AssignFill
    <3>2. /\ assigned'[p] = Append(assigned[p], fills[i])
          /\ \A q \in PlanIds \ {p} : assigned'[q] = assigned[q]
      BY <2>6, <3>1, AssignType
    <3>3. FingerprintsIn(assigned'[p]) = FingerprintsIn(assigned[p]) \cup {e}
      BY <2>1, <2>2, <3>2, AppendFingerprints DEF TypeOK
    <3>4. HoldersOf(e)' = {q \in PlanIds : e \in FingerprintsIn(assigned'[q])}
      BY DEF HoldersOf, FingerprintsIn
    <3>5. \A q \in PlanIds : e \notin FingerprintsIn(assigned[q])
      BY <2>3 DEF HoldersOf
    <3>6. HoldersOf(e)' = {p}
      BY <3>2, <3>3, <3>4, <3>5
    <3>7. \A x : x # e => HoldersOf(x)' = HoldersOf(x)
      <4>1. \A x : HoldersOf(x)' = {q \in PlanIds : x \in FingerprintsIn(assigned'[q])}
        BY DEF HoldersOf, FingerprintsIn
      <4> QED BY <3>2, <3>3, <4>1 DEF HoldersOf
    <3>8. FateOf(e)' = p
      BY <1>0, <2>3, <3>6 DEF FateOf
    <3>9. \A x : x # e => FateOf(x)' = FateOf(x)
      BY <1>0, <2>3, <3>7, SameFate
    <3> QED BY <2>2, <2>4, <3>8, <3>9, SettleStep
  <2>7. CASE ~(CountOrphan \/ CountConflict \/ AssignFill)
    BY <1>1, <2>7 DEF Next, SkipDuplicate, EndFills, SummarizePlan, Report,
       Returned, vars, counts
  <2> QED BY <2>5, <2>6, <2>7
<1>3. CASE ~(AtFill /\ Mark)
  <2>1. assigned' = assigned /\ seen' = seen
    BY <1>3 DEF Next, SkipDuplicate, CountOrphan, CountConflict, AssignFill,
       EndFills, SummarizePlan, Report, Returned, vars
  <2> QED BY <1>1, <2>1
<1> QED BY <1>2, <1>3

(* For every batch, attribution behaves as the ledger: an execution is     *)
(* settled when first reported and its fate never changes.                 *)
THEOREM ImplementsLedger == Spec => SettlesOnce
<1>1. Init => Ledger!Init
  BY DEF Init, Ledger!Init, FateOf, Reported, FillsTaken
<1>2. TypeOK /\ BatchOK /\ HoldInv /\ [Next]_vars => [Ledger!Next]_FateBar
  BY LedgerStep
<1> QED BY <1>1, <1>2, TypeCorrect, HoldAlways, PTL
        DEF Spec, SettlesOnce, Ledger!Spec, FateBar

-----------------------------------------------------------------------------
(* The warnings.  A fill taken without any count is settled, and the       *)
(* counts only grow.                                                       *)
NothingCounted == duplicates = 0 /\ orphans = 0 /\ conflicts = 0

CountInv ==
  /\ NothingCounted <=> 1..FillsTaken \subseteq Settled
  /\ pc = "done" => report.warned = Warnings /\ FillsTaken = Len(fills)

(* A fill is the first report of its execution unless that counts as seen. *)
LEMMA FirstIsUnseen ==
  ASSUME TypeOK, AtFill
  PROVE  FirstReport(i) <=> Fingerprint(fills[i]) \notin seen
BY DEF TypeOK, AtFill, FirstReport, Reported, FillsTaken

(* What is settled depends on the batch only.                              *)
LEMMA SettledStays ==
  ASSUME plans' = plans, fills' = fills
  PROVE  /\ Settled' = Settled
         /\ \A k : FirstReport(k)' <=> FirstReport(k)
         /\ \A f : Candidates(f)' = Candidates(f)
BY DEF Settled, FirstReport, Fingerprint, Candidates, PlanIdsOfBatch, PlansOfOrder

(* A pass of the loop takes one fill more.                                 *)
LEMMA TakenGrows ==
  ASSUME TypeOK, AtFill
  PROVE  /\ FillsTaken = i - 1 /\ FillsTaken' = i /\ i \in Nat \ {0}
         /\ 1..FillsTaken' = (1..FillsTaken) \cup {i}
         /\ i \notin 1..FillsTaken
BY DEF TypeOK, AtFill, FillsTaken

(* Each pass counts its fill or settles it.                                *)
LEMMA CountPass ==
  ASSUME TypeOK, CountInv, AtFill, [Next]_vars,
         NothingCounted' <=> NothingCounted /\ i \in Settled
  PROVE  CountInv'
<1>1. 1..FillsTaken' = (1..FillsTaken) \cup {i} /\ Settled' = Settled
  BY TakenGrows, SettledStays DEF AtFill
<1>2. pc' # "done"
  BY DEF AtFill
<1> QED BY <1>1, <1>2 DEF CountInv

(* Every step keeps the counts in agreement with what is settled.          *)
LEMMA CountStep ==
  ASSUME TypeOK, CountInv, [Next]_vars
  PROVE  CountInv'
<1> USE DEF counts
<1>0. /\ duplicates \in Nat /\ orphans \in Nat /\ conflicts \in Nat
      /\ Len(fills) \in Nat
  BY LenProperties DEF TypeOK
<1>1. CASE SkipDuplicate
  <2>1. i \notin Settled
    BY <1>1, FirstIsUnseen DEF SkipDuplicate, Settled
  <2>2. ~NothingCounted'
    BY <1>0, <1>1 DEF SkipDuplicate, NothingCounted
  <2> QED BY <1>1, <2>1, <2>2, CountPass DEF SkipDuplicate
<1>2. CASE CountOrphan
  <2>1. i \notin Settled
    BY <1>2, FS_EmptySet DEF CountOrphan, Settled
  <2>2. ~NothingCounted'
    BY <1>0, <1>2 DEF CountOrphan, NothingCounted
  <2> QED BY <1>2, <2>1, <2>2, CountPass DEF CountOrphan
<1>3. CASE CountConflict
  <2>1. i \notin Settled
    BY <1>3 DEF CountConflict, Settled
  <2>2. ~NothingCounted'
    BY <1>0, <1>3 DEF CountConflict, NothingCounted
  <2> QED BY <1>3, <2>1, <2>2, CountPass DEF CountConflict
<1>4. CASE AssignFill
  <2>1. i \in DOMAIN fills /\ FirstReport(i)
    BY <1>4, TheFill, FirstIsUnseen DEF AssignFill, Mark
  <2>2. Cardinality(Candidates(fills[i])) = 1
    BY <1>4, FS_Singleton DEF AssignFill
  <2>3. i \in Settled
    BY <2>1, <2>2 DEF Settled
  <2>4. NothingCounted' <=> NothingCounted
    BY <1>4 DEF AssignFill, NothingCounted
  <2> QED BY <1>4, <2>3, <2>4, CountPass DEF AssignFill
<1>5. CASE EndFills
  <2>1. FillsTaken' = FillsTaken /\ Settled' = Settled /\ pc' # "done"
    BY <1>0, <1>5, SettledStays DEF EndFills, FillsTaken, TypeOK
  <2>2. NothingCounted' <=> NothingCounted
    BY <1>5 DEF EndFills, NothingCounted
  <2> QED BY <2>1, <2>2 DEF CountInv
<1>6. CASE SummarizePlan
  <2>1. FillsTaken' = FillsTaken /\ Settled' = Settled /\ pc' # "done"
    BY <1>6, SettledStays DEF SummarizePlan, FillsTaken
  <2>2. NothingCounted' <=> NothingCounted
    BY <1>6 DEF SummarizePlan, NothingCounted
  <2> QED BY <2>1, <2>2 DEF CountInv
<1>7. CASE Report
  <2>1. FillsTaken' = FillsTaken /\ FillsTaken' = Len(fills') /\ Settled' = Settled
    BY <1>7, SettledStays DEF Report, FillsTaken
  <2>2. NothingCounted' <=> NothingCounted
    BY <1>7 DEF Report, NothingCounted
  <2>3. report'.warned = Warnings'
    BY <1>7 DEF Report, Warnings
  <2> QED BY <2>1, <2>2, <2>3 DEF CountInv
<1>8. CASE Returned \/ UNCHANGED vars
  <2>1. /\ FillsTaken' = FillsTaken /\ Settled' = Settled /\ Warnings' = Warnings
        /\ pc' = pc /\ report' = report /\ fills' = fills
    BY <1>8, SettledStays DEF Returned, vars, FillsTaken, Warnings
  <2>2. NothingCounted' <=> NothingCounted
    BY <1>8 DEF Returned, vars, NothingCounted
  <2> QED BY <2>1, <2>2 DEF CountInv
<1> QED BY <1>1, <1>2, <1>3, <1>4, <1>5, <1>6, <1>7, <1>8 DEF Next

(* In every batch, the report has a warning exactly if a fill was excluded.*)
THEOREM ExclusionsReported == Spec => []NothingExcludedSilently
<1>1. Init => CountInv
  BY DEF Init, CountInv, NothingCounted, FillsTaken
<1>2. TypeOK /\ BatchOK /\ CountInv /\ [Next]_vars => CountInv'
  BY CountStep
<1>3. TypeOK /\ BatchOK /\ CountInv => NothingExcludedSilently
  <2> SUFFICES ASSUME TypeOK, CountInv, pc = "done"
               PROVE  report.warned = {} <=> Settled = DOMAIN fills
    BY DEF NothingExcludedSilently
  <2>1. DOMAIN fills = 1..FillsTaken
    BY LenProperties DEF TypeOK, CountInv
  <2>2. Settled \subseteq DOMAIN fills
    BY DEF Settled
  <2>3. Warnings = {} <=> NothingCounted
    <3>1. /\ "duplicate" \in Warnings <=> duplicates > 0
          /\ "orphan" \in Warnings <=> orphans > 0
          /\ "conflict" \in Warnings <=> conflicts > 0
      BY DEF Warnings
    <3>2. Warnings \subseteq {"duplicate", "orphan", "conflict"}
      BY DEF Warnings
    <3>3. Warnings = {} <=> ~(duplicates > 0) /\ ~(orphans > 0) /\ ~(conflicts > 0)
      BY <3>1, <3>2, Zenon
    <3>4. duplicates \in Nat /\ orphans \in Nat /\ conflicts \in Nat
      BY DEF TypeOK
    <3> QED BY <3>3, <3>4 DEF NothingCounted
  <2> QED BY <2>1, <2>2, <2>3 DEF CountInv
<1> QED BY <1>1, <1>2, <1>3, TypeCorrect, PTL DEF Spec

-----------------------------------------------------------------------------
(* What a plan is given is decided by the first reports.                   *)
Own(p) == {k \in 1..FillsTaken : FirstReport(k) /\ Candidates(fills[k]) = {p}}
Decided(p) ==
  /\ Len(assigned[p]) = Cardinality(Own(p))
  /\ \A k \in Own(p) : assigned[p][Rank(Own(p), k)] = fills[k]

(* FirstReportDecides, plan by plan.                                       *)
LEMMA DecidedParts == FirstReportDecides <=> \A p \in PlanIds : Decided(p)
BY DEF FirstReportDecides, Decided, Own, Rank

(* The same, after a step.                                                 *)
LEMMA PartsAfter ==
  ASSUME \A p \in PlanIds : Decided(p)'
  PROVE  FirstReportDecides'
BY DEF FirstReportDecides, Decided, Own, Rank

(* The fills of a plan change only with the number taken.                  *)
LEMMA OwnAfter ==
  ASSUME plans' = plans, fills' = fills, NEW p
  PROVE  Own(p)' = {k \in 1..FillsTaken' : FirstReport(k) /\ Candidates(fills[k]) = {p}}
BY DEF Own, FirstReport, Fingerprint, Candidates, PlanIdsOfBatch, PlansOfOrder

(* A pass adds its fill to those of the plan that alone can claim it, if   *)
(* the fill is new.                                                        *)
LEMMA OwnGrows ==
  ASSUME TypeOK, AtFill, NEW p
  PROVE  Own(p)' = Own(p) \cup
           {k \in {i} : Fingerprint(fills[i]) \notin seen /\ Candidates(fills[i]) = {p}}
<1>1. plans' = plans /\ fills' = fills
  BY DEF AtFill
<1>2. Own(p)' = {k \in (1..FillsTaken) \cup {i} :
                   FirstReport(k) /\ Candidates(fills[k]) = {p}}
  BY <1>1, OwnAfter, TakenGrows
<1> QED BY <1>2, FirstIsUnseen DEF Own

(* Every step keeps it.                                                    *)
LEMMA DecideStep ==
  ASSUME TypeOK, FirstReportDecides, [Next]_vars
  PROVE  FirstReportDecides'
<1>0. \A p \in PlanIds : Decided(p)
  BY DecidedParts
<1>1. ASSUME NEW p \in PlanIds, Own(p)' = Own(p), assigned'[p] = assigned[p],
             fills' = fills
      PROVE  Decided(p)'
  BY <1>0, <1>1 DEF Decided, Rank
<1>2. CASE AssignFill
  <2>1. PICK p \in PlanIds :
          /\ Candidates(fills[i]) = {p}
          /\ assigned' = [assigned EXCEPT ![p] = Append(@, fills[i])]
    BY <1>2 DEF AssignFill
  <2>2. AtFill /\ Fingerprint(fills[i]) \notin seen /\ fills' = fills
    BY <1>2 DEF AssignFill, Mark, AtFill
  <2>3. /\ assigned'[p] = Append(assigned[p], fills[i])
        /\ \A q \in PlanIds \ {p} : assigned'[q] = assigned[q]
    BY <1>2, <2>1, AssignType
  <2>4. ASSUME NEW q \in PlanIds, q # p PROVE Decided(q)'
    <3>1. Candidates(fills[i]) # {q}
      BY <2>1, <2>4
    <3>2. Own(q)' = Own(q)
      BY <2>2, <3>1, OwnGrows
    <3> QED BY <1>1, <2>2, <2>3, <2>4, <3>2
  <2>5. Decided(p)'
    <3> DEFINE S == Own(p)
               n == FillsTaken
               c == Len(assigned[p])
               s == assigned[p]
               t == assigned'[p]
    <3>1. Own(p)' = S \cup {i}
      BY <2>1, <2>2, OwnGrows
    <3>2. n \in Nat /\ i = n + 1 /\ S \in SUBSET (1..n)
      BY <2>2, TakenGrows DEF Own
    <3>3. fills[i] \in Fill /\ s \in Seq(Fill)
      BY <2>2, TheFill DEF TypeOK
    <3>4. /\ c \in Nat /\ Len(t) = c + 1
          /\ \A m \in 1..c : t[m] = s[m]
          /\ t[c + 1] = fills[i]
      BY <2>3, <3>3, AppendProperties, LenProperties
    <3>5. c = Cardinality(S) /\ \A k \in S : s[Rank(S, k)] = fills[k]
      BY <1>0 DEF Decided
    <3> HIDE DEF S, n, c, s, t
    <3>6. /\ Cardinality(S \cup {i}) = c + 1
          /\ Rank(S \cup {i}, i) = c + 1
          /\ \A k \in S : Rank(S \cup {i}, k) = Rank(S, k) /\ Rank(S, k) \in 1..c
      BY <3>2, <3>5, RankOfGreatest
    <3>7. Len(t) = Cardinality(S \cup {i})
      BY <3>4, <3>6
    <3>8. \A k \in S \cup {i} : t[Rank(S \cup {i}, k)] = fills[k]
      BY <3>4, <3>5, <3>6
    <3>9. Decided(p)' <=>
            /\ Len(t) = Cardinality(S \cup {i})
            /\ \A k \in S \cup {i} : t[Rank(S \cup {i}, k)] = fills[k]
      BY <2>2, <3>1 DEF Decided, Rank, t
    <3> QED BY <3>7, <3>8, <3>9
  <2> QED BY <2>4, <2>5, PartsAfter
<1>3. CASE SkipDuplicate \/ CountOrphan \/ CountConflict
  <2>1. AtFill /\ fills' = fills /\ assigned' = assigned
    BY <1>3 DEF SkipDuplicate, CountOrphan, CountConflict, AtFill
  <2>2. ASSUME NEW p \in PlanIds PROVE Own(p)' = Own(p)
    <3>1. Candidates(fills[i]) # {p} \/ Fingerprint(fills[i]) \in seen
      BY <1>3, FS_Singleton DEF SkipDuplicate, CountOrphan, CountConflict
    <3> QED BY <2>1, <3>1, OwnGrows
  <2> QED BY <1>1, <2>1, <2>2, PartsAfter
<1>4. CASE EndFills \/ SummarizePlan \/ Report \/ Returned \/ UNCHANGED vars
  <2>1. plans' = plans /\ fills' = fills /\ assigned' = assigned
    BY <1>4 DEF EndFills, SummarizePlan, Report, Returned, vars
  <2>2. FillsTaken' = FillsTaken
    <3>1. Len(fills) \in Nat
      BY LenProperties DEF TypeOK
    <3> QED BY <1>4, <3>1
            DEF EndFills, SummarizePlan, Report, Returned, vars, FillsTaken, TypeOK
  <2>3. ASSUME NEW p \in PlanIds PROVE Own(p)' = Own(p)
    BY <2>1, <2>2, OwnAfter DEF Own
  <2> QED BY <1>1, <2>1, <2>3, PartsAfter
<1> QED BY <1>2, <1>3, <1>4 DEF Next

(* In every batch, a plan has exactly the first reports that only it can   *)
(* claim, in their order.                                                  *)
THEOREM FirstReportsCount == Spec => []FirstReportDecides
<1>1. Init => FirstReportDecides
  <2> SUFFICES ASSUME Init PROVE FirstReportDecides
    OBVIOUS
  <2>1. FillsTaken = 0
    BY DEF Init, FillsTaken
  <2>2. ASSUME NEW p \in PlanIds PROVE Decided(p)
    <3>1. Own(p) = {} /\ assigned[p] = << >>
      BY <2>1 DEF Own, Init
    <3> QED BY <3>1, FS_EmptySet, EmptySeq DEF Decided
  <2> QED BY <2>2, DecidedParts
<1>2. TypeOK /\ BatchOK /\ FirstReportDecides /\ [Next]_vars => FirstReportDecides'
  BY DecideStep
<1> QED BY <1>1, <1>2, TypeCorrect, PTL DEF Spec

-----------------------------------------------------------------------------
(* Every fill is accounted for.                                            *)
Held == [p \in PlanIdsOfBatch |-> Len(assigned[p])]

(* A batch has finitely many plans.                                        *)
LEMMA BatchIsFinite ==
  ASSUME TypeOK
  PROVE  /\ DOMAIN plans = 1..Len(plans) /\ Len(plans) \in Nat /\ IsFiniteSet(DOMAIN plans)
         /\ IsFiniteSet(PlanIdsOfBatch)
         /\ PlanIdsOfBatch \subseteq PlanIds
         /\ \A f \in Fill : Candidates(f) \subseteq PlanIdsOfBatch
<1>1. DOMAIN plans = 1..Len(plans) /\ Len(plans) \in Nat
  BY LenProperties DEF TypeOK
<1>2. IsFiniteSet(DOMAIN plans)
  BY <1>1, FS_Interval
<1>3. IsFiniteSet(PlanIdsOfBatch)
  <2> DEFINE id == [k \in DOMAIN plans |-> plans[k].id]
  <2>1. id \in Surjection(DOMAIN plans, PlanIdsOfBatch)
    BY DEF Surjection, PlanIdsOfBatch
  <2> QED BY <1>2, <2>1, FS_Surjection
<1>4. \A k \in DOMAIN plans : plans[k] \in Plan
  BY <1>1, ElementOfSeq DEF TypeOK
<1>5. PlanIdsOfBatch \subseteq PlanIds
  BY <1>4 DEF PlanIdsOfBatch, Plan
<1> QED BY <1>1, <1>2, <1>3, <1>5 DEF Candidates, PlansOfOrder, PlanIdsOfBatch

(* What the plans hold is a number each.                                   *)
LEMMA HeldType ==
  ASSUME TypeOK
  PROVE  IntOver(Held, PlanIdsOfBatch) /\ TotalOf(Held, PlanIdsOfBatch) \in Int
<1>1. \A p \in PlanIdsOfBatch : Held[p] \in Nat
  BY BatchIsFinite, LenProperties DEF Held, TypeOK
<1> QED BY <1>1, BatchIsFinite, TotalType DEF IntOver

(* The property, in terms of the sum the lemmas are about.                 *)
LEMMA AccountedFor ==
  /\ EveryFillAccountedFor <=>
       FillsTaken = duplicates + orphans + conflicts + TotalOf(Held, PlanIdsOfBatch)
  /\ EveryFillAccountedFor' <=>
       FillsTaken' = duplicates' + orphans' + conflicts' + TotalOf(Held', PlanIdsOfBatch')
BY DEF EveryFillAccountedFor, Held, SumOver, TotalOf, MapThenSumSet, MapThenFoldSet,
       PlanIdsOfBatch

(* A pass either counts its fill or adds it to what one plan holds.        *)
LEMMA AccountStep ==
  ASSUME TypeOK, TypeOK', EveryFillAccountedFor, [Next]_vars
  PROVE  EveryFillAccountedFor'
<1> USE DEF counts
<1>1. /\ FillsTaken = duplicates + orphans + conflicts + TotalOf(Held, PlanIdsOfBatch)
      /\ duplicates \in Nat /\ orphans \in Nat /\ conflicts \in Nat
      /\ TotalOf(Held, PlanIdsOfBatch) \in Int
  BY AccountedFor, HeldType DEF TypeOK
<1>2. PlanIdsOfBatch' = PlanIdsOfBatch
  <2>1. plans' = plans
    BY DEF Next, SkipDuplicate, CountOrphan, CountConflict, AssignFill, AtFill, EndFills,
       SummarizePlan, Report, Returned, vars
  <2> QED BY <2>1 DEF PlanIdsOfBatch
<1>3. assigned' = assigned => Held' = Held
  BY <1>2 DEF Held
<1>4. CASE SkipDuplicate \/ CountOrphan \/ CountConflict
  <2>1. FillsTaken' = FillsTaken + 1 /\ FillsTaken \in Int
    BY <1>4, TakenGrows DEF SkipDuplicate, CountOrphan, CountConflict
  <2>2. Held' = Held
    BY <1>3, <1>4 DEF SkipDuplicate, CountOrphan, CountConflict
  <2>3. duplicates' + orphans' + conflicts' = duplicates + orphans + conflicts + 1
    BY <1>1, <1>4 DEF SkipDuplicate, CountOrphan, CountConflict
  <2>4. TotalOf(Held', PlanIdsOfBatch') = TotalOf(Held, PlanIdsOfBatch)
    BY <1>2, <2>2
  <2>5. /\ duplicates' \in Nat /\ orphans' \in Nat /\ conflicts' \in Nat
    BY DEF TypeOK
  <2>6. FillsTaken' = duplicates' + orphans' + conflicts' + TotalOf(Held', PlanIdsOfBatch')
    <3> DEFINE was == duplicates + orphans + conflicts
               is  == duplicates' + orphans' + conflicts'
    <3>1. was \in Int /\ is = was + 1 /\ FillsTaken = was + TotalOf(Held, PlanIdsOfBatch)
      BY <1>1, <2>3
    <3> HIDE DEF was, is
    <3>2. FillsTaken' = is + TotalOf(Held', PlanIdsOfBatch')
      BY <1>1, <2>1, <2>4, <3>1
    <3> QED BY <3>2 DEF is
  <2> QED BY <2>6, AccountedFor
<1>5. CASE AssignFill
  <2>1. PICK p \in PlanIds :
          /\ Candidates(fills[i]) = {p}
          /\ assigned' = [assigned EXCEPT ![p] = Append(@, fills[i])]
    BY <1>5 DEF AssignFill
  <2>2. /\ assigned'[p] = Append(assigned[p], fills[i])
        /\ \A q \in PlanIds \ {p} : assigned'[q] = assigned[q]
    BY <1>5, <2>1, AssignType
  <2>3. fills[i] \in Fill /\ assigned[p] \in Seq(Fill)
    BY <1>5, TheFill DEF AssignFill, TypeOK
  <2>4. p \in PlanIdsOfBatch
    BY <2>1, <2>3, BatchIsFinite
  <2>5. Held'[p] = Held[p] + 1 /\ Held[p] \in Nat
    <3>1. Held'[p] = Len(assigned'[p]) /\ Held[p] = Len(assigned[p])
      BY <1>2, <2>4 DEF Held
    <3> QED BY <2>2, <2>3, <3>1, AppendProperties, LenProperties
  <2>6. \A q \in PlanIdsOfBatch : q # p => Held'[q] = Held[q]
    BY <1>2, <2>2, BatchIsFinite DEF Held
  <2>7. IntOver(Held, PlanIdsOfBatch) /\ IntOver(Held', PlanIdsOfBatch)
    <3>1. \A q \in PlanIdsOfBatch : Held[q] \in Int
      BY HeldType DEF IntOver
    <3>2. \A q \in PlanIdsOfBatch : Held'[q] \in Int
      BY <2>5, <2>6, <3>1
    <3> QED BY <3>1, <3>2 DEF IntOver
  <2>8. TotalOf(Held', PlanIdsOfBatch) = TotalOf(Held, PlanIdsOfBatch) + (Held'[p] - Held[p])
    BY <2>4, <2>6, <2>7, BatchIsFinite, TotalChange
  <2>9. FillsTaken' = FillsTaken + 1 /\ FillsTaken \in Int
    BY <1>5, TakenGrows DEF AssignFill
  <2>10. duplicates' = duplicates /\ orphans' = orphans /\ conflicts' = conflicts
    BY <1>5 DEF AssignFill
  <2>11. TotalOf(Held', PlanIdsOfBatch') = TotalOf(Held, PlanIdsOfBatch) + 1
    BY <1>1, <1>2, <2>5, <2>8
  <2> QED BY <1>1, <2>9, <2>10, <2>11, AccountedFor
<1>6. CASE EndFills \/ SummarizePlan \/ Report \/ Returned \/ UNCHANGED vars
  <2>1. FillsTaken' = FillsTaken
    <3>1. Len(fills) \in Nat
      BY LenProperties DEF TypeOK
    <3> QED BY <1>6, <3>1
            DEF EndFills, SummarizePlan, Report, Returned, vars, FillsTaken, TypeOK
  <2>2. /\ duplicates' = duplicates /\ orphans' = orphans /\ conflicts' = conflicts
        /\ assigned' = assigned
    BY <1>6 DEF EndFills, SummarizePlan, Report, Returned, vars
  <2>3. TotalOf(Held', PlanIdsOfBatch') = TotalOf(Held, PlanIdsOfBatch)
    BY <1>2, <1>3, <2>2
  <2> QED BY <1>1, <2>1, <2>2, <2>3, AccountedFor
<1> QED BY <1>4, <1>5, <1>6 DEF Next

(* In every batch, each fill is with a plan of the batch or in one of the  *)
(* three counts, and in one of them only.                                  *)
THEOREM AllAccountedFor == Spec => []EveryFillAccountedFor
<1>1. Init => EveryFillAccountedFor
  <2> SUFFICES ASSUME Init PROVE EveryFillAccountedFor
    OBVIOUS
  <2>1. TypeOK
    BY InitType
  <2>2. FillsTaken = 0 /\ duplicates = 0 /\ orphans = 0 /\ conflicts = 0
    BY DEF Init, FillsTaken
  <2>3. \A p \in PlanIdsOfBatch : Held[p] = 0
    BY <2>1, BatchIsFinite, EmptySeq DEF Held, Init
  <2>4. TotalOf(Held, PlanIdsOfBatch) = 0
    BY <2>1, <2>3, BatchIsFinite, TotalZero
  <2> QED BY <2>2, <2>4, AccountedFor
<1>2. TypeOK /\ TypeOK' /\ EveryFillAccountedFor /\ [Next]_vars => EveryFillAccountedFor'
  BY AccountStep
<1> QED BY <1>1, <1>2, TypeCorrect, PTL DEF Spec

-----------------------------------------------------------------------------
(* The totals.  While plans are summarised, each result is the summary of  *)
(* its plan and of the fills that plan was given; the report is made of    *)
(* those results.                                                          *)
SummaryOf(k) ==
  [id      |-> plans[k].id,
   bucket  |-> plans[k].bucket,
   fills   |-> Len(assigned[plans[k].id]),
   pnl     |-> Nearest(PlanRealizedPnl(plans[k], assigned[plans[k].id]), Cent),
   closed  |-> plans[k].status \in CLOSED_PLAN_STATUSES,
   counted |-> plans[k].status \in WIN_LOSS_STATUSES]

Summarised ==
  /\ pc # "assign" =>
       /\ DOMAIN results = 1..i - 1
       /\ results \in Seq({SummaryOf(k) : k \in DOMAIN plans})
       /\ \A k \in DOMAIN results : results[k] = SummaryOf(k)
  /\ pc = "done" =>
       /\ i = Len(plans) + 1
       /\ report.net = PnlOf(Headline)
       /\ report.groups = [b \in {results[k].bucket : k \in DOMAIN results} |-> PnlOf(Group(b))]

(* The totals depend on the results only.                                  *)
LEMMA TotalsStay ==
  ASSUME results' = results
  PROVE  /\ PnlOf(Headline)' = PnlOf(Headline)
         /\ \A b : PnlOf(Group(b))' = PnlOf(Group(b))
<1>1. ASSUME NEW ks, NEW js, js = ks
      PROVE  SumOver([k \in js |-> results'[k].pnl]) = SumOver([k \in ks |-> results[k].pnl])
  <2>1. [k \in js |-> results'[k].pnl] = [k \in ks |-> results[k].pnl]
    BY <1>1
  <2> QED BY <2>1, Zenon
<1>2. Headline' = Headline /\ \A b : Group(b)' = Group(b)
  BY DEF Headline, Group, ResultsWhere
<1>3. PnlOf(Headline)' = PnlOf(Headline)
  BY <1>1, <1>2, Zenon DEF PnlOf
<1>4. \A b : PnlOf(Group(b))' = PnlOf(Group(b))
  BY <1>1, <1>2, Zenon DEF PnlOf
<1> QED BY <1>3, <1>4

(* Every step keeps the results the summaries of their plans.              *)
LEMMA SummaryStep ==
  ASSUME TypeOK, TypeOK', Summarised, [Next]_vars
  PROVE  Summarised'
<1>0. /\ DOMAIN plans = 1..Len(plans) /\ Len(plans) \in Nat
      /\ i \in Nat /\ Len(fills) \in Nat
  BY LenProperties DEF TypeOK
<1>1. ASSUME plans' = plans, assigned' = assigned
      PROVE  /\ \A k : SummaryOf(k)' = SummaryOf(k)
             /\ {SummaryOf(k) : k \in DOMAIN plans}' = {SummaryOf(k) : k \in DOMAIN plans}
  <2>1. \A k : SummaryOf(k)' = SummaryOf(k)
    BY <1>1 DEF SummaryOf
  <2> QED BY <1>1, <2>1
<1>2. CASE pc' = "assign"
  BY <1>2 DEF Summarised
<1>3. CASE EndFills
  <2>1. results' = << >> /\ i' = 1 /\ pc' = "summarise"
    BY <1>3 DEF EndFills, TypeOK
  <2>2. results' \in Seq({SummaryOf(k) : k \in DOMAIN plans}') /\ DOMAIN results' = {}
    BY <2>1, EmptySeq
  <2>3. 1..i' - 1 = {}
    BY <2>1
  <2> QED BY <2>1, <2>2, <2>3 DEF Summarised
<1>4. CASE SummarizePlan
  <2> DEFINE S == {SummaryOf(k) : k \in DOMAIN plans}
  <2>1. /\ pc = "summarise" /\ pc' = "summarise" /\ i' = i + 1 /\ i \in DOMAIN plans
        /\ plans' = plans /\ assigned' = assigned
        /\ results' = Append(results, SummaryOf(i))
    BY <1>0, <1>4 DEF SummarizePlan, SummaryOf, TypeOK
  <2>2. results \in Seq(S) /\ DOMAIN results = 1..i - 1
        /\ \A k \in DOMAIN results : results[k] = SummaryOf(k)
    BY <2>1 DEF Summarised
  <2>3. SummaryOf(i) \in S
    BY <2>1
  <2>4. S' = S /\ \A k : SummaryOf(k)' = SummaryOf(k)
    BY <1>1, <2>1
  <2> HIDE DEF S
  <2>5. Len(results) = i - 1
    <3>1. DOMAIN results = 1..Len(results) /\ Len(results) \in Nat
      BY <2>2, LenProperties
    <3>2. \A a, b \in Nat : (1..a = 1..b) => ~(a < b)
      <4>1. \A a, b \in Nat : a < b => b \in 1..b /\ b \notin 1..a
        OBVIOUS
      <4> QED BY <4>1
    <3>3. i - 1 \in Nat
      BY <1>0, <2>1
    <3>4. ~(Len(results) < i - 1) /\ ~(i - 1 < Len(results))
      BY <2>2, <3>1, <3>2, <3>3
    <3>5. Len(results) \in Int /\ i - 1 \in Int
      BY <3>1, <3>3
    <3> QED BY ONLY <3>4, <3>5
  <2>6. /\ results' \in Seq(S) /\ DOMAIN results' = 1..(i - 1) + 1
        /\ \A k \in 1..i - 1 : results'[k] = results[k]
        /\ results'[(i - 1) + 1] = SummaryOf(i)
    BY <2>1, <2>2, <2>3, <2>5, AppendProperties, LenProperties
  <2>7. \A k \in DOMAIN results' : results'[k] = SummaryOf(k)
    <3>1. \A k \in 1..(i - 1) + 1 : k \in 1..i - 1 \/ k = i
      BY <1>0
    <3>2. (i - 1) + 1 = i
      BY <1>0
    <3> QED BY <2>2, <2>6, <3>1, <3>2
  <2>8. DOMAIN results' = 1..i' - 1
    BY <1>0, <2>1, <2>6
  <2>9. results' \in Seq(S')
    BY <2>4, <2>6
  <2>10. \A k \in DOMAIN results' : results'[k] = SummaryOf(k)'
    BY <2>4, <2>7
  <2> QED BY <2>1, <2>8, <2>9, <2>10 DEF Summarised, S
<1>5. CASE Report
  <2>1. /\ pc = "summarise" /\ plans' = plans /\ assigned' = assigned /\ i' = i
        /\ results' = results /\ i = Len(plans) + 1
    BY <1>0, <1>5 DEF Report, TypeOK
  <2>2. /\ PnlOf(Headline)' = PnlOf(Headline)
        /\ \A b : PnlOf(Group(b))' = PnlOf(Group(b))
    BY <2>1, TotalsStay
  <2>3. /\ report'.net = PnlOf(Headline)
        /\ report'.groups = [b \in {results[k].bucket : k \in DOMAIN results} |-> PnlOf(Group(b))]
    BY <1>5 DEF Report
  <2> QED BY <1>1, <2>1, <2>2, <2>3 DEF Summarised
<1>6. CASE Returned \/ UNCHANGED vars
  <2>1. UNCHANGED <<plans, assigned, i, results, report, pc>>
    BY <1>6 DEF Returned, vars
  <2>2. /\ PnlOf(Headline)' = PnlOf(Headline)
        /\ \A b : PnlOf(Group(b))' = PnlOf(Group(b))
    BY <2>1, TotalsStay
  <2> QED BY <1>1, <2>1, <2>2 DEF Summarised
<1> QED BY <1>2, <1>3, <1>4, <1>5, <1>6
        DEF Next, SkipDuplicate, CountOrphan, CountConflict, AssignFill, AtFill

(* At the end, the plans' fills are the settled ones: each of one plan.    *)
LEMMA OwnIsSettled ==
  ASSUME TypeOK, pc = "done"
  PROVE  /\ IsFiniteSet(Settled)
         /\ \A k \in Settled : k \in 1..Len(fills) /\ fills[k] \in Fill
         /\ \A p, k : k \in Own(p) <=> k \in Settled /\ Candidates(fills[k]) = {p}
         /\ \A k \in Settled : \E j \in DOMAIN plans : k \in Own(plans[j].id)
<1>1. DOMAIN fills = 1..Len(fills) /\ Len(fills) \in Nat
  BY LenProperties DEF TypeOK
<1>2. Settled \in SUBSET (1..Len(fills)) /\ IsFiniteSet(1..Len(fills))
  BY <1>1, FS_Interval DEF Settled
<1>3. \A k \in 1..Len(fills) : fills[k] \in Fill
  BY ElementOfSeq DEF TypeOK
<1>4. \A k \in 1..Len(fills) : /\ IsFiniteSet(Candidates(fills[k]))
                               /\ Candidates(fills[k]) \subseteq PlanIdsOfBatch
  BY <1>3, BatchIsFinite, FS_Subset
<1>5. \A p, k : k \in Own(p) <=> k \in Settled /\ Candidates(fills[k]) = {p}
  <2>1. \A p : Cardinality({p}) = 1
    BY FS_Singleton
  <2> QED BY <1>1, <2>1 DEF Own, Settled, FillsTaken
<1>6. ASSUME NEW k \in Settled PROVE \E j \in DOMAIN plans : k \in Own(plans[j].id)
  <2>1. Cardinality(Candidates(fills[k])) = 1
    BY DEF Settled
  <2>2. PICK p : Candidates(fills[k]) = {p}
    BY <1>2, <1>4, <2>1, FS_Singleton
  <2>3. p \in PlanIdsOfBatch
    BY <1>2, <1>4, <2>2
  <2> QED BY <1>5, <2>2, <2>3 DEF PlanIdsOfBatch
<1> QED BY <1>2, <1>3, <1>5, <1>6, FS_Subset

(* With distinct plans, a settled fill is of the plan it is given to.      *)
LEMMA PlanOfIsOwner ==
  ASSUME TypeOK, pc = "done", DistinctPlans, NEW j \in DOMAIN plans, NEW k \in Settled
  PROVE  PlanOf(k) = plans[j] <=> k \in Own(plans[j].id)
<1> DEFINE known == {plans[m] : m \in DOMAIN plans}
           named == Candidates(fills[k])
<1>1. PICK n \in DOMAIN plans : named = {plans[n].id}
  BY OwnIsSettled
<1>2. PlanOf(k) = CHOOSE plan \in known : plan.id \in named
  BY DEF PlanOf
<1>3. k \in Own(plans[j].id) <=> named = {plans[j].id}
  BY OwnIsSettled
<1> HIDE DEF named
<1>4. PlanOf(k) \in known /\ PlanOf(k).id \in named
  <2>1. plans[n] \in known /\ plans[n].id \in named
    BY <1>1
  <2> HIDE DEF known
  <2> QED BY <1>2, <2>1
<1>5. PICK m \in DOMAIN plans : PlanOf(k) = plans[m]
  BY <1>4
<1>6. plans[m].id = plans[n].id
  BY <1>1, <1>4, <1>5
<1> QED BY <1>1, <1>3, <1>5, <1>6 DEF DistinctPlans

(* So its worth depends on the fills of that plan.                         *)
LEMMA WorthOfOwn ==
  ASSUME TypeOK, pc = "done", DistinctPlans, NEW j \in DOMAIN plans,
         NEW k \in Own(plans[j].id)
  PROVE  Worth(k) = IF \E m \in Own(plans[j].id) : fills[m].pnl # None
                      THEN IF fills[k].pnl = None THEN 0 ELSE fills[k].pnl
                    ELSE IF plans[j].priced THEN fills[k].est ELSE 0
<1>1. k \in Settled /\ PlanOf(k) = plans[j]
  BY OwnIsSettled, PlanOfIsOwner
<1>2. {m \in Settled : PlanOf(m) = PlanOf(k)} = Own(plans[j].id)
  <2>1. \A m \in Settled : PlanOf(m) = plans[j] <=> m \in Own(plans[j].id)
    BY PlanOfIsOwner
  <2>2. \A m \in Own(plans[j].id) : m \in Settled
    BY OwnIsSettled
  <2> QED BY <1>1, <2>1, <2>2
<1> QED BY <1>1, <1>2 DEF Worth

Worths == [k \in Settled |-> Worth(k)]

(* Amounts are numbers, and so is what a fill is worth.                    *)
LEMMA WorthType ==
  ASSUME TypeOK, pc = "done", DistinctPlans
  PROVE  /\ \A k \in Settled : /\ fills[k].pnl # None => fills[k].pnl \in Int
                               /\ fills[k].est \in Int
         /\ \A k \in Settled : Worths[k] = Worth(k) /\ Worths[k] \in Int
<1>1. \A k \in Settled : /\ fills[k].pnl # None => fills[k].pnl \in Int
                         /\ fills[k].est \in Int
  BY OwnIsSettled, AmountsAssumption DEF Fill
<1>2. ASSUME NEW k \in Settled PROVE Worth(k) \in Int
  <2>1. PICK j \in DOMAIN plans : k \in Own(plans[j].id)
    BY OwnIsSettled
  <2> QED BY <1>1, <2>1, WorthOfOwn
<1> QED BY <1>1, <1>2 DEF Worths

(* What a plan is found to have earned is what its fills are worth.        *)
LEMMA PnlIsWorth ==
  ASSUME TypeOK, pc = "done", DistinctPlans, FirstReportDecides, NEW j \in DOMAIN plans
  PROVE  PlanRealizedPnl(plans[j], assigned[plans[j].id]) = TotalOf(Worths, Own(plans[j].id))
<1> DEFINE S == Own(plans[j].id)
           s == assigned[plans[j].id]
           rank == [k \in S |-> Rank(S, k)]
           explicit == {k \in DOMAIN s : s[k].pnl # None}
           stated == {k \in S : fills[k].pnl # None}
<1>1. plans[j].id \in PlanIds
  BY BatchIsFinite DEF PlanIdsOfBatch
<1>2. /\ IsFiniteSet(S) /\ \A k, l \in S : rank[k] = rank[l] => k = l
      /\ {rank[k] : k \in S} = 1..Cardinality(S)
  <2>1. S \in SUBSET (1..Len(fills)) /\ Len(fills) \in Nat
    BY OwnIsSettled, LenProperties DEF TypeOK
  <2> HIDE DEF S
  <2>2. /\ IsFiniteSet(S) /\ \A k, l \in S : Rank(S, k) = Rank(S, l) => k = l
        /\ {Rank(S, k) : k \in S} = 1..Cardinality(S)
    BY <2>1, RanksNumber
  <2>3. \A k \in S : rank[k] = Rank(S, k)
    OBVIOUS
  <2>4. {rank[k] : k \in S} = {Rank(S, k) : k \in S}
    BY <2>3
  <2> HIDE DEF rank
  <2> QED BY <2>2, <2>3, <2>4
<1>3. \A k \in S : s[rank[k]] = fills[k]
  BY <1>1, DecidedParts DEF Decided
<1>4. {rank[k] : k \in S} = DOMAIN s
  <2>1. Len(s) = Cardinality(S)
    BY <1>1, DecidedParts DEF Decided
  <2>2. DOMAIN s = 1..Len(s)
    BY <1>1, LenProperties DEF TypeOK
  <2> QED BY <1>2, <2>1, <2>2
<1>5. \A k \in S : /\ k \in Settled
                   /\ fills[k].pnl # None => fills[k].pnl \in Int
                   /\ fills[k].est \in Int
                   /\ Worths[k] \in Int
                   /\ Worths[k] = IF stated # {} THEN IF fills[k].pnl = None THEN 0 ELSE fills[k].pnl
                                  ELSE IF plans[j].priced THEN fills[k].est ELSE 0
  <2>1. \A k \in S : Worth(k) = IF \E m \in S : fills[m].pnl # None
                                  THEN IF fills[k].pnl = None THEN 0 ELSE fills[k].pnl
                                ELSE IF plans[j].priced THEN fills[k].est ELSE 0
    BY WorthOfOwn
  <2>2. stated # {} <=> \E m \in S : fills[m].pnl # None
    OBVIOUS
  <2>3. \A k \in S : k \in Settled
    BY OwnIsSettled
  <2> HIDE DEF stated, S
  <2> QED BY <2>1, <2>2, <2>3, WorthType
<1> HIDE DEF S, s, rank
<1>6. {rank[k] : k \in stated} = explicit
  BY <1>3, <1>4
<1>7. PlanRealizedPnl(plans[j], s) =
        IF explicit # {} THEN TotalOf([k \in explicit |-> s[k].pnl], explicit)
        ELSE IF plans[j].priced THEN TotalOf([k \in DOMAIN s |-> s[k].est], DOMAIN s)
        ELSE 0
  BY DEF PlanRealizedPnl, SumOver, TotalOf
<1>8. CASE stated # {}
  <2> DEFINE f == [k \in stated |-> fills[k].pnl]
             h == [k \in explicit |-> s[k].pnl]
  <2>1. explicit # {} /\ IsFiniteSet(stated) /\ IsFiniteSet(S \ stated)
    BY <1>2, <1>6, <1>8, FS_Subset, FS_Difference
  <2>2. \A k \in stated : f[k] = h[rank[k]] /\ f[k] \in Int /\ Worths[k] = f[k]
    BY <1>3, <1>5, <1>6, <1>8
  <2>3. \A k \in S \ stated : Worths[k] = 0
    BY <1>5, <1>8
  <2>4. S = stated \cup (S \ stated) /\ stated \cap (S \ stated) = {}
    OBVIOUS
  <2>5. \A k \in S : Worths[k] \in Int
    BY <1>5
  <2>6. \A k, l \in stated : rank[k] = rank[l] => k = l
    BY <1>2
  <2> HIDE DEF f, h, stated, explicit
  <2>7. TotalOf(f, stated) = TotalOf(h, explicit)
    BY <1>6, <2>1, <2>2, <2>6, TotalRenamed
  <2>8. TotalOf(Worths, stated) = TotalOf(f, stated)
    BY <2>1, <2>2, TotalAgree
  <2>9. TotalOf(Worths, S \ stated) = 0
    BY <2>1, <2>3, TotalZero
  <2>10. TotalOf(Worths, S) = TotalOf(Worths, stated) + TotalOf(Worths, S \ stated)
    BY <1>2, <2>4, <2>5, TotalSplit DEF IsSplit, IntOver
  <2>11. TotalOf(Worths, stated) \in Int
    BY <2>1, <2>4, <2>5, TotalType
  <2>12. TotalOf(Worths, S) = TotalOf(h, explicit)
    BY <2>7, <2>8, <2>9, <2>10, <2>11
  <2>13. PlanRealizedPnl(plans[j], s) = TotalOf(h, explicit)
    BY <1>7, <2>1 DEF h
  <2> QED BY <2>12, <2>13 DEF S, s
<1>9. CASE stated = {} /\ plans[j].priced
  <2> DEFINE h == [k \in DOMAIN s |-> s[k].est]
  <2>1. explicit = {}
    BY <1>6, <1>9
  <2>2. \A k \in S : Worths[k] = h[rank[k]] /\ Worths[k] \in Int
    BY <1>3, <1>4, <1>5, <1>9
  <2>3. PlanRealizedPnl(plans[j], s) = TotalOf(h, DOMAIN s)
    BY <1>7, <1>9, <2>1
  <2> HIDE DEF h
  <2>4. TotalOf(Worths, S) = TotalOf(h, DOMAIN s)
    BY <1>2, <1>4, <2>2, TotalRenamed
  <2> QED BY <2>3, <2>4 DEF S, s
<1>10. CASE stated = {} /\ ~plans[j].priced
  <2>1. explicit = {}
    BY <1>6, <1>10
  <2>2. \A k \in S : Worths[k] = 0
    BY <1>5, <1>10
  <2>3. TotalOf(Worths, S) = 0
    BY <1>2, <2>2, TotalZero
  <2> QED BY <1>7, <1>10, <2>1, <2>3 DEF S, s
<1> QED BY <1>8, <1>9, <1>10

Pnls == [k \in DOMAIN results |-> results[k].pnl]

(* The worth of a plan's fills is an amount.                               *)
LEMMA OwnTotalType ==
  ASSUME TypeOK, pc = "done", DistinctPlans, NEW k \in DOMAIN plans
  PROVE  TotalOf(Worths, Own(plans[k].id)) \in Int
<1>1. \A n \in Own(plans[k].id) : n \in Settled
  BY OwnIsSettled
<1>2. IsFiniteSet(Own(plans[k].id)) /\ \A n \in Own(plans[k].id) : Worths[n] \in Int
  BY <1>1, OwnIsSettled, WorthType, FS_Subset
<1> QED BY <1>2, TotalType

(* At the end, the cents of some plans are the worth of their fills, but   *)
(* for half a cent a plan.                                                 *)
LEMMA PnlsAreWorths ==
  ASSUME TypeOK, pc = "done", DistinctPlans, FirstReportDecides, Summarised,
         NEW H \in SUBSET DOMAIN plans
  PROVE  CentsOf(TotalOf(Pnls, H),
                 TotalOf(Worths, {k \in Settled : \E j \in H : PlanOf(k) = plans[j]}),
                 Cardinality(H))
<1> DEFINE T == {k \in Settled : \E j \in H : PlanOf(k) = plans[j]}
           m == [k \in T |-> CHOOSE j \in H : PlanOf(k) = plans[j]]
           parts == [j \in H |-> TotalOf(Worths, {k \in T : m[k] = j})]
<1>1. IsFiniteSet(H) /\ IsFiniteSet(T)
  BY BatchIsFinite, OwnIsSettled, FS_Subset
<1>2. \A k \in T : m[k] \in H /\ PlanOf(k) = plans[m[k]]
  OBVIOUS
<1>3. \A k \in T : k \in Settled /\ Worths[k] \in Int
  BY WorthType
<1>4. ASSUME NEW j \in H PROVE {k \in T : m[k] = j} = Own(plans[j].id)
  <2>1. ASSUME NEW k \in T, m[k] = j PROVE k \in Own(plans[j].id)
    BY <1>2, <2>1, PlanOfIsOwner
  <2>2. ASSUME NEW k \in Own(plans[j].id) PROVE k \in T /\ m[k] = j
    <3>1. k \in Settled /\ PlanOf(k) = plans[j]
      BY OwnIsSettled, PlanOfIsOwner
    <3>2. k \in T
      BY <3>1
    <3>3. plans[m[k]].id = plans[j].id /\ m[k] \in DOMAIN plans
      BY <1>2, <3>1, <3>2
    <3> QED BY <3>2, <3>3 DEF DistinctPlans
  <2> QED BY <2>1, <2>2
<1>5. ASSUME NEW j \in H PROVE Pnls[j] = Nearest(parts[j], Cent) /\ parts[j] \in Int
  <2>1. DOMAIN results = DOMAIN plans
    <3>1. DOMAIN results = 1..i - 1 /\ i = Len(plans) + 1
      BY DEF Summarised
    <3>2. i - 1 = Len(plans)
      BY <3>1, BatchIsFinite
    <3> QED BY <3>1, <3>2, BatchIsFinite
  <2>2. results[j] = SummaryOf(j)
    BY <2>1 DEF Summarised
  <2>3. Pnls[j] = Nearest(PlanRealizedPnl(plans[j], assigned[plans[j].id]), Cent)
    BY <2>1, <2>2 DEF Pnls, SummaryOf
  <2>4. Pnls[j] = Nearest(TotalOf(Worths, Own(plans[j].id)), Cent)
    BY <2>3, PnlIsWorth, Zenon
  <2>5. TotalOf(Worths, Own(plans[j].id)) = parts[j]
    BY <1>4, Zenon
  <2>6. parts[j] \in Int
    BY <2>5, OwnTotalType
  <2> QED BY <2>4, <2>5, <2>6, Zenon
<1> HIDE DEF T, m
<1>6. TotalOf(Worths, T) = TotalOf(parts, H)
  BY <1>1, <1>2, <1>3, TotalOfParts
<1> HIDE DEF parts
<1> DEFINE worth == TotalOf(parts, H)
           cents == TotalOf(Pnls, H)
<1>7. /\ cents \in Int /\ worth \in Int /\ Cent * cents \in Int
      /\ Cardinality(H) * Cent \in Nat
      /\ 2 * worth - Cardinality(H) * Cent <= 2 * (Cent * cents)
      /\ 2 * (Cent * cents) <= 2 * worth + Cardinality(H) * Cent
  BY <1>1, <1>5, RoundedTotal, CentAssumption
<1>8. Cardinality(H) * Cent = Cent * Cardinality(H)
  BY <1>1, CentAssumption, FS_CardinalityType
<1> HIDE DEF worth, cents
<1>9. CentsOf(cents, worth, Cardinality(H))
  BY <1>7, <1>8 DEF CentsOf, Distance
<1> QED BY <1>6, <1>9, Zenon DEF T, worth, cents

(* The report's totals, in terms of the sums the lemmas are about.         *)
LEMMA ReportTotals ==
  ASSUME TypeOK, pc = "done", DistinctPlans, FirstReportDecides, Summarised
  PROVE  /\ DOMAIN results = DOMAIN plans
         /\ report.net = TotalOf(Pnls, Headline)
         /\ SumOver(report.groups) = TotalOf(Pnls, DOMAIN plans)
         /\ Headline = {j \in DOMAIN plans : plans[j].status \in {"filled", "closed"}}
<1> DEFINE B == {results[k].bucket : k \in DOMAIN results}
           bucket == [k \in DOMAIN results |-> results[k].bucket]
           parts == [b \in B |-> TotalOf(Pnls, {k \in DOMAIN results : bucket[k] = b})]
<1>1. DOMAIN results = DOMAIN plans /\ IsFiniteSet(DOMAIN results)
  <2>1. DOMAIN results = 1..i - 1 /\ i = Len(plans) + 1
    BY DEF Summarised
  <2>2. i - 1 = Len(plans)
    BY <2>1, BatchIsFinite
  <2> QED BY <2>1, <2>2, BatchIsFinite
<1>2. \A k \in DOMAIN results : results[k] = SummaryOf(k)
  BY DEF Summarised
<1>3. ASSUME NEW ks \in SUBSET DOMAIN results PROVE PnlOf(ks) = TotalOf(Pnls, ks)
  <2> DEFINE f == [k \in ks |-> results[k].pnl]
  <2>1. PnlOf(ks) = TotalOf(f, ks)
    BY DEF PnlOf, SumOver, TotalOf
  <2>2. \A k \in ks : f[k] = Pnls[k]
    BY DEF Pnls
  <2>3. IsFiniteSet(ks)
    BY <1>1, FS_Subset
  <2> HIDE DEF f
  <2> QED BY <2>1, <2>2, <2>3, TotalAgree
<1>4. \A k \in DOMAIN results : Pnls[k] \in Int
  <2> SUFFICES ASSUME NEW k \in DOMAIN plans PROVE Pnls[k] \in Int
    BY <1>1
  <2>1. TotalOf(Worths, Own(plans[k].id)) \in Int
    BY OwnTotalType
  <2>2. Pnls[k] = Nearest(PlanRealizedPnl(plans[k], assigned[plans[k].id]), Cent)
    BY <1>1, <1>2 DEF Pnls, SummaryOf
  <2>3. Pnls[k] = Nearest(TotalOf(Worths, Own(plans[k].id)), Cent)
    BY <2>2, PnlIsWorth, Zenon
  <2> QED BY <2>1, <2>3, NearestBy, CentAssumption
<1>5. IsFiniteSet(B)
  <2>1. bucket \in Surjection(DOMAIN results, B)
    BY DEF Surjection
  <2> QED BY <1>1, <2>1, FS_Surjection
<1>6. /\ report.net = PnlOf(Headline)
      /\ report.groups = [b \in B |-> PnlOf(Group(b))]
  BY DEF Summarised
<1>7. report.net = TotalOf(Pnls, Headline)
  <2>1. Headline \in SUBSET DOMAIN results
    BY DEF Headline, ResultsWhere
  <2> QED BY <1>3, <1>6, <2>1
<1>8. SumOver(report.groups) = TotalOf(Pnls, DOMAIN plans)
  <2>1. \A b \in B : Group(b) = {k \in DOMAIN results : bucket[k] = b}
    BY DEF Group, ResultsWhere
  <2>2. \A b : Group(b) \in SUBSET DOMAIN results
    BY DEF Group, ResultsWhere
  <2>3. \A k \in DOMAIN results : bucket[k] \in B
    OBVIOUS
  <2>4. DOMAIN report.groups = B /\ \A b \in B : report.groups[b] = PnlOf(Group(b))
    BY <1>6
  <2>5. SumOver(report.groups) = TotalOf(report.groups, DOMAIN report.groups)
    BY DEF SumOver, TotalOf
  <2>6. \A b \in B : report.groups[b] = parts[b]
    <3> SUFFICES ASSUME NEW b \in B PROVE report.groups[b] = parts[b]
      OBVIOUS
    <3>1. report.groups[b] = TotalOf(Pnls, Group(b))
      BY <1>3, <2>2, <2>4
    <3>2. TotalOf(Pnls, Group(b)) = TotalOf(Pnls, {k \in DOMAIN results : bucket[k] = b})
      BY <2>1, Zenon
    <3> HIDE DEF B, bucket
    <3> QED BY <3>1, <3>2
  <2> HIDE DEF B, bucket
  <2>7. TotalOf(Pnls, DOMAIN results) = TotalOf(parts, B)
    BY <1>1, <1>4, <1>5, <2>3, TotalOfParts
  <2> HIDE DEF parts
  <2>8. TotalOf(report.groups, B) = TotalOf(parts, B)
    BY <1>5, <2>6, TotalAgree
  <2> QED BY <1>1, <2>4, <2>5, <2>7, <2>8
<1>9. Headline = {j \in DOMAIN plans : plans[j].status \in {"filled", "closed"}}
  <2>1. \A k \in DOMAIN results : results[k].counted <=> plans[k].status \in {"filled", "closed"}
    <3>1. \A k : SummaryOf(k).counted = (plans[k].status \in WIN_LOSS_STATUSES)
      BY Zenon DEF SummaryOf
    <3>2. \A k \in DOMAIN results :
            results[k].counted = (plans[k].status \in WIN_LOSS_STATUSES)
      BY <1>2, <3>1, Zenon
    <3> QED BY <3>2, Zenon DEF WIN_LOSS_STATUSES
  <2> QED BY <1>1, <2>1 DEF Headline, ResultsWhere
<1> QED BY <1>1, <1>7, <1>8, <1>9

(* So the groups add up to what all settled fills are worth, the headline  *)
(* to what those of filled and closed plans are, half a cent a plan aside. *)
LEMMA TotalsMatch ==
  ASSUME TypeOK, FirstReportDecides, Summarised
  PROVE  TotalsMatchFills
<1> DEFINE final == {j \in DOMAIN plans : plans[j].status \in {"filled", "closed"}}
           counted == {m \in Settled : PlanOf(m).status \in {"filled", "closed"}}
           f == [k \in counted |-> Worth(k)]
<1> SUFFICES ASSUME pc = "done", DistinctPlans
             PROVE  /\ CentsOf(SumOver(report.groups),
                               SumOver([k \in Settled |-> Worth(k)]), Len(plans))
                    /\ CentsOf(report.net, SumOver(f), Cardinality(final))
  BY Zenon DEF TotalsMatchFills
<1>1. \A k \in Settled : \E j \in DOMAIN plans : PlanOf(k) = plans[j]
  BY OwnIsSettled, PlanOfIsOwner
<1>2. SumOver([k \in Settled |-> Worth(k)]) = TotalOf(Worths, Settled)
  BY DEF SumOver, TotalOf, Worths
<1>3. SumOver(f) = TotalOf(f, counted)
  BY DEF SumOver, TotalOf
<1>4. TotalOf(f, counted) = TotalOf(Worths, counted)
  <2>1. IsFiniteSet(counted) /\ \A k \in counted : k \in Settled
    BY OwnIsSettled, FS_Subset
  <2>2. \A k \in counted : f[k] = Worths[k]
    BY <2>1, WorthType
  <2> HIDE DEF f, counted
  <2> QED BY <2>1, <2>2, TotalAgree
<1>5. CentsOf(TotalOf(Pnls, DOMAIN plans), TotalOf(Worths, Settled), Len(plans))
  <2>1. {k \in Settled : \E j \in DOMAIN plans : PlanOf(k) = plans[j]} = Settled
    BY <1>1
  <2>2. CentsOf(TotalOf(Pnls, DOMAIN plans),
                TotalOf(Worths, {k \in Settled : \E j \in DOMAIN plans : PlanOf(k) = plans[j]}),
                Cardinality(DOMAIN plans))
    BY PnlsAreWorths
  <2>3. Cardinality(DOMAIN plans) = Len(plans)
    <3>1. Len(plans) \in Nat /\ DOMAIN plans = 1..Len(plans)
      BY LenProperties DEF TypeOK
    <3>2. \A n \in Nat : Cardinality(1..n) = n
      BY FS_Interval
    <3> QED BY <3>1, <3>2
  <2> QED BY <2>1, <2>2, <2>3, Zenon
<1>6. CentsOf(TotalOf(Pnls, Headline), TotalOf(Worths, counted), Cardinality(final))
  <2>1. Headline = final
    BY ReportTotals
  <2>2. {k \in Settled : \E j \in final : PlanOf(k) = plans[j]} = counted
    BY <1>1
  <2>3. CentsOf(TotalOf(Pnls, final),
                TotalOf(Worths, {k \in Settled : \E j \in final : PlanOf(k) = plans[j]}),
                Cardinality(final))
    BY PnlsAreWorths
  <2> QED BY <2>1, <2>2, <2>3, Zenon
<1>7. report.net = TotalOf(Pnls, Headline) /\ SumOver(report.groups) = TotalOf(Pnls, DOMAIN plans)
  BY ReportTotals
<1> HIDE DEF counted, final, f
<1> QED BY <1>2, <1>3, <1>4, <1>5, <1>6, <1>7, Zenon

(* For every batch of distinct plans, the totals of the report are those   *)
(* of the settled fills, each counted once, but for half a cent a plan.    *)
THEOREM TotalsAreOfFills == Spec => []TotalsMatchFills
<1>1. Init => Summarised
  BY DEF Init, Summarised
<1>2. TypeOK /\ TypeOK' /\ Summarised /\ [Next]_vars => Summarised'
  BY SummaryStep
<1>3. TypeOK /\ FirstReportDecides /\ Summarised => TotalsMatchFills
  BY TotalsMatch
<1> QED BY <1>1, <1>2, <1>3, TypeCorrect, FirstReportsCount, PTL DEF Spec
=============================================================================
