----------------------------- MODULE QuotaProofs -----------------------------
(***************************************************************************)
(* Proofs about Quota, for any number of requests, tenants, resources and  *)
(* plans and any quotas.  One lemma says what a step does to Committed, the *)
(* usage together with the increments already granted: only reading a plan *)
(* raises it, and only while the usage is below the quota in force.  Both  *)
(* properties follow.                                                      *)
(***************************************************************************)
EXTENDS Quota, FiniteSetTheorems, TLAPS

(* No quota in force is higher than the highest the tenant ever had. *)
QuotasRemembered ==
    \A t \in Tenants, k \in Resources : CurrentLimit(t, k) <= highest[t][k]

QInv == TypeOK /\ QuotasRemembered /\ OverrunBounded

-----------------------------------------------------------------------------
LEMMA LimitsAreNat ==
    ASSUME TypeOK, NEW t \in Tenants, NEW k \in Resources
    PROVE  CurrentLimit(t, k) \in Limits /\ CurrentLimit(t, k) \in Nat
BY QuotaAssumption DEF TypeOK, CurrentLimit

LEMMA IncrementsAreFinite ==
    ASSUME NEW t \in Tenants, NEW k \in Resources
    PROVE  /\ IsFiniteSet(Incrementing(t, k))
           /\ Cardinality(Incrementing(t, k)) \in Nat
           /\ Cardinality(Incrementing(t, k)) <= Cardinality(Requests)
           /\ Cardinality(Requests) \in Nat \ {0}
<1>1. Incrementing(t, k) \in SUBSET Requests
  BY DEF Incrementing
<1>2. /\ IsFiniteSet(Incrementing(t, k))
      /\ Cardinality(Incrementing(t, k)) <= Cardinality(Requests)
  BY <1>1, QuotaAssumption, FS_Subset
<1>3. Cardinality(Incrementing(t, k)) \in Nat /\ Cardinality(Requests) \in Nat
  BY <1>2, QuotaAssumption, FS_CardinalityType
<1>4. Cardinality(Requests) # 0
  BY QuotaAssumption, FS_EmptySet
<1> QED
  BY <1>2, <1>3, <1>4

(* The same after a step. *)
LEMMA IncrementsAreFiniteNext ==
    ASSUME NEW t \in Tenants, NEW k \in Resources
    PROVE  /\ IsFiniteSet(Incrementing(t, k)')
           /\ Cardinality(Incrementing(t, k)') \in Nat
           /\ Cardinality(Incrementing(t, k)') <= Cardinality(Requests)
<1>1. Incrementing(t, k)' \in SUBSET Requests
  BY DEF Incrementing
<1>2. /\ IsFiniteSet(Incrementing(t, k)')
      /\ Cardinality(Incrementing(t, k)') <= Cardinality(Requests)
  BY <1>1, QuotaAssumption, FS_Subset
<1> QED
  BY <1>2, FS_CardinalityType

(* Fewer increments granted and no use counted: less is committed. *)
LEMMA FewerCommitLess ==
    ASSUME TypeOK, NEW t \in Tenants, NEW k \in Resources,
           usage'[t][k] = usage[t][k],
           Incrementing(t, k)' \subseteq Incrementing(t, k)
    PROVE  Committed(t, k)' <= Committed(t, k)
<1>1. Cardinality(Incrementing(t, k)') <= Cardinality(Incrementing(t, k))
  BY IncrementsAreFinite, FS_Subset
<1>2. usage[t][k] \in Nat
  BY DEF TypeOK
<1> QED
  BY <1>1, <1>2, IncrementsAreFinite, IncrementsAreFiniteNext DEF Committed

(* A use is counted, and was granted before: no more is committed. *)
LEMMA OneCounted ==
    ASSUME TypeOK, NEW t \in Tenants, NEW k \in Resources,
           NEW r \in Incrementing(t, k),
           usage'[t][k] = usage[t][k] + 1,
           Incrementing(t, k)' \subseteq Incrementing(t, k) \ {r}
    PROVE  Committed(t, k)' <= Committed(t, k)
<1>1. /\ IsFiniteSet(Incrementing(t, k) \ {r})
      /\ Cardinality(Incrementing(t, k) \ {r}) = Cardinality(Incrementing(t, k)) - 1
  BY IncrementsAreFinite, FS_RemoveElement
<1>2. Cardinality(Incrementing(t, k)') <= Cardinality(Incrementing(t, k)) - 1
  BY <1>1, FS_Subset
<1>3. usage[t][k] \in Nat
  BY DEF TypeOK
<1> QED
  BY <1>2, <1>3, IncrementsAreFinite, IncrementsAreFiniteNext DEF Committed

-----------------------------------------------------------------------------
LEMMA QuotaTypeInit == ASSUME Init PROVE TypeOK
BY QuotaAssumption DEF Init, TypeOK, Idle, InProgress

LEMMA HigherIsNat ==
    ASSUME NEW a \in Nat, NEW b \in Nat
    PROVE  /\ Higher(a, b) \in Nat
           /\ Higher(a, b) >= a /\ Higher(a, b) >= b
BY DEF Higher

(* History only grows and covers what is in force. *)
LEMMA HistoryGrows ==
    ASSUME TypeOK, RememberHighest,
           planId' \in [Tenants -> Plans],
           limit' \in [Plans -> [Resources -> Limits]]
    PROVE  /\ highest' \in [Tenants -> [Resources -> Nat]]
           /\ \A t \in Tenants, k \in Resources :
                 /\ highest'[t][k] >= highest[t][k]
                 /\ CurrentLimit(t, k)' <= highest'[t][k]
<1>1. ASSUME NEW t \in Tenants, NEW k \in Resources
      PROVE  highest[t][k] \in Nat /\ limit'[planId'[t]][k] \in Nat
  BY QuotaAssumption DEF TypeOK
<1> QED
  BY <1>1, HigherIsNat DEF RememberHighest, CurrentLimit

LEMMA QuotaTypeNext ==
    ASSUME TypeOK, [Next]_vars
    PROVE  TypeOK'
<1> USE DEF TypeOK
<1>1. ASSUME NEW r \in Requests, NEW t \in Tenants, NEW k \in Resources,
             GuardAdmits(r, t, k)
      PROVE  TypeOK'
  BY <1>1, LimitsAreNat DEF GuardAdmits, InProgress
<1>2. ASSUME NEW r \in Requests, ReadPlan(r)
      PROVE  TypeOK'
  <2>1. request[r] \in InProgress
    BY <1>2 DEF ReadPlan, AtStep, Idle
  <2>2. CurrentLimit(request[r].tenant, request[r].resource) \in Limits
    BY <2>1, LimitsAreNat DEF InProgress
  <2> QED
    BY <1>2, <2>1, <2>2 DEF ReadPlan, InProgress
<1>3. ASSUME NEW r \in Requests, CheckUsage(r)
      PROVE  TypeOK'
  <2>1. request[r] \in InProgress
    BY <1>3 DEF CheckUsage, AtStep, Idle
  <2> QED
    BY <1>3, <2>1 DEF CheckUsage, InProgress
<1>4. ASSUME NEW r \in Requests, Increment(r)
      PROVE  TypeOK'
  <2>1. request[r] \in InProgress
    BY <1>4 DEF Increment, AtStep, Idle
  <2>2. usage' \in [Tenants -> [Resources -> Nat]]
    BY <1>4, <2>1 DEF Increment, InProgress
  <2> QED
    BY <1>4, <2>2 DEF Increment
<1>5. ASSUME NEW r \in Requests, Abandon(r)
      PROVE  TypeOK'
  BY <1>5 DEF Abandon
<1>6. ASSUME NEW t \in Tenants, NEW p \in Plans, ChangePlan(t, p)
      PROVE  TypeOK'
  BY <1>6, HistoryGrows DEF ChangePlan
<1>7. ASSUME NEW p \in Plans, NEW k \in Resources, NEW l \in Limits,
             UpdatePlan(p, k, l)
      PROVE  TypeOK'
  BY <1>7, HistoryGrows DEF UpdatePlan
<1>8. CASE UNCHANGED vars
  BY <1>8 DEF vars
<1> QED
  BY <1>1, <1>2, <1>3, <1>4, <1>5, <1>6, <1>7, <1>8 DEF Next, UseResource

-----------------------------------------------------------------------------
(* What a step does to the committed usage. *)
LEMMA CommittedStep ==
    ASSUME TypeOK, [Next]_vars, NEW t \in Tenants, NEW k \in Resources
    PROVE  \/ Committed(t, k)' <= Committed(t, k)
           \/ /\ usage[t][k] < CurrentLimit(t, k)
              /\ usage'[t][k] = usage[t][k]
<1> USE DEF Incrementing, MayIncrement, AtStep
<1>1. ASSUME NEW r \in Requests, NEW t1 \in Tenants, NEW k1 \in Resources,
             GuardAdmits(r, t1, k1)
      PROVE  Committed(t, k)' <= Committed(t, k)
  <2>1. usage'[t][k] = usage[t][k]
    BY <1>1 DEF GuardAdmits
  <2>2. Incrementing(t, k)' \subseteq Incrementing(t, k)
    BY <1>1 DEF GuardAdmits, TypeOK
  <2> QED
    BY <2>1, <2>2, FewerCommitLess
<1>2. ASSUME NEW r \in Requests, ReadPlan(r)
      PROVE  \/ Committed(t, k)' <= Committed(t, k)
             \/ /\ usage[t][k] < CurrentLimit(t, k)
                /\ usage'[t][k] = usage[t][k]
  <2>1. usage'[t][k] = usage[t][k]
    BY <1>2 DEF ReadPlan
  <2>2. /\ request[r] \in InProgress
        /\ usage[t][k] \in Nat
    BY <1>2 DEF ReadPlan, TypeOK, Idle
  <2>3. CASE ~MayIncrement(r, t, k)'
    <3>1. Incrementing(t, k)' \subseteq Incrementing(t, k)
      BY <1>2, <2>3 DEF ReadPlan, TypeOK
    <3> QED
      BY <2>1, <3>1, FewerCommitLess
  <2>4. CASE MayIncrement(r, t, k)'
    <3>1. request'[r] = [request[r] EXCEPT
              !.step = "checkUsage",
              !.limit = CurrentLimit(request[r].tenant, request[r].resource)]
      BY <1>2, <2>2 DEF ReadPlan, TypeOK, InProgress
    <3>2. /\ request[r].tenant = t /\ request[r].resource = k
          /\ request'[r].limit = CurrentLimit(t, k)
          /\ request'[r].step = "checkUsage"
      BY <2>2, <2>4, <3>1 DEF InProgress
    <3>3. ~LimitExceeded(CurrentLimit(t, k), usage[t][k])
      BY <2>1, <2>4, <3>2
    <3> QED
      BY <2>1, <2>2, <3>3, LimitsAreNat DEF LimitExceeded
  <2> QED
    BY <2>3, <2>4
<1>3. ASSUME NEW r \in Requests, CheckUsage(r)
      PROVE  Committed(t, k)' <= Committed(t, k)
  <2>1. usage' = usage
    BY <1>3 DEF CheckUsage
  <2>2. request[r] \in InProgress
    BY <1>3 DEF CheckUsage, TypeOK, Idle
  <2>3. MayIncrement(r, t, k)' => MayIncrement(r, t, k)
    BY <1>3, <2>1, <2>2 DEF CheckUsage, TypeOK, Idle, InProgress
  <2>4. Incrementing(t, k)' \subseteq Incrementing(t, k)
    BY <1>3, <2>1, <2>3 DEF CheckUsage, TypeOK
  <2> QED
    BY <2>1, <2>4, FewerCommitLess
<1>4. ASSUME NEW r \in Requests, Increment(r)
      PROVE  Committed(t, k)' <= Committed(t, k)
  <2>1. /\ request[r] \in InProgress
        /\ request[r].step = "increment"
        /\ ~AtStep(r, "idle")
    BY <1>4 DEF Increment, TypeOK, Idle
  <2>2. usage \in [Tenants -> [Resources -> Nat]]
    BY DEF TypeOK
  <2>3. CASE request[r].tenant = t /\ request[r].resource = k
    <3>1. usage'[t][k] = usage[t][k] + 1
      BY <1>4, <2>2, <2>3 DEF Increment
    <3>2. r \in Incrementing(t, k)
      BY <2>1, <2>3
    <3>3. ASSUME NEW q \in Requests, q # r, MayIncrement(q, t, k)'
          PROVE  MayIncrement(q, t, k)
      <4>1. request'[q] = request[q]
        BY <1>4, <3>3 DEF Increment, TypeOK
      <4>2. request[q] \in InProgress
        BY <3>3, <4>1 DEF TypeOK, Idle
      <4>3. request[q].limit \in Nat
        BY <4>2, QuotaAssumption DEF InProgress
      <4> QED
        BY <2>2, <3>1, <3>3, <4>1, <4>3 DEF LimitExceeded
    <3>4. ~MayIncrement(r, t, k)'
      BY <1>4 DEF Increment, TypeOK, Idle
    <3>5. Incrementing(t, k)' \subseteq Incrementing(t, k) \ {r}
      BY <3>3, <3>4
    <3> QED
      BY <3>1, <3>2, <3>5, OneCounted
  <2>4. CASE ~(request[r].tenant = t /\ request[r].resource = k)
    <3>1. usage'[t][k] = usage[t][k]
      BY <1>4, <2>1, <2>2, <2>4 DEF Increment, InProgress
    <3>2. Incrementing(t, k)' \subseteq Incrementing(t, k)
      BY <1>4, <3>1 DEF Increment, TypeOK, Idle
    <3> QED
      BY <3>1, <3>2, FewerCommitLess
  <2> QED
    BY <2>3, <2>4
<1>5. ASSUME NEW r \in Requests, Abandon(r)
      PROVE  Committed(t, k)' <= Committed(t, k)
  <2>1. usage'[t][k] = usage[t][k]
    BY <1>5 DEF Abandon
  <2>2. Incrementing(t, k)' \subseteq Incrementing(t, k)
    BY <1>5 DEF Abandon, TypeOK, Idle
  <2> QED
    BY <2>1, <2>2, FewerCommitLess
<1>6. ASSUME UNCHANGED <<usage, request>>
      PROVE  Committed(t, k)' <= Committed(t, k)
  <2>1. Incrementing(t, k)' \subseteq Incrementing(t, k)
    BY <1>6
  <2> QED
    BY <1>6, <2>1, FewerCommitLess
<1> QED
  BY <1>1, <1>2, <1>3, <1>4, <1>5, <1>6
  DEF Next, UseResource, ChangePlan, UpdatePlan, vars

-----------------------------------------------------------------------------
LEMMA ReachGrows ==
    ASSUME NEW a \in Nat, NEW b \in Nat, a <= b
    PROVE  Reach(a) <= Reach(b)
<1>1. Cardinality(Requests) \in Nat \ {0}
  BY QuotaAssumption, FS_CardinalityType, FS_EmptySet
<1> QED
  BY <1>1 DEF Reach

LEMMA QInvInit == ASSUME Init PROVE QInv
<1>1. TypeOK
  BY QuotaTypeInit
<1>2. QuotasRemembered
  BY <1>1, QuotaAssumption DEF Init, TypeOK, QuotasRemembered, CurrentLimit
<1>3. ASSUME NEW t \in Tenants, NEW k \in Resources
      PROVE  Committed(t, k) <= Reach(highest[t][k])
  <2>1. Incrementing(t, k) = {}
    BY DEF Init, Incrementing, MayIncrement, AtStep, Idle
  <2>2. Committed(t, k) = 0
    BY <2>1, FS_EmptySet DEF Committed, Init
  <2>3. highest[t][k] \in Nat
    BY <1>1 DEF TypeOK
  <2> QED
    BY <2>2, <2>3, IncrementsAreFinite DEF Reach
<1> QED
  BY <1>1, <1>2, <1>3 DEF QInv, OverrunBounded

LEMMA QInvNext == ASSUME QInv, [Next]_vars PROVE QInv'
<1>1. TypeOK /\ TypeOK'
  BY QuotaTypeNext DEF QInv
<1>2. ASSUME NEW t \in Tenants, NEW k \in Resources
      PROVE  /\ highest[t][k] \in Nat /\ highest'[t][k] \in Nat
             /\ highest[t][k] <= highest'[t][k]
             /\ CurrentLimit(t, k)' <= highest'[t][k]
  <2>1. highest[t][k] \in Nat /\ highest'[t][k] \in Nat
    BY <1>1 DEF TypeOK
  <2>2. CASE UNCHANGED <<planId, limit, highest>>
    BY <2>1, <2>2 DEF QInv, QuotasRemembered, CurrentLimit
  <2>3. CASE RememberHighest
    BY <1>1, <2>1, <2>3, HistoryGrows DEF TypeOK
  <2> QED
    BY <2>2, <2>3
    DEF Next, UseResource, GuardAdmits, ReadPlan, CheckUsage, Increment, Abandon,
        ChangePlan, UpdatePlan, vars
<1>3. QuotasRemembered'
  BY <1>2 DEF QuotasRemembered
<1>4. ASSUME NEW t \in Tenants, NEW k \in Resources
      PROVE  Committed(t, k)' <= Reach(highest'[t][k])
  <2> DEFINE n == Cardinality(Requests)
             c == Cardinality(Incrementing(t, k))
             d == Cardinality(Incrementing(t, k)')
             h == highest[t][k]
  <2>1. /\ n \in Nat \ {0} /\ c \in Nat /\ d \in Nat /\ d <= n
        /\ usage[t][k] \in Nat /\ usage'[t][k] \in Nat
    BY <1>1, IncrementsAreFinite, IncrementsAreFiniteNext DEF TypeOK
  <2>2. Reach(h) <= Reach(highest'[t][k])
    BY <1>2, ReachGrows
  <2>3. Reach(h) \in Nat /\ Reach(highest'[t][k]) \in Nat
    BY <1>2, <2>1 DEF Reach
  <2>4. Committed(t, k)' \in Nat /\ Committed(t, k) \in Nat
    BY <2>1 DEF Committed
  <2>5. CASE Committed(t, k)' <= Committed(t, k)
    BY <2>2, <2>3, <2>4, <2>5 DEF QInv, OverrunBounded
  <2>6. CASE usage[t][k] < CurrentLimit(t, k) /\ usage'[t][k] = usage[t][k]
    <3>1. usage[t][k] < h
      BY <1>1, <1>2, <2>1, <2>6, LimitsAreNat DEF QInv, QuotasRemembered
    <3>2. Committed(t, k)' <= Reach(h)
      BY <1>2, <2>1, <2>6, <3>1 DEF Committed, Reach
    <3> QED
      BY <2>2, <2>3, <2>4, <3>2
  <2> QED
    BY <1>1, <2>5, <2>6, CommittedStep
<1> QED
  BY <1>1, <1>3, <1>4 DEF QInv, OverrunBounded

(* The invariants of Quota, for every value of its constants. *)
THEOREM QuotaInvariant == Spec => []QInv
<1>1. Init => QInv
  BY QInvInit
<1>2. QInv /\ [Next]_vars => QInv'
  BY QInvNext
<1> QED
  BY <1>1, <1>2, PTL DEF Spec

(* Rows and requests keep their types (the statements of tenant-profiles). *)
THEOREM QuotaTypeCorrect == Spec => []TypeOK
<1>1. QInv => TypeOK
  BY DEF QInv
<1> QED
  BY <1>1, QuotaInvariant, PTL

(* Usage passes the highest quota ever granted by less than the number of    *)
(* requests handled at once, and never if that quota is zero.                *)
THEOREM OverrunIsBounded == Spec => []OverrunBounded
<1>1. QInv => OverrunBounded
  BY DEF QInv
<1> QED
  BY <1>1, QuotaInvariant, PTL

(* Where requests are handled one at a time the quota is kept exactly: what  *)
(* the comment in tenantSubscriptionResourceUse promises.                    *)
THEOREM QuotaEnforcedAlone ==
    ASSUME Cardinality(Requests) = 1
    PROVE  Spec => []QuotaEnforced
<1>1. ASSUME QInv PROVE QuotaEnforced
  <2>1. ASSUME NEW t \in Tenants, NEW k \in Resources
        PROVE  usage[t][k] <= highest[t][k]
    <3>1. Cardinality(Incrementing(t, k)) \in Nat
      BY IncrementsAreFinite
    <3>2. usage[t][k] \in Nat /\ highest[t][k] \in Nat
      BY <1>1 DEF QInv, TypeOK
    <3>3. Committed(t, k) <= Reach(highest[t][k])
      BY <1>1 DEF QInv, OverrunBounded
    <3> QED
      BY <3>1, <3>2, <3>3 DEF Committed, Reach
  <2> QED
    BY <2>1 DEF QuotaEnforced
<1>2. QInv => QuotaEnforced
  BY <1>1
<1> QED
  BY <1>2, QuotaInvariant, PTL

(* Over the quota in force, only requests already checked still count. *)
THEOREM OverQuotaDrains == Spec => OverQuotaOnlyDrains
<1>1. ASSUME QInv, [Next]_vars, NEW t \in Tenants, NEW k \in Resources,
             LimitExceeded(CurrentLimit(t, k), usage[t][k])
      PROVE  Committed(t, k)' <= Committed(t, k)
  <2>1. TypeOK /\ usage[t][k] \in Nat /\ CurrentLimit(t, k) \in Nat
    BY <1>1, LimitsAreNat DEF QInv, TypeOK
  <2>2. ~(usage[t][k] < CurrentLimit(t, k))
    BY <1>1, <2>1 DEF LimitExceeded
  <2> QED
    BY <1>1, <2>1, <2>2, CommittedStep
<1>2. QInv /\ [Next]_vars =>
          [\A t \in Tenants, k \in Resources :
              LimitExceeded(CurrentLimit(t, k), usage[t][k])
              => Committed(t, k)' <= Committed(t, k)]_vars
  BY <1>1
<1> QED
  BY <1>2, QuotaInvariant, PTL DEF Spec, OverQuotaOnlyDrains
=============================================================================
