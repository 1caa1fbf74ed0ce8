-------------------- MODULE SubscriptionTransactionsProofs --------------------
(***************************************************************************)
(* Proofs about overlapping transactions, for every number of tenants,     *)
(* handlers, charges and plans.  What a transaction read may be stale when *)
(* it writes; the argument is that every row that was ever committed has   *)
(* RowInv, that a transaction only needs RowInv of what it read to write a *)
(* row with RowInv, and that the failures still to be written are counted. *)
(***************************************************************************)
EXTENDS SubscriptionTransactions, SubscriptionRowProofs, FiniteSetTheorems

(* What a transaction may rely on, of whichever committed row it read. *)
RowInv(r) ==
    /\ r \in Row
    /\ r.billingCycle = "monthly"
    /\ r.retryCount = 0 <=> r.pastDueAt = Null
    /\ r.quotaSnapshot = r.planId
    /\ r.priceSnapshot = SubscriptionPriceAmount(r.planId, r.billingCycle)

TxInv(x) ==
    /\ x \in Tx
    /\ RowInv(x.seen)
    /\ x.kind \in {"capture", "decline"} => x.charge \in Charges
    /\ x.kind \in {"upgrade", "downgrade"} => x.plan \in Plans
    /\ x.kind = "apply" => x.seen.pendingPlanId # Null

DataInv ==
    /\ TypeOK
    /\ \A t \in Tenants : RowInv(sub[t])
    /\ \A h \in Handlers : IsOpen(h) => TxInv(tx[h]) /\ Exists(tx[h].tenant)
    /\ \A t \in found : Exists(t)

IInv == DataInv /\ OverrunIsBounded

-----------------------------------------------------------------------------
(* What a transaction writes. *)

LEMMA AppliedRowType ==
    ASSUME NEW r \in Row, NEW s \in Row, s.pendingPlanId # Null, now \in Nat
    PROVE  AppliedRow(r, s) \in Row
<1> DEFINE p == s.pendingPlanId
           x == SubscriptionPriceAmount(p, s.billingCycle)
<1>1. p \in Plans /\ s.billingCycle \in Cycles
  BY DEF Row
<1>2. x \in Nat
  BY <1>1, AmountIsNat
<1> HIDE DEF p, x
<1>3. [r EXCEPT !.planId = p, !.pendingPlanId = Null,
                !.pendingPlanEffectiveAt = Null, !.priceSnapshot = x,
                !.quotaSnapshot = p, !.updatedAt = now] \in Row
  BY <1>1, <1>2, Zenon DEF Row, Date, OptionalDate
<1> QED
  BY <1>3, Zenon DEF AppliedRow, p, x

(* The row x writes over r, and what it does to the columns of the ledger.   *)
WritesWell(x, r, w) ==
    /\ RowInv(w)
    /\ w.status # "none"
    /\ x.kind = "capture" => w.retryCount = 0
    /\ x.kind = "decline" => w.retryCount = r.retryCount + 1
    /\ x.kind \notin {"capture", "decline"} => w.retryCount = r.retryCount
    /\ x.kind # "capture" => w.currentPeriodEnd = r.currentPeriodEnd

LEMMA WrittenWell ==
    ASSUME NEW r, RowInv(r), r.status # "none", NEW x, TxInv(x),
           NEW a \in Agreements, now \in Nat
    PROVE  WritesWell(x, r, Written(x, r, a))
<1>0. r \in Row /\ x.seen \in Row /\ x.kind \in Kinds
  BY DEF RowInv, TxInv, Tx
<1>1. CASE x.kind = "capture"
  <2> DEFINE w == CapturedRow(r, x.seen, a)
  <2>1. Written(x, r, a) = w
    BY <1>1 DEF Written
  <2>2. w \in Row
    BY <1>0, ActivatedRowType DEF CapturedRow, TxInv, RowInv, Row
  <2>3. /\ w.status = "active" /\ w.retryCount = 0 /\ w.pastDueAt = Null
        /\ w.billingCycle = x.seen.billingCycle
        /\ w.quotaSnapshot = w.planId
        /\ w.priceSnapshot = SubscriptionPriceAmount(w.planId, w.billingCycle)
    BY <1>0 DEF CapturedRow, ActivatedRow, Row
  <2> HIDE DEF w
  <2> QED
    BY <1>1, <2>1, <2>2, <2>3 DEF WritesWell, RowInv, TxInv
<1>2. CASE x.kind = "decline"
  <2> DEFINE w == PaymentFailedRow(r, now)
  <2>1. Written(x, r, a) = w
    BY <1>2 DEF Written, DeclinedRow
  <2>2. w \in Row
    BY <1>0, PaymentFailedRowType
  <2>3. /\ w.status = "active" /\ w.retryCount = r.retryCount + 1
        /\ w.pastDueAt = now
        /\ w.billingCycle = r.billingCycle
        /\ w.quotaSnapshot = r.quotaSnapshot
        /\ w.priceSnapshot = r.priceSnapshot
        /\ w.planId = r.planId
        /\ w.currentPeriodEnd = r.currentPeriodEnd
    BY <1>0 DEF PaymentFailedRow, Row
  <2>4. now # Null /\ r.retryCount + 1 # 0
    BY <1>0, NullIsNoDate DEF Row
  <2> HIDE DEF w
  <2> QED
    BY <1>2, <2>1, <2>2, <2>3, <2>4 DEF WritesWell, RowInv
<1>3. ASSUME NEW w, w \in Row, Written(x, r, a) = w,
             x.kind \notin {"capture", "decline"},
             w.status = r.status,
             w.retryCount = r.retryCount,
             w.pastDueAt = r.pastDueAt,
             w.currentPeriodEnd = r.currentPeriodEnd,
             w.billingCycle = r.billingCycle,
             w.quotaSnapshot = w.planId,
             w.priceSnapshot = SubscriptionPriceAmount(w.planId, w.billingCycle)
      PROVE  WritesWell(x, r, Written(x, r, a))
  BY <1>3 DEF WritesWell, RowInv
<1>4. ASSUME NEW e \in Nat, x.kind \in {"upgrade", "downgrade"},
             Written(x, r, a) = PendingRow(r, x.plan, e, now)
      PROVE  WritesWell(x, r, Written(x, r, a))
  <2> DEFINE w == PendingRow(r, x.plan, e, now)
  <2>1. w \in Row
    BY <1>0, <1>4, PendingRowType DEF TxInv
  <2>2. /\ w.status = r.status /\ w.retryCount = r.retryCount
        /\ w.pastDueAt = r.pastDueAt /\ w.currentPeriodEnd = r.currentPeriodEnd
        /\ w.billingCycle = r.billingCycle /\ w.planId = r.planId
        /\ w.quotaSnapshot = r.quotaSnapshot /\ w.priceSnapshot = r.priceSnapshot
    BY <1>0 DEF PendingRow, Row
  <2>3. Written(x, r, a) = w
    BY <1>4
  <2> HIDE DEF w
  <2> QED
    BY <1>3, <1>4, <2>1, <2>2, <2>3 DEF RowInv
<1>5. CASE x.kind = "upgrade"
  BY <1>4, <1>5 DEF Written
<1>6. CASE x.kind = "downgrade"
  <2>1. x.seen.currentPeriodEnd \in Nat
    BY <1>0 DEF Row, Date
  <2> QED
    BY <1>4, <1>6, <2>1 DEF Written
<1>7. CASE x.kind = "apply"
  <2> DEFINE w == AppliedRow(r, x.seen)
  <2>1. w \in Row
    BY <1>0, <1>7, AppliedRowType DEF TxInv
  <2>2. /\ w.status = r.status /\ w.retryCount = r.retryCount
        /\ w.pastDueAt = r.pastDueAt /\ w.currentPeriodEnd = r.currentPeriodEnd
        /\ w.billingCycle = r.billingCycle
        /\ w.quotaSnapshot = w.planId
        /\ w.priceSnapshot =
               SubscriptionPriceAmount(w.planId, x.seen.billingCycle)
    BY <1>0 DEF AppliedRow, Row
  <2>3. Written(x, r, a) = w
    BY <1>7 DEF Written
  <2> HIDE DEF w
  <2> QED
    BY <1>3, <1>7, <2>1, <2>2, <2>3 DEF RowInv, TxInv
<1>8. CASE x.kind = "cancel"
  <2> DEFINE w == CancelRequestedRow(r, now)
  <2>1. w \in Row
    BY <1>0, CancelRequestedRowType
  <2>2. /\ w.status = r.status /\ w.retryCount = r.retryCount
        /\ w.pastDueAt = r.pastDueAt /\ w.currentPeriodEnd = r.currentPeriodEnd
        /\ w.billingCycle = r.billingCycle /\ w.planId = r.planId
        /\ w.quotaSnapshot = r.quotaSnapshot /\ w.priceSnapshot = r.priceSnapshot
    BY <1>0 DEF CancelRequestedRow, Row
  <2>3. Written(x, r, a) = w
    BY <1>8 DEF Written
  <2> HIDE DEF w
  <2> QED
    BY <1>3, <1>8, <2>1, <2>2, <2>3 DEF RowInv
<1> QED
  BY <1>0, <1>1, <1>2, <1>5, <1>6, <1>7, <1>8 DEF Kinds

LEMMA NoRowInv == RowInv(NoRow)
<1>1. /\ NoRow.billingCycle = "monthly" /\ NoRow.retryCount = 0
      /\ NoRow.pastDueAt = Null /\ NoRow.planId = TrialPlan
      /\ NoRow.quotaSnapshot = TrialPlan
      /\ NoRow.priceSnapshot = MonthlyPrice[TrialPlan]
  BY DEF NoRow
<1> QED
  BY <1>1, NoRowType DEF RowInv, SubscriptionPriceAmount

LEMMA TrialRowInv == ASSUME now \in Nat PROVE RowInv(TrialRow(now))
<1> DEFINE w == TrialRow(now)
<1>1. /\ w.billingCycle = "monthly" /\ w.retryCount = 0
      /\ w.pastDueAt = Null /\ w.planId = TrialPlan
      /\ w.quotaSnapshot = TrialPlan
      /\ w.priceSnapshot = MonthlyPrice[TrialPlan]
  BY DEF TrialRow, NoRow
<1>2. w \in Row
  BY TrialRowType
<1> HIDE DEF w
<1>3. RowInv(w)
  BY <1>1, <1>2 DEF RowInv, SubscriptionPriceAmount
<1> QED
  BY <1>3 DEF w

-----------------------------------------------------------------------------
(* The failures still to be written. *)

LEMMA FailedAreFinite ==
    ASSUME NEW t \in Tenants
    PROVE  /\ IsFiniteSet(Failed(t))
           /\ Cardinality(Failed(t)) \in Nat
           /\ Cardinality(Failed(t)) <= Cardinality(Handlers)
           /\ Cardinality(Handlers) \in Nat \ {0}
           /\ Failed(t) # {} => Cardinality(Failed(t)) > 0
<1>1. Failed(t) \subseteq Handlers
  BY DEF Failed
<1>2. /\ IsFiniteSet(Failed(t))
      /\ Cardinality(Failed(t)) <= Cardinality(Handlers)
  BY <1>1, HandlersAssumption, FS_Subset
<1>3. Cardinality(Failed(t)) \in Nat /\ Cardinality(Handlers) \in Nat
  BY <1>2, HandlersAssumption, FS_CardinalityType
<1>4. Cardinality(Handlers) # 0
  BY HandlersAssumption, FS_EmptySet
<1>5. Failed(t) # {} => Cardinality(Failed(t)) # 0
  BY <1>2, FS_EmptySet
<1> QED
  BY <1>2, <1>3, <1>4, <1>5

LEMMA FailedAreFiniteNext ==
    ASSUME NEW t \in Tenants
    PROVE  /\ IsFiniteSet(Failed(t)')
           /\ Cardinality(Failed(t)') \in Nat
           /\ Cardinality(Failed(t)') <= Cardinality(Handlers)
           /\ Failed(t)' # {} => Cardinality(Failed(t)') > 0
<1>1. Failed(t)' \subseteq Handlers
  BY DEF Failed
<1>2. /\ IsFiniteSet(Failed(t)')
      /\ Cardinality(Failed(t)') <= Cardinality(Handlers)
  BY <1>1, HandlersAssumption, FS_Subset
<1>3. Cardinality(Failed(t)') \in Nat
  BY <1>2, FS_CardinalityType
<1>5. Failed(t)' # {} => Cardinality(Failed(t)') # 0
  BY <1>2, FS_EmptySet
<1> QED
  BY <1>2, <1>3, <1>5

(* What OverrunIsBounded says of one tenant, of its counter n and the number *)
(* c of failures to be written.                                              *)
LEMMA OverrunArithmetic ==
    ASSUME NEW n \in Nat, NEW c \in Nat, c <= Cardinality(Handlers),
           Cardinality(Handlers) \in Nat \ {0}
    PROVE  /\ n = 0 => n <= RetryBound /\ n + c <= RetryBound
           /\ n < MaxRetries => n <= RetryBound /\ n + c <= RetryBound
BY DaysAssumption DEF RetryBound

(* The set of failures to be written shrinks unless a decline begins, which  *)
(* needs a counter below the limit.                                          *)
LEMMA OverrunStep ==
    ASSUME DataInv, OverrunIsBounded, NEW t \in Tenants,
           sub'[t].retryCount \in Nat,
           \/ sub'[t].retryCount = 0
           \/ sub'[t].retryCount < MaxRetries
           \/ sub'[t].retryCount = sub[t].retryCount /\ Failed(t)' \subseteq Failed(t)
           \/ \E h \in Failed(t) :
                  /\ sub'[t].retryCount = sub[t].retryCount + 1
                  /\ Failed(t)' \subseteq Failed(t) \ {h}
    PROVE  /\ sub'[t].retryCount <= RetryBound
           /\ Failed(t)' # {} =>
                  sub'[t].retryCount + Cardinality(Failed(t)') <= RetryBound
<1> DEFINE n == sub[t].retryCount
           m == sub'[t].retryCount
           c == Cardinality(Failed(t))
           d == Cardinality(Failed(t)')
<1>a. n \in Nat /\ m \in Nat
  BY DEF DataInv, TypeOK, Row
<1>b. /\ c \in Nat /\ Cardinality(Handlers) \in Nat \ {0}
      /\ d \in Nat /\ d <= Cardinality(Handlers)
  BY FailedAreFinite, FailedAreFiniteNext
<1>c. RetryBound \in Nat
  BY <1>b, DaysAssumption DEF RetryBound
<1>0. /\ n \in Nat /\ m \in Nat /\ c \in Nat /\ d \in Nat
      /\ d <= Cardinality(Handlers) /\ RetryBound \in Nat
  BY <1>a, <1>b, <1>c
<1>1. CASE m = 0 \/ m < MaxRetries
  BY <1>0, <1>1, FailedAreFinite, OverrunArithmetic
<1>2. CASE m = n /\ Failed(t)' \subseteq Failed(t)
  <2>1. d <= c
    BY <1>2, FailedAreFinite, FS_Subset
  <2>2. Failed(t)' # {} => Failed(t) # {}
    BY <1>2
  <2> QED
    BY <1>0, <1>2, <2>1, <2>2 DEF OverrunIsBounded
<1>3. ASSUME NEW h \in Failed(t), m = n + 1, Failed(t)' \subseteq Failed(t) \ {h}
      PROVE  /\ m <= RetryBound
             /\ Failed(t)' # {} => m + d <= RetryBound
  <2>1. IsFiniteSet(Failed(t) \ {h}) /\ Cardinality(Failed(t) \ {h}) = c - 1
    BY FailedAreFinite, FS_RemoveElement
  <2>2. d <= c - 1
    BY <1>3, <2>1, FS_Subset
  <2>3. n + c <= RetryBound /\ c > 0
    BY <1>3, FailedAreFinite DEF OverrunIsBounded
  <2> QED
    BY <1>0, <1>3, <2>2, <2>3
<1> QED
  BY <1>1, <1>2, <1>3

-----------------------------------------------------------------------------
(* Every step keeps the invariant. *)

LEMMA InitInv == Init => IInv
<1> SUFFICES ASSUME Init PROVE IInv
  OBVIOUS
<1>1. /\ now \in 0..MaxTime /\ sub = [t \in Tenants |-> NoRow]
      /\ payments = {} /\ due = {} /\ tx = [h \in Handlers |-> NoTx]
      /\ found = {}
  BY TimeAssumption DEF Init
<1>2. TypeOK
  BY <1>1, NoRowType DEF TypeOK
<1>3. DataInv
  BY <1>1, <1>2, NoRowInv DEF DataInv, IsOpen
<1>4. ASSUME NEW t \in Tenants
      PROVE  sub[t].retryCount = 0 /\ Failed(t) = {}
  BY <1>1 DEF NoRow, Failed, IsOpen
<1>5. OverrunIsBounded
  BY <1>4, FailedAreFinite, OverrunArithmetic DEF OverrunIsBounded
<1> QED
  BY <1>3, <1>5 DEF IInv

LEMMA TxIsNotNoTx == ASSUME NEW x \in Tx PROVE x # NoTx /\ x.kind # "none"
BY DEF Tx, NoTx, Kinds

(* A transaction begins: x is what it remembers. *)
LEMMA BeginInv ==
    ASSUME IInv, NEW h \in Handlers, NEW t \in Tenants, NEW x,
           ~IsOpen(h), tx' = [tx EXCEPT ![h] = x], TxInv(x), x.tenant = t,
           Exists(t), x.kind = "decline" => sub[t].retryCount < MaxRetries,
           UNCHANGED <<now, sub, payments, found>>, due' \subseteq Tenants
    PROVE  IInv'
<1>1. TypeOK'
  BY DEF IInv, DataInv, TypeOK, TxInv
<1>2. DataInv'
  BY <1>1 DEF IInv, DataInv, TypeOK, IsOpen, Exists
<1>3. ASSUME NEW u \in Tenants
      PROVE  /\ sub'[u].retryCount \in Nat
             /\ \/ sub'[u].retryCount < MaxRetries
                \/ sub'[u].retryCount = sub[u].retryCount
                   /\ Failed(u)' \subseteq Failed(u)
  <2>1. sub'[u].retryCount = sub[u].retryCount /\ sub[u].retryCount \in Nat
    BY DEF IInv, DataInv, TypeOK, Row
  <2>2. \A g \in Handlers : g # h => tx'[g] = tx[g]
    BY DEF IInv, DataInv, TypeOK
  <2>3. tx'[h] = x
    BY DEF IInv, DataInv, TypeOK
  <2>4. CASE x.kind = "decline" /\ u = t
    BY <2>1, <2>4
  <2>5. CASE ~(x.kind = "decline" /\ u = t)
    <3>1. Failed(u)' \subseteq Failed(u)
      BY <2>2, <2>3, <2>5 DEF Failed, IsOpen
    <3> QED
      BY <2>1, <3>1
  <2> QED
    BY <2>4, <2>5
<1>4. OverrunIsBounded'
  BY <1>3, OverrunStep DEF IInv, OverrunIsBounded
<1> QED
  BY <1>2, <1>4 DEF IInv

LEMMA BeginSomeInv ==
    ASSUME IInv, NEW h \in Handlers, NEW t \in Tenants, BeginSome(h, t)
    PROVE  IInv'
<1>0. /\ sub[t] \in Row /\ RowInv(sub[t]) /\ now \in Nat
      /\ due \subseteq Tenants
  BY TimeAssumption DEF IInv, DataInv, TypeOK
<1> DEFINE X(kind, e, p) == [kind |-> kind, tenant |-> t, charge |-> e,
                             plan |-> p, seen |-> sub[t]]
<1>1. ASSUME NEW kind \in Kinds, NEW e \in Charges \cup {Null},
             NEW p \in Plans \cup {Null}, Begin(h, kind, t, e, p),
             kind \in {"capture", "decline"} => e \in Charges,
             kind \in {"upgrade", "downgrade"} => p \in Plans,
             kind = "apply" => sub[t].pendingPlanId # Null,
             kind = "decline" => sub[t].retryCount < MaxRetries,
             due' \subseteq Tenants
      PROVE  IInv'
  <2> DEFINE x == X(kind, e, p)
  <2>1. x \in Tx /\ x.tenant = t /\ x.kind = kind /\ x.seen = sub[t]
        /\ x.charge = e /\ x.plan = p
    BY <1>0 DEF Tx
  <2>2. /\ ~IsOpen(h) /\ Exists(t) /\ tx' = [tx EXCEPT ![h] = x]
        /\ UNCHANGED <<now, sub, payments, found>>
    BY <1>1 DEF Begin
  <2> HIDE DEF x
  <2>3. TxInv(x)
    BY <1>0, <1>1, <2>1 DEF TxInv
  <2> QED
    BY <1>1, <2>1, <2>2, <2>3, BeginInv
<1>2. ASSUME NEW p \in Plans, BeginUpgrade(h, t, p) PROVE IInv'
  BY <1>0, <1>1, <1>2 DEF BeginUpgrade, Kinds
<1>3. ASSUME NEW p \in Plans, BeginDowngrade(h, t, p) PROVE IInv'
  BY <1>0, <1>1, <1>3 DEF BeginDowngrade, Kinds
<1>4. ASSUME NEW e \in Charges, BeginCapture(h, t, e) PROVE IInv'
  BY <1>0, <1>1, <1>4 DEF BeginCapture, Kinds
<1>5. ASSUME NEW e \in Charges, BeginDecline(h, t, e) PROVE IInv'
  BY <1>0, <1>1, <1>5 DEF BeginDecline, Kinds
<1>6. CASE BeginCancel(h, t)
  BY <1>0, <1>1, <1>6 DEF BeginCancel, Kinds
<1>7. CASE BeginApply(h, t)
  <2>1. due' \subseteq Tenants
    BY <1>0, <1>7 DEF BeginApply
  <2>2. CASE sub[t].pendingPlanId = Null
    <3>1. UNCHANGED <<now, sub, payments, tx, found>>
      BY <1>7, <2>2 DEF BeginApply
    <3>2. DataInv'
      BY <2>1, <3>1 DEF IInv, DataInv, TypeOK, IsOpen, Exists
    <3>3. OverrunIsBounded'
      BY <3>1 DEF IInv, OverrunIsBounded, Failed, IsOpen
    <3> QED
      BY <3>2, <3>3 DEF IInv
  <2>3. CASE sub[t].pendingPlanId # Null
    BY <1>1, <1>7, <2>1, <2>3 DEF BeginApply, Kinds
  <2> QED
    BY <2>2, <2>3
<1> QED
  BY <1>2, <1>3, <1>4, <1>5, <1>6, <1>7 DEF BeginSome

(* What a commit does to the row of its tenant. *)
LEMMA CommitWrites ==
    ASSUME DataInv, NEW h \in Handlers, Commit(h)
    PROVE  /\ tx[h].tenant \in Tenants /\ tx[h].kind \in Kinds
           /\ Record(tx[h])
           /\ UNCHANGED <<now, due, found>>
           /\ tx' = [tx EXCEPT ![h] = NoTx]
           /\ \E w : /\ sub' = [sub EXCEPT ![tx[h].tenant] = w]
                     /\ WritesWell(tx[h], sub[tx[h].tenant], w)
<1> DEFINE x == tx[h]
           t == tx[h].tenant
<1>1. TxInv(x) /\ Exists(t) /\ t \in Tenants /\ x.kind \in Kinds
  BY DEF DataInv, Commit, TxInv, Tx
<1>2. RowInv(sub[t]) /\ sub[t].status # "none" /\ now \in Nat
  BY <1>1, TimeAssumption DEF DataInv, TypeOK, Exists
<1>3. PICK a \in Agreements : sub' = [sub EXCEPT ![t] = Written(x, sub[t], a)]
  BY DEF Commit
<1>4. WritesWell(x, sub[t], Written(x, sub[t], a))
  BY <1>1, <1>2, WrittenWell
<1>5. Record(x) /\ UNCHANGED <<now, due, found>> /\ tx' = [tx EXCEPT ![h] = NoTx]
  BY DEF Commit
<1> QED
  BY <1>1, <1>3, <1>4, <1>5

(* Closing a transaction takes it out of the failures to be written. *)
LEMMA ClosedTx ==
    ASSUME DataInv, NEW h \in Handlers, tx' = [tx EXCEPT ![h] = NoTx]
    PROVE  /\ \A g \in Handlers : g # h => tx'[g] = tx[g]
           /\ tx'[h] = NoTx
           /\ \A u \in Tenants : Failed(u)' \subseteq Failed(u) \ {h}
<1>1. /\ \A g \in Handlers : g # h => tx'[g] = tx[g]
      /\ tx'[h] = NoTx
  BY DEF DataInv, TypeOK
<1> QED
  BY <1>1 DEF Failed, IsOpen

LEMMA CommitInv ==
    ASSUME IInv, NEW h \in Handlers, Commit(h)
    PROVE  IInv'
<1>0. DataInv /\ IsOpen(h) /\ TxInv(tx[h])
  BY DEF IInv, DataInv, Commit
<1> DEFINE x == tx[h]
           t == tx[h].tenant
<1>1. /\ t \in Tenants /\ x.kind \in Kinds /\ Record(x)
      /\ UNCHANGED <<now, due, found>> /\ tx' = [tx EXCEPT ![h] = NoTx]
  BY <1>0, CommitWrites
<1>2. PICK w : sub' = [sub EXCEPT ![t] = w] /\ WritesWell(x, sub[t], w)
  BY <1>0, CommitWrites
<1>3. /\ sub'[t] = w /\ RowInv(w) /\ w.status # "none" /\ w \in Row
      /\ \A u \in Tenants : u # t => sub'[u] = sub[u]
      /\ sub' \in [Tenants -> Row]
  BY <1>0, <1>1, <1>2 DEF DataInv, TypeOK, WritesWell, RowInv
<1>4. payments' \subseteq Payment
  <2>1. payments \subseteq Payment
    BY <1>0 DEF DataInv, TypeOK
  <2>2. x.kind \in {"capture", "decline"} => x.charge \in Charges
    BY <1>0 DEF TxInv
  <2>3. ASSUME NEW c \in Charges, NEW status \in {"succeeded", "failed"}
        PROVE  [event |-> c, tenant |-> t, status |-> status] \in Payment
    BY <1>1 DEF Payment
  <2> QED
    BY <1>1, <2>1, <2>2, <2>3 DEF Record
<1>5. TypeOK'
  BY <1>0, <1>1, <1>3, <1>4 DEF DataInv, TypeOK
<1>6. ASSUME NEW u \in Tenants
      PROVE  RowInv(sub'[u]) /\ (sub[u].status # "none" => sub'[u].status # "none")
  BY <1>0, <1>3 DEF DataInv
<1>7. ASSUME NEW g \in Handlers, IsOpen(g)'
      PROVE  (TxInv(tx[g]) /\ Exists(tx[g].tenant))'
  <2>1. tx'[g] = tx[g] /\ IsOpen(g)
    BY <1>0, <1>1, <1>7, ClosedTx DEF IsOpen
  <2>2. TxInv(tx[g]) /\ Exists(tx[g].tenant)
    BY <1>0, <2>1 DEF DataInv
  <2>3. tx[g].tenant \in Tenants
    BY <2>2 DEF TxInv, Tx
  <2> QED
    BY <1>6, <2>1, <2>2, <2>3 DEF Exists
<1>8. ASSUME NEW u \in Tenants
      PROVE  /\ sub'[u].retryCount \in Nat
             /\ \/ sub'[u].retryCount = 0
                \/ sub'[u].retryCount = sub[u].retryCount
                   /\ Failed(u)' \subseteq Failed(u)
                \/ \E g \in Failed(u) :
                       /\ sub'[u].retryCount = sub[u].retryCount + 1
                       /\ Failed(u)' \subseteq Failed(u) \ {g}
  <2>1. sub'[u].retryCount \in Nat
    BY <1>3 DEF Row
  <2>2. Failed(u)' \subseteq Failed(u) \ {h}
    BY <1>0, <1>1, ClosedTx
  <2>3. CASE u # t
    BY <1>3, <2>1, <2>2, <2>3
  <2>4. CASE u = t /\ x.kind = "capture"
    BY <1>2, <1>3, <2>1, <2>4 DEF WritesWell
  <2>5. CASE u = t /\ x.kind = "decline"
    <3>1. h \in Failed(u)
      BY <1>0, <2>5 DEF Failed
    <3>2. sub'[u].retryCount = sub[u].retryCount + 1
      BY <1>2, <1>3, <2>5 DEF WritesWell
    <3> QED
      BY <2>1, <2>2, <3>1, <3>2
  <2>6. CASE u = t /\ x.kind \notin {"capture", "decline"}
    <3>1. sub'[u].retryCount = sub[u].retryCount
      BY <1>2, <1>3, <2>6 DEF WritesWell
    <3> QED
      BY <2>1, <2>2, <3>1
  <2> QED
    BY <2>3, <2>4, <2>5, <2>6
<1>9. OverrunIsBounded'
  BY <1>0, <1>8, OverrunStep DEF IInv, OverrunIsBounded
<1>10. \A u \in found' : Exists(u)'
  BY <1>0, <1>1, <1>6 DEF DataInv, TypeOK, Exists
<1> QED
  BY <1>5, <1>6, <1>7, <1>9, <1>10 DEF IInv, DataInv

LEMMA RollbackInv ==
    ASSUME IInv, NEW h \in Handlers, Rollback(h)
    PROVE  IInv'
<1>1. /\ DataInv /\ tx' = [tx EXCEPT ![h] = NoTx]
      /\ UNCHANGED <<now, sub, payments, due, found>>
  BY DEF IInv, Rollback
<1>2. TypeOK'
  BY <1>1 DEF DataInv, TypeOK
<1>a. \A g \in Handlers : IsOpen(g)' => tx'[g] = tx[g] /\ IsOpen(g)
  BY <1>1, ClosedTx DEF IsOpen
<1>3. DataInv'
  BY <1>1, <1>2, <1>a DEF DataInv, Exists
<1>4. ASSUME NEW u \in Tenants
      PROVE  /\ sub'[u].retryCount \in Nat
             /\ sub'[u].retryCount = sub[u].retryCount
             /\ Failed(u)' \subseteq Failed(u)
  BY <1>1, ClosedTx DEF DataInv, TypeOK, Row
<1>5. OverrunIsBounded'
  BY <1>1, <1>4, OverrunStep DEF IInv, OverrunIsBounded
<1> QED
  BY <1>3, <1>5 DEF IInv

LEMMA TrialInv ==
    ASSUME IInv, NEW t \in Tenants, StartTrialForNewUser(t)
    PROVE  IInv'
<1>1. /\ DataInv /\ ~Exists(t) /\ sub' = [sub EXCEPT ![t] = TrialRow(now)]
      /\ UNCHANGED <<now, payments, due, tx, found>>
  BY DEF IInv, StartTrialForNewUser
<1>2. RowInv(TrialRow(now))
  BY <1>1, TimeAssumption, TrialRowInv DEF DataInv, TypeOK
<1>3. /\ sub' \in [Tenants -> Row] /\ sub'[t] = TrialRow(now)
      /\ \A u \in Tenants : u # t => sub'[u] = sub[u]
  BY <1>1, <1>2 DEF DataInv, TypeOK, RowInv
<1>4. TrialRow(now).retryCount = 0 /\ TrialRow(now).status # "none"
  BY DEF TrialRow, NoRow
<1>5. DataInv'
  BY <1>1, <1>2, <1>3, <1>4 DEF DataInv, TypeOK, IsOpen, Exists
<1>6. ASSUME NEW u \in Tenants
      PROVE  /\ sub'[u].retryCount \in Nat
             /\ \/ sub'[u].retryCount = 0
                \/ sub'[u].retryCount = sub[u].retryCount
                   /\ Failed(u)' \subseteq Failed(u)
  BY <1>1, <1>3, <1>4 DEF DataInv, TypeOK, Row, Failed, IsOpen
<1>7. OverrunIsBounded'
  BY <1>1, <1>6, OverrunStep DEF IInv, OverrunIsBounded
<1> QED
  BY <1>5, <1>7 DEF IInv

(* What a stage does to a row it writes. *)
StageKeeps(r, w) ==
    /\ RowInv(r) => RowInv(w)
    /\ w.status = "none" <=> r.status = "none"
    /\ w.status = "active" => r.status = "active"
    /\ w.planId = r.planId
    /\ w.pendingPlanId = r.pendingPlanId
    /\ w.pendingPlanEffectiveAt = r.pendingPlanEffectiveAt
    /\ w.currentPeriodStart = r.currentPeriodStart
    /\ w.currentPeriodEnd = r.currentPeriodEnd
    /\ w.lastBillingAt = r.lastBillingAt
    /\ w.cancelAtPeriodEnd = r.cancelAtPeriodEnd
    /\ w.retryCount = r.retryCount

LEMMA StageRows ==
    ASSUME NEW r \in Row, r.status # "none", now \in Nat,
           NEW w \in {PastDueRow(r, now), SuspendedRow(r, now),
                      ExpiredRow(r, now), CancelledRow(r, now)}
    PROVE  w \in Row /\ StageKeeps(r, w)
<1>1. w \in Row
  BY PastDueRowType, SuspendedRowType, ExpiredRowType, CancelledRowType
<1> DEFINE Kept(v) ==
         /\ v.status \notin {"none", "active"}
         /\ v.planId = r.planId
         /\ v.pendingPlanId = r.pendingPlanId
         /\ v.pendingPlanEffectiveAt = r.pendingPlanEffectiveAt
         /\ v.currentPeriodStart = r.currentPeriodStart
         /\ v.currentPeriodEnd = r.currentPeriodEnd
         /\ v.lastBillingAt = r.lastBillingAt
         /\ v.cancelAtPeriodEnd = r.cancelAtPeriodEnd
         /\ v.retryCount = r.retryCount
         /\ v.pastDueAt = r.pastDueAt
         /\ v.billingCycle = r.billingCycle
         /\ v.priceSnapshot = r.priceSnapshot
         /\ v.quotaSnapshot = r.quotaSnapshot
<1>2. Kept(PastDueRow(r, now)) /\ Kept(SuspendedRow(r, now))
  BY DEF PastDueRow, SuspendedRow, Row
<1>3. Kept(ExpiredRow(r, now)) /\ Kept(CancelledRow(r, now))
  BY DEF ExpiredRow, CancelledRow, Row
<1>4. Kept(w)
  BY <1>2, <1>3
<1> QED
  BY <1>1, <1>4 DEF StageKeeps, RowInv

(* Why an active row may lose that status to a stage. *)
MayClose(r) == r.pastDueAt # Null \/ r.cancelAtPeriodEnd

LEMMA StagesKeep ==
    ASSUME IInv, LifecycleRules
    PROVE  /\ UNCHANGED <<now, payments, due, tx>>
           /\ found' \subseteq Tenants /\ \A t \in found' : Exists(t)
           /\ sub' \in [Tenants -> Row]
           /\ \A t \in Tenants :
                  /\ StageKeeps(sub[t], sub'[t])
                  /\ sub'[t] # sub[t] => MayClose(sub[t]) \/ t \in found
<1>0. /\ DataInv /\ now \in Nat /\ found \subseteq Tenants
      /\ sub \in [Tenants -> Row] /\ \A t \in found : Exists(t)
  BY TimeAssumption DEF IInv, DataInv, TypeOK
<1>1. \A r : StageKeeps(r, r)
  BY DEF StageKeeps
<1>2. ASSUME NEW f, NEW A \in SUBSET Tenants, UNCHANGED <<now, payments, due, tx, found>>,
             sub' = [t \in Tenants |-> IF t \in A THEN f[t] ELSE sub[t]],
             \A t \in A : /\ Exists(t) /\ MayClose(sub[t])
                          /\ f[t] \in {PastDueRow(sub[t], now),
                                       SuspendedRow(sub[t], now),
                                       CancelledRow(sub[t], now)}
      PROVE  /\ found' \subseteq Tenants /\ \A t \in found' : Exists(t)
             /\ sub' \in [Tenants -> Row]
             /\ \A t \in Tenants :
                  /\ StageKeeps(sub[t], sub'[t])
                  /\ sub'[t] # sub[t] => MayClose(sub[t]) \/ t \in found
  <2>1. \A t \in A : f[t] \in Row /\ StageKeeps(sub[t], f[t])
    BY <1>0, <1>2, StageRows DEF Exists
  <2> QED
    BY <1>0, <1>1, <1>2, <2>1
<1>3. CASE MovePastDueSubscriptions
  <2> DEFINE A == {t \in Tenants : IsPastDue(sub[t], now)}
             f == [t \in Tenants |-> PastDueRow(sub[t], now)]
  <2>1. /\ UNCHANGED <<now, payments, due, tx, found>>
        /\ sub' = [t \in Tenants |-> IF t \in A THEN f[t] ELSE sub[t]]
    BY <1>3 DEF MovePastDueSubscriptions, Move
  <2>2. \A t \in A : Exists(t) /\ MayClose(sub[t]) /\ f[t] = PastDueRow(sub[t], now)
    BY DEF IsPastDue, Exists, MayClose
  <2>3. A \in SUBSET Tenants
    OBVIOUS
  <2> HIDE DEF A, f
  <2> QED
    BY <1>2, <2>1, <2>2, <2>3
<1>4. CASE MoveSuspendedSubscriptions
  <2> DEFINE A == {t \in Tenants : IsToSuspend(sub[t], now)}
             f == [t \in Tenants |-> SuspendedRow(sub[t], now)]
  <2>1. /\ UNCHANGED <<now, payments, due, tx, found>>
        /\ sub' = [t \in Tenants |-> IF t \in A THEN f[t] ELSE sub[t]]
    BY <1>4 DEF MoveSuspendedSubscriptions, Move
  <2>2. \A t \in A : Exists(t) /\ MayClose(sub[t]) /\ f[t] = SuspendedRow(sub[t], now)
    BY DEF IsToSuspend, Exists, MayClose
  <2>3. A \in SUBSET Tenants
    OBVIOUS
  <2> HIDE DEF A, f
  <2> QED
    BY <1>2, <2>1, <2>2, <2>3
<1>5. CASE MoveCancelledSubscriptions
  <2> DEFINE A == {t \in Tenants : IsToCancel(sub[t], now)}
             f == [t \in Tenants |-> CancelledRow(sub[t], now)]
  <2>1. /\ UNCHANGED <<now, payments, due, tx, found>>
        /\ sub' = [t \in Tenants |-> IF t \in A THEN f[t] ELSE sub[t]]
    BY <1>5 DEF MoveCancelledSubscriptions, Move
  <2>2. \A t \in A : Exists(t) /\ MayClose(sub[t]) /\ f[t] = CancelledRow(sub[t], now)
    BY DEF IsToCancel, Exists, MayClose
  <2>3. A \in SUBSET Tenants
    OBVIOUS
  <2> HIDE DEF A, f
  <2> QED
    BY <1>2, <2>1, <2>2, <2>3
<1>6. CASE FindExpiredSubscriptions
  <2>1. /\ UNCHANGED <<now, sub, payments, due, tx>>
        /\ found' = {t \in Tenants : IsToExpire(sub[t], now)}
    BY <1>6 DEF FindExpiredSubscriptions
  <2>2. \A t \in found' : Exists(t)
    BY <2>1 DEF IsToExpire, Exists
  <2> QED
    BY <1>0, <1>1, <2>1, <2>2
<1>7. ASSUME NEW u \in Tenants, ExpireSubscription(u)
      PROVE  /\ found' \subseteq Tenants /\ \A t \in found' : Exists(t)
             /\ sub' \in [Tenants -> Row]
             /\ \A t \in Tenants :
                  /\ StageKeeps(sub[t], sub'[t])
                  /\ sub'[t] # sub[t] => MayClose(sub[t]) \/ t \in found
  <2>1. /\ u \in found /\ found' = found \ {u}
        /\ sub' = [sub EXCEPT ![u] = ExpiredRow(sub[u], now)]
    BY <1>7 DEF ExpireSubscription
  <2>2. ExpiredRow(sub[u], now) \in Row /\ StageKeeps(sub[u], ExpiredRow(sub[u], now))
    BY <1>0, <2>1, StageRows DEF Exists
  <2>3. /\ sub' \in [Tenants -> Row] /\ sub'[u] = ExpiredRow(sub[u], now)
        /\ \A t \in Tenants : t # u => sub'[t] = sub[t]
    BY <1>0, <2>1, <2>2
  <2> QED
    BY <1>0, <1>1, <2>1, <2>2, <2>3
<1>8. CASE AbortLifecycleRules
  BY <1>0, <1>1, <1>8 DEF AbortLifecycleRules
<1>9. UNCHANGED <<now, payments, due, tx>>
  BY DEF LifecycleRules, MovePastDueSubscriptions, MoveSuspendedSubscriptions,
     MoveCancelledSubscriptions, Move, FindExpiredSubscriptions,
     ExpireSubscription, AbortLifecycleRules
<1> QED
  BY <1>3, <1>4, <1>5, <1>6, <1>7, <1>8, <1>9 DEF LifecycleRules

LEMMA LifecycleInv ==
    ASSUME IInv, LifecycleRules
    PROVE  IInv'
<1>1. /\ UNCHANGED <<now, payments, due, tx>>
      /\ found' \subseteq Tenants /\ \A t \in found' : Exists(t)
      /\ sub' \in [Tenants -> Row]
      /\ \A t \in Tenants : StageKeeps(sub[t], sub'[t])
  BY StagesKeep
<1>2. \A t \in Tenants : RowInv(sub'[t]) /\ (Exists(t)' <=> Exists(t))
  BY <1>1 DEF IInv, DataInv, StageKeeps, Exists
<1>3. TypeOK'
  BY <1>1 DEF IInv, DataInv, TypeOK
<1>4. ASSUME NEW h \in Handlers, IsOpen(h)'
      PROVE  (TxInv(tx[h]) /\ Exists(tx[h].tenant))'
  <2>1. tx' = tx /\ TxInv(tx[h]) /\ Exists(tx[h].tenant)
    BY <1>1, <1>4 DEF IInv, DataInv, IsOpen
  <2>2. tx[h].tenant \in Tenants
    BY <2>1 DEF TxInv, Tx
  <2> QED
    BY <1>2, <2>1, <2>2 DEF Exists
<1>5. DataInv'
  BY <1>1, <1>2, <1>3, <1>4 DEF DataInv
<1>6. ASSUME NEW u \in Tenants
      PROVE  /\ sub'[u].retryCount \in Nat
             /\ sub'[u].retryCount = sub[u].retryCount
             /\ Failed(u)' \subseteq Failed(u)
  BY <1>1 DEF StageKeeps, Row, Failed, IsOpen
<1>7. OverrunIsBounded'
  BY <1>6, OverrunStep DEF IInv, OverrunIsBounded
<1> QED
  BY <1>5, <1>7 DEF IInv

LEMMA NextInv == IInv /\ [Next]_vars => IInv'
<1> SUFFICES ASSUME IInv, [Next]_vars PROVE IInv'
  OBVIOUS
<1>1. ASSUME UNCHANGED <<sub, payments, tx, found>>, due' \subseteq Tenants,
             now' \in 0..MaxTime
      PROVE  IInv'
  <2>1. DataInv'
    BY <1>1 DEF IInv, DataInv, TypeOK, IsOpen, Exists
  <2>2. OverrunIsBounded'
    BY <1>1 DEF IInv, OverrunIsBounded, Failed, IsOpen
  <2> QED
    BY <2>1, <2>2 DEF IInv
<1>2. CASE Tick
  BY <1>1, <1>2, TimeAssumption DEF Tick, IInv, DataInv, TypeOK
<1>3. CASE FindDueDowngrades
  BY <1>1, <1>3 DEF FindDueDowngrades, IInv, DataInv, TypeOK
<1>4. CASE UNCHANGED vars
  BY <1>1, <1>4 DEF vars, IInv, DataInv, TypeOK
<1>5. ASSUME NEW t \in Tenants, StartTrialForNewUser(t) PROVE IInv'
  BY <1>5, TrialInv
<1>6. ASSUME NEW h \in Handlers, NEW t \in Tenants, BeginSome(h, t) PROVE IInv'
  BY <1>6, BeginSomeInv
<1>7. ASSUME NEW h \in Handlers, Commit(h) PROVE IInv'
  BY <1>7, CommitInv
<1>8. ASSUME NEW h \in Handlers, Rollback(h) PROVE IInv'
  BY <1>8, RollbackInv
<1>9. CASE LifecycleRules
  BY <1>9, LifecycleInv
<1> QED
  BY <1>2, <1>3, <1>4, <1>5, <1>6, <1>7, <1>8, <1>9 DEF Next

-----------------------------------------------------------------------------
(* The theorems. *)

(* The strengthened invariant, for any number of overlapping transactions.    *)
THEOREM Invariant == Spec => []IInv
BY InitInv, NextInv, PTL DEF Spec

(* Columns keep their types although what is written was read before.         *)
THEOREM TypeCorrect == Spec => []TypeOK
<1>1. IInv => TypeOK
  BY DEF IInv, DataInv
<1> QED
  BY <1>1, Invariant, PTL

(* However many failed charges are handled at once, the retry limit is        *)
(* exceeded by at most one less than that (markPaymentFailed).                *)
THEOREM OverrunStaysBounded == Spec => []OverrunIsBounded
<1>1. IInv => OverrunIsBounded
  BY DEF IInv
<1> QED
  BY <1>1, Invariant, PTL

(* A failure is dated exactly while one is counted, in any overlap of         *)
(* captures and failures.                                                     *)
THEOREM FailuresStayDated == Spec => []FailuresDated
<1>1. IInv => FailuresDated
  BY DEF IInv, DataInv, RowInv, FailuresDated
<1> QED
  BY <1>1, Invariant, PTL

(* Price and quota snapshots are those of the plan in the row, in any overlap *)
(* of captures, downgrades and requests.                                      *)
THEOREM SnapshotsStayFresh == Spec => []SnapshotsFollowPlan
<1>1. IInv => SnapshotsFollowPlan
  BY DEF IInv, DataInv, RowInv, SnapshotsFollowPlan
<1> QED
  BY <1>1, Invariant, PTL

-----------------------------------------------------------------------------
(* The ledger.  The mapped variables, and what a step does to them. *)

opened == {t \in Tenants : Exists(t)}
counted == [t \in Tenants |-> sub[t].retryCount]
paid == [t \in Tenants |-> sub[t].currentPeriodEnd]

LEMMA LedgerInit == Init => Ledger!Init
<1> SUFFICES ASSUME Init PROVE Ledger!Init
  OBVIOUS
<1>1. \A t \in Tenants : sub[t] = NoRow
  BY DEF Init
<1>2. NoRow.status = "none" /\ NoRow.retryCount = 0 /\ NoRow.currentPeriodEnd = 0
  BY DEF NoRow
<1>3. payments = {}
  BY DEF Init
<1> QED
  BY <1>1, <1>2, <1>3 DEF Ledger!Init, Exists

(* A step that writes no row and records nothing. *)
LEMMA LedgerStutter ==
    ASSUME UNCHANGED <<sub, payments>>
    PROVE  UNCHANGED Ledger!ledger
BY DEF Ledger!ledger, Exists

(* The mapped variables after a step that writes the row of t. *)
LEMMA LedgerRow ==
    ASSUME DataInv, NEW t \in Tenants, NEW w, sub' = [sub EXCEPT ![t] = w]
    PROVE  /\ sub'[t] = w
           /\ counted' = [counted EXCEPT ![t] = w.retryCount]
           /\ paid' = [paid EXCEPT ![t] = w.currentPeriodEnd]
           /\ w.status # "none" => opened' = opened \cup {t}
<1>1. /\ sub'[t] = w
      /\ \A u \in Tenants : u # t => sub'[u] = sub[u]
  BY DEF DataInv, TypeOK
<1>2. counted' = [counted EXCEPT ![t] = w.retryCount]
  <2> DEFINE f == [u \in Tenants |-> IF u = t THEN w.retryCount
                                     ELSE sub[u].retryCount]
  <2>1. counted' = f
    BY <1>1 DEF counted
  <2>2. [counted EXCEPT ![t] = w.retryCount] = f
    BY DEF counted
  <2> QED
    BY <2>1, <2>2
<1>3. paid' = [paid EXCEPT ![t] = w.currentPeriodEnd]
  <2> DEFINE f == [u \in Tenants |-> IF u = t THEN w.currentPeriodEnd
                                     ELSE sub[u].currentPeriodEnd]
  <2>1. paid' = f
    BY <1>1 DEF paid
  <2>2. [paid EXCEPT ![t] = w.currentPeriodEnd] = f
    BY DEF paid
  <2> QED
    BY <2>1, <2>2
<1>4. w.status # "none" => opened' = opened \cup {t}
  BY <1>1 DEF opened, Exists
<1> QED
  BY <1>1, <1>2, <1>3, <1>4

LEMMA LedgerTrial ==
    ASSUME IInv, NEW t \in Tenants, StartTrialForNewUser(t)
    PROVE  Ledger!Open(t)
<1> DEFINE w == TrialRow(now)
<1>1. /\ DataInv /\ ~Exists(t) /\ sub' = [sub EXCEPT ![t] = w]
      /\ payments' = payments
  BY DEF IInv, StartTrialForNewUser
<1>2. w.retryCount = 0 /\ w.status # "none"
  BY DEF TrialRow, NoRow
<1> HIDE DEF w
<1>3. /\ counted' = [counted EXCEPT ![t] = 0]
      /\ paid' = [paid EXCEPT ![t] = w.currentPeriodEnd]
      /\ opened' = opened \cup {t}
  BY <1>1, <1>2, LedgerRow
<1>4. paid'[t] = w.currentPeriodEnd /\ t \notin opened
  BY <1>1, <1>3 DEF paid, opened
<1> QED
  BY <1>1, <1>3, <1>4 DEF Ledger!Open, opened, counted, paid

(* A commit captures or declines a charge, or leaves the ledger alone. *)
LEMMA LedgerCommit ==
    ASSUME IInv, NEW h \in Handlers, Commit(h)
    PROVE  \/ Ledger!Next
           \/ UNCHANGED Ledger!ledger
<1>0. DataInv /\ IsOpen(h) /\ TxInv(tx[h]) /\ Exists(tx[h].tenant)
  BY DEF IInv, DataInv, Commit
<1>a. PICK x : x = tx[h]
  OBVIOUS
<1>b. PICK t : t = tx[h].tenant
  OBVIOUS
<1>c. PICK c : c = tx[h].charge
  OBVIOUS
<1>1. t \in Tenants /\ x.kind \in Kinds /\ Record(x)
  BY <1>0, <1>a, <1>b, CommitWrites
<1>2. PICK w : sub' = [sub EXCEPT ![t] = w] /\ WritesWell(x, sub[t], w)
  BY <1>0, <1>a, <1>b, CommitWrites
<1>3. /\ counted' = [counted EXCEPT ![t] = w.retryCount]
      /\ paid' = [paid EXCEPT ![t] = w.currentPeriodEnd]
      /\ opened' = opened /\ t \in opened
      /\ sub'[t] = w
  <2>1. w.status # "none"
    BY <1>2 DEF WritesWell
  <2>2. t \in opened
    BY <1>0, <1>1, <1>b DEF opened
  <2>3. /\ counted' = [counted EXCEPT ![t] = w.retryCount]
        /\ paid' = [paid EXCEPT ![t] = w.currentPeriodEnd]
        /\ opened' = opened \cup {t}
        /\ sub'[t] = w
    BY <1>0, <1>1, <1>2, <2>1, LedgerRow
  <2> QED
    BY <2>2, <2>3
<1>4. counted[t] = sub[t].retryCount /\ paid[t] = sub[t].currentPeriodEnd
  BY <1>1 DEF counted, paid
<1>5. CASE x.kind = "capture"
  <2>1. c \in Charges /\ ~IsRecorded(c)
        /\ payments' = payments \cup
               {[event |-> c, tenant |-> t, status |-> "succeeded"]}
    BY <1>0, <1>1, <1>5, <1>a, <1>b, <1>c DEF Record, TxInv
  <2>2. w.retryCount = 0
    BY <1>2, <1>5 DEF WritesWell
  <2>3. paid'[t] = w.currentPeriodEnd
    BY <1>1, <1>3 DEF paid
  <2>4. Ledger!Record(t, c, "succeeded")
    BY <1>3, <2>1 DEF Ledger!Record, Ledger!IsRecorded, IsRecorded, opened
  <2>5. Ledger!Capture(t, c)
    BY <1>3, <2>2, <2>3, <2>4 DEF Ledger!Capture, counted, paid
  <2> QED
    BY <1>1, <2>1, <2>5 DEF Ledger!Next
<1>6. CASE x.kind = "decline"
  <2>1. c \in Charges /\ ~IsRecorded(c)
        /\ payments' = payments \cup
               {[event |-> c, tenant |-> t, status |-> "failed"]}
    BY <1>0, <1>1, <1>6, <1>a, <1>b, <1>c DEF Record, TxInv
  <2>2. w.retryCount = counted[t] + 1
    BY <1>2, <1>4, <1>6 DEF WritesWell
  <2>3. paid' = paid
    <3>1. w.currentPeriodEnd = paid[t]
      BY <1>2, <1>4, <1>6 DEF WritesWell
    <3> QED
      BY <1>3, <3>1 DEF paid
  <2>4. Ledger!Record(t, c, "failed")
    BY <1>3, <2>1 DEF Ledger!Record, Ledger!IsRecorded, IsRecorded, opened
  <2>5. counted[t] < RetryBound
    <3>1. h \in Failed(t)
      BY <1>0, <1>6, <1>a, <1>b DEF Failed
    <3>2. sub[t].retryCount + Cardinality(Failed(t)) <= RetryBound
      BY <1>1, <3>1 DEF IInv, OverrunIsBounded
    <3>3. Cardinality(Failed(t)) \in Nat \ {0}
      BY <1>1, <3>1, FailedAreFinite
    <3>4. /\ sub[t].retryCount \in Nat /\ MaxRetries \in Nat
          /\ Cardinality(Handlers) \in Nat \ {0}
      BY <1>0, <1>1, DaysAssumption, FailedAreFinite DEF DataInv, RowInv, Row
    <3> QED
      BY <1>4, <3>2, <3>3, <3>4 DEF RetryBound
  <2>6. Ledger!Decline(t, c)
    BY <1>3, <2>2, <2>3, <2>4, <2>5 DEF Ledger!Decline, counted, paid
  <2> QED
    BY <1>1, <2>1, <2>6 DEF Ledger!Next
<1>7. CASE x.kind \notin {"capture", "decline"}
  <2>1. payments' = payments
    BY <1>1, <1>7 DEF Record
  <2>2. w.retryCount = counted[t] /\ w.currentPeriodEnd = paid[t]
    BY <1>2, <1>4, <1>7 DEF WritesWell
  <2>3. counted' = counted /\ paid' = paid
    BY <1>3, <2>2 DEF counted, paid
  <2> QED
    BY <1>3, <2>1, <2>3 DEF Ledger!ledger, opened, counted, paid
<1> QED
  BY <1>5, <1>6, <1>7

(* A stage writes none of the columns the ledger is made of. *)
LEMMA LedgerStage ==
    ASSUME IInv, LifecycleRules
    PROVE  UNCHANGED Ledger!ledger
<1>1. /\ payments' = payments
      /\ \A t \in Tenants : StageKeeps(sub[t], sub'[t])
  BY StagesKeep
<1>2. opened' = opened /\ counted' = counted /\ paid' = paid
  BY <1>1 DEF opened, counted, paid, StageKeeps, Exists
<1> QED
  BY <1>1, <1>2 DEF Ledger!ledger, opened, counted, paid

LEMMA LedgerNext == IInv /\ [Next]_vars => [Ledger!Next]_(Ledger!ledger)
<1> SUFFICES ASSUME IInv, [Next]_vars
             PROVE  Ledger!Next \/ UNCHANGED Ledger!ledger
  OBVIOUS
<1>1. CASE Tick \/ FindDueDowngrades \/ UNCHANGED vars
  BY <1>1, LedgerStutter DEF Tick, FindDueDowngrades, vars
<1>2. ASSUME NEW t \in Tenants, StartTrialForNewUser(t)
      PROVE  Ledger!Next
  BY <1>2, LedgerTrial DEF Ledger!Next
<1>3. ASSUME NEW h \in Handlers, NEW t \in Tenants, BeginSome(h, t)
      PROVE  UNCHANGED Ledger!ledger
  BY <1>3, LedgerStutter
     DEF BeginSome, BeginUpgrade, BeginDowngrade, BeginCapture, BeginDecline,
         BeginCancel, BeginApply, Begin
<1>4. ASSUME NEW h \in Handlers, Rollback(h)
      PROVE  UNCHANGED Ledger!ledger
  BY <1>4, LedgerStutter DEF Rollback
<1>5. ASSUME NEW h \in Handlers, Commit(h)
      PROVE  Ledger!Next \/ UNCHANGED Ledger!ledger
  BY <1>5, LedgerCommit
<1> QED
  BY <1>1, <1>2, <1>3, <1>4, <1>5, LedgerStage DEF Next

(* Overlapping transactions implement PaymentLedger with the raised limit:    *)
(* every charge counts once, whatever was read before it was written.         *)
THEOREM TransactionsImplementLedger == Spec => ImplementsLedger
<1>1. Init => Ledger!Init
  BY LedgerInit
<1>2. IInv /\ [Next]_vars => [Ledger!Next]_(Ledger!ledger)
  BY LedgerNext
<1> QED
  BY <1>1, <1>2, Invariant, PTL DEF Spec, ImplementsLedger, Ledger!Spec

-----------------------------------------------------------------------------
(* Two consequences: of the ledger that is kept, and of the bound where        *)
(* transactions do not overlap.                                                *)

FailedReports(t) == {p \in payments : p.tenant = t /\ p.status = "failed"}

FailuresWereReported ==
    /\ IsFiniteSet(payments)
    /\ \A t \in Tenants : sub[t].retryCount <= Cardinality(FailedReports(t))

LEMMA FailedReportsGrow ==
    ASSUME IsFiniteSet(payments), NEW p, payments' \in {payments, payments \cup {p}},
           NEW t
    PROVE  /\ IsFiniteSet(payments')
           /\ Cardinality(FailedReports(t)) \in Nat
           /\ Cardinality(FailedReports(t)') \in Nat
           /\ Cardinality(FailedReports(t)) <= Cardinality(FailedReports(t)')
           /\ /\ payments' = payments \cup {p} /\ p \notin payments
              /\ p.tenant = t /\ p.status = "failed"
              => Cardinality(FailedReports(t)') = Cardinality(FailedReports(t)) + 1
<1> DEFINE A == FailedReports(t)
           B == FailedReports(t)'
<1>1. IsFiniteSet(payments') /\ payments \subseteq payments'
  BY FS_AddElement
<1>2. A \subseteq payments /\ B \subseteq payments' /\ A \subseteq B
  BY <1>1 DEF FailedReports
<1>3. IsFiniteSet(A) /\ IsFiniteSet(B)
  BY <1>1, <1>2, FS_Subset
<1>4. /\ payments' = payments \cup {p} /\ p \notin payments
      /\ p.tenant = t /\ p.status = "failed"
      => B = A \cup {p} /\ p \notin A
  BY DEF FailedReports
<1> HIDE DEF A, B
<1>5. /\ Cardinality(A) \in Nat /\ Cardinality(B) \in Nat
      /\ Cardinality(A) <= Cardinality(B)
  BY <1>2, <1>3, FS_Subset, FS_CardinalityType
<1>6. B = A \cup {p} /\ p \notin A => Cardinality(B) = Cardinality(A) + 1
  BY <1>3, FS_AddElement
<1> QED
  BY <1>1, <1>4, <1>5, <1>6 DEF A, B

LEMMA FailuresReportedNext ==
    ASSUME IInv, FailuresWereReported, [Next]_vars
    PROVE  FailuresWereReported'
<1>0. /\ [Ledger!Next]_(Ledger!ledger)
      /\ \A t \in Tenants : sub[t].retryCount \in Nat
  BY LedgerNext DEF IInv, DataInv, RowInv, Row
<1>p. \E p : payments' \in {payments, payments \cup {p}}
  BY <1>0 DEF Ledger!Next, Ledger!Open, Ledger!Capture, Ledger!Decline,
     Ledger!Record, Ledger!ledger
<1>f. IsFiniteSet(payments')
  BY <1>p, FailedReportsGrow DEF FailuresWereReported
<1> SUFFICES ASSUME NEW t \in Tenants
             PROVE  sub'[t].retryCount <= Cardinality(FailedReports(t)')
  BY <1>f DEF FailuresWereReported
<1>1. /\ IsFiniteSet(payments) /\ sub[t].retryCount \in Nat
      /\ sub[t].retryCount <= Cardinality(FailedReports(t))
  BY <1>0 DEF FailuresWereReported
<1>2. counted[t] = sub[t].retryCount /\ counted'[t] = sub'[t].retryCount
  BY DEF counted
<1>3. CASE UNCHANGED Ledger!ledger
  <2>1. payments' = payments /\ counted' = counted
    BY <1>3 DEF Ledger!ledger, counted
  <2> QED
    BY <1>1, <1>2, <2>1, FailedReportsGrow
<1>4. ASSUME NEW u \in Tenants, Ledger!Open(u)
      PROVE  sub'[t].retryCount <= Cardinality(FailedReports(t)')
  <2>1. counted' = [counted EXCEPT ![u] = 0]
    BY <1>4 DEF Ledger!Open, counted
  <2>2. counted'[t] \in {0, counted[t]}
    BY <2>1 DEF counted
  <2> QED
    BY <1>1, <1>2, <1>p, <2>2, FailedReportsGrow
<1>5. ASSUME NEW u \in Tenants, NEW c \in Charges, Ledger!Capture(u, c)
      PROVE  sub'[t].retryCount <= Cardinality(FailedReports(t)')
  <2>1. counted' = [counted EXCEPT ![u] = 0]
    BY <1>5 DEF Ledger!Capture, counted
  <2>2. counted'[t] \in {0, counted[t]}
    BY <2>1 DEF counted
  <2> QED
    BY <1>1, <1>2, <1>p, <2>2, FailedReportsGrow
<1>6. ASSUME NEW u \in Tenants, NEW c \in Charges, Ledger!Decline(u, c)
      PROVE  sub'[t].retryCount <= Cardinality(FailedReports(t)')
  <2>1. PICK p : p = [event |-> c, tenant |-> u, status |-> "failed"]
    OBVIOUS
  <2>2. /\ payments' = payments \cup {p} /\ p \notin payments
        /\ p.tenant = u /\ p.status = "failed"
        /\ counted' = [counted EXCEPT ![u] = counted[u] + 1]
    BY <1>6, <2>1 DEF Ledger!Decline, Ledger!Record, Ledger!IsRecorded, counted
  <2>3. counted'[t] = IF t = u THEN counted[t] + 1 ELSE counted[t]
    BY <2>2 DEF counted
  <2>4. /\ Cardinality(FailedReports(t)) \in Nat
        /\ Cardinality(FailedReports(t)') \in Nat
        /\ Cardinality(FailedReports(t)) <= Cardinality(FailedReports(t)')
        /\ t = u => Cardinality(FailedReports(t)')
                       = Cardinality(FailedReports(t)) + 1
    BY <1>1, <2>2, FailedReportsGrow
  <2> QED
    BY <1>1, <1>2, <2>3, <2>4
<1> QED
  BY <1>0, <1>3, <1>4, <1>5, <1>6 DEF Ledger!Next

(* However transactions overlap, no failure is counted that the ledger does   *)
(* not record: a counter written over by a stale transaction never exceeds    *)
(* the failed payments of its tenant (markPaymentFailed).                     *)
THEOREM CountedFailuresAreReported == Spec => []FailuresWereReported
<1>1. Init => FailuresWereReported
  <2> SUFFICES ASSUME Init, NEW t \in Tenants
               PROVE  /\ IsFiniteSet(payments)
                      /\ sub[t].retryCount <= Cardinality(FailedReports(t))
    BY FS_EmptySet DEF FailuresWereReported, Init
  <2>1. payments = {} /\ FailedReports(t) = {} /\ sub[t].retryCount = 0
    BY DEF Init, FailedReports, NoRow
  <2> QED
    BY <2>1, FS_EmptySet
<1>2. IInv /\ FailuresWereReported /\ [Next]_vars => FailuresWereReported'
  BY FailuresReportedNext
<1> QED
  BY <1>1, <1>2, Invariant, PTL DEF Spec

(* With one transaction at a time the documented limit is kept exactly, and a *)
(* failure is written only while there is room for it: what overlapping costs *)
(* is all that OverrunIsBounded adds.                                         *)
THEOREM RetryLimitKeptAlone ==
    ASSUME Cardinality(Handlers) = 1
    PROVE  Spec => [](\A t \in Tenants : sub[t].retryCount <= MaxRetries)
<1>1. MaxRetries \in Nat
  BY DaysAssumption
<1>2. RetryBound = MaxRetries
  BY <1>1 DEF RetryBound
<1>3. IInv => \A t \in Tenants : sub[t].retryCount <= MaxRetries
  BY <1>2 DEF IInv, OverrunIsBounded
<1> QED
  BY <1>3, Invariant, PTL

-----------------------------------------------------------------------------
(* What was checked at the read is remembered: whether it still holds at the  *)
(* write is a question of the row alone.  One downgrade at a time is applied, *)
(* and the loop is done with it.                                              *)

Checked(x) ==
    /\ x.kind = "upgrade" =>
           /\ PlanAvailable(x.plan, x.tenant)
           /\ MonthlyPrice[x.plan] > 0
           /\ x.seen.planId # x.plan
    /\ x.kind = "downgrade" =>
           /\ PlanAvailable(x.plan, x.tenant)
           /\ MonthlyPrice[x.plan] < MonthlyPrice[x.seen.planId]
    /\ x.kind = "cancel" => x.seen.status \in {"active", "past_due"}
    /\ x.kind = "decline" => x.seen.retryCount < MaxRetries
    /\ x.kind = "apply" => x.seen.pendingPlanId # Null

ReadsChecked ==
    \A h \in Handlers :
        IsOpen(h) =>
            /\ Checked(tx[h])
            /\ tx[h].kind = "apply" =>
                   /\ tx[h].tenant \notin due
                   /\ \A g \in Handlers :
                          IsOpen(g) /\ tx[g].kind = "apply" => g = h

(* What a Begin does: it leaves all as it is, or opens a transaction of t. *)
BeginEffect(o, t) ==
    /\ UNCHANGED <<now, sub, payments>> /\ due' \subseteq due
    /\ \/ tx' = tx
       \/ /\ ~IsOpen(o) /\ IsOpen(o)'
          /\ \A h \in Handlers \ {o} : tx'[h] = tx[h]
          /\ tx'[o].tenant = t /\ tx'[o].seen = sub[t] /\ Checked(tx'[o])
          /\ \/ tx'[o].kind # "apply" /\ due' = due
             \/ /\ tx'[o].kind = "apply"
                /\ t \in due /\ due' = due \ {t}
                /\ \A g \in Handlers : IsOpen(g) => tx[g].kind # "apply"

LEMMA BeginReads ==
    ASSUME IInv, NEW o \in Handlers, NEW t \in Tenants, BeginSome(o, t)
    PROVE  BeginEffect(o, t)
<1>1. ASSUME NEW kind \in Kinds, NEW e \in Charges \cup {Null},
             NEW p \in Plans \cup {Null}, Begin(o, kind, t, e, p),
             kind = "upgrade" =>
                 /\ PlanAvailable(p, t)
                 /\ MonthlyPrice[p] > 0
                 /\ sub[t].planId # p,
             kind = "downgrade" =>
                 /\ PlanAvailable(p, t)
                 /\ MonthlyPrice[p] < MonthlyPrice[sub[t].planId],
             kind = "cancel" => sub[t].status \in {"active", "past_due"},
             kind = "decline" => sub[t].retryCount < MaxRetries,
             kind = "apply" => sub[t].pendingPlanId # Null,
             \/ kind # "apply" /\ due' = due
             \/ /\ kind = "apply"
                /\ t \in due /\ due' = due \ {t}
                /\ \A g \in Handlers : IsOpen(g) => tx[g].kind # "apply"
      PROVE  BeginEffect(o, t)
  <2> DEFINE x == [kind |-> kind, tenant |-> t, charge |-> e, plan |-> p,
                   seen |-> sub[t]]
  <2>1. /\ x.kind = kind /\ x.tenant = t /\ x.plan = p /\ x.seen = sub[t]
        /\ tx'[o] = x /\ UNCHANGED <<now, sub, payments>> /\ ~IsOpen(o)
        /\ \A h \in Handlers \ {o} : tx'[h] = tx[h]
    BY <1>1 DEF Begin, IInv, DataInv, TypeOK
  <2>2. x \in Tx
    BY DEF Tx, IInv, DataInv, TypeOK
  <2> HIDE DEF x
  <2>3. Checked(x)
    BY <1>1, <2>1 DEF Checked
  <2>4. IsOpen(o)'
    BY <2>1, <2>2, TxIsNotNoTx DEF IsOpen
  <2> QED
    BY <1>1, <2>1, <2>3, <2>4 DEF BeginEffect
<1>2. ASSUME NEW p \in Plans, BeginUpgrade(o, t, p) \/ BeginDowngrade(o, t, p)
      PROVE  BeginEffect(o, t)
  BY <1>1, <1>2 DEF BeginUpgrade, BeginDowngrade, Kinds
<1>3. ASSUME NEW e \in Charges, BeginCapture(o, t, e) \/ BeginDecline(o, t, e)
      PROVE  BeginEffect(o, t)
  BY <1>1, <1>3 DEF BeginCapture, BeginDecline, Kinds
<1>4. CASE BeginCancel(o, t)
  BY <1>1, <1>4 DEF BeginCancel, Kinds
<1>5. CASE BeginApply(o, t)
  <2>1. CASE sub[t].pendingPlanId = Null
    BY <1>5, <2>1 DEF BeginApply, BeginEffect
  <2>2. CASE sub[t].pendingPlanId # Null
    <3>1. /\ Begin(o, "apply", t, Null, Null) /\ t \in due /\ due' = due \ {t}
          /\ \A g \in Handlers : IsOpen(g) => tx[g].kind # "apply"
      BY <1>5, <2>2 DEF BeginApply
    <3>2. "apply" \in Kinds
      BY DEF Kinds
    <3> QED
      BY <1>1, <2>2, <3>1, <3>2
  <2> QED
    BY <2>1, <2>2
<1> QED
  BY <1>2, <1>3, <1>4, <1>5 DEF BeginSome

(* A handler that is done leaves the transactions of the others. *)
LEMMA OthersStay ==
    ASSUME IInv, NEW o \in Handlers, tx' = [tx EXCEPT ![o] = NoTx]
    PROVE  /\ ~IsOpen(o)'
           /\ \A h \in Handlers \ {o} : tx'[h] = tx[h]
BY DEF IInv, DataInv, TypeOK, IsOpen

LEMMA ReadsCheckedNext == IInv /\ ReadsChecked /\ [Next]_vars => ReadsChecked'
<1> SUFFICES ASSUME IInv, ReadsChecked, [Next]_vars
             PROVE  ReadsChecked'
  OBVIOUS
<1>1. ASSUME due' \subseteq due,
             \A h \in Handlers : IsOpen(h)' => IsOpen(h) /\ tx'[h] = tx[h]
      PROVE  ReadsChecked'
  BY <1>1 DEF ReadsChecked, Checked
<1>2. CASE UNCHANGED <<tx, due>>
  BY <1>1, <1>2 DEF IsOpen
<1>3. CASE FindDueDowngrades
  BY <1>3 DEF FindDueDowngrades, ReadsChecked, Checked, IsOpen
<1>4. ASSUME NEW o \in Handlers, Commit(o) \/ Rollback(o)
      PROVE  ReadsChecked'
  <2>1. tx' = [tx EXCEPT ![o] = NoTx] /\ due' = due
    BY <1>4 DEF Commit, Rollback
  <2> QED
    BY <1>1, <2>1, OthersStay DEF IsOpen
<1>5. ASSUME NEW o \in Handlers, NEW t \in Tenants, BeginSome(o, t)
      PROVE  ReadsChecked'
  <2>1. CASE tx' = tx
    BY <1>1, <1>5, <2>1, BeginReads DEF BeginEffect, IsOpen
  <2>2. CASE tx' # tx
    <3>1. /\ due' \subseteq due /\ IsOpen(o)'
          /\ \A h \in Handlers \ {o} : tx'[h] = tx[h]
          /\ tx'[o].tenant = t /\ Checked(tx'[o])
          /\ \/ tx'[o].kind # "apply"
             \/ /\ due' = due \ {t}
                /\ \A g \in Handlers : IsOpen(g) => tx[g].kind # "apply"
      BY <1>5, <2>2, BeginReads DEF BeginEffect
    <3> QED
      BY <3>1 DEF ReadsChecked, Checked, IsOpen
  <2> QED
    BY <2>1, <2>2
<1>6. CASE LifecycleRules
  BY <1>2, <1>6, StagesKeep
<1> QED
  BY <1>2, <1>3, <1>4, <1>5, <1>6
     DEF Next, Tick, StartTrialForNewUser, vars

(* The rows both modules write are the same. *)
LEMMA SameRows ==
    ASSUME NEW r, NEW s, NEW p, NEW c, NEW a, NEW d, NEW t
    PROVE  /\ Service!NoRow = NoRow
           /\ Service!TrialRow(d) = TrialRow(d)
           /\ Service!PendingRow(r, p, s, d) = PendingRow(r, p, s, d)
           /\ Service!DowngradedRow(r, d) = DowngradedRow(r, d)
           /\ Service!CancelRequestedRow(r, d) = CancelRequestedRow(r, d)
           /\ Service!ActivatedRow(r, c, a, d) = ActivatedRow(r, c, a, d)
           /\ Service!PaymentFailedRow(r, d) = PaymentFailedRow(r, d)
           /\ Service!PlanAvailable(p, t) <=> PlanAvailable(p, t)
           /\ Service!IsDowngradeDue(r, d) <=> IsDowngradeDue(r, d)
<1>1. \A q, y : Service!SubscriptionPriceAmount(q, y) = SubscriptionPriceAmount(q, y)
  BY DEF Service!SubscriptionPriceAmount, SubscriptionPriceAmount
<1>2. Service!NoRow = NoRow
  BY DEF Service!NoRow, NoRow
<1>3. Service!TrialRow(d) = TrialRow(d)
  BY <1>1, <1>2 DEF Service!TrialRow, TrialRow
<1>4. Service!PendingRow(r, p, s, d) = PendingRow(r, p, s, d)
  BY DEF Service!PendingRow, PendingRow
<1>5. Service!DowngradedRow(r, d) = DowngradedRow(r, d)
  BY <1>1 DEF Service!DowngradedRow, DowngradedRow
<1>6. Service!CancelRequestedRow(r, d) = CancelRequestedRow(r, d)
  BY DEF Service!CancelRequestedRow, CancelRequestedRow
<1>7. Service!ActivatedRow(r, c, a, d) = ActivatedRow(r, c, a, d)
  BY Zenon DEF Service!ActivatedRow, ActivatedRow, Service!ActivePlanId, ActivePlanId,
     Service!PeriodDays, PeriodDays, Service!SubscriptionPriceAmount,
     SubscriptionPriceAmount
<1>8. Service!PaymentFailedRow(r, d) = PaymentFailedRow(r, d)
  BY DEF Service!PaymentFailedRow, PaymentFailedRow
<1>9. /\ Service!PlanAvailable(p, t) <=> PlanAvailable(p, t)
      /\ Service!IsDowngradeDue(r, d) <=> IsDowngradeDue(r, d)
  BY DEF Service!PlanAvailable, PlanAvailable, Service!IsDowngradeDue, IsDowngradeDue
<1> QED
  BY <1>2, <1>3, <1>4, <1>5, <1>6, <1>7, <1>8, <1>9

ServiceDue == due \cup Applying

LEMMA ApplyingOne ==
    ASSUME ReadsChecked, NEW o \in Handlers, IsOpen(o), tx[o].kind = "apply",
           tx[o].tenant \in Tenants
    PROVE  Applying = {tx[o].tenant} /\ tx[o].tenant \notin due
BY DEF ReadsChecked, Applying

LEMMA ApplyingKept ==
    ASSUME NEW o \in Handlers, \A h \in Handlers \ {o} : tx'[h] = tx[h],
           IsOpen(o) => tx[o].kind # "apply", IsOpen(o)' => tx'[o].kind # "apply"
    PROVE  Applying' = Applying
BY DEF Applying, IsOpen

LEMMA ApplyingEnds ==
    ASSUME ReadsChecked, NEW o \in Handlers, IsOpen(o), tx[o].kind = "apply",
           \A h \in Handlers \ {o} : tx'[h] = tx[h], ~IsOpen(o)'
    PROVE  Applying' = {}
BY DEF ReadsChecked, Applying, IsOpen

LEMMA ServiceRests ==
    ASSUME UNCHANGED <<now, sub, payments>>, ServiceDue' = ServiceDue
    PROVE  UNCHANGED Service!vars
BY DEF Service!vars, ServiceDue

LEMMA ApplyIsAStep ==
    ASSUME NEW t \in ServiceDue, t \in Tenants,
           ServiceDue' = ServiceDue \ {t}, UNCHANGED <<now, payments>>,
           \/ sub' = sub
           \/ /\ sub[t].pendingPlanId # Null
              /\ sub' = [sub EXCEPT ![t] = DowngradedRow(sub[t], now)]
    PROVE  Service!Next
<1>1. CASE sub' = sub
  BY <1>1 DEF Service!SkipDowngrade, Service!DowngradeJob, Service!Next,
     Service!rows, Service!lifecycle, ServiceDue
<1>2. CASE /\ sub[t].pendingPlanId # Null
           /\ sub' = [sub EXCEPT ![t] = DowngradedRow(sub[t], now)]
  <2>1. Service!DowngradedRow(sub[t], now) = DowngradedRow(sub[t], now)
    BY SameRows
  <2>2. Service!ApplyScheduledDowngrade(t)
    BY <1>2, <2>1 DEF Service!ApplyScheduledDowngrade, Service!lifecycle, ServiceDue
  <2> QED
    BY <2>2 DEF Service!DowngradeJob, Service!Next
<1> QED
  BY <1>1, <1>2

(* What a commit writes is what the method of Subscriptions writes. *)
LEMMA CommitIsAStep ==
    ASSUME IInv, ReadsChecked, NEW o \in Handlers, ReadIsCurrent(o), Commit(o)
    PROVE  Service!Next
<1>1. PICK x, t : x = tx[o] /\ t = x.tenant
  OBVIOUS
<1>2. /\ IsOpen(o) /\ TxInv(x) /\ Exists(t) /\ t \in Tenants /\ x.kind \in Kinds
      /\ x.seen = sub[t] /\ Checked(x)
  BY <1>1 DEF IInv, DataInv, Commit, TxInv, Tx, ReadsChecked, ReadIsCurrent
<1>3. /\ Record(x) /\ UNCHANGED <<now, due>>
      /\ tx' = [tx EXCEPT ![o] = NoTx]
      /\ \E a \in Agreements : sub' = [sub EXCEPT ![t] = Written(x, sub[t], a)]
  BY <1>1 DEF Commit
<1>4. /\ x.kind # "apply" => ServiceDue' = ServiceDue
      /\ x.kind = "apply" => t \in ServiceDue /\ ServiceDue' = ServiceDue \ {t}
  <2>1. ~IsOpen(o)' /\ \A h \in Handlers \ {o} : tx'[h] = tx[h]
    BY <1>3, OthersStay
  <2>2. x.kind # "apply" => Applying' = Applying
    BY <1>1, <2>1, ApplyingKept
  <2>3. x.kind = "apply" => Applying = {t} /\ t \notin due /\ Applying' = {}
    BY <1>1, <1>2, <2>1, ApplyingOne, ApplyingEnds
  <2> QED
    BY <1>3, <2>2, <2>3 DEF ServiceDue
<1>a. /\ x.kind # "apply" => UNCHANGED <<now, Service!lifecycle, due \cup Applying>>
      /\ Service!Exists(t)
  BY <1>2, <1>3, <1>4 DEF Service!Exists, Exists, Service!lifecycle, ServiceDue
<1>5. CASE x.kind = "capture"
  <2>1. PICK e \in Charges : e = x.charge
    BY <1>2, <1>5 DEF TxInv
  <2>2. PICK a \in Agreements :
            sub' = [sub EXCEPT ![t] = ActivatedRow(sub[t], sub[t].billingCycle, a, now)]
    BY <1>2, <1>3, <1>5 DEF Written, CapturedRow
  <2>3. /\ ~IsRecorded(e)
        /\ payments' = payments \cup
               {[event |-> e, tenant |-> t, status |-> "succeeded"]}
    BY <1>1, <1>3, <1>5, <2>1 DEF Record
  <2>4. Service!ActivateAfterSuccessfulPayment(t, e, sub[t].billingCycle, a)
    <3>1. Service!ActivatedRow(sub[t], sub[t].billingCycle, a, now)
              = ActivatedRow(sub[t], sub[t].billingCycle, a, now)
      BY SameRows
    <3>2. ~Service!IsRecorded(e)
      BY <2>3 DEF Service!IsRecorded, IsRecorded
    <3> QED
      BY <1>5, <1>a, <2>2, <2>3, <3>1, <3>2
         DEF Service!ActivateAfterSuccessfulPayment
  <2> QED
    BY <1>2, <2>4 DEF Service!PaymentReport, Service!Next
<1>6. CASE x.kind = "decline"
  <2>1. PICK e \in Charges : e = x.charge
    BY <1>2, <1>6 DEF TxInv
  <2>2. sub' = [sub EXCEPT ![t] = PaymentFailedRow(sub[t], now)]
    BY <1>3, <1>6 DEF Written, DeclinedRow
  <2>3. /\ ~IsRecorded(e)
        /\ payments' = payments \cup
               {[event |-> e, tenant |-> t, status |-> "failed"]}
    BY <1>1, <1>3, <1>6, <2>1 DEF Record
  <2>4. sub[t].retryCount < MaxRetries
    BY <1>2, <1>6 DEF Checked
  <2>5. Service!MarkPaymentFailed(t, e)
    <3>1. Service!PaymentFailedRow(sub[t], now) = PaymentFailedRow(sub[t], now)
      BY SameRows
    <3>2. ~Service!IsRecorded(e)
      BY <2>3 DEF Service!IsRecorded, IsRecorded
    <3> QED
      BY <1>6, <1>a, <2>2, <2>3, <2>4, <3>1, <3>2 DEF Service!MarkPaymentFailed
  <2> QED
    BY <1>2, <2>5 DEF Service!PaymentReport, Service!Next
<1>7. ASSUME x.kind \notin {"capture", "decline"} PROVE payments' = payments
  BY <1>3, <1>7 DEF Record
<1>8. CASE x.kind = "upgrade"
  <2>1. PICK p \in Plans : p = x.plan
    BY <1>2, <1>8 DEF TxInv
  <2>2. sub' = [sub EXCEPT ![t] = PendingRow(sub[t], p, now, now)]
    BY <1>3, <1>8, <2>1 DEF Written
  <2>3. PlanAvailable(p, t) /\ MonthlyPrice[p] > 0 /\ sub[t].planId # p
    BY <1>1, <1>2, <1>8, <2>1 DEF Checked
  <2>4. Service!RequestUpgradeToPaidPlan(t, p, "monthly")
    <3>1. /\ Service!PendingRow(sub[t], p, now, now) = PendingRow(sub[t], p, now, now)
          /\ Service!PlanAvailable(p, t)
      BY <2>3, SameRows
    <3> QED
      BY <1>7, <1>8, <1>a, <2>2, <2>3, <3>1 DEF Service!RequestUpgradeToPaidPlan
  <2>5. "monthly" \in Service!Cycles
    BY DEF Service!Cycles
  <2> QED
    BY <1>2, <2>4, <2>5 DEF Service!TenantRequest, Service!Next
<1>9. CASE x.kind = "downgrade"
  <2>1. PICK p \in Plans : p = x.plan
    BY <1>2, <1>9 DEF TxInv
  <2>2. sub' = [sub EXCEPT ![t] = PendingRow(sub[t], p, sub[t].currentPeriodEnd, now)]
    BY <1>2, <1>3, <1>9, <2>1 DEF Written
  <2>3. PlanAvailable(p, t) /\ MonthlyPrice[p] < MonthlyPrice[sub[t].planId]
    BY <1>1, <1>2, <1>9, <2>1 DEF Checked
  <2>4. Service!ScheduleDowngrade(t, p)
    <3>1. /\ Service!PendingRow(sub[t], p, sub[t].currentPeriodEnd, now)
                 = PendingRow(sub[t], p, sub[t].currentPeriodEnd, now)
          /\ Service!PlanAvailable(p, t)
      BY <2>3, SameRows
    <3> QED
      BY <1>7, <1>9, <1>a, <2>2, <2>3, <3>1 DEF Service!ScheduleDowngrade
  <2> QED
    BY <1>2, <2>4 DEF Service!TenantRequest, Service!Next
<1>10. CASE x.kind = "cancel"
  <2>1. sub' = [sub EXCEPT ![t] = CancelRequestedRow(sub[t], now)]
    BY <1>3, <1>10 DEF Written
  <2>2. sub[t].status \in {"active", "past_due"}
    BY <1>2, <1>10 DEF Checked
  <2>3. Service!CancelSubscription(t)
    <3>1. Service!CancelRequestedRow(sub[t], now) = CancelRequestedRow(sub[t], now)
      BY SameRows
    <3>2. Tenants \X {"cancelled"} = Tenants \X {"cancelled"} \cup {<<t, "cancelled">>}
      BY <1>2
    <3> QED
      BY <1>7, <1>10, <1>a, <2>1, <2>2, <3>1, <3>2 DEF Service!CancelSubscription
  <2> QED
    BY <1>2, <2>3 DEF Service!TenantRequest, Service!Next
<1>11. CASE x.kind = "apply"
  <2>1. sub[t].pendingPlanId # Null
    BY <1>2, <1>11 DEF Checked
  <2>2. sub' = [sub EXCEPT ![t] = DowngradedRow(sub[t], now)]
    BY <1>2, <1>3, <1>11 DEF Written, AppliedRow, DowngradedRow
  <2> QED
    BY <1>2, <1>3, <1>4, <1>7, <1>11, <2>1, <2>2, ApplyIsAStep
<1> QED
  BY <1>2, <1>5, <1>6, <1>8, <1>9, <1>10, <1>11 DEF Kinds

(* A read leaves Subscriptions where it is, but for a downgrade that turns    *)
(* out to have nothing to apply.                                              *)
LEMMA BeginIsAStep ==
    ASSUME IInv, NEW o \in Handlers, NEW t \in Tenants, BeginSome(o, t)
    PROVE  Service!Next \/ UNCHANGED Service!vars
<1>1. UNCHANGED <<now, sub, payments>>
  BY BeginReads DEF BeginEffect
<1>2. CASE tx' = tx
  <2>1. CASE BeginApply(o, t)
    <3>1. t \in due /\ due' = due \ {t} /\ Applying = {} /\ Applying' = {}
      BY <1>2, <2>1 DEF BeginApply, Applying, IsOpen
    <3> QED
      BY <1>1, <3>1, ApplyIsAStep DEF ServiceDue
  <2>2. CASE ~BeginApply(o, t)
    <3>1. due' = due /\ Applying' = Applying
      BY <1>2, <2>2 DEF BeginSome, BeginUpgrade, BeginDowngrade, BeginCapture,
         BeginDecline, BeginCancel, Applying, IsOpen
    <3> QED
      BY <1>1, <3>1, ServiceRests DEF ServiceDue
  <2> QED
    BY <2>1, <2>2
<1>3. CASE tx' # tx
  <2>1. /\ ~IsOpen(o) /\ IsOpen(o)' /\ tx'[o].tenant = t
        /\ \A h \in Handlers \ {o} : tx'[h] = tx[h]
        /\ \/ tx'[o].kind # "apply" /\ due' = due
           \/ /\ tx'[o].kind = "apply"
              /\ t \in due /\ due' = due \ {t}
              /\ \A g \in Handlers : IsOpen(g) => tx[g].kind # "apply"
    BY <1>3, BeginReads DEF BeginEffect
  <2>2. CASE tx'[o].kind # "apply"
    BY <1>1, <2>1, <2>2, ApplyingKept, ServiceRests DEF ServiceDue
  <2>3. CASE tx'[o].kind = "apply"
    <3>1. Applying = {} /\ Applying' = {t}
      BY <2>1, <2>3 DEF Applying, IsOpen
    <3> QED
      BY <1>1, <2>1, <2>3, <3>1, ServiceRests DEF ServiceDue
  <2> QED
    BY <2>2, <2>3
<1> QED
  BY <1>2, <1>3

LEMMA RollbackIsAStep ==
    ASSUME IInv, ReadsChecked, NEW o \in Handlers, Rollback(o)
    PROVE  Service!Next \/ UNCHANGED Service!vars
<1>1. /\ UNCHANGED <<now, sub, payments, due>> /\ IsOpen(o) /\ ~IsOpen(o)'
      /\ \A h \in Handlers \ {o} : tx'[h] = tx[h]
  BY OthersStay DEF Rollback
<1>2. CASE tx[o].kind # "apply"
  BY <1>1, <1>2, ApplyingKept, ServiceRests DEF ServiceDue
<1>3. CASE tx[o].kind = "apply"
  <2>1. PICK t \in Tenants : t = tx[o].tenant
    BY <1>1 DEF IInv, DataInv, TxInv, Tx
  <2>2. Applying = {t} /\ t \notin due /\ Applying' = {}
    BY <1>1, <1>3, <2>1, ApplyingOne, ApplyingEnds
  <2> QED
    BY <1>1, <2>2, ApplyIsAStep DEF ServiceDue
<1> QED
  BY <1>2, <1>3

LEMMA ServiceStep ==
    ASSUME IInv, ReadsChecked, [Next]_vars, ~LifecycleRules,
           \A h \in Handlers : Commit(h) => ReadIsCurrent(h)
    PROVE  [Service!Next]_(Service!vars)
<1>1. CASE UNCHANGED vars
  <2>1. UNCHANGED <<now, sub, payments, due, Applying>>
    BY <1>1 DEF vars, Applying, IsOpen
  <2> QED
    BY <2>1, ServiceRests DEF ServiceDue
<1>2. CASE Tick
  <2>1. UNCHANGED <<sub, payments, due, Applying>> /\ now < MaxTime /\ now' = now + 1
    BY <1>2 DEF Tick, Applying, IsOpen
  <2>2. Service!Tick
    BY <2>1 DEF Service!Tick, Service!rows, Service!lifecycle
  <2> QED
    BY <2>2 DEF Service!Next
<1>3. CASE FindDueDowngrades
  <2>1. /\ UNCHANGED <<now, sub, payments>> /\ due = {}
        /\ due' = {t \in Tenants : IsDowngradeDue(sub[t], now)}
        /\ Applying = {} /\ Applying' = {}
    BY <1>3 DEF FindDueDowngrades, Applying, IsOpen
  <2>2. {t \in Tenants : Service!IsDowngradeDue(sub[t], now)} = due'
    BY <2>1, SameRows
  <2>3. Service!FindDueDowngrades
    BY <2>1, <2>2 DEF Service!FindDueDowngrades, Service!rows, Service!lifecycle
  <2> QED
    BY <2>3 DEF Service!DowngradeJob, Service!Next
<1>4. ASSUME NEW t \in Tenants, StartTrialForNewUser(t) PROVE Service!Next
  <2>1. /\ ~Service!Exists(t) /\ Service!TrialRow(now) = TrialRow(now)
        /\ sub' = [sub EXCEPT ![t] = TrialRow(now)]
        /\ UNCHANGED <<now, payments, due, Applying>>
    BY <1>4, SameRows DEF StartTrialForNewUser, Service!Exists, Exists, Applying, IsOpen
  <2>2. Service!StartTrialForNewUser(t)
    BY <2>1 DEF Service!StartTrialForNewUser, Service!lifecycle
  <2> QED
    BY <2>2 DEF Service!TenantRequest, Service!Next
<1> QED
  BY <1>1, <1>2, <1>3, <1>4, BeginIsAStep, CommitIsAStep, RollbackIsAStep DEF Next

(* However many transactions overlap: one that commits over the row it read   *)
(* is a step of Subscriptions, and so is all but the stages.  Taking a method *)
(* there as one action is right up to writes that follow a stale read.        *)
THEOREM OnlyStaleReadsMatter == Spec => OnlyStaleReadsDiffer
<1>1. Init => ReadsChecked
  BY DEF Init, ReadsChecked, IsOpen
<1>2. IInv /\ ReadsChecked /\ [Next]_vars =>
          [\/ \E h \in Handlers : Commit(h) /\ ~ReadIsCurrent(h)
           \/ LifecycleRules
           \/ Service!Next]_(Service!vars)
  BY ServiceStep
<1> QED
  BY <1>1, <1>2, ReadsCheckedNext, Invariant, PTL DEF Spec, OnlyStaleReadsDiffer

-----------------------------------------------------------------------------
(* What survives any overlap.  A commit writes some columns and leaves the    *)
(* rest of the row as it is by then: WritesOnly says which, and where the     *)
(* plans it writes come from.                                                 *)

OwnPlan(p, t) == Owner[p] \in {Null, t}

PlanInv(r, t) ==
    /\ OwnPlan(r.planId, t)
    /\ r.pendingPlanId # Null => OwnPlan(r.pendingPlanId, t)
    /\ r.pendingPlanId = Null <=> r.pendingPlanEffectiveAt = Null

WritesOnly(x, r, w) ==
    /\ IF x.kind = "capture"
       THEN /\ w.lastBillingAt = now /\ w.currentPeriodStart = now
            /\ w.currentPeriodEnd = now + MonthDays
       ELSE /\ w.lastBillingAt = r.lastBillingAt
            /\ w.currentPeriodStart = r.currentPeriodStart
            /\ w.currentPeriodEnd = r.currentPeriodEnd
            /\ r.cancelAtPeriodEnd => w.cancelAtPeriodEnd
    /\ w.status = IF x.kind \in {"capture", "decline"} THEN "active" ELSE r.status
    /\ x.kind # "capture" => w.retryCount \in {r.retryCount, r.retryCount + 1}

LEMMA WrittenOnly ==
    ASSUME NEW r, RowInv(r), NEW x, TxInv(x), NEW a \in Agreements
    PROVE  WritesOnly(x, r, Written(x, r, a))
<1>0. r \in Row /\ x.seen \in Row /\ x.kind \in Kinds /\ x.seen.billingCycle = "monthly"
  BY DEF RowInv, TxInv, Tx
<1> USE <1>0 DEF WritesOnly, Written
<1>1. CASE x.kind = "capture"
  BY <1>1 DEF CapturedRow, ActivatedRow, PeriodDays, Row
<1>2. CASE x.kind = "decline"
  BY <1>2 DEF DeclinedRow, PaymentFailedRow, Row
<1>3. CASE x.kind = "upgrade"
  BY <1>3 DEF PendingRow, Row
<1>4. CASE x.kind = "downgrade"
  BY <1>4 DEF PendingRow, Row
<1>5. CASE x.kind = "apply"
  BY <1>5 DEF AppliedRow, Row
<1>6. CASE x.kind = "cancel"
  BY <1>6 DEF CancelRequestedRow, Row
<1> QED
  BY <1>1, <1>2, <1>3, <1>4, <1>5, <1>6 DEF Kinds

(* Every plan that is written was checked by this transaction or stands in    *)
(* one of the two rows.                                                       *)
LEMMA WrittenPlans ==
    ASSUME NEW t \in Tenants, NEW r, RowInv(r), PlanInv(r, t), now \in Nat,
           NEW x, TxInv(x), x.tenant = t, Checked(x), PlanInv(x.seen, t),
           NEW a \in Agreements
    PROVE  PlanInv(Written(x, r, a), t)
<1>0. /\ r \in Row /\ x.seen \in Row /\ x.kind \in Kinds
      /\ x.seen.currentPeriodEnd \in Nat
  BY DEF RowInv, TxInv, Tx, Row, Date
<1>1. now # Null /\ x.seen.currentPeriodEnd # Null
  BY <1>0, NullIsNoDate
<1>2. x.kind \in {"upgrade", "downgrade"} =>
          x.plan # Null /\ OwnPlan(x.plan, t)
  BY NullAssumption DEF Checked, TxInv, PlanAvailable, OwnPlan
<1>3. CASE x.kind = "capture"
  <2>1. OwnPlan(ActivePlanId(x.seen), t)
    BY DEF PlanInv, ActivePlanId
  <2> QED
    BY <1>0, <1>3, <2>1 DEF Written, CapturedRow, ActivatedRow, PlanInv, Row
<1>4. CASE x.kind = "decline"
  BY <1>0, <1>4 DEF Written, DeclinedRow, PaymentFailedRow, PlanInv, Row
<1>5. CASE x.kind = "upgrade"
  BY <1>0, <1>1, <1>2, <1>5 DEF Written, PendingRow, PlanInv, Row
<1>6. CASE x.kind = "downgrade"
  BY <1>0, <1>1, <1>2, <1>6 DEF Written, PendingRow, PlanInv, Row
<1>7. CASE x.kind = "apply"
  BY <1>0, <1>7 DEF Written, AppliedRow, PlanInv, Checked, Row
<1>8. CASE x.kind = "cancel"
  BY <1>0, <1>8 DEF Written, CancelRequestedRow, PlanInv, Row
<1> QED
  BY <1>0, <1>3, <1>4, <1>5, <1>6, <1>7, <1>8 DEF Kinds

(* What a step does to the rows: none changes, a tenant gets the first one,   *)
(* one transaction writes its own, or a stage some of them.                    *)
LEMMA RowsChange ==
    ASSUME IInv, [Next]_vars
    PROVE  \/ UNCHANGED <<sub, payments>>
           \/ \E t \in Tenants :
                  /\ ~Exists(t) /\ UNCHANGED payments
                  /\ sub' = [sub EXCEPT ![t] = TrialRow(now)]
           \/ \E h \in Handlers : Commit(h)
           \/ LifecycleRules
BY DEF Next, Tick, FindDueDowngrades, StartTrialForNewUser, BeginSome,
   BeginUpgrade, BeginDowngrade, BeginCancel, BeginCapture, BeginDecline,
   BeginApply, Begin, Rollback, vars

LEMMA CommitWritesOnly ==
    ASSUME IInv, NEW h \in Handlers, Commit(h)
    PROVE  /\ tx[h].tenant \in Tenants /\ Exists(tx[h].tenant)
           /\ TxInv(tx[h]) /\ Record(tx[h]) /\ UNCHANGED now
           /\ \E a \in Agreements :
                  sub' = [sub EXCEPT ![tx[h].tenant] =
                              Written(tx[h], sub[tx[h].tenant], a)]
           /\ WritesOnly(tx[h], sub[tx[h].tenant], sub'[tx[h].tenant])
           /\ \A u \in Tenants : u # tx[h].tenant => sub'[u] = sub[u]
<1> DEFINE x == tx[h]
           t == tx[h].tenant
<1>1. TxInv(x) /\ Exists(t) /\ t \in Tenants
  BY DEF IInv, DataInv, Commit, TxInv, Tx
<1>2. PICK a \in Agreements : sub' = [sub EXCEPT ![t] = Written(x, sub[t], a)]
  BY DEF Commit
<1>3. /\ sub'[t] = Written(x, sub[t], a)
      /\ \A u \in Tenants : u # t => sub'[u] = sub[u]
  BY <1>1, <1>2 DEF IInv, DataInv, TypeOK
<1>4. WritesOnly(x, sub[t], sub'[t])
  BY <1>1, <1>3, WrittenOnly DEF IInv, DataInv
<1> QED
  BY <1>1, <1>2, <1>3, <1>4 DEF Commit

(* A commit that records a report adds it to the payments. *)
LEMMA CommitReports ==
    ASSUME NEW x, Record(x)
    PROVE  /\ x.kind = "capture" => Reported(x.tenant, "succeeded")
           /\ x.kind = "decline" => Reported(x.tenant, "failed")
           /\ \A p \in payments' :
                  p \in payments \/ /\ p.tenant = x.tenant
                                    /\ p.status = "succeeded" <=> x.kind = "capture"
           /\ payments \subseteq payments'
<1>1. CASE x.kind \in {"capture", "decline"}
  <2> DEFINE p == [event |-> x.charge, tenant |-> x.tenant,
                   status |-> IF x.kind = "capture" THEN "succeeded" ELSE "failed"]
  <2>1. payments' = payments \cup {p} /\ ~IsRecorded(x.charge)
    BY <1>1 DEF Record
  <2>2. /\ p.event = x.charge /\ p.tenant = x.tenant
        /\ p.status = IF x.kind = "capture" THEN "succeeded" ELSE "failed"
    OBVIOUS
  <2> HIDE DEF p
  <2>3. p \in payments' \ payments
    BY <2>1, <2>2 DEF IsRecorded
  <2> QED
    BY <1>1, <2>1, <2>2, <2>3 DEF Reported
<1>2. CASE x.kind \notin {"capture", "decline"}
  BY <1>2 DEF Record
<1> QED
  BY <1>1, <1>2

(* No transaction and no stage undoes what another has committed by writing   *)
(* back what it read before: only a recorded report does, and but for the     *)
(* expiry of a row read before no stage closes an active row that owes        *)
(* nothing (any number of handlers; moveExpiredSubscriptions).                *)
THEOREM NothingUndoneButByReports == Spec => UndoneOnlyByReports
<1>1. IInv /\ [Next]_vars => [UndoneStep]_vars
  <2> SUFFICES ASSUME IInv, [Next]_vars PROVE UndoneStep
    OBVIOUS
  <2>1. \A t \in Tenants : sub[t] \in Row
    BY DEF IInv, DataInv, TypeOK
  <2>2. CASE UNCHANGED <<sub, payments>>
    BY <2>1, <2>2 DEF UndoneStep, Row
  <2>3. ASSUME NEW u \in Tenants, ~Exists(u),
               sub' = [sub EXCEPT ![u] = TrialRow(now)]
        PROVE  UndoneStep
    <3>1. \A t \in Tenants : Exists(t) => sub'[t] = sub[t]
      BY <2>3 DEF IInv, DataInv, TypeOK
    <3> QED
      BY <2>1, <3>1 DEF UndoneStep, Row
  <2>4. ASSUME NEW h \in Handlers, Commit(h) PROVE UndoneStep
    <3> DEFINE x == tx[h]
               t == tx[h].tenant
    <3>1. /\ t \in Tenants /\ WritesOnly(x, sub[t], sub'[t]) /\ Record(x)
          /\ \A u \in Tenants : u # t => sub'[u] = sub[u]
      BY <2>4, CommitWritesOnly
    <3>2. /\ x.kind = "capture" => Reported(t, "succeeded")
          /\ x.kind = "decline" => Reported(t, "failed")
      BY <3>1, CommitReports
    <3>3. sub[t].retryCount \in Nat
      BY <2>1, <3>1 DEF Row
    <3> QED
      BY <2>1, <3>1, <3>2, <3>3 DEF UndoneStep, WritesOnly, Row
  <2>5. CASE LifecycleRules
    <3>1. \A t \in Tenants :
              /\ StageKeeps(sub[t], sub'[t])
              /\ sub'[t] # sub[t] => MayClose(sub[t]) \/ t \in found
      BY <2>5, StagesKeep
    <3>2. \A t \in Tenants : sub[t].retryCount \in Nat
      BY <2>1 DEF Row
    <3> QED
      BY <3>1, <3>2 DEF UndoneStep, StageKeeps, MayClose
  <2> QED
    BY <2>2, <2>3, <2>4, <2>5, RowsChange
<1> QED
  BY <1>1, Invariant, PTL DEF Spec, UndoneOnlyByReports

OwnRows ==
    /\ \A t \in Tenants : PlanInv(sub[t], t)
    /\ \A h \in Handlers : IsOpen(h) => PlanInv(tx[h].seen, tx[h].tenant)

LEMMA FirstRowsOwn ==
    ASSUME NEW t \in Tenants, now \in Nat
    PROVE  PlanInv(NoRow, t) /\ PlanInv(TrialRow(now), t)
BY PlansAssumption DEF PlanInv, OwnPlan, NoRow, TrialRow

LEMMA OwnRowsNext ==
    IInv /\ ReadsChecked /\ OwnRows /\ [Next]_vars => OwnRows'
<1> SUFFICES ASSUME IInv, ReadsChecked, OwnRows, [Next]_vars
             PROVE  OwnRows'
  OBVIOUS
<1>0. now \in Nat /\ sub \in [Tenants -> Row]
  BY TimeAssumption DEF IInv, DataInv, TypeOK
<1>1. ASSUME NEW u \in Tenants PROVE PlanInv(sub'[u], u)
  <2>1. CASE UNCHANGED <<sub, payments>>
    BY <2>1 DEF OwnRows
  <2>2. ASSUME NEW t \in Tenants, sub' = [sub EXCEPT ![t] = TrialRow(now)]
        PROVE  PlanInv(sub'[u], u)
    BY <1>0, <2>2, FirstRowsOwn DEF OwnRows
  <2>3. ASSUME NEW h \in Handlers, Commit(h) PROVE PlanInv(sub'[u], u)
    <3> DEFINE x == tx[h]
               t == tx[h].tenant
    <3>1. /\ t \in Tenants /\ TxInv(x) /\ IsOpen(h)
          /\ \A v \in Tenants : v # t => sub'[v] = sub[v]
      BY <2>3, CommitWritesOnly DEF Commit
    <3>2. PICK a \in Agreements :
              sub' = [sub EXCEPT ![t] = Written(x, sub[t], a)]
      BY <2>3, CommitWritesOnly
    <3>3. RowInv(sub[t]) /\ PlanInv(sub[t], t) /\ PlanInv(x.seen, t) /\ Checked(x)
      BY <3>1 DEF IInv, DataInv, OwnRows, ReadsChecked
    <3>4. PlanInv(Written(x, sub[t], a), t)
      BY <1>0, <3>1, <3>3, WrittenPlans
    <3> QED
      BY <1>0, <3>1, <3>2, <3>4 DEF OwnRows
  <2>4. CASE LifecycleRules
    BY <2>4, StagesKeep DEF OwnRows, StageKeeps, PlanInv
  <2> QED
    BY <2>1, <2>2, <2>3, <2>4, RowsChange
<1>2. ASSUME \A h \in Handlers : IsOpen(h)' => IsOpen(h) /\ tx'[h] = tx[h]
      PROVE  OwnRows'
  BY <1>1, <1>2 DEF OwnRows
<1>3. CASE UNCHANGED tx
  BY <1>2, <1>3 DEF IsOpen
<1>4. ASSUME NEW o \in Handlers, Commit(o) \/ Rollback(o) PROVE OwnRows'
  <2>1. tx' = [tx EXCEPT ![o] = NoTx]
    BY <1>4 DEF Commit, Rollback
  <2> QED
    BY <1>2, <2>1, OthersStay DEF IsOpen
<1>5. ASSUME NEW o \in Handlers, NEW t \in Tenants, BeginSome(o, t), tx' # tx
      PROVE  OwnRows'
  <2>1. /\ \A h \in Handlers \ {o} : tx'[h] = tx[h]
        /\ tx'[o].tenant = t /\ tx'[o].seen = sub[t]
    BY <1>5, BeginReads DEF BeginEffect
  <2> QED
    BY <1>1, <2>1 DEF OwnRows, IsOpen
<1>6. CASE LifecycleRules
  BY <1>3, <1>6, StagesKeep
<1> QED
  BY <1>3, <1>4, <1>5, <1>6
     DEF Next, Tick, FindDueDowngrades, StartTrialForNewUser, vars

(* However transactions overlap, the plan in force and the pending one are    *)
(* standard plans or the tenant's own, and a plan is pending exactly while a  *)
(* date is: a stale read brings back a plan, never one of somebody else       *)
(* (requestUpgradeToPaidPlan, scheduleDowngrade, applyScheduledDowngrade,     *)
(* activateAfterSuccessfulPayment).                                           *)
THEOREM PlansStayOwn == Spec => [](\A t \in Tenants : PlanInv(sub[t], t))
<1>1. Init => ReadsChecked /\ OwnRows
  <2> SUFFICES ASSUME Init PROVE ReadsChecked /\ OwnRows
    OBVIOUS
  <2>1. now \in Nat /\ \A h \in Handlers : ~IsOpen(h)
    BY DEF Init, IsOpen
  <2> QED
    BY <2>1, FirstRowsOwn DEF Init, ReadsChecked, OwnRows
<1>2. OwnRows => \A t \in Tenants : PlanInv(sub[t], t)
  BY DEF OwnRows
<1> QED
  BY <1>1, <1>2, Invariant, ReadsCheckedNext, OwnRowsNext, PTL DEF Spec

Paid(t) == \E p \in payments : p.tenant = t /\ p.status = "succeeded"

(* The row r of a tenant who has paid, or has not, on day d. *)
Traced(r, hasPaid, d) ==
    /\ r.lastBillingAt # Null <=> hasPaid
    /\ hasPaid => /\ r.status # "none"
                  /\ r.lastBillingAt \in Nat /\ r.lastBillingAt <= d
                  /\ r.currentPeriodStart = r.lastBillingAt
                  /\ r.currentPeriodEnd = r.lastBillingAt + MonthDays

PaymentsTraced == \A t \in Tenants : Traced(sub[t], Paid(t), now)

LEMMA CommitTraces ==
    ASSUME IInv, PaymentsTraced, NEW h \in Handlers, Commit(h)
    PROVE  \A u \in Tenants : Traced(sub'[u], Paid(u)', now)
<1>0. PICK x, t : x = tx[h] /\ t = tx[h].tenant
  OBVIOUS
<1>1. /\ x.tenant = t /\ t \in Tenants /\ Exists(t) /\ TxInv(x) /\ Record(x)
      /\ WritesOnly(x, sub[t], sub'[t])
      /\ \A u \in Tenants : u # t => sub'[u] = sub[u]
  BY <1>0, CommitWritesOnly
<1>2. /\ x.kind = "capture" => Reported(t, "succeeded")
      /\ \A p \in payments' : p \in payments \/ /\ p.tenant = t
                                                /\ p.status = "succeeded"
                                                   <=> x.kind = "capture"
      /\ payments \subseteq payments'
  BY <1>1, CommitReports
<1>3. now \in Nat /\ now # Null /\ now + MonthDays \in Nat
  BY TimeAssumption, DaysAssumption, NullIsNoDate DEF IInv, DataInv, TypeOK
<1>4. PICK w : sub' = [sub EXCEPT ![t] = w] /\ WritesWell(x, sub[t], w)
  BY <1>0, CommitWrites DEF IInv
<1>5. sub'[t].status # "none"
  BY <1>1, <1>4 DEF WritesWell, IInv, DataInv, TypeOK
<1>6. ASSUME NEW u \in Tenants, u # t PROVE Traced(sub'[u], Paid(u)', now)
  <2>1. Paid(u)' <=> Paid(u)
    BY <1>2, <1>6 DEF Paid
  <2>2. Traced(sub[u], Paid(u), now) /\ sub'[u] = sub[u]
    BY <1>1, <1>6 DEF PaymentsTraced
  <2> QED
    BY <2>1, <2>2 DEF Traced
<1>7. CASE x.kind = "capture"
  <2>1. Paid(t)'
    BY <1>2, <1>7 DEF Reported, Paid
  <2>2. Traced(sub'[t], Paid(t)', now)
    BY <1>1, <1>3, <1>5, <1>7, <2>1 DEF WritesOnly, Traced
  <2> QED
    BY <1>6, <2>2
<1>8. CASE x.kind # "capture"
  <2>1. Paid(t)' <=> Paid(t)
    BY <1>2, <1>8 DEF Paid
  <2>2. Traced(sub[t], Paid(t), now)
    BY <1>1 DEF PaymentsTraced
  <2>3. Traced(sub'[t], Paid(t)', now)
    BY <1>1, <1>5, <1>8, <2>1, <2>2 DEF WritesOnly, Traced
  <2> QED
    BY <1>6, <2>3
<1> QED
  BY <1>7, <1>8

LEMMA PaymentsTracedNext ==
    IInv /\ PaymentsTraced /\ [Next]_vars => PaymentsTraced'
<1> SUFFICES ASSUME IInv, PaymentsTraced, [Next]_vars
             PROVE  PaymentsTraced'
  OBVIOUS
<1>0. now \in Nat /\ sub \in [Tenants -> Row]
  BY TimeAssumption DEF IInv, DataInv, TypeOK
<1>1. now' \in {now, now + 1}
  BY DEF Next, Tick, FindDueDowngrades, StartTrialForNewUser, BeginSome,
     BeginUpgrade, BeginDowngrade, BeginCancel, BeginCapture, BeginDecline,
     BeginApply, Begin, Commit, Rollback, LifecycleRules,
     MovePastDueSubscriptions, MoveSuspendedSubscriptions,
     MoveCancelledSubscriptions, Move, FindExpiredSubscriptions,
     ExpireSubscription, AbortLifecycleRules, vars
<1>2. ASSUME NEW r, NEW b \in BOOLEAN, Traced(r, b, now)
      PROVE  Traced(r, b, now')
  BY <1>0, <1>1, <1>2 DEF Traced
<1>3. \A u \in Tenants : Paid(u) \in BOOLEAN /\ Paid(u)' \in BOOLEAN
  BY DEF Paid
<1>4. CASE UNCHANGED <<sub, payments>>
  BY <1>2, <1>3, <1>4 DEF PaymentsTraced, Paid
<1>5. ASSUME NEW t \in Tenants, ~Exists(t), UNCHANGED payments,
             sub' = [sub EXCEPT ![t] = TrialRow(now)]
      PROVE  PaymentsTraced'
  <2>1. TrialRow(now).lastBillingAt = Null
    BY DEF TrialRow, NoRow
  <2>2. ~Paid(t)
    BY <1>5 DEF PaymentsTraced, Traced, Exists
  <2>3. Traced(TrialRow(now), Paid(t), now)
    BY <2>1, <2>2 DEF Traced
  <2>4. \A u \in Tenants : Traced(sub'[u], Paid(u), now)
    BY <1>0, <1>5, <2>3 DEF PaymentsTraced
  <2> QED
    BY <1>2, <1>3, <1>5, <2>4 DEF PaymentsTraced, Paid
<1>6. ASSUME NEW h \in Handlers, Commit(h) PROVE PaymentsTraced'
  BY <1>2, <1>3, <1>6, CommitTraces DEF PaymentsTraced
<1>7. CASE LifecycleRules
  <2>1. /\ UNCHANGED <<now, payments>>
        /\ \A u \in Tenants : StageKeeps(sub[u], sub'[u])
    BY <1>7, StagesKeep
  <2>2. \A u \in Tenants : Traced(sub[u], Paid(u), now) => Traced(sub'[u], Paid(u), now)
    BY <2>1 DEF StageKeeps, Traced
  <2> QED
    BY <2>1, <2>2 DEF PaymentsTraced, Paid
<1> QED
  BY <1>4, <1>5, <1>6, <1>7, RowsChange

(* However transactions overlap, a recorded payment has left its trace and    *)
(* nothing else leaves one: the row has a billing date exactly if a captured  *)
(* charge of the tenant is recorded, and then its period is the month that    *)
(* begins on that day (activateAfterSuccessfulPayment).                       *)
THEOREM PaymentsLeaveTheirTrace == Spec => []PaymentsTraced
<1>1. Init => PaymentsTraced
  <2> SUFFICES ASSUME Init, NEW t \in Tenants
               PROVE  Traced(sub[t], Paid(t), now)
    BY DEF PaymentsTraced
  <2>1. sub[t].lastBillingAt = Null /\ ~Paid(t)
    BY DEF Init, NoRow, Paid
  <2> QED
    BY <2>1 DEF Traced
<1> QED
  BY <1>1, Invariant, PaymentsTracedNext, PTL DEF Spec

-----------------------------------------------------------------------------
(* One transaction at a time: the row read is the row written over. *)

ReadsAreCurrent == \A h \in Handlers : IsOpen(h) => ReadIsCurrent(h)

LEMMA ReadsAreCurrentNext ==
    ASSUME IInv, ReadsAreCurrent, NEW o, Handlers = {o}, [Next]_vars,
           LifecycleRules => \A h \in Handlers : ~IsOpen(h)
    PROVE  ReadsAreCurrent'
<1>1. CASE UNCHANGED <<tx, sub>>
  BY <1>1 DEF ReadsAreCurrent, ReadIsCurrent, IsOpen
<1>2. ASSUME NEW u \in Tenants, StartTrialForNewUser(u), IsOpen(o)
      PROVE  ReadsAreCurrent'
  <2>1. tx' = tx /\ ~Exists(u) /\ sub' = [sub EXCEPT ![u] = TrialRow(now)]
    BY <1>2 DEF StartTrialForNewUser
  <2>2. Exists(tx[o].tenant)
    BY <1>2 DEF IInv, DataInv
  <2>3. sub'[tx[o].tenant] = sub[tx[o].tenant]
    BY <2>1, <2>2 DEF IInv, DataInv, TypeOK
  <2> QED
    BY <2>1, <2>3 DEF ReadsAreCurrent, ReadIsCurrent, IsOpen
<1>3. ASSUME NEW u \in Tenants, StartTrialForNewUser(u), ~IsOpen(o)
      PROVE  ReadsAreCurrent'
  BY <1>3 DEF StartTrialForNewUser, ReadsAreCurrent, IsOpen
<1>4. ASSUME NEW t \in Tenants, BeginSome(o, t)
      PROVE  ReadsAreCurrent'
  <2>1. /\ sub' = sub
        /\ tx' = tx \/ (tx'[o].tenant = t /\ tx'[o].seen = sub[t])
    BY <1>4, BeginReads DEF BeginEffect
  <2> QED
    BY <2>1 DEF ReadsAreCurrent, ReadIsCurrent, IsOpen
<1>5. ASSUME Commit(o) \/ Rollback(o)
      PROVE  ReadsAreCurrent'
  BY <1>5, OthersStay DEF Commit, Rollback, ReadsAreCurrent
<1>6. CASE LifecycleRules
  BY <1>6, StagesKeep DEF ReadsAreCurrent, IsOpen
<1> QED
  BY <1>1, <1>2, <1>3, <1>4, <1>5, <1>6 DEF Next, Tick, FindDueDowngrades, vars

(* One transaction at a time and no stage between its read and its write:     *)
(* then the transactions of SubscriptionTransactions are steps of             *)
(* Subscriptions, and taking each method there as one action is exactly right.*)
THEOREM SerialTransactionsAreSubscriptions ==
    ASSUME Cardinality(Handlers) = 1
    PROVE  Spec /\ JobWaits => StepsOfSubscriptions
<1>1. PICK o : Handlers = {o}
  BY HandlersAssumption, FS_Singleton
<1>2. Init => ReadsAreCurrent
  BY DEF Init, ReadsAreCurrent, IsOpen
<1>3. /\ IInv /\ ReadsAreCurrent /\ [Next]_vars
      /\ [LifecycleRules => \A h \in Handlers : ~IsOpen(h)]_vars
      => ReadsAreCurrent'
  <2> SUFFICES ASSUME IInv, ReadsAreCurrent, [Next]_vars,
                      [LifecycleRules => \A h \in Handlers : ~IsOpen(h)]_vars
               PROVE  ReadsAreCurrent'
    OBVIOUS
  <2>1. CASE UNCHANGED vars
    BY <2>1 DEF vars, ReadsAreCurrent, ReadIsCurrent, IsOpen
  <2>2. CASE LifecycleRules => \A h \in Handlers : ~IsOpen(h)
    BY <1>1, <2>2, ReadsAreCurrentNext
  <2> QED
    BY <2>1, <2>2
<1>4. /\ ReadsAreCurrent
      /\ [\/ \E h \in Handlers : Commit(h) /\ ~ReadIsCurrent(h)
          \/ LifecycleRules
          \/ Service!Next]_(Service!vars)
      => [LifecycleRules \/ Service!Next]_(Service!vars)
  BY DEF ReadsAreCurrent, Commit
<1> QED
  BY <1>2, <1>3, <1>4, Invariant, OnlyStaleReadsMatter, PTL
     DEF Spec, JobWaits, StepsOfSubscriptions, OnlyStaleReadsDiffer
=============================================================================
