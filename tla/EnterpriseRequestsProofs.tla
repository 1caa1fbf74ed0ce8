----------------------- MODULE EnterpriseRequestsProofs -----------------------
(***************************************************************************)
(* Proofs about EnterpriseRequests, for any number of transactions,        *)
(* tenants, requests and plan names.  The bound on open requests is        *)
(* inductive once it counts what may still be opened: MayBeOpen, with the  *)
(* requests that a review in progress will reopen, and Creating.  Only     *)
(* BeginCreate can raise the sum, and it does so when no request is open,  *)
(* so that everything counted is the work of a transaction of its own.     *)
(***************************************************************************)
EXTENDS EnterpriseRequests, FiniteSetTheorems, TLAPS

(* The requests that open transactions will write exist. *)
TxRequestsExist ==
    \A h \in Handlers : tx[h].kind \in {"review", "approve"} =>
        request[tx[h].request] \in Request

EInv == TypeOK /\ TxRequestsExist /\ OpenRequestsBounded

-----------------------------------------------------------------------------
(* Types *)

(* What an open transaction knows of itself. *)
LEMMA TxFields ==
    ASSUME TypeOK, NEW h \in Handlers
    PROVE  /\ tx[h].kind = "create" => tx[h].tenant \in Tenants
           /\ tx[h].kind = "review" =>
                /\ tx[h].request \in Requests
                /\ tx[h].seen \in Open
                /\ tx[h].status \in {"contacted"} \cup Final
           /\ tx[h].kind = "approve" =>
                /\ tx[h].request \in Requests
                /\ tx[h].seen \in Open \cup {"approved"}
                /\ tx[h].name \in PlanNames
<1>1. tx[h] \in Tx \cup {NoTx}
  BY DEF TypeOK
<1> QED
  BY <1>1 DEF Tx, NoTx

LEMMA EnterpriseTypeInit == ASSUME Init PROVE TypeOK /\ TxRequestsExist
BY DEF Init, TypeOK, TxRequestsExist, NoTx

LEMMA EnterpriseTypeNext ==
    ASSUME TypeOK, TxRequestsExist, [Next]_vars
    PROVE  TypeOK' /\ TxRequestsExist'
<1> USE DEF TypeOK, TxRequestsExist
<1>1. ASSUME NEW h \in Handlers, NEW t \in Tenants, BeginCreate(h, t)
      PROVE  TypeOK' /\ TxRequestsExist'
  <2>1. [kind |-> "create", tenant |-> t] \in Tx
    BY DEF Tx
  <2> QED
    BY <1>1, <2>1 DEF BeginCreate
<1>2. ASSUME NEW h \in Handlers, NEW r \in Requests, CommitCreate(h, r)
      PROVE  TypeOK' /\ TxRequestsExist'
  <2>1. [tenant |-> tx[h].tenant, status |-> "pending"] \in Request
    BY <1>2, TxFields DEF CommitCreate, Request, Open
  <2>2. [type |-> "created", status |-> "pending"] \in Event
    BY DEF Event, Open
  <2>3. request' \in [Requests -> Request \cup {NoRequest}]
    BY <1>2, <2>1 DEF CommitCreate
  <2>4. events' \in [Requests -> Seq(Event)]
    BY <1>2, <2>2 DEF CommitCreate
  <2>5. \A g \in Handlers : tx'[g].kind \in {"review", "approve"} =>
            tx'[g] = tx[g] /\ tx[g].request \in Requests
    BY <1>2, TxFields DEF CommitCreate, NoTx
  <2>6. TxRequestsExist'
    BY <1>2, <2>1, <2>5 DEF CommitCreate
  <2> QED
    BY <1>2, <2>3, <2>4, <2>6 DEF CommitCreate
<1>3. ASSUME NEW h \in Handlers, NEW r \in Requests,
             NEW s \in {"contacted"} \cup Final, BeginReview(h, r, s)
      PROVE  TypeOK' /\ TxRequestsExist'
  <2>1. [kind |-> "review", request |-> r, seen |-> request[r].status,
         status |-> s] \in Tx
    BY <1>3 DEF BeginReview, Tx
  <2>2. request[r] \in Request
    BY <1>3 DEF BeginReview, NoRequest, Open
  <2> QED
    BY <1>3, <2>1, <2>2 DEF BeginReview
<1>4. ASSUME NEW h \in Handlers, CommitReview(h)
      PROVE  TypeOK' /\ TxRequestsExist'
  <2> DEFINE r == tx[h].request
  <2>1. /\ r \in Requests /\ tx[h].status \in {"contacted"} \cup Final
        /\ request[r] \in Request
    BY <1>4, TxFields DEF CommitReview
  <2>2. [request[r] EXCEPT !.status = tx[h].status] \in Request
    BY <2>1 DEF Request, Open
  <2>3. [type |-> "reviewed", status |-> tx[h].status] \in Event
    BY <2>1 DEF Event, Open
  <2>4. request' \in [Requests -> Request \cup {NoRequest}]
    BY <1>4, <2>1, <2>2 DEF CommitReview
  <2>5. events' \in [Requests -> Seq(Event)]
    BY <1>4, <2>1, <2>3 DEF CommitReview
  <2>6. \A q \in Requests : request[q] \in Request => request'[q] \in Request
    BY <1>4, <2>1, <2>2 DEF CommitReview
  <2>7. \A g \in Handlers : tx'[g].kind \in {"review", "approve"} =>
            tx'[g] = tx[g] /\ tx[g].request \in Requests
    BY <1>4, TxFields DEF CommitReview, NoTx
  <2>8. TxRequestsExist'
    BY <2>6, <2>7
  <2> QED
    BY <1>4, <2>4, <2>5, <2>8 DEF CommitReview
<1>5. ASSUME NEW h \in Handlers, NEW r \in Requests, NEW n \in PlanNames,
             BeginApprove(h, r, n)
      PROVE  TypeOK' /\ TxRequestsExist'
  <2>1. [kind |-> "approve", request |-> r, seen |-> request[r].status,
         name |-> n] \in Tx
    BY <1>5 DEF BeginApprove, Tx
  <2>2. request[r] \in Request
    BY <1>5 DEF BeginApprove, NoRequest, Open
  <2> QED
    BY <1>5, <2>1, <2>2 DEF BeginApprove
<1>6. ASSUME NEW h \in Handlers, CommitApprove(h)
      PROVE  TypeOK' /\ TxRequestsExist'
  <2> DEFINE r == tx[h].request
  <2>1. /\ r \in Requests /\ tx[h].name \in PlanNames
        /\ request[r] \in Request
    BY <1>6, TxFields DEF CommitApprove
  <2>2. [request[r] EXCEPT !.status = "approved"] \in Request
    BY <2>1 DEF Request, Final
  <2>3. [type |-> "reviewed", status |-> "approved"] \in Event
    BY DEF Event, Final
  <2>4. request' \in [Requests -> Request \cup {NoRequest}]
    BY <1>6, <2>1, <2>2 DEF CommitApprove
  <2>5. events' \in [Requests -> Seq(Event)]
    BY <1>6, <2>1, <2>3 DEF CommitApprove
  <2>6. \A q \in Requests : request[q] \in Request => request'[q] \in Request
    BY <1>6, <2>1, <2>2 DEF CommitApprove
  <2>7. \A g \in Handlers : tx'[g].kind \in {"review", "approve"} =>
            tx'[g] = tx[g] /\ tx[g].request \in Requests
    BY <1>6, TxFields DEF CommitApprove, NoTx
  <2>8. TxRequestsExist'
    BY <2>6, <2>7
  <2>9. plans' \subseteq Plan
    BY <1>6, <2>1 DEF CommitApprove, Plan, Request
  <2> QED
    BY <1>6, <2>4, <2>5, <2>8, <2>9 DEF CommitApprove
<1>7. ASSUME NEW h \in Handlers, RollBack(h)
      PROVE  TypeOK' /\ TxRequestsExist'
  BY <1>7 DEF RollBack, NoTx
<1>8. CASE UNCHANGED vars
  BY <1>8 DEF vars
<1> QED
  BY <1>1, <1>2, <1>3, <1>4, <1>5, <1>6, <1>7, <1>8 DEF Next

-----------------------------------------------------------------------------
(* The bound on open requests *)

LEMMA CountsAreFinite ==
    ASSUME NEW t \in Tenants
    PROVE  /\ IsFiniteSet(MayBeOpen(t)) /\ IsFiniteSet(MayBeOpen(t)')
           /\ IsFiniteSet(Creating(t)) /\ IsFiniteSet(Creating(t)')
           /\ Cardinality(MayBeOpen(t)) \in Nat /\ Cardinality(MayBeOpen(t)') \in Nat
           /\ Cardinality(Creating(t)) \in Nat /\ Cardinality(Creating(t)') \in Nat
           /\ Cardinality(Handlers) \in Nat
<1>1. /\ MayBeOpen(t) \in SUBSET Requests /\ MayBeOpen(t)' \in SUBSET Requests
      /\ Creating(t) \in SUBSET Handlers /\ Creating(t)' \in SUBSET Handlers
  BY DEF MayBeOpen, Creating
<1>2. /\ IsFiniteSet(MayBeOpen(t)) /\ IsFiniteSet(MayBeOpen(t)')
      /\ IsFiniteSet(Creating(t)) /\ IsFiniteSet(Creating(t)')
  BY <1>1, EnterpriseAssumption, FS_Subset
<1> QED
  BY <1>2, EnterpriseAssumption, FS_CardinalityType

(* Nothing new may be open and nothing new is being created. *)
LEMMA FewerIsBounded ==
    ASSUME OpenRequestsBounded, NEW t \in Tenants,
           MayBeOpen(t)' \subseteq MayBeOpen(t),
           Creating(t)' \subseteq Creating(t)
    PROVE  Cardinality(MayBeOpen(t)') + Cardinality(Creating(t)')
               <= Cardinality(Handlers)
<1>1. /\ Cardinality(MayBeOpen(t)') <= Cardinality(MayBeOpen(t))
      /\ Cardinality(Creating(t)') <= Cardinality(Creating(t))
  BY CountsAreFinite, FS_Subset
<1>2. Cardinality(MayBeOpen(t)) + Cardinality(Creating(t)) <= Cardinality(Handlers)
  BY DEF OpenRequestsBounded
<1> QED
  BY <1>1, <1>2, CountsAreFinite

(* A creation becomes an open request. *)
LEMMA CreatedIsBounded ==
    ASSUME OpenRequestsBounded, NEW t \in Tenants, NEW r, NEW h \in Creating(t),
           MayBeOpen(t)' \subseteq MayBeOpen(t) \cup {r},
           Creating(t)' \subseteq Creating(t) \ {h}
    PROVE  Cardinality(MayBeOpen(t)') + Cardinality(Creating(t)')
               <= Cardinality(Handlers)
<1>1. /\ IsFiniteSet(MayBeOpen(t) \cup {r})
      /\ Cardinality(MayBeOpen(t) \cup {r}) <= Cardinality(MayBeOpen(t)) + 1
  <2>1. /\ IsFiniteSet(MayBeOpen(t) \cup {r})
        /\ \/ Cardinality(MayBeOpen(t) \cup {r}) = Cardinality(MayBeOpen(t))
           \/ Cardinality(MayBeOpen(t) \cup {r}) = Cardinality(MayBeOpen(t)) + 1
    BY CountsAreFinite, FS_AddElement
  <2> QED
    BY <2>1, CountsAreFinite
<1>2. Cardinality(MayBeOpen(t)') <= Cardinality(MayBeOpen(t) \cup {r})
  BY <1>1, FS_Subset
<1>3. /\ IsFiniteSet(Creating(t) \ {h})
      /\ Cardinality(Creating(t) \ {h}) = Cardinality(Creating(t)) - 1
  BY CountsAreFinite, FS_RemoveElement
<1>4. Cardinality(Creating(t)') <= Cardinality(Creating(t)) - 1
  BY <1>3, FS_Subset
<1>5. Cardinality(MayBeOpen(t)) + Cardinality(Creating(t)) <= Cardinality(Handlers)
  BY DEF OpenRequestsBounded
<1>6. Cardinality(MayBeOpen(t) \cup {r}) \in Nat
  BY <1>1, FS_CardinalityType
<1> QED
  BY <1>1, <1>2, <1>4, <1>5, <1>6, CountsAreFinite

(* Where no request is open, each one that may be is the work of one review, *)
(* and the transaction about to create is none of those.                     *)
LEMMA NoneOpenIsBounded ==
    ASSUME NEW t \in Tenants, NEW h \in Handlers,
           OpenRequests(t) = {}, Free(h)
    PROVE  Cardinality(MayBeOpen(t)) + Cardinality(Creating(t) \cup {h})
               <= Cardinality(Handlers)
<1> DEFINE W == {g \in Handlers : tx[g].kind = "review"}
           C == Creating(t) \cup {h}
           M == MayBeOpen(t)
           f == [r \in M |-> CHOOSE g \in Handlers : Reopens(g, r)]
<1>1. ASSUME NEW r \in M
      PROVE  f[r] \in W /\ Reopens(f[r], r)
  <2>1. \E g \in Handlers : Reopens(g, r)
    BY DEF MayBeOpen, OpenRequests
  <2> QED
    BY <2>1 DEF Reopens
<1>2. f \in Injection(M, W)
  <2>1. ASSUME NEW r \in M, NEW q \in M, f[r] = f[q]
        PROVE  r = q
    BY <1>1, <2>1 DEF Reopens
  <2>2. f \in [M -> W]
    BY <1>1
  <2> QED
    BY <2>1, <2>2 DEF Injection, IsInjective
<1>3. W \in SUBSET Handlers /\ C \in SUBSET Handlers /\ W \cap C = {}
  BY DEF Creating, Free
<1>4. IsFiniteSet(W) /\ IsFiniteSet(C)
  BY <1>3, EnterpriseAssumption, FS_Subset
<1>5. Cardinality(M) <= Cardinality(W)
  BY <1>2, <1>4, FS_Injection
<1>6. /\ Cardinality(W) \in Nat /\ Cardinality(C) \in Nat /\ Cardinality(M) \in Nat
      /\ Cardinality(Handlers) \in Nat
  BY <1>4, CountsAreFinite, FS_CardinalityType
<1>7. Cardinality(W \cup C) = Cardinality(W) + Cardinality(C)
  <2>1. Cardinality(W \cap C) = 0
    BY <1>3, FS_EmptySet
  <2>2. Cardinality(W \cup C)
            = Cardinality(W) + Cardinality(C) - Cardinality(W \cap C)
    BY <1>4, FS_Union
  <2> HIDE DEF W, C
  <2> QED
    BY <1>6, <2>1, <2>2
<1>8. Cardinality(W \cup C) <= Cardinality(Handlers)
  BY <1>3, EnterpriseAssumption, FS_Subset
<1> HIDE DEF W, C, M
<1>9. Cardinality(M) + Cardinality(C) <= Cardinality(Handlers)
  BY <1>5, <1>6, <1>7, <1>8
<1> QED
  BY <1>9 DEF M, C

LEMMA OpenBoundInit == ASSUME Init PROVE OpenRequestsBounded
<1>1. ASSUME NEW t \in Tenants
      PROVE  MayBeOpen(t) = {} /\ Creating(t) = {}
  BY DEF Init, MayBeOpen, Creating, Reopens, NoRequest, NoTx, Open
<1>2. Cardinality(Handlers) \in Nat /\ Cardinality({}) = 0
  BY EnterpriseAssumption, FS_CardinalityType, FS_EmptySet
<1> QED
  BY <1>1, <1>2 DEF OpenRequestsBounded

LEMMA OpenBoundNext ==
    ASSUME EInv, [Next]_vars
    PROVE  OpenRequestsBounded'
<1> SUFFICES ASSUME NEW t \in Tenants
             PROVE  Cardinality(MayBeOpen(t)') + Cardinality(Creating(t)')
                        <= Cardinality(Handlers)
  BY DEF OpenRequestsBounded
<1> DEFINE Bounded == Cardinality(MayBeOpen(t)') + Cardinality(Creating(t)')
                          <= Cardinality(Handlers)
<1>0. TypeOK /\ OpenRequestsBounded
  BY DEF EInv
<1>1. ASSUME NEW h \in Handlers, NEW u \in Tenants, BeginCreate(h, u)
      PROVE  Bounded
  <2>1. CASE u = t
    <3>1. Cardinality(MayBeOpen(t)) + Cardinality(Creating(t) \cup {h})
              <= Cardinality(Handlers)
      BY <1>1, <2>1, NoneOpenIsBounded DEF BeginCreate
    <3>2. MayBeOpen(t)' \subseteq MayBeOpen(t)
      BY <1>0, <1>1 DEF BeginCreate, MayBeOpen, Reopens, TypeOK
    <3>3. Creating(t)' \subseteq Creating(t) \cup {h}
      BY <1>0, <1>1 DEF BeginCreate, Creating, TypeOK
    <3>4. IsFiniteSet(Creating(t) \cup {h})
      BY CountsAreFinite, FS_AddElement
    <3>5. /\ Cardinality(MayBeOpen(t)') <= Cardinality(MayBeOpen(t))
          /\ Cardinality(Creating(t)') <= Cardinality(Creating(t) \cup {h})
          /\ Cardinality(Creating(t) \cup {h}) \in Nat
      BY <3>2, <3>3, <3>4, CountsAreFinite, FS_Subset, FS_CardinalityType
    <3> QED
      BY <3>1, <3>5, CountsAreFinite
  <2>2. CASE u # t
    <3>1. MayBeOpen(t)' \subseteq MayBeOpen(t)
      BY <1>0, <1>1 DEF BeginCreate, MayBeOpen, Reopens, TypeOK
    <3>2. Creating(t)' \subseteq Creating(t)
      BY <1>0, <1>1, <2>2 DEF BeginCreate, Creating, TypeOK
    <3> QED
      BY <1>0, <3>1, <3>2, FewerIsBounded
  <2> QED
    BY <2>1, <2>2
<1>2. ASSUME NEW h \in Handlers, NEW r \in Requests, CommitCreate(h, r)
      PROVE  Bounded
  <2>1. \A g \in Handlers : g # h => tx'[g] = tx[g]
    BY <1>0, <1>2 DEF CommitCreate, TypeOK
  <2>2. tx'[h].kind = "none" /\ tx[h].kind = "create"
    BY <1>0, <1>2 DEF CommitCreate, TypeOK, NoTx
  <2>3. \A q \in Requests : q # r => request'[q] = request[q]
    BY <1>0, <1>2 DEF CommitCreate, TypeOK
  <2>4. CASE tx[h].tenant = t
    <3>1. MayBeOpen(t)' \subseteq MayBeOpen(t) \cup {r}
      BY <2>1, <2>2, <2>3 DEF MayBeOpen, Reopens
    <3>2. h \in Creating(t) /\ Creating(t)' \subseteq Creating(t) \ {h}
      BY <2>1, <2>2, <2>4 DEF Creating
    <3> QED
      BY <1>0, <3>1, <3>2, CreatedIsBounded
  <2>5. CASE tx[h].tenant # t
    <3>1. request'[r].tenant # t
      BY <1>0, <1>2, <2>5 DEF CommitCreate, TypeOK
    <3>2. MayBeOpen(t)' \subseteq MayBeOpen(t)
      BY <2>1, <2>2, <2>3, <3>1 DEF MayBeOpen, Reopens
    <3>3. Creating(t)' \subseteq Creating(t)
      BY <2>1, <2>2 DEF Creating
    <3> QED
      BY <1>0, <3>2, <3>3, FewerIsBounded
  <2> QED
    BY <2>4, <2>5
<1>3. ASSUME NEW h \in Handlers, NEW r \in Requests,
             NEW s \in {"contacted"} \cup Final, BeginReview(h, r, s)
      PROVE  Bounded
  <2>1. /\ request' = request
        /\ \A g \in Handlers : g # h => tx'[g] = tx[g]
        /\ tx'[h].kind = "review" /\ tx'[h].request = r
        /\ request[r].status \in Open
    BY <1>0, <1>3 DEF BeginReview, TypeOK
  <2>2. MayBeOpen(t)' \subseteq MayBeOpen(t)
    BY <2>1 DEF MayBeOpen, Reopens
  <2>3. Creating(t)' \subseteq Creating(t)
    BY <2>1 DEF Creating
  <2> QED
    BY <1>0, <2>2, <2>3, FewerIsBounded
<1>4. ASSUME NEW h \in Handlers, CommitReview(h)
      PROVE  Bounded
  <2> DEFINE r == tx[h].request
  <2>1. /\ r \in Requests /\ tx[h].kind = "review"
        /\ tx[h].status \in {"contacted"} \cup Final
        /\ request[r] \in Request
    BY <1>0, <1>4, TxFields DEF CommitReview, EInv, TxRequestsExist
  <2>2. /\ \A g \in Handlers : g # h => tx'[g] = tx[g]
        /\ tx'[h].kind = "none"
        /\ \A q \in Requests : q # r => request'[q] = request[q]
        /\ request'[r].tenant = request[r].tenant
        /\ request'[r].status = tx[h].status
    BY <1>0, <1>4, <2>1 DEF CommitReview, TypeOK, NoTx, Request
  <2>3. request'[r].status \in Open => Reopens(h, r)
    BY <2>1, <2>2 DEF Reopens, Open, Final
  <2>4. MayBeOpen(t)' \subseteq MayBeOpen(t)
    BY <2>1, <2>2, <2>3 DEF MayBeOpen, Reopens
  <2>5. Creating(t)' \subseteq Creating(t)
    BY <2>2 DEF Creating
  <2> QED
    BY <1>0, <2>4, <2>5, FewerIsBounded
<1>5. ASSUME NEW h \in Handlers, NEW r \in Requests, NEW n \in PlanNames,
             BeginApprove(h, r, n)
      PROVE  Bounded
  <2>1. /\ request' = request
        /\ \A g \in Handlers : g # h => tx'[g] = tx[g]
        /\ tx'[h].kind = "approve"
    BY <1>0, <1>5 DEF BeginApprove, TypeOK
  <2>2. MayBeOpen(t)' \subseteq MayBeOpen(t)
    BY <2>1 DEF MayBeOpen, Reopens
  <2>3. Creating(t)' \subseteq Creating(t)
    BY <2>1 DEF Creating
  <2> QED
    BY <1>0, <2>2, <2>3, FewerIsBounded
<1>6. ASSUME NEW h \in Handlers, CommitApprove(h)
      PROVE  Bounded
  <2> DEFINE r == tx[h].request
  <2>1. r \in Requests /\ request[r] \in Request
    BY <1>0, <1>6, TxFields DEF CommitApprove, EInv, TxRequestsExist
  <2>2. /\ \A g \in Handlers : g # h => tx'[g] = tx[g]
        /\ tx'[h].kind = "none"
        /\ \A q \in Requests : q # r => request'[q] = request[q]
        /\ request'[r].tenant = request[r].tenant
        /\ request'[r].status \notin Open
    BY <1>0, <1>6, <2>1 DEF CommitApprove, TypeOK, NoTx, Request, Open
  <2>3. MayBeOpen(t)' \subseteq MayBeOpen(t)
    BY <2>2 DEF MayBeOpen, Reopens
  <2>4. Creating(t)' \subseteq Creating(t)
    BY <2>2 DEF Creating
  <2> QED
    BY <1>0, <2>3, <2>4, FewerIsBounded
<1>7. ASSUME NEW h \in Handlers, RollBack(h)
      PROVE  Bounded
  <2>1. /\ request' = request
        /\ \A g \in Handlers : g # h => tx'[g] = tx[g]
        /\ tx'[h].kind = "none"
    BY <1>0, <1>7 DEF RollBack, TypeOK, NoTx
  <2>2. MayBeOpen(t)' \subseteq MayBeOpen(t)
    BY <2>1 DEF MayBeOpen, Reopens
  <2>3. Creating(t)' \subseteq Creating(t)
    BY <2>1 DEF Creating
  <2> QED
    BY <1>0, <2>2, <2>3, FewerIsBounded
<1>8. CASE UNCHANGED vars
  BY <1>0, <1>8, FewerIsBounded DEF vars, MayBeOpen, Creating, Reopens
<1> QED
  BY <1>1, <1>2, <1>3, <1>4, <1>5, <1>6, <1>7, <1>8 DEF Next

THEOREM EnterpriseInvariant == Spec => []EInv
<1>1. Init => EInv
  BY EnterpriseTypeInit, OpenBoundInit DEF EInv
<1>2. EInv /\ [Next]_vars => EInv'
  BY EnterpriseTypeNext, OpenBoundNext DEF EInv
<1> QED
  BY <1>1, <1>2, PTL DEF Spec

-----------------------------------------------------------------------------
(* The theorems *)

(* Rows, log and transactions of enterprise-plan-requests keep their types. *)
THEOREM EnterpriseTypeCorrect == Spec => []TypeOK
<1>1. EInv => TypeOK
  BY DEF EInv
<1> QED
  BY <1>1, EnterpriseInvariant, PTL

(* However create, reviewRequest and approveAndCreatePlan interleave, a       *)
(* tenant has at most as many open requests as transactions run at once.     *)
THEOREM OpenRequestsStayBounded == Spec => []OpenRequestsBounded
<1>1. EInv => OpenRequestsBounded
  BY DEF EInv
<1> QED
  BY <1>1, EnterpriseInvariant, PTL

-----------------------------------------------------------------------------
(* Plans and the approvals that the log records *)

PlansFinite == \A r \in Requests : IsFiniteSet(PlansOf(r))

LEMMA ApprovalsFinite ==
    ASSUME NEW s \in Seq(Event), NEW e
    PROVE  LET A == {i \in 1..Len(s) : s[i] = e}
           IN  IsFiniteSet(A) /\ Cardinality(A) \in Nat
<1>1. Len(s) \in Nat
  OBVIOUS
<1>2. IsFiniteSet(1..Len(s))
  BY <1>1, FS_Interval
<1> QED
  BY <1>2, FS_Subset, FS_CardinalityType

(* An event more: no approval is lost, and an approval is one more. *)
LEMMA ApprovalsAppend ==
    ASSUME TypeOK, NEW r \in Requests, NEW e \in Event,
           events'[r] = Append(events[r], e)
    PROVE  /\ Approvals(r) \subseteq Approvals(r)'
           /\ e = [type |-> "reviewed", status |-> "approved"] =>
                  /\ Len(events[r]) + 1 \in Approvals(r)'
                  /\ Len(events[r]) + 1 \notin Approvals(r)
<1>1. events[r] \in Seq(Event) /\ Len(events[r]) \in Nat
  BY DEF TypeOK
<1>2. /\ Len(events'[r]) = Len(events[r]) + 1
      /\ \A i \in 1..Len(events[r]) : events'[r][i] = events[r][i]
      /\ events'[r][Len(events[r]) + 1] = e
  BY <1>1
<1> QED
  BY <1>1, <1>2 DEF Approvals

LEMMA FewerApproved ==
    ASSUME TypeOK, TypeOK', NEW r \in Requests, IsFiniteSet(PlansOf(r)),
           Cardinality(PlansOf(r)) <= Cardinality(Approvals(r)),
           PlansOf(r)' = PlansOf(r), Approvals(r) \subseteq Approvals(r)'
    PROVE  Cardinality(PlansOf(r)') <= Cardinality(Approvals(r)')
<1>1. /\ IsFiniteSet(Approvals(r)') /\ Cardinality(Approvals(r)') \in Nat
      /\ Cardinality(Approvals(r)) \in Nat
  <2>1. events[r] \in Seq(Event) /\ events'[r] \in Seq(Event)
    BY DEF TypeOK
  <2> QED
    BY <2>1, ApprovalsFinite DEF Approvals
<1>2. Cardinality(Approvals(r)) <= Cardinality(Approvals(r)')
  BY <1>1, FS_Subset
<1>3. Cardinality(PlansOf(r)) \in Nat
  BY FS_CardinalityType
<1> QED
  BY <1>1, <1>2, <1>3

LEMMA PlansApprovedNext ==
    ASSUME EInv, EInv', PlansFinite, PlansAreApproved, [Next]_vars
    PROVE  PlansFinite' /\ PlansAreApproved'
<1>0. TypeOK /\ TypeOK'
  BY DEF EInv
<1> SUFFICES ASSUME NEW r \in Requests
             PROVE  /\ IsFiniteSet(PlansOf(r)')
                    /\ Cardinality(PlansOf(r)') <= Cardinality(Approvals(r)')
                    /\ \A p \in PlansOf(r)' : p.tenant = request'[r].tenant
  BY DEF PlansFinite, PlansAreApproved, PlansOf
<1> DEFINE Goal == /\ IsFiniteSet(PlansOf(r)')
                   /\ Cardinality(PlansOf(r)') <= Cardinality(Approvals(r)')
                   /\ \A p \in PlansOf(r)' : p.tenant = request'[r].tenant
<1>1. /\ IsFiniteSet(PlansOf(r))
      /\ Cardinality(PlansOf(r)) <= Cardinality(Approvals(r))
      /\ \A p \in PlansOf(r) : p.tenant = request[r].tenant
  BY DEF PlansFinite, PlansAreApproved
(* Steps that create no plan. *)
<1>2. ASSUME plans' = plans, request'[r].tenant = request[r].tenant \/ PlansOf(r) = {},
             Approvals(r) \subseteq Approvals(r)'
      PROVE  Goal
  <2>1. PlansOf(r)' = PlansOf(r)
    BY <1>2 DEF PlansOf
  <2> QED
    BY <1>0, <1>1, <1>2, <2>1, FewerApproved
<1>3. ASSUME UNCHANGED <<request, plans, events>> PROVE Goal
  BY <1>2, <1>3 DEF Approvals
<1>4. ASSUME NEW h \in Handlers, NEW q \in Requests, CommitCreate(h, q)
      PROVE  Goal
  <2>1. plans' = plans
    BY <1>4 DEF CommitCreate
  <2>2. CASE q = r
    <3>1. PlansOf(r) = {}
      BY <1>0, <1>1, <1>4, <2>2, EnterpriseAssumption
         DEF CommitCreate, NoRequest, PlansOf, Plan, TypeOK
    <3> DEFINE e == [type |-> "created", status |-> "pending"]
    <3>2. e \in Event /\ events'[r] = Append(events[r], e)
      BY <1>0, <1>4, <2>2 DEF CommitCreate, Event, Open, TypeOK
    <3> HIDE DEF e
    <3> QED
      BY <1>0, <1>2, <2>1, <3>1, <3>2, ApprovalsAppend
  <2>3. CASE q # r
    <3>1. events'[r] = events[r] /\ request'[r] = request[r]
      BY <1>0, <1>4, <2>3 DEF CommitCreate, TypeOK
    <3> QED
      BY <1>2, <2>1, <3>1 DEF Approvals
  <2> QED
    BY <2>2, <2>3
<1>5. ASSUME NEW h \in Handlers, CommitReview(h)
      PROVE  Goal
  <2>1. PICK q \in Requests, s \in Open \cup Final :
            q = tx[h].request /\ s = tx[h].status
    BY <1>0, <1>5, TxFields DEF CommitReview, Open
  <2>2. /\ plans' = plans
        /\ request' = [request EXCEPT ![q].status = s]
        /\ events' = [events EXCEPT ![q] =
                          Append(@, [type |-> "reviewed", status |-> s])]
    BY <1>5, <2>1 DEF CommitReview
  <2>3. request'[r].tenant = request[r].tenant
    BY <1>0, <2>2 DEF TypeOK, Request, NoRequest
  <2>4. CASE q = r
    <3> DEFINE e == [type |-> "reviewed", status |-> s]
    <3>1. e \in Event /\ events'[r] = Append(events[r], e)
      BY <1>0, <2>2, <2>4 DEF Event, TypeOK
    <3> HIDE DEF e
    <3> QED
      BY <1>0, <1>2, <2>2, <2>3, <3>1, ApprovalsAppend
  <2>5. CASE q # r
    <3>1. events'[r] = events[r]
      BY <1>0, <2>2, <2>5 DEF TypeOK
    <3> QED
      BY <1>2, <2>2, <2>3, <3>1 DEF Approvals
  <2> QED
    BY <2>4, <2>5
<1>6. ASSUME NEW h \in Handlers, CommitApprove(h)
      PROVE  Goal
  <2>1. PICK q \in Requests, n \in PlanNames :
            q = tx[h].request /\ n = tx[h].name
    BY <1>0, <1>6, TxFields DEF CommitApprove
  <2> DEFINE new == [name |-> n, tenant |-> request[q].tenant, request |-> q]
             e == [type |-> "reviewed", status |-> "approved"]
  <2>2. /\ plans' = plans \cup {new}
        /\ new \notin plans
        /\ request' = [request EXCEPT ![q].status = "approved"]
        /\ events' = [events EXCEPT ![q] = Append(@, e)]
    BY <1>6, <2>1 DEF CommitApprove, PlanNamed
  <2>3. request'[r].tenant = request[r].tenant
    BY <1>0, <2>2 DEF TypeOK, Request, NoRequest
  <2>4. new.request = q /\ new.tenant = request[q].tenant
    OBVIOUS
  <2>5. e \in Event
    BY DEF Event, Final
  <2> HIDE DEF new
  <2>6. CASE q = r
    <3>1. PlansOf(r)' = PlansOf(r) \cup {new} /\ new \notin PlansOf(r)
      BY <2>2, <2>4, <2>6 DEF PlansOf
    <3>2. /\ IsFiniteSet(PlansOf(r)')
          /\ Cardinality(PlansOf(r)') = Cardinality(PlansOf(r)) + 1
      BY <1>1, <3>1, FS_AddElement
    <3>3. events'[r] = Append(events[r], e)
      BY <1>0, <2>2, <2>6 DEF TypeOK
    <3> DEFINE k == Len(events[r]) + 1
    <3>4. Approvals(r) \cup {k} \subseteq Approvals(r)' /\ k \notin Approvals(r)
      BY <1>0, <2>5, <3>3, ApprovalsAppend
    <3> HIDE DEF k
    <3>5. /\ IsFiniteSet(Approvals(r)') /\ Cardinality(Approvals(r)') \in Nat
          /\ IsFiniteSet(Approvals(r)) /\ Cardinality(Approvals(r)) \in Nat
      <4>1. events[r] \in Seq(Event) /\ events'[r] \in Seq(Event)
        BY <1>0 DEF TypeOK
      <4> QED
        BY <4>1, ApprovalsFinite DEF Approvals
    <3>6. Cardinality(Approvals(r)) + 1 <= Cardinality(Approvals(r)')
      <4>1. /\ IsFiniteSet(Approvals(r) \cup {k})
            /\ Cardinality(Approvals(r) \cup {k}) = Cardinality(Approvals(r)) + 1
        BY <3>4, <3>5, FS_AddElement
      <4> QED
        BY <3>4, <3>5, <4>1, FS_Subset
    <3>7. Cardinality(PlansOf(r)) \in Nat
      BY <1>1, FS_CardinalityType
    <3>8. \A p \in PlansOf(r)' : p.tenant = request'[r].tenant
      BY <1>1, <2>3, <2>4, <2>6, <3>1
    <3> QED
      BY <1>1, <3>2, <3>5, <3>6, <3>7, <3>8
  <2>7. CASE q # r
    <3>1. PlansOf(r)' = PlansOf(r)
      BY <2>2, <2>4, <2>7 DEF PlansOf
    <3>2. events'[r] = events[r]
      BY <1>0, <2>2, <2>7 DEF TypeOK
    <3>3. Approvals(r) \subseteq Approvals(r)'
      BY <3>2 DEF Approvals
    <3> QED
      BY <1>0, <1>1, <2>3, <3>1, <3>3, FewerApproved
  <2> QED
    BY <2>6, <2>7
<1> QED
  BY <1>3, <1>4, <1>5, <1>6
  DEF Next, BeginCreate, BeginReview, BeginApprove, RollBack, vars

(* However reviews and approvals interleave, each enterprise plan of a        *)
(* request goes back to an approval in its log, and is its tenant's.          *)
THEOREM PlansStayApproved == Spec => []PlansAreApproved
<1>1. Init => PlansFinite /\ PlansAreApproved
  <2> SUFFICES ASSUME Init, NEW r \in Requests
               PROVE  /\ IsFiniteSet(PlansOf(r))
                      /\ Cardinality(PlansOf(r)) <= Cardinality(Approvals(r))
                      /\ \A p \in PlansOf(r) : p.tenant = request[r].tenant
    BY DEF PlansFinite, PlansAreApproved
  <2>1. PlansOf(r) = {}
    BY DEF Init, PlansOf
  <2>2. Approvals(r) = {}
    BY DEF Init, Approvals
  <2> QED
    BY <2>1, <2>2, FS_EmptySet
<1>2. EInv /\ EInv' /\ PlansFinite /\ PlansAreApproved /\ [Next]_vars
          => PlansFinite' /\ PlansAreApproved'
  BY PlansApprovedNext
<1> QED
  BY <1>1, <1>2, EnterpriseInvariant, PTL DEF Spec

LEMMA DecisionStep ==
    ASSUME EInv, [Next]_vars, NEW r \in Requests, request[r].status \in Final,
           \A h \in Handlers : ~Outdated(h, r)
    PROVE  request'[r].status = request[r].status
<1>0. TypeOK
  BY DEF EInv
<1>1. ASSUME NEW h \in Handlers, NEW q \in Requests, CommitCreate(h, q)
      PROVE  request'[r] = request[r]
  BY <1>0, <1>1 DEF CommitCreate, TypeOK, NoRequest, Final
<1>2. ASSUME NEW h \in Handlers, CommitReview(h)
      PROVE  request'[r] = request[r]
  <2>1. tx[h].kind = "review" /\ tx[h].request \in Requests /\ tx[h].seen \in Open
    BY <1>0, <1>2, TxFields DEF CommitReview
  <2>2. tx[h].request # r
    BY <2>1 DEF Outdated, Open, Final
  <2> QED
    BY <1>0, <1>2, <2>1, <2>2 DEF CommitReview, TypeOK
<1>3. ASSUME NEW h \in Handlers, CommitApprove(h)
      PROVE  request'[r].status = request[r].status
  <2>1. /\ tx[h].kind = "approve" /\ tx[h].request \in Requests
        /\ tx[h].seen \in Open \cup {"approved"}
    BY <1>0, <1>3, TxFields DEF CommitApprove
  <2>2. CASE tx[h].request # r
    BY <1>0, <1>3, <2>1, <2>2 DEF CommitApprove, TypeOK
  <2>3. CASE tx[h].request = r
    <3>1. request[r].status = "approved"
      BY <2>1, <2>3 DEF Outdated, Open, Final
    <3>2. request'[r] = [request[r] EXCEPT !.status = "approved"]
      BY <1>0, <1>3, <2>1, <2>3 DEF CommitApprove, TypeOK
    <3>3. request[r] \in Request
      BY <1>0 DEF TypeOK, NoRequest, Final
    <3> QED
      BY <3>1, <3>2, <3>3 DEF Request
  <2> QED
    BY <2>2, <2>3
<1> QED
  BY <1>1, <1>2, <1>3
  DEF Next, BeginCreate, BeginReview, BeginApprove, RollBack, vars

(* A final status is changed only by a transaction that read an earlier one. *)
THEOREM DecisionsSettle == Spec => DecisionSettles
<1>1. EInv /\ [Next]_vars =>
          [\A r \in Requests :
              request[r].status \in Final /\ (\A h \in Handlers : ~Outdated(h, r))
              => request'[r].status = request[r].status]_vars
  BY DecisionStep
<1> QED
  BY <1>1, EnterpriseInvariant, PTL DEF Spec, DecisionSettles

-----------------------------------------------------------------------------
(* One transaction at a time *)

(* A transaction that runs alone writes over what it has read. *)
NoneOutdated == \A h \in Handlers, r \in Requests : ~Outdated(h, r)

LEMMA NoneOutdatedNext ==
    ASSUME NEW o, Handlers = {o}, TypeOK, NoneOutdated, [Next]_vars
    PROVE  NoneOutdated'
<1> USE DEF NoneOutdated, Outdated
<1>1. ASSUME NEW h \in Handlers, NEW t \in Tenants, BeginCreate(h, t)
      PROVE  NoneOutdated'
  BY <1>1 DEF BeginCreate, TypeOK
<1>2. ASSUME NEW h \in Handlers, NEW r \in Requests, NEW s, BeginReview(h, r, s)
      PROVE  NoneOutdated'
  BY <1>2 DEF BeginReview, TypeOK
<1>3. ASSUME NEW h \in Handlers, NEW r \in Requests, NEW n, BeginApprove(h, r, n)
      PROVE  NoneOutdated'
  BY <1>3 DEF BeginApprove, TypeOK
<1>4. ASSUME NEW h \in Handlers, tx' = [tx EXCEPT ![h] = NoTx]
      PROVE  NoneOutdated'
  BY <1>4 DEF TypeOK, NoTx
<1>5. CASE UNCHANGED vars
  BY <1>5 DEF vars
<1> QED
  BY <1>1, <1>2, <1>3, <1>4, <1>5
  DEF Next, CommitCreate, CommitReview, CommitApprove, RollBack

(* What the documentation of enterprise requests promises holds where        *)
(* transactions run one at a time: one open request per tenant at most.      *)
THEOREM OneOpenRequestAlone ==
    ASSUME Cardinality(Handlers) = 1
    PROVE  Spec => []OneOpenRequest
<1>1. ASSUME EInv, NEW t \in Tenants
      PROVE  Cardinality(OpenRequests(t)) <= 1
  <2>1. OpenRequests(t) \in SUBSET MayBeOpen(t)
    BY DEF OpenRequests, MayBeOpen
  <2>2. /\ Cardinality(OpenRequests(t)) <= Cardinality(MayBeOpen(t))
        /\ Cardinality(OpenRequests(t)) \in Nat
    BY <2>1, CountsAreFinite, FS_Subset, FS_CardinalityType
  <2>3. Cardinality(MayBeOpen(t)) + Cardinality(Creating(t)) <= 1
    BY <1>1 DEF EInv, OpenRequestsBounded
  <2> QED
    BY <2>2, <2>3, CountsAreFinite
<1>2. EInv => OneOpenRequest
  BY <1>1 DEF OneOpenRequest
<1> QED
  BY <1>2, EnterpriseInvariant, PTL

(* And: reviewRequest and approveAndCreatePlan never change a decision.      *)
THEOREM DecisionIsFinalAlone ==
    ASSUME Cardinality(Handlers) = 1
    PROVE  Spec => DecisionIsFinal
<1>1. PICK o : Handlers = {o}
  BY EnterpriseAssumption, FS_Singleton
<1>2. Init => NoneOutdated
  BY DEF Init, NoneOutdated, Outdated, NoTx
<1>3. EInv /\ NoneOutdated /\ [Next]_vars => NoneOutdated'
  BY <1>1, NoneOutdatedNext DEF EInv
<1>4. EInv /\ NoneOutdated /\ [Next]_vars =>
          [\A r \in Requests : request[r].status \in Final
              => request'[r].status = request[r].status]_vars
  BY DecisionStep DEF NoneOutdated
<1> QED
  BY <1>2, <1>3, <1>4, EnterpriseInvariant, PTL DEF Spec, DecisionIsFinal
=============================================================================
