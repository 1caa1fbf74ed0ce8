------------------------- MODULE PlanCatalogueProofs -------------------------
(***************************************************************************)
(* Proofs about PlanCatalogue, for any set of tenants, plans, terms and    *)
(* overlapping transactions.  The inductive invariant adds to the          *)
(* properties what an open transaction may still write: its plan was in    *)
(* the catalogue when it was read, an owner never changes, and a plan that *)
(* is gone never comes back, so that terms copied from the wrong row are   *)
(* always refused with their plan.                                         *)
(***************************************************************************)
EXTENDS PlanCatalogue, TLAPS

FreePlanOffered == IsLive(FreePlan) /\ plan[FreePlan].tenantId = Null

(* The only free terms are those of the free plan. *)
OffersSplit ==
    \A p \in Plans : \A o \in offered[p] : o.price = 0 <=> p = FreePlan

LiveTermsOffered == \A p \in Plans : IsLive(p) => plan[p].terms \in offered[p]

(* What is written with a plan that is still there was offered for it, and    *)
(* the plan is the tenant's to have.                                          *)
TxSound ==
    \A h \in Handlers :
        tx[h].kind \in {"trial", "choose", "activate", "apply", "change"} =>
            /\ plan[tx[h].planId] # Unused
            /\ plan[tx[h].planId].tenantId \in {Null, tx[h].tenant}
            /\ tx[h].kind \in {"trial", "change"} /\ IsLive(tx[h].planId) =>
                   tx[h].terms \in offered[tx[h].planId]

(* The free plan is never about to be removed, and only the row of somebody   *)
(* who has one is about to get a waiting plan.                                *)
TxKnows ==
    \A h \in Handlers :
        /\ tx[h].kind = "remove" => tx[h].planId # FreePlan
        /\ tx[h].kind = "choose" => Exists(tx[h].tenant)

CInv ==
    /\ TypeOK
    /\ FreePlanOffered
    /\ ReferencesHold
    /\ TermsWereOffered
    /\ OnlyOwnPlans
    /\ OffersSplit
    /\ LiveTermsOffered
    /\ TxSound
    /\ TxKnows

-----------------------------------------------------------------------------
(* Types *)

LEMMA TxFields ==
    ASSUME TypeOK, NEW h \in Handlers
    PROVE  /\ tx[h] # NoTx => tx[h].planId \in Plans
           /\ tx[h].kind \in {"trial", "choose", "activate", "apply", "change"} =>
                  tx[h].tenant \in Tenants /\ tx[h].planId \in Plans
           /\ tx[h].kind \in {"trial", "activate", "apply", "change"} =>
                  tx[h].terms \in Offers /\ tx[h].seen \in Plans \cup {Null}
           /\ tx[h].kind = "remove" => tx[h].planId \in Plans
           /\ tx[h].kind \in {"none", "remove", "trial", "choose", "activate",
                              "apply", "change"}
<1>1. tx[h] \in Tx \cup {NoTx}
  BY DEF TypeOK
<1> QED
  BY <1>1 DEF Tx, NoTx

LEMMA SubFields ==
    ASSUME TypeOK, NEW t \in Tenants
    PROVE  /\ sub[t].planId \in Plans \cup {Null}
           /\ sub[t].pendingPlanId \in Plans \cup {Null}
           /\ Exists(t) <=> sub[t].planId \in Plans
           /\ Exists(t) => sub[t] \in Sub
           /\ sub[t].pendingPlanId # Null => Exists(t)
<1>1. sub[t] \in Sub \cup {NoSub}
  BY DEF TypeOK
<1>2. Null \notin Plans
  BY CatalogueAssumption
<1> QED
  BY <1>1, <1>2 DEF Sub, NoSub, Exists

LEMMA PlanFields ==
    ASSUME TypeOK, NEW p \in Plans
    PROVE  /\ IsLive(p) => plan[p] \in Plan /\ plan[p].terms \in Offers
           /\ plan[p].tenantId \in Tenants \cup {Null}
           /\ IsLive(p) => plan[p] # Unused
<1>1. plan[p] \in Plan \cup {Unused, Removed}
  BY DEF TypeOK
<1> QED
  BY <1>1 DEF Plan, Unused, Removed, IsLive

-----------------------------------------------------------------------------
LEMMA CatalogueInit == Init => CInv
<1> SUFFICES ASSUME Init PROVE CInv
  OBVIOUS
<1>1. PICK o \in Offers :
          /\ o.price = 0
          /\ plan = [p \in Plans |->
                        IF p = FreePlan
                        THEN [state |-> "live", tenantId |-> Null, terms |-> o]
                        ELSE Unused]
          /\ offered = [p \in Plans |-> IF p = FreePlan THEN {o} ELSE {}]
  BY DEF Init
<1>2. /\ sub = [t \in Tenants |-> NoSub]
      /\ tx = [h \in Handlers |-> NoTx]
  BY DEF Init
<1>3. [state |-> "live", tenantId |-> Null, terms |-> o] \in Plan
  BY DEF Plan
<1>4. TypeOK
  BY <1>1, <1>2, <1>3 DEF TypeOK
<1>5. FreePlanOffered /\ OffersSplit /\ LiveTermsOffered
  BY <1>1, CatalogueAssumption DEF FreePlanOffered, IsLive, OffersSplit, LiveTermsOffered, Unused
<1>6. ReferencesHold /\ TermsWereOffered /\ OnlyOwnPlans
  BY <1>2 DEF ReferencesHold, TermsWereOffered, OnlyOwnPlans, Exists
<1>7. TxSound /\ TxKnows
  BY <1>2 DEF TxSound, TxKnows, NoTx
<1> QED
  BY <1>4, <1>5, <1>6, <1>7 DEF CInv

(* The administrators' writes: plans appear and change their terms, but keep  *)
(* their owner, and no row refers to one that only appears now.               *)
LEMMA OfferInv ==
    ASSUME CInv, NEW p \in Plans, NEW owner \in Tenants \cup {Null},
           NEW o \in Offers, Offer(p, owner, o), o.price = 0 <=> p = FreePlan,
           \/ plan[p] = Unused /\ p # FreePlan
           \/ IsLive(p) /\ plan[p].tenantId = owner
    PROVE  CInv'
<1> DEFINE w == [state |-> "live", tenantId |-> owner, terms |-> o]
<1>0. TypeOK
  BY DEF CInv
<1>1. /\ plan' = [plan EXCEPT ![p] = w]
      /\ offered' = [offered EXCEPT ![p] = @ \cup {o}]
      /\ sub' = sub /\ tx' = tx
  BY DEF Offer
<1>2. w \in Plan /\ w.state = "live" /\ w.tenantId = owner /\ w.terms = o
      /\ w # Unused
  BY DEF Plan, Unused
<1> HIDE DEF w
<1>3. /\ plan'[p] = w /\ offered'[p] = offered[p] \cup {o}
      /\ \A q \in Plans : q # p => plan'[q] = plan[q] /\ offered'[q] = offered[q]
  BY <1>0, <1>1 DEF TypeOK
<1>4. TypeOK'
  BY <1>0, <1>1, <1>2 DEF TypeOK
<1>5. \A q \in Plans :
          /\ plan[q] # Unused =>
                 /\ plan'[q] # Unused
                 /\ plan'[q].tenantId = plan[q].tenantId
                 /\ IsLive(q)' <=> IsLive(q)
          /\ IsLive(q) => IsLive(q)'
          /\ offered[q] \subseteq offered'[q]
  BY <1>2, <1>3 DEF IsLive, Unused
<1>6. FreePlanOffered'
  BY <1>0, <1>5, PlanFields, CatalogueAssumption DEF CInv, FreePlanOffered
<1>7. \A t \in Tenants :
          Exists(t) => /\ sub[t].planId \in Plans
                       /\ sub[t].pendingPlanId # Null => sub[t].pendingPlanId \in Plans
  BY <1>0, SubFields
<1>8. ReferencesHold' /\ TermsWereOffered'
  BY <1>1, <1>5, <1>7 DEF CInv, ReferencesHold, TermsWereOffered, Exists
<1>9. OnlyOwnPlans'
  <2>1. \A q \in Plans : IsLive(q) => plan'[q].tenantId = plan[q].tenantId
    BY <1>0, <1>5, PlanFields
  <2> QED
    BY <1>1, <1>7, <2>1 DEF CInv, OnlyOwnPlans, ReferencesHold, Exists
<1>10. OffersSplit'
  BY <1>3 DEF CInv, OffersSplit
<1>11. LiveTermsOffered'
  BY <1>2, <1>3 DEF CInv, LiveTermsOffered, IsLive
<1>12. TxSound'
  <2> SUFFICES ASSUME NEW h \in Handlers,
                      tx[h].kind \in {"trial", "choose", "activate", "apply", "change"}
               PROVE  /\ plan'[tx[h].planId] # Unused
                      /\ plan'[tx[h].planId].tenantId \in {Null, tx[h].tenant}
                      /\ tx[h].kind \in {"trial", "change"}
                         /\ plan'[tx[h].planId].state = "live" =>
                             tx[h].terms \in offered'[tx[h].planId]
    BY <1>1 DEF TxSound, IsLive
  <2>1. PICK q \in Plans : q = tx[h].planId
    BY <1>0, TxFields
  <2>2. /\ plan[q] # Unused
        /\ plan[q].tenantId \in {Null, tx[h].tenant}
        /\ tx[h].kind \in {"trial", "change"} /\ IsLive(q) =>
               tx[h].terms \in offered[q]
    BY <2>1 DEF CInv, TxSound
  <2>3. plan'[q].state = "live" <=> IsLive(q)
    BY <1>5, <2>2 DEF IsLive
  <2>4. /\ plan'[q] # Unused
        /\ plan'[q].tenantId = plan[q].tenantId
        /\ offered[q] \subseteq offered'[q]
    BY <1>5, <2>2
  <2> QED
    BY <2>1, <2>2, <2>3, <2>4
<1>13. TxKnows'
  BY <1>1 DEF CInv, TxKnows, Exists
<1> QED
  BY <1>4, <1>6, <1>8, <1>9, <1>10, <1>11, <1>12, <1>13 DEF CInv

LEMMA AdministerInv ==
    ASSUME CInv, NEW p \in Plans, Administer(p)
    PROVE  CInv'
<1>0. TypeOK /\ IsLive(FreePlan)
  BY DEF CInv, FreePlanOffered
<1>1. ASSUME NEW o \in Offers, NEW owner \in Tenants \cup {Null},
             CreatePlan(p, owner, o)
      PROVE  CInv'
  <2>1. p # FreePlan
    BY <1>0, <1>1 DEF CreatePlan, IsLive, Unused
  <2>2. o.price # 0
    BY <1>1, CatalogueAssumption DEF CreatePlan
  <2> QED
    BY <1>1, <2>1, <2>2, OfferInv DEF CreatePlan
<1>2. ASSUME NEW o \in Offers, UpdatePlan(p, o)
      PROVE  CInv'
  <2>1. IsFree(p) <=> p = FreePlan
    BY <1>2 DEF UpdatePlan, CInv, OffersSplit, LiveTermsOffered, IsFree
  <2> QED
    BY <1>0, <1>2, <2>1, PlanFields, OfferInv DEF UpdatePlan
<1> QED
  BY <1>1, <1>2 DEF Administer

-----------------------------------------------------------------------------
(* A step that only changes what transaction h has read. *)
LEMMA TxStep ==
    ASSUME CInv, NEW h \in Handlers, NEW x \in Tx \cup {NoTx},
           tx' = [tx EXCEPT ![h] = x], UNCHANGED <<plan, sub, offered>>,
           x.kind = "remove" => x.planId # FreePlan,
           x.kind = "choose" => Exists(x.tenant),
           x.kind \in {"trial", "choose", "activate", "apply", "change"} =>
               /\ plan[x.planId] # Unused
               /\ plan[x.planId].tenantId \in {Null, x.tenant}
               /\ x.kind \in {"trial", "change"} /\ IsLive(x.planId) =>
                      x.terms \in offered[x.planId]
    PROVE  CInv'
<1>0. TypeOK
  BY DEF CInv
<1>1. tx'[h] = x /\ \A g \in Handlers : g # h => tx'[g] = tx[g]
  BY <1>0 DEF TypeOK
<1>2. TypeOK'
  BY <1>0 DEF TypeOK
<1>3. TxSound'
  <2> SUFFICES ASSUME NEW g \in Handlers,
                      tx'[g].kind \in {"trial", "choose", "activate", "apply", "change"}
               PROVE  /\ plan[tx'[g].planId] # Unused
                      /\ plan[tx'[g].planId].tenantId \in {Null, tx'[g].tenant}
                      /\ tx'[g].kind \in {"trial", "change"} /\ IsLive(tx'[g].planId) =>
                             tx'[g].terms \in offered[tx'[g].planId]
    BY DEF TxSound, IsLive
  <2>1. CASE g = h
    BY <1>1, <2>1
  <2>2. CASE g # h
    <3>1. tx'[g] = tx[g]
      BY <1>1, <2>2
    <3> QED
      BY <3>1 DEF CInv, TxSound
  <2> QED
    BY <2>1, <2>2
<1>4. TxKnows'
  <2> SUFFICES ASSUME NEW g \in Handlers
               PROVE  /\ tx'[g].kind = "remove" => tx'[g].planId # FreePlan
                      /\ tx'[g].kind = "choose" => sub[tx'[g].tenant] # NoSub
    BY DEF TxKnows, Exists
  <2>1. CASE g = h
    BY <1>1, <2>1 DEF Exists
  <2>2. CASE g # h
    BY <1>1, <2>2 DEF CInv, TxKnows, Exists
  <2> QED
    BY <2>1, <2>2
<1> QED
  BY <1>2, <1>3, <1>4 DEF CInv, ReferencesHold, TermsWereOffered, OnlyOwnPlans,
     OffersSplit, LiveTermsOffered, FreePlanOffered, IsLive, Exists
LEMMA ReadInv ==
    ASSUME CInv, NEW h \in Handlers, Read(h)
    PROVE  CInv'
<1>0. /\ TypeOK /\ IsLive(FreePlan) /\ FreePlan \in Plans
      /\ Null \notin Plans
  BY CatalogueAssumption DEF CInv, FreePlanOffered
<1>1. ASSUME NEW p \in Plans, BeginRemove(h, p)
      PROVE  CInv'
  <2> DEFINE x == [kind |-> "remove", planId |-> p]
  <2>1. x \in Tx /\ x.kind = "remove" /\ x.planId = p
    BY DEF Tx
  <2>2. tx' = [tx EXCEPT ![h] = x] /\ UNCHANGED <<plan, sub, offered>>
    BY <1>1 DEF BeginRemove, Begin
  <2>3. p # FreePlan
    BY <1>0, <1>1 DEF BeginRemove, CInv, OffersSplit, LiveTermsOffered, IsFree
  <2> HIDE DEF x
  <2> QED
    BY <2>1, <2>2, <2>3, TxStep
<1>2. ASSUME NEW t \in Tenants, NEW p \in Plans, BeginChoose(h, t, p)
      PROVE  CInv'
  <2> DEFINE x == [kind |-> "choose", tenant |-> t, planId |-> p]
  <2>1. x \in Tx /\ x.kind = "choose" /\ x.tenant = t /\ x.planId = p
    BY DEF Tx
  <2>2. tx' = [tx EXCEPT ![h] = x] /\ UNCHANGED <<plan, sub, offered>>
    BY <1>2 DEF BeginChoose, Begin
  <2>3. plan[p].tenantId \in {Null, t} /\ plan[p] # Unused /\ Exists(t)
    BY <1>2 DEF BeginChoose, Available, IsLive, Unused
  <2> HIDE DEF x
  <2> QED
    BY <2>1, <2>2, <2>3, TxStep
<1>3. ASSUME NEW t \in Tenants, NEW p \in Plans, NEW o \in Offers,
             NEW kind \in {"trial", "activate", "apply", "change"},
             Reads(h, kind, t, p, o),
             IsLive(p), plan[p].tenantId \in {Null, t},
             kind \notin {"activate", "apply"} => o \in offered[p]
      PROVE  CInv'
  <2> DEFINE x == [kind |-> kind, tenant |-> t, planId |-> p, terms |-> o,
                   seen |-> sub[t].pendingPlanId]
  <2>1. sub[t].pendingPlanId \in Plans \cup {Null}
    BY <1>0, SubFields
  <2>2. x \in Tx /\ x.kind = kind /\ x.tenant = t /\ x.planId = p /\ x.terms = o
    BY <2>1 DEF Tx
  <2>3. tx' = [tx EXCEPT ![h] = x] /\ UNCHANGED <<plan, sub, offered>>
    BY <1>3 DEF Reads, Begin
  <2>4. plan[p] # Unused
    BY <1>0, <1>3, PlanFields
  <2> HIDE DEF x
  <2> QED
    BY <1>3, <2>2, <2>3, <2>4, TxStep
<1>4. ASSUME NEW t \in Tenants, BeginTrial(h, t)
      PROVE  CInv'
  <2>1. plan[FreePlan].terms \in Offers /\ plan[FreePlan].terms \in offered[FreePlan]
    BY <1>0, PlanFields DEF CInv, LiveTermsOffered
  <2>2. plan[FreePlan].tenantId \in {Null, t}
    BY DEF CInv, FreePlanOffered
  <2> QED
    BY <1>0, <1>3, <1>4, <2>1, <2>2 DEF BeginTrial
<1>5. ASSUME NEW t \in Tenants, BeginApply(h, t)
      PROVE  CInv'
  <2>1. PICK p \in Plans : p = sub[t].pendingPlanId
    BY <1>0, <1>5, SubFields DEF BeginApply
  <2>2. IsLive(p) /\ plan[p].tenantId \in {Null, t}
    BY <1>0, <1>5, <2>1 DEF BeginApply, CInv, ReferencesHold, OnlyOwnPlans
  <2>3. sub[t].snapshot \in Offers
    BY <1>0, <1>5, SubFields DEF BeginApply, Sub
  <2> QED
    BY <1>3, <1>5, <2>1, <2>2, <2>3 DEF BeginApply
<1>6. ASSUME NEW t \in Tenants, BeginActivate(h, t)
      PROVE  CInv'
  <2>1. Exists(t) /\ sub[t] \in Sub
    BY <1>0, <1>6, SubFields DEF BeginActivate
  <2>2. PICK p \in Plans : p = ActivePlanId(sub[t])
    BY <2>1 DEF Sub, ActivePlanId
  <2>3. IsLive(p) /\ plan[p].tenantId \in {Null, t}
    BY <2>1, <2>2 DEF ActivePlanId, CInv, ReferencesHold, OnlyOwnPlans
  <2>4. sub[t].snapshot \in Offers
    BY <2>1 DEF Sub
  <2> QED
    BY <1>3, <1>6, <2>2, <2>3, <2>4 DEF BeginActivate
<1>7. CASE ReadPlan(h)
  <2>1. PICK t \in Tenants, p \in Plans, o \in Offers, s \in Plans \cup {Null},
            k \in {"activate", "apply"} :
            tx[h] = [kind |-> k, tenant |-> t, planId |-> p,
                     terms |-> o, seen |-> s]
    <3>1. tx[h] \in Tx /\ tx[h].kind \in {"activate", "apply"}
      BY <1>0, <1>7 DEF ReadPlan, TypeOK, NoTx
    <3> QED
      BY <3>1 DEF Tx
  <2> DEFINE o2 == IF IsLive(p) THEN plan[p].terms ELSE o
             x == [kind |-> "change", tenant |-> t, planId |-> p,
                   terms |-> o2, seen |-> s]
  <2>2. o2 \in Offers /\ (IsLive(p) => o2 \in offered[p])
    BY <1>0, PlanFields DEF CInv, LiveTermsOffered
  <2>3. /\ tx' = [tx EXCEPT ![h] = [tx[h] EXCEPT !.kind = "change", !.terms = o2]]
        /\ UNCHANGED <<plan, sub, offered>>
    <3>1. tx[h].planId = p /\ tx[h].terms = o
      BY <2>1
    <3> QED
      BY <1>7, <3>1 DEF ReadPlan
  <2>4. plan[p] # Unused /\ plan[p].tenantId \in {Null, t}
    BY <2>1 DEF CInv, TxSound
  <2> HIDE DEF o2
  <2>6. [tx[h] EXCEPT !.kind = "change", !.terms = o2] = x
    <3> DEFINE y == [kind |-> "change", tenant |-> t, planId |-> p,
                     terms |-> o, seen |-> s]
    <3>1. [tx[h] EXCEPT !.kind = "change"] = y
      BY <2>1
    <3>2. [y EXCEPT !.terms = o2] = x
      OBVIOUS
    <3> HIDE DEF x, y
    <3>3. [[tx[h] EXCEPT !.kind = "change"] EXCEPT !.terms = o2] = x
      BY <3>1, <3>2
    <3> QED
      BY <3>3
  <2>5. x \in Tx /\ x.kind = "change" /\ x.planId = p /\ x.tenant = t /\ x.terms = o2
    BY <2>2 DEF Tx
  <2> HIDE DEF x
  <2> QED
    BY <2>2, <2>3, <2>4, <2>5, <2>6, TxStep
<1> QED
  BY <1>1, <1>2, <1>4, <1>5, <1>6, <1>7 DEF Read

-----------------------------------------------------------------------------
(* A step that writes the row of t and ends transaction h. *)
LEMMA RowStep ==
    ASSUME CInv, NEW h \in Handlers, NEW t \in Tenants, NEW w \in Sub,
           sub' = [sub EXCEPT ![t] = w], tx' = [tx EXCEPT ![h] = NoTx],
           UNCHANGED <<plan, offered>>,
           IsLive(w.planId), w.snapshot \in offered[w.planId],
           plan[w.planId].tenantId \in {Null, t},
           w.pendingPlanId # Null =>
               /\ IsLive(w.pendingPlanId)
               /\ plan[w.pendingPlanId].tenantId \in {Null, t}
    PROVE  CInv'
<1>0. TypeOK
  BY DEF CInv
<1>1. /\ sub'[t] = w /\ \A u \in Tenants : u # t => sub'[u] = sub[u]
      /\ tx'[h] = NoTx /\ \A g \in Handlers : g # h => tx'[g] = tx[g]
      /\ plan' = plan /\ offered' = offered
  BY <1>0 DEF TypeOK
<1>2. TypeOK'
  BY <1>0 DEF TypeOK
<1>3. \A g \in Handlers : tx'[g] = tx[g] \/ tx'[g].kind = "none"
  BY <1>1 DEF NoTx
<1>4. w # NoSub
  BY CatalogueAssumption DEF Sub, NoSub
<1>5. FreePlanOffered' /\ OffersSplit' /\ LiveTermsOffered'
  BY <1>1 DEF CInv, FreePlanOffered, OffersSplit, LiveTermsOffered, IsLive
<1>6. ASSUME NEW u \in Tenants, sub'[u] # NoSub
      PROVE  /\ plan[sub'[u].planId].state = "live"
             /\ sub'[u].snapshot \in offered[sub'[u].planId]
             /\ plan[sub'[u].planId].tenantId \in {Null, u}
             /\ sub'[u].pendingPlanId # Null =>
                    /\ plan[sub'[u].pendingPlanId].state = "live"
                    /\ plan[sub'[u].pendingPlanId].tenantId \in {Null, u}
  <2>1. CASE u = t
    BY <1>1, <2>1 DEF IsLive
  <2>2. CASE u # t
    <3>1. sub'[u] = sub[u] /\ Exists(u)
      BY <1>1, <1>6, <2>2 DEF Exists
    <3> QED
      BY <3>1 DEF CInv, ReferencesHold, TermsWereOffered, OnlyOwnPlans, IsLive
  <2> QED
    BY <2>1, <2>2
<1>7. ReferencesHold' /\ TermsWereOffered' /\ OnlyOwnPlans'
  BY <1>1, <1>6 DEF ReferencesHold, TermsWereOffered, OnlyOwnPlans, IsLive, Exists
<1>8. TxSound'
  <2> SUFFICES ASSUME NEW g \in Handlers,
                      tx'[g].kind \in {"trial", "choose", "activate", "apply", "change"}
               PROVE  /\ plan[tx'[g].planId] # Unused
                      /\ plan[tx'[g].planId].tenantId \in {Null, tx'[g].tenant}
                      /\ tx'[g].kind \in {"trial", "change"}
                         /\ plan[tx'[g].planId].state = "live" =>
                             tx'[g].terms \in offered[tx'[g].planId]
    BY <1>1 DEF TxSound, IsLive
  <2>1. tx'[g] = tx[g]
    BY <1>3
  <2> QED
    BY <2>1 DEF CInv, TxSound, IsLive
<1>9. TxKnows'
  <2> SUFFICES ASSUME NEW g \in Handlers,
                      tx'[g].kind \in {"remove", "choose"}
               PROVE  /\ tx'[g].kind = "remove" => tx'[g].planId # FreePlan
                      /\ tx'[g].kind = "choose" => sub'[tx'[g].tenant] # NoSub
    BY DEF TxKnows, Exists
  <2>1. tx'[g] = tx[g]
    BY <1>3
  <2>2. tx[g].kind = "choose" => tx[g].tenant \in Tenants
    BY <1>0, TxFields
  <2> QED
    BY <1>1, <1>4, <2>1, <2>2 DEF CInv, TxKnows, Exists
<1> QED
  BY <1>2, <1>5, <1>7, <1>8, <1>9 DEF CInv

LEMMA CommitRemoveInv ==
    ASSUME CInv, NEW h \in Handlers, CommitRemove(h)
    PROVE  CInv'
<1>0. TypeOK
  BY DEF CInv
<1>1. PICK p \in Plans : p = tx[h].planId
  BY <1>0, TxFields DEF CommitRemove
<1>2. p # FreePlan
  BY <1>1 DEF CommitRemove, CInv, TxKnows
<1>3. /\ IsLive(p) /\ \A t \in Tenants : sub[t].planId # p
      /\ plan' = [plan EXCEPT ![p] = Removed]
      /\ sub' = [t \in Tenants |->
                    IF sub[t].pendingPlanId = p
                    THEN [sub[t] EXCEPT !.pendingPlanId = Null] ELSE sub[t]]
      /\ tx' = [tx EXCEPT ![h] = NoTx] /\ offered' = offered
  BY <1>1 DEF CommitRemove, Subscribers, Done
<1>4. /\ plan'[p] = Removed /\ \A q \in Plans : q # p => plan'[q] = plan[q]
      /\ tx'[h] = NoTx /\ \A g \in Handlers : g # h => tx'[g] = tx[g]
  BY <1>0, <1>3 DEF TypeOK
<1>5. Removed # Unused /\ Removed.tenantId = Null /\ Removed.state # "live"
  BY DEF Removed, Unused
<1>6. ASSUME NEW t \in Tenants
      PROVE  /\ sub'[t] \in Sub \cup {NoSub}
             /\ sub'[t] # NoSub <=> Exists(t)
             /\ Exists(t) =>
                    /\ sub'[t].planId = sub[t].planId
                    /\ sub'[t].snapshot = sub[t].snapshot
                    /\ sub'[t].planId \in Plans \ {p}
                    /\ sub'[t].pendingPlanId # Null =>
                           /\ sub'[t].pendingPlanId = sub[t].pendingPlanId
                           /\ sub'[t].pendingPlanId \in Plans \ {p}
  <2>0. Null \notin Plans
    BY CatalogueAssumption
  <2>1. CASE sub[t] = NoSub
    <3>1. NoSub.pendingPlanId # p
      BY <2>0 DEF NoSub
    <3>2. sub'[t] = NoSub
      BY <1>3, <2>1, <3>1
    <3> QED
      BY <2>1, <3>2 DEF Exists
  <2>2. CASE sub[t] \in Sub
    <3>1. PICK a \in Plans, b \in Plans \cup {Null}, o \in Offers :
              sub[t] = [planId |-> a, pendingPlanId |-> b, snapshot |-> o]
      BY <2>2 DEF Sub
    <3>2. a # p
      BY <1>3, <3>1
    <3>3. sub'[t] = [planId |-> a, pendingPlanId |-> IF b = p THEN Null ELSE b,
                     snapshot |-> o]
      BY <1>3, <3>1
    <3> DEFINE c == IF b = p THEN Null ELSE b
    <3>4. c \in Plans \cup {Null} /\ (c # Null => c = b /\ c \in Plans \ {p})
      OBVIOUS
    <3> HIDE DEF c
    <3>5. sub'[t] \in Sub
      BY <3>3, <3>4 DEF Sub, c
    <3>6. sub'[t] # NoSub /\ Exists(t)
      BY <2>0, <3>1, <3>3 DEF NoSub, Exists
    <3> QED
      BY <3>1, <3>2, <3>3, <3>4, <3>5, <3>6 DEF c
  <2> QED
    BY <1>0, <2>1, <2>2 DEF TypeOK
<1>7. TypeOK'
  <2>1. sub' \in [Tenants -> Sub \cup {NoSub}]
    BY <1>3, <1>6
  <2> QED
    BY <1>0, <1>3, <2>1 DEF TypeOK
<1>8. FreePlanOffered' /\ OffersSplit' /\ LiveTermsOffered'
  BY <1>2, <1>3, <1>4, <1>5, CatalogueAssumption
     DEF CInv, FreePlanOffered, OffersSplit, LiveTermsOffered, IsLive
<1>9. ReferencesHold' /\ TermsWereOffered' /\ OnlyOwnPlans'
  BY <1>3, <1>4, <1>6
     DEF CInv, ReferencesHold, TermsWereOffered, OnlyOwnPlans, IsLive, Exists
<1>10. \A g \in Handlers : tx'[g] = tx[g] \/ tx'[g].kind = "none"
  BY <1>4 DEF NoTx
<1>11. TxSound'
  <2> SUFFICES ASSUME NEW g \in Handlers,
                      tx'[g].kind \in {"trial", "choose", "activate", "apply", "change"}
               PROVE  /\ plan'[tx'[g].planId] # Unused
                      /\ plan'[tx'[g].planId].tenantId \in {Null, tx'[g].tenant}
                      /\ tx'[g].kind \in {"trial", "change"}
                         /\ plan'[tx'[g].planId].state = "live" =>
                             tx'[g].terms \in offered[tx'[g].planId]
    BY <1>3 DEF TxSound, IsLive
  <2>1. tx'[g] = tx[g]
    BY <1>10
  <2>2. PICK q \in Plans : q = tx[g].planId
    BY <1>0, <2>1, TxFields
  <2>3. /\ plan[q] # Unused
        /\ plan[q].tenantId \in {Null, tx[g].tenant}
        /\ tx[g].kind \in {"trial", "change"} /\ plan[q].state = "live" =>
               tx[g].terms \in offered[q]
    BY <2>1, <2>2 DEF CInv, TxSound, IsLive
  <2> QED
    BY <1>4, <1>5, <2>1, <2>2, <2>3
<1>12. TxKnows'
  <2> SUFFICES ASSUME NEW g \in Handlers,
                      tx'[g].kind \in {"remove", "choose"}
               PROVE  /\ tx'[g].kind = "remove" => tx'[g].planId # FreePlan
                      /\ tx'[g].kind = "choose" => sub'[tx'[g].tenant] # NoSub
    BY DEF TxKnows, Exists
  <2>1. tx'[g] = tx[g]
    BY <1>10
  <2>2. tx[g].kind = "choose" => tx[g].tenant \in Tenants
    BY <1>0, TxFields
  <2> QED
    BY <1>6, <2>1, <2>2 DEF CInv, TxKnows
<1> QED
  BY <1>7, <1>8, <1>9, <1>11, <1>12 DEF CInv

LEMMA WriteInv ==
    ASSUME CInv, NEW h \in Handlers, Write(h)
    PROVE  CInv'
<1>0. TypeOK /\ Null \notin Plans
  BY CatalogueAssumption DEF CInv
<1>1. ASSUME NEW t \in Tenants, NEW p \in Plans, NEW o \in Offers,
             tx[h].tenant = t, tx[h].planId = p, tx[h].terms = o,
             tx[h].kind \in {"trial", "change"}, IsLive(p), Done(h),
             sub' = [sub EXCEPT ![t] = [planId |-> p, pendingPlanId |-> Null,
                                        snapshot |-> o]],
             plan' = plan
      PROVE  CInv'
  <2> DEFINE w == [planId |-> p, pendingPlanId |-> Null, snapshot |-> o]
  <2>1. w \in Sub /\ w.planId = p /\ w.pendingPlanId = Null /\ w.snapshot = o
    BY DEF Sub
  <2>2. o \in offered[p] /\ plan[p].tenantId \in {Null, t}
    BY <1>1 DEF CInv, TxSound
  <2>3. sub' = [sub EXCEPT ![t] = w]
    BY <1>1
  <2> HIDE DEF w
  <2>4. /\ IsLive(w.planId) /\ w.snapshot \in offered[w.planId]
        /\ plan[w.planId].tenantId \in {Null, t}
    BY <1>1, <2>1, <2>2
  <2>5. tx' = [tx EXCEPT ![h] = NoTx] /\ UNCHANGED <<plan, offered>>
    BY <1>1 DEF Done
  <2> QED
    BY <2>1, <2>3, <2>4, <2>5, RowStep
<1>2. CASE CommitTrial(h)
  BY <1>0, <1>1, <1>2, TxFields DEF CommitTrial
<1>3. CASE CommitChange(h)
  BY <1>0, <1>1, <1>3, TxFields DEF CommitChange
<1>4. CASE CommitChoose(h)
  <2>1. PICK t \in Tenants, p \in Plans : t = tx[h].tenant /\ p = tx[h].planId
    BY <1>0, <1>4, TxFields DEF CommitChoose
  <2>2. Exists(t) /\ plan[p].tenantId \in {Null, t}
    BY <1>4, <2>1 DEF CommitChoose, CInv, TxSound, TxKnows
  <2>3. sub[t] \in Sub
    BY <1>0, <2>2, SubFields
  <2> DEFINE w == [sub[t] EXCEPT !.pendingPlanId = p]
  <2>4. /\ w \in Sub /\ w.planId = sub[t].planId /\ w.snapshot = sub[t].snapshot
        /\ w.pendingPlanId = p
    BY <2>3 DEF Sub
  <2>5. sub' = [sub EXCEPT ![t] = w]
    BY <1>4, <2>1 DEF CommitChoose
  <2> HIDE DEF w
  <2>6. /\ IsLive(w.planId) /\ w.snapshot \in offered[w.planId]
        /\ plan[w.planId].tenantId \in {Null, t}
    BY <2>2, <2>4 DEF CInv, ReferencesHold, TermsWereOffered, OnlyOwnPlans
  <2>7. IsLive(p) /\ tx' = [tx EXCEPT ![h] = NoTx] /\ UNCHANGED <<plan, offered>>
    BY <1>4, <2>1 DEF CommitChoose, Done
  <2> QED
    BY <2>2, <2>4, <2>5, <2>6, <2>7, RowStep
<1>5. CASE Rollback(h)
  <2>1. NoTx \in Tx \cup {NoTx} /\ NoTx.kind = "none"
    BY DEF NoTx
  <2>2. tx' = [tx EXCEPT ![h] = NoTx] /\ UNCHANGED <<plan, sub, offered>>
    BY <1>5 DEF Rollback, Done
  <2> QED
    BY <2>1, <2>2, TxStep
<1> QED
  BY <1>2, <1>3, <1>4, <1>5, CommitRemoveInv DEF Write

THEOREM CatalogueInvariant == Spec => []CInv
<1>1. CInv /\ [Next]_vars => CInv'
  <2> SUFFICES ASSUME CInv, [Next]_vars PROVE CInv'
    OBVIOUS
  <2>1. CASE UNCHANGED vars
    BY <2>1 DEF CInv, vars, TypeOK, FreePlanOffered, ReferencesHold,
       TermsWereOffered, OnlyOwnPlans, OffersSplit, LiveTermsOffered, TxSound,
       TxKnows, IsLive, Exists
  <2> QED
    BY <2>1, AdministerInv, ReadInv, WriteInv DEF Next
<1> QED
  BY <1>1, CatalogueInit, PTL DEF Spec

-----------------------------------------------------------------------------
(* The theorems *)

(* Catalogue, subscriptions and open transactions keep their types. *)
THEOREM CatalogueTypeCorrect == Spec => []TypeOK
<1>1. CInv => TypeOK
  BY DEF CInv
<1> QED
  BY <1>1, CatalogueInvariant, PTL

(* No subscription is on, or waits for, a plan that was removed. *)
THEOREM ReferencesStay == Spec => []ReferencesHold
<1>1. CInv => ReferencesHold
  BY DEF CInv
<1> QED
  BY <1>1, CatalogueInvariant, PTL

(* Whoever edits and removes what while a payment is processed: the terms in  *)
(* the row were offered for the plan in the row.                              *)
THEOREM TermsAreOffered == Spec => []TermsWereOffered
<1>1. CInv => TermsWereOffered
  BY DEF CInv
<1> QED
  BY <1>1, CatalogueInvariant, PTL

(* Nobody gets, or waits for, the enterprise plan of another tenant. *)
THEOREM PlansStayOwn == Spec => []OnlyOwnPlans
<1>1. CInv => OnlyOwnPlans
  BY DEF CInv
<1> QED
  BY <1>1, CatalogueInvariant, PTL

(* The trial plan stays and it alone is free. *)
THEOREM TrialPlanStays == Spec => []FreePlanStays
<1>1. CInv => FreePlanStays
  <2> SUFFICES ASSUME CInv PROVE FreePlanStays
    OBVIOUS
  <2>1. ASSUME NEW p \in Plans, IsLive(p) PROVE IsFree(p) <=> p = FreePlan
    BY <2>1 DEF CInv, OffersSplit, LiveTermsOffered, IsFree
  <2>2. ASSUME NEW t \in Tenants, Exists(t), sub[t].planId # FreePlan
        PROVE  sub[t].snapshot.price > 0
    <3>1. sub[t].planId \in Plans /\ sub[t].snapshot \in offered[sub[t].planId]
      BY <2>2, SubFields DEF CInv, TermsWereOffered
    <3>2. sub[t].snapshot.price # 0
      BY <2>2, <3>1 DEF CInv, OffersSplit
    <3>3. sub[t].snapshot \in Offers
      BY <3>1 DEF CInv, TypeOK
    <3> QED
      BY <3>2, <3>3, CatalogueAssumption
  <2> QED
    BY <2>1, <2>2 DEF FreePlanStays, CInv, FreePlanOffered
<1> QED
  BY <1>1, CatalogueInvariant, PTL

(* What is written is the plan that was waiting when the row was read. *)
TxTakesSeen ==
    \A h \in Handlers :
        tx[h].kind \in {"activate", "apply", "change"} /\ tx[h].seen # Null
        => tx[h].planId = tx[h].seen

LEMMA TxTakesSeenInv == TypeOK /\ TxTakesSeen /\ [Next]_vars => TxTakesSeen'
<1> SUFFICES ASSUME TypeOK, TxTakesSeen, [Next]_vars, NEW g \in Handlers,
                    tx'[g].kind \in {"activate", "apply", "change"}, tx'[g].seen # Null
             PROVE  tx'[g].planId = tx'[g].seen
  BY DEF TxTakesSeen
<1>1. ASSUME tx'[g] = tx[g] PROVE tx'[g].planId = tx'[g].seen
  BY <1>1 DEF TxTakesSeen
<1>2. ASSUME NEW h \in Handlers, NEW x, tx' = [tx EXCEPT ![h] = x],
             x.kind \in {"activate", "apply", "change"} /\ x.seen # Null => x.planId = x.seen
      PROVE  tx'[g].planId = tx'[g].seen
  BY <1>1, <1>2 DEF TypeOK
<1>3. ASSUME NEW h \in Handlers, Done(h) PROVE tx'[g].planId = tx'[g].seen
  BY <1>2, <1>3 DEF Done, NoTx
<1>4. ASSUME NEW h \in Handlers, Write(h) PROVE tx'[g].planId = tx'[g].seen
  BY <1>3, <1>4 DEF Write, CommitRemove, CommitTrial, CommitChoose, CommitChange,
     Rollback
<1>5. ASSUME NEW h \in Handlers, Read(h) PROVE tx'[g].planId = tx'[g].seen
  <2>1. ASSUME NEW p \in Plans, BeginRemove(h, p)
        PROVE  tx'[g].planId = tx'[g].seen
    <3> DEFINE x == [kind |-> "remove", planId |-> p]
    <3>1. x.kind = "remove" /\ tx' = [tx EXCEPT ![h] = x]
      BY <2>1 DEF BeginRemove, Begin
    <3> HIDE DEF x
    <3> QED
      BY <1>2, <3>1
  <2>2. ASSUME NEW t \in Tenants, NEW p \in Plans, BeginChoose(h, t, p)
        PROVE  tx'[g].planId = tx'[g].seen
    <3> DEFINE x == [kind |-> "choose", tenant |-> t, planId |-> p]
    <3>1. x.kind = "choose" /\ tx' = [tx EXCEPT ![h] = x]
      BY <2>2 DEF BeginChoose, Begin
    <3> HIDE DEF x
    <3> QED
      BY <1>2, <3>1
  <2>3. ASSUME NEW kind, NEW t, NEW p, NEW o, Reads(h, kind, t, p, o),
               kind = "trial" \/ (sub[t].pendingPlanId # Null =>
                                      p = sub[t].pendingPlanId)
        PROVE  tx'[g].planId = tx'[g].seen
    <3> DEFINE x == [kind |-> kind, tenant |-> t, planId |-> p, terms |-> o,
                     seen |-> sub[t].pendingPlanId]
    <3>1. /\ x.kind = kind /\ x.planId = p /\ x.seen = sub[t].pendingPlanId
          /\ tx' = [tx EXCEPT ![h] = x]
      BY <2>3 DEF Reads, Begin
    <3> HIDE DEF x
    <3> QED
      BY <1>2, <2>3, <3>1
  <2>4. ASSUME NEW t \in Tenants,
               BeginTrial(h, t) \/ BeginApply(h, t) \/ BeginActivate(h, t)
        PROVE  tx'[g].planId = tx'[g].seen
    BY <2>3, <2>4 DEF BeginTrial, BeginApply, BeginActivate, ActivePlanId
  <2>5. CASE ReadPlan(h)
    <3>1. tx[h] \in Tx /\ tx[h].kind \in {"activate", "apply"}
      BY <2>5 DEF ReadPlan, TypeOK, NoTx
    <3>2. PICK o : tx' = [tx EXCEPT ![h] = [tx[h] EXCEPT !.kind = "change",
                                                         !.terms = o]]
      BY <2>5 DEF ReadPlan
    <3>3. PICK t \in Tenants, p \in Plans, q \in Offers, s \in Plans \cup {Null},
              k \in {"activate", "apply"} :
              tx[h] = [kind |-> k, tenant |-> t, planId |-> p,
                       terms |-> q, seen |-> s]
      BY <3>1 DEF Tx
    <3> DEFINE y == [[tx[h] EXCEPT !.kind = "change"] EXCEPT !.terms = o]
    <3>4. y.planId = p /\ y.seen = s
      BY <3>3
    <3>5. s # Null => p = s
      BY <3>3 DEF TxTakesSeen
    <3>6. tx' = [tx EXCEPT ![h] = y]
      BY <3>2
    <3> HIDE DEF y
    <3> QED
      BY <1>2, <3>4, <3>5, <3>6
  <2> QED
    BY <1>5, <2>1, <2>2, <2>4, <2>5 DEF Read
<1> QED
  BY <1>1, <1>4, <1>5 DEF Next, Administer, CreatePlan, UpdatePlan, Offer, vars

LEMMA WaitingPlanStep ==
    ASSUME CInv, TxTakesSeen, [Next]_vars
    PROVE  [WaitingStep]_vars
<1> SUFFICES ASSUME NEW t \in Tenants,
                    NEW p, p = sub[t].pendingPlanId, p # Null,
                    sub'[t].pendingPlanId = Null,
                    \A h \in Handlers : ~Outdated(h, t)
             PROVE  sub'[t].planId = p \/ plan'[p] = Removed
  BY DEF WaitingStep
<1>0. TypeOK /\ Exists(t) /\ Null \notin Plans /\ p \in Plans
  BY SubFields, CatalogueAssumption DEF CInv
<1>1. sub'[t] # sub[t]
  OBVIOUS
<1>2. PICK h \in Handlers : Write(h)
  BY <1>1 DEF Next, Administer, CreatePlan, UpdatePlan, Offer, Read,
     BeginRemove, BeginTrial, BeginChoose, BeginApply, BeginActivate, Reads,
     Begin, ReadPlan, vars
<1>3. CASE CommitRemove(h)
  <2>1. PICK q \in Plans : q = tx[h].planId
    BY <1>0, <1>3, TxFields DEF CommitRemove
  <2>2. /\ plan' = [plan EXCEPT ![q] = Removed]
        /\ sub'[t] = IF sub[t].pendingPlanId = q
                     THEN [sub[t] EXCEPT !.pendingPlanId = Null] ELSE sub[t]
    BY <1>3, <2>1 DEF CommitRemove
  <2>3. q = p
    BY <1>1, <2>2
  <2> QED
    BY <1>0, <2>2, <2>3 DEF TypeOK
<1>4. CASE CommitTrial(h)
  BY <1>0, <1>1, <1>4 DEF CommitTrial, TypeOK
<1>5. CASE CommitChoose(h)
  <2>1. PICK u \in Tenants, q \in Plans : u = tx[h].tenant /\ q = tx[h].planId
    BY <1>0, <1>5, TxFields DEF CommitChoose
  <2>2. sub' = [sub EXCEPT ![u] = [sub[u] EXCEPT !.pendingPlanId = q]]
    BY <1>5, <2>1 DEF CommitChoose
  <2>3. u = t
    BY <1>0, <1>1, <2>2 DEF TypeOK
  <2>4. sub[t] \in Sub
    BY <1>0, SubFields
  <2>5. sub'[t].pendingPlanId = q
    BY <1>0, <2>2, <2>3, <2>4 DEF TypeOK, Sub
  <2> QED
    BY <1>0, <2>5
<1>6. CASE CommitChange(h)
  <2>1. tx[h].tenant = t /\ sub'[t].planId = tx[h].planId
    BY <1>0, <1>1, <1>6, TxFields DEF CommitChange, TypeOK
  <2>2. tx[h].seen = p
    BY <1>6, <2>1 DEF CommitChange, Outdated
  <2> QED
    BY <1>6, <2>1, <2>2 DEF CommitChange, TxTakesSeen
<1>7. CASE Rollback(h)
  BY <1>1, <1>7 DEF Rollback
<1> QED
  BY <1>2, <1>3, <1>4, <1>5, <1>6, <1>7 DEF Write

(* A plan a tenant waits for is not lost but to an outdated transaction. *)
THEOREM WaitingPlansAreKept == Spec => WaitingPlanIsNotLost
<1>1. Init => TxTakesSeen
  BY DEF Init, TxTakesSeen, NoTx
<1>2. CInv => TypeOK
  BY DEF CInv
<1>3. CInv /\ TxTakesSeen /\ [Next]_vars => [WaitingStep]_vars
  BY WaitingPlanStep
<1> QED
  BY <1>1, <1>2, <1>3, TxTakesSeenInv, CatalogueInvariant, PTL
     DEF Spec, WaitingPlanIsNotLost

(* Where transactions run one at a time none is outdated ...                  *)
NoneOutdated == \A h \in Handlers, t \in Tenants : ~Outdated(h, t)

LEMMA NoneOutdatedNext ==
    ASSUME NEW o, Handlers = {o}, TypeOK, NoneOutdated, [Next]_vars
    PROVE  NoneOutdated'
<1> SUFFICES ASSUME NEW t \in Tenants PROVE ~Outdated(o, t)'
  BY DEF NoneOutdated
<1>1. ASSUME UNCHANGED <<tx, sub>> PROVE ~Outdated(o, t)'
  BY <1>1 DEF NoneOutdated, Outdated
<1>2. ASSUME NEW x, tx' = [tx EXCEPT ![o] = x], sub' = sub,
             x.kind \in {"activate", "apply", "change"} /\ x.tenant = t
                 => x.seen = sub[t].pendingPlanId
      PROVE  ~Outdated(o, t)'
  BY <1>2 DEF Outdated, TypeOK
<1>3. ASSUME Done(o) PROVE ~Outdated(o, t)'
  BY <1>3 DEF Done, Outdated, NoTx, TypeOK
<1>4. ASSUME Write(o) PROVE ~Outdated(o, t)'
  BY <1>3, <1>4 DEF Write, CommitRemove, CommitTrial, CommitChoose, CommitChange,
     Rollback
<1>5. ASSUME Read(o) PROVE ~Outdated(o, t)'
  <2>1. ASSUME NEW p \in Plans, BeginRemove(o, p) PROVE ~Outdated(o, t)'
    <3> DEFINE x == [kind |-> "remove", planId |-> p]
    <3>1. x.kind = "remove" /\ tx' = [tx EXCEPT ![o] = x] /\ sub' = sub
      BY <2>1 DEF BeginRemove, Begin
    <3> HIDE DEF x
    <3> QED
      BY <1>2, <3>1
  <2>2. ASSUME NEW u \in Tenants, NEW p \in Plans, BeginChoose(o, u, p)
        PROVE  ~Outdated(o, t)'
    <3> DEFINE x == [kind |-> "choose", tenant |-> u, planId |-> p]
    <3>1. x.kind = "choose" /\ tx' = [tx EXCEPT ![o] = x] /\ sub' = sub
      BY <2>2 DEF BeginChoose, Begin
    <3> HIDE DEF x
    <3> QED
      BY <1>2, <3>1
  <2>3. ASSUME NEW kind, NEW u, NEW p, NEW c, Reads(o, kind, u, p, c)
        PROVE  ~Outdated(o, t)'
    <3> DEFINE x == [kind |-> kind, tenant |-> u, planId |-> p, terms |-> c,
                     seen |-> sub[u].pendingPlanId]
    <3>1. /\ x.tenant = u /\ x.seen = sub[u].pendingPlanId
          /\ tx' = [tx EXCEPT ![o] = x] /\ sub' = sub
      BY <2>3 DEF Reads, Begin
    <3> HIDE DEF x
    <3> QED
      BY <1>2, <3>1
  <2>4. ASSUME NEW u \in Tenants,
               BeginTrial(o, u) \/ BeginApply(o, u) \/ BeginActivate(o, u)
        PROVE  ~Outdated(o, t)'
    BY <2>3, <2>4 DEF BeginTrial, BeginApply, BeginActivate
  <2>5. CASE ReadPlan(o)
    <3>1. tx[o] \in Tx /\ tx[o].kind \in {"activate", "apply"}
      BY <2>5 DEF ReadPlan, TypeOK, NoTx
    <3>2. PICK c : tx' = [tx EXCEPT ![o] = [tx[o] EXCEPT !.kind = "change",
                                                         !.terms = c]]
      BY <2>5 DEF ReadPlan
    <3>3. PICK u \in Tenants, p \in Plans, q \in Offers, s \in Plans \cup {Null},
              k \in {"activate", "apply"} :
              tx[o] = [kind |-> k, tenant |-> u, planId |-> p,
                       terms |-> q, seen |-> s]
      BY <3>1 DEF Tx
    <3> DEFINE y == [[tx[o] EXCEPT !.kind = "change"] EXCEPT !.terms = c]
    <3>4. y.tenant = u /\ y.seen = s
      BY <3>3
    <3>5. u = t => s = sub[t].pendingPlanId
      BY <3>3 DEF NoneOutdated, Outdated
    <3>6. tx' = [tx EXCEPT ![o] = y] /\ sub' = sub
      BY <2>5, <3>2 DEF ReadPlan
    <3> HIDE DEF y
    <3> QED
      BY <1>2, <3>4, <3>5, <3>6
  <2> QED
    BY <1>5, <2>1, <2>2, <2>4, <2>5 DEF Read
<1> QED
  BY <1>1, <1>4, <1>5 DEF Next, Administer, CreatePlan, UpdatePlan, Offer, vars

KeptStep ==
    \A t \in Tenants :
        sub[t].pendingPlanId # Null /\ sub'[t].pendingPlanId = Null
        => \/ sub'[t].planId = sub[t].pendingPlanId
           \/ plan'[sub[t].pendingPlanId] = Removed

(* ... and a plan that was chosen is never lost: it comes into force, or an   *)
(* administrator removes it (activateAfterSuccessfulPayment,                  *)
(* applyScheduledDowngrade, remove).                                          *)
THEOREM WaitingPlanIsKeptAlone ==
    ASSUME NEW o, Handlers = {o}
    PROVE  Spec => [][KeptStep]_vars
<1>1. Init => TxTakesSeen /\ NoneOutdated
  BY DEF Init, TxTakesSeen, NoneOutdated, Outdated, NoTx
<1>2. CInv => TypeOK
  BY DEF CInv
<1>3. CInv /\ NoneOutdated /\ [Next]_vars => NoneOutdated'
  BY <1>2, NoneOutdatedNext
<1>4. CInv /\ TxTakesSeen /\ NoneOutdated /\ [Next]_vars => [KeptStep]_vars
  BY WaitingPlanStep DEF NoneOutdated, WaitingStep, KeptStep
<1> QED
  BY <1>1, <1>2, <1>3, <1>4, TxTakesSeenInv, CatalogueInvariant, PTL DEF Spec
=============================================================================
