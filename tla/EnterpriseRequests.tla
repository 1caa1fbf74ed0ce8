-------------------------- MODULE EnterpriseRequests --------------------------
(***************************************************************************)
(* EnterprisePlanRequestsService: a tenant asks for an enterprise plan,    *)
(* administrators review the request, and approve it with a private plan.  *)
(*                                                                         *)
(* Each method is an interactive transaction at READ COMMITTED: it reads   *)
(* and checks, then writes without looking again.  It is two steps here,   *)
(* Begin... and Commit..., between which other transactions commit.  The   *)
(* insert of a plan meets the unique index on the name when it commits.    *)
(*                                                                         *)
(* A definition introduced as a mutant is a plausible mistake in the one   *)
(* that follows it; no specification uses it.                              *)
(***************************************************************************)
EXTENDS Naturals, FiniteSets, Sequences

CONSTANTS
    Handlers,     \* transactions open at the same time (slots, used again)
    Tenants,
    Requests,     \* ids of requests
    PlanNames,    \* names of enterprise plans
    Null,
    MaxReviews    \* bound: reviews recorded for one request

ASSUME EnterpriseAssumption ==
    /\ IsFiniteSet(Handlers) /\ Handlers # {}
    /\ IsFiniteSet(Requests)
    /\ Null \notin Tenants
    /\ MaxReviews \in Nat

VARIABLES
    request,      \* table enterprise_plan_requests
    plans,        \* enterprise_custom rows of table plans
    events,       \* table enterprise_plan_request_events, by request
    tx            \* what each open transaction has read and is to write

vars == <<request, plans, events, tx>>

-----------------------------------------------------------------------------
Open == {"pending", "contacted"}
Final == {"approved", "rejected"}

(* EnterprisePlanRequest; NoRequest is an id not used yet. *)
NoRequest == [tenant |-> Null, status |-> "none"]
Request == [tenant : Tenants, status : Open \cup Final]

Plan == [name : PlanNames, tenant : Tenants, request : Requests]

(* A review, and an approval with a plan, are the same event to the log. *)
Event == [type : {"created", "reviewed"}, status : Open \cup Final]

NoTx == [kind |-> "none"]
Tx == [kind : {"create"}, tenant : Tenants]
      \cup [kind : {"review"}, request : Requests, seen : Open,
            status : {"contacted"} \cup Final]
      \cup [kind : {"approve"}, request : Requests, seen : Open \cup {"approved"},
            name : PlanNames]

Free(h) == tx[h].kind = "none"

OpenRequests(t) ==
    {r \in Requests : request[r].tenant = t /\ request[r].status \in Open}

Reviews(r) == Len(SelectSeq(events[r], LAMBDA e : e.type = "reviewed"))

Init ==
    /\ request = [r \in Requests |-> NoRequest]
    /\ plans = {}
    /\ events = [r \in Requests |-> << >>]
    /\ tx = [h \in Handlers |-> NoTx]

-----------------------------------------------------------------------------
(* create *)

(* Mutant: any earlier request may still be waiting. *)
BeginCreateUnchecked(h, t) ==
    /\ Free(h)
    /\ tx' = [tx EXCEPT ![h] = [kind |-> "create", tenant |-> t]]
    /\ UNCHANGED <<request, plans, events>>

(* No request of the tenant is pending or contacted. *)
BeginCreate(h, t) ==
    /\ Free(h)
    /\ OpenRequests(t) = {}
    /\ tx' = [tx EXCEPT ![h] = [kind |-> "create", tenant |-> t]]
    /\ UNCHANGED <<request, plans, events>>

CommitCreate(h, r) ==
    /\ tx[h].kind = "create"
    /\ request[r] = NoRequest
    /\ request' = [request EXCEPT ![r] = [tenant |-> tx[h].tenant, status |-> "pending"]]
    /\ events' = [events EXCEPT ![r] =
           Append(@, [type |-> "created", status |-> "pending"])]
    /\ tx' = [tx EXCEPT ![h] = NoTx]
    /\ UNCHANGED plans

-----------------------------------------------------------------------------
(* reviewRequest *)

(* Mutant: a decided request is reviewed again. *)
BeginReviewUnchecked(h, r, s) ==
    /\ Free(h)
    /\ request[r] # NoRequest
    /\ tx' = [tx EXCEPT ![h] = [kind |-> "review", request |-> r,
                                seen |-> request[r].status, status |-> s]]
    /\ UNCHANGED <<request, plans, events>>

(* The request read is neither approved nor rejected; s is to be written. *)
BeginReview(h, r, s) ==
    /\ Free(h)
    /\ request[r].status \in Open
    /\ tx' = [tx EXCEPT ![h] = [kind |-> "review", request |-> r,
                                seen |-> request[r].status, status |-> s]]
    /\ UNCHANGED <<request, plans, events>>

(* The status is written whatever it is by now. *)
CommitReview(h) ==
    /\ tx[h].kind = "review"
    /\ Reviews(tx[h].request) < MaxReviews
    /\ request' = [request EXCEPT ![tx[h].request].status = tx[h].status]
    /\ events' = [events EXCEPT ![tx[h].request] =
           Append(@, [type |-> "reviewed", status |-> tx[h].status])]
    /\ tx' = [tx EXCEPT ![h] = NoTx]
    /\ UNCHANGED plans

-----------------------------------------------------------------------------
(* approveAndCreatePlan *)

PlanNamed(n) == {p \in plans : p.name = n}

(* An approved request may be approved again; a rejected one may not. *)
BeginApprove(h, r, n) ==
    /\ Free(h)
    /\ request[r].status \in Open \cup {"approved"}
    /\ PlanNamed(n) = {}
    /\ tx' = [tx EXCEPT ![h] = [kind |-> "approve", request |-> r,
                                seen |-> request[r].status, name |-> n]]
    /\ UNCHANGED <<request, plans, events>>

(* Mutant: a plan is created, and the request stays as it was. *)
CommitApproveOfPlanOnly(h) ==
    /\ tx[h].kind = "approve"
    /\ PlanNamed(tx[h].name) = {}
    /\ plans' = plans \cup {[name |-> tx[h].name,
                             tenant |-> request[tx[h].request].tenant,
                             request |-> tx[h].request]}
    /\ tx' = [tx EXCEPT ![h] = NoTx]
    /\ UNCHANGED <<request, events>>

CommitApprove(h) ==
    /\ tx[h].kind = "approve"
    /\ PlanNamed(tx[h].name) = {}
    /\ Reviews(tx[h].request) < MaxReviews
    /\ plans' = plans \cup {[name |-> tx[h].name,
                             tenant |-> request[tx[h].request].tenant,
                             request |-> tx[h].request]}
    /\ request' = [request EXCEPT ![tx[h].request].status = "approved"]
    /\ events' = [events EXCEPT ![tx[h].request] =
           Append(@, [type |-> "reviewed", status |-> "approved"])]
    /\ tx' = [tx EXCEPT ![h] = NoTx]

(* Any transaction may fail, and that of a duplicate name does.  The approval *)
(* for a tenant without a subscription may be rolled back although it answers *)
(* with success: the event it inserts with an empty subscription id is a      *)
(* failed statement, and only the error is caught.                            *)
RollBack(h) ==
    /\ ~Free(h)
    /\ tx' = [tx EXCEPT ![h] = NoTx]
    /\ UNCHANGED <<request, plans, events>>

Next ==
    \E h \in Handlers :
        \/ \E t \in Tenants : BeginCreate(h, t)
        \/ \E r \in Requests : CommitCreate(h, r)
        \/ \E r \in Requests, s \in {"contacted"} \cup Final : BeginReview(h, r, s)
        \/ CommitReview(h)
        \/ \E r \in Requests, n \in PlanNames : BeginApprove(h, r, n)
        \/ CommitApprove(h)
        \/ RollBack(h)

Spec == Init /\ [][Next]_vars

-----------------------------------------------------------------------------
(* Properties.                                                               *)

(* Rows, the log and open transactions keep their types: a review has only   *)
(* seen open requests, an approval none that was rejected.                   *)
TypeOK ==
    /\ request \in [Requests -> Request \cup {NoRequest}]
    /\ plans \subseteq Plan
    /\ events \in [Requests -> Seq(Event)]
    /\ tx \in [Handlers -> Tx \cup {NoTx}]

(* Requests that are open, or that a review which read them open will reopen.*)
Reopens(h, r) ==
    tx[h].kind = "review" /\ tx[h].request = r /\ tx[h].status = "contacted"

MayBeOpen(t) ==
    {r \in Requests :
        /\ request[r].tenant = t
        /\ request[r].status \in Open \/ \E h \in Handlers : Reopens(h, r)}

Creating(t) == {h \in Handlers : tx[h].kind = "create" /\ tx[h].tenant = t}

(* create checks for an open request and inserts later, so a tenant may have *)
(* several; but never more than transactions run side by side, however long  *)
(* tenant and administrators go on creating, deciding and reopening.         *)
OpenRequestsBounded ==
    \A t \in Tenants :
        Cardinality(MayBeOpen(t)) + Cardinality(Creating(t)) <= Cardinality(Handlers)

(* A decision is changed only by a transaction that had read the request     *)
(* before it: once those are over, an approved or rejected request stays so. *)
Outdated(h, r) ==
    /\ tx[h].kind \in {"review", "approve"}
    /\ tx[h].request = r
    /\ tx[h].seen # request[r].status

DecisionSettles ==
    [][\A r \in Requests :
          request[r].status \in Final /\ (\A h \in Handlers : ~Outdated(h, r))
          => request'[r].status = request[r].status]_vars

(* Every enterprise plan comes from an approval that the log of its request  *)
(* records, one plan for each at most, and belongs to the tenant who asked.  *)
Approvals(r) == {i \in 1..Len(events[r]) :
                    events[r][i] = [type |-> "reviewed", status |-> "approved"]}

PlansOf(r) == {p \in plans : p.request = r}

PlansAreApproved ==
    \A r \in Requests :
        /\ Cardinality(PlansOf(r)) <= Cardinality(Approvals(r))
        /\ \A p \in PlansOf(r) : p.tenant = request[r].tenant

(* "only one open request per tenant is allowed while status is pending or    *)
(* contacted": what two transactions at once do not keep.                    *)
OneOpenRequest == \A t \in Tenants : Cardinality(OpenRequests(t)) <= 1

(* "rejects the operation if the request is already approved or rejected":    *)
(* what two administrators at once do not keep.                              *)
DecisionIsFinal ==
    [][\A r \in Requests :
          request[r].status \in Final => request'[r].status = request[r].status]_vars
=============================================================================
