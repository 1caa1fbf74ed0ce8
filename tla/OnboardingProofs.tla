--------------------------- MODULE OnboardingProofs ---------------------------
(***************************************************************************)
(* Proofs about Onboarding, for any accounts, names, codes and any number  *)
(* of requests at a time.  The inductive invariant says what a request in  *)
(* progress may still rely on although it read the row some steps ago: the *)
(* account it serves is a user's, and once its trial starts it is verified *)
(* and stays so.  Every step is then one step of AccountLifecycle or none. *)
(***************************************************************************)
EXTENDS Onboarding, TLAPS

AccountInOrder(u) ==
    /\ user[u].role # "user" => user[u].verificationCode = Null
    /\ user[u].role = "admin" => user[u].isVerified
    /\ user[u].role = "user" /\ ~user[u].isVerified
           => user[u].verificationCode # Null

RequestInOrder(q) ==
    /\ q.at # "idle" => q.user \in Users
    /\ q.at \in {"createUser", "createTenant"} => q.name \in Names
    /\ q.at \in {"createTenant", "writeCode", "markVerified",
                 "findTenant", "insertTrial"} => user[q.user].role = "user"
    /\ q.at \in {"findTenant", "insertTrial"} => user[q.user].isVerified
    /\ q.at = "insertTrial" => tenant[q.user] # Null

OInv ==
    /\ TypeOK
    /\ \A u \in Users : AccountInOrder(u)
    /\ \A r \in Requests : RequestInOrder(req[r])

(* What a step may do to a row that some request has read: nothing that the  *)
(* request relies on.                                                        *)
Persists ==
    \A u \in Users :
        /\ user[u].role = "user" => user'[u].role = "user"
        /\ user[u].role = "user" /\ user[u].isVerified => user'[u].isVerified
        /\ tenant[u] # Null => tenant'[u] # Null

-----------------------------------------------------------------------------
LEMMA InitOInv == Init => OInv
BY NullAssumption
DEF Init, OInv, TypeOK, User, NoUser, Request, Idle, Steps, AccountInOrder,
    RequestInOrder

(* A request that is in order stays so while the rows persist. *)
LEMMA OrderPersists ==
    ASSUME OInv, Persists, NEW r \in Requests, req'[r] \in {req[r], Idle}
    PROVE  RequestInOrder(req[r])'
BY DEF OInv, TypeOK, Request, Steps, RequestInOrder, Persists, Idle

(* So a step has to be looked at for the rows and for its own request only. *)
LEMMA OneRequestMoves ==
    ASSUME OInv, Persists, NEW r \in Requests, NEW q \in Request,
           req' = [req EXCEPT ![r] = q],
           RequestInOrder(req[r])'
    PROVE  /\ \A s \in Requests : RequestInOrder(req[s])'
           /\ req' \in [Requests -> Request]
<1>1. req' \in [Requests -> Request]
  BY DEF OInv, TypeOK
<1>2. ASSUME NEW s \in Requests
      PROVE  RequestInOrder(req[s])'
  <2>1. CASE s = r
    BY <2>1
  <2>2. CASE s # r
    <3>1. req'[s] = req[s]
      BY <2>2 DEF OInv, TypeOK
    <3> QED
      BY <3>1, OrderPersists
  <2> QED
    BY <2>1, <2>2
<1> QED
  BY <1>1, <1>2

LEMMA RowsUntouched ==
    ASSUME OInv, UNCHANGED tables
    PROVE  /\ Persists
           /\ \A u \in Users : AccountInOrder(u)'
BY DEF OInv, Persists, AccountInOrder, tables

-----------------------------------------------------------------------------
(* Each action preserves the invariant. *)

LEMMA CheckSignupOInv ==
    ASSUME OInv, NEW r \in Requests, NEW u \in Users, NEW n \in Names,
           CheckSignup(r, u, n)
    PROVE  OInv'
<1> DEFINE q == [at |-> "createUser", user |-> u, name |-> n]
<1>1. /\ Persists
      /\ \A v \in Users : AccountInOrder(v)'
  BY RowsUntouched DEF CheckSignup
<1>2. q \in Request /\ req' = [req EXCEPT ![r] = q]
  BY DEF CheckSignup, Request, Steps
<1>3. RequestInOrder(req[r])'
  BY <1>2 DEF OInv, TypeOK, RequestInOrder
<1> QED
  BY <1>1, <1>2, <1>3, OneRequestMoves DEF CheckSignup, OInv, TypeOK, tables

LEMMA CreateUserOInv ==
    ASSUME OInv, NEW r \in Requests, NEW u \in Users, NEW code \in Codes,
           CreateUser(r, u, code)
    PROVE  OInv'
<1> DEFINE q == [req[r] EXCEPT !.at = "createTenant"]
<1>1. user' \in [Users -> User] /\ Persists
  BY DEF CreateUser, OInv, TypeOK, User, Persists, IsRegistered
<1>2. ASSUME NEW v \in Users PROVE AccountInOrder(v)'
  BY NullAssumption DEF CreateUser, OInv, TypeOK, User, AccountInOrder
<1>3. q \in Request /\ req' = [req EXCEPT ![r] = q]
  BY DEF CreateUser, GoTo, OInv, TypeOK, Request, Steps
<1>4. RequestInOrder(req[r])'
  BY <1>3 DEF CreateUser, OInv, TypeOK, RequestInOrder, Request, User
<1> QED
  BY <1>1, <1>2, <1>3, <1>4, OneRequestMoves DEF CreateUser, OInv, TypeOK

LEMMA FinishInOrder ==
    ASSUME OInv, Persists, NEW r \in Requests, Finish(r)
    PROVE  /\ \A s \in Requests : RequestInOrder(req[s])'
           /\ req' \in [Requests -> Request]
<1>1. Idle \in Request /\ req' = [req EXCEPT ![r] = Idle]
  BY DEF Finish, Idle, Request, Steps
<1>2. req'[r] = Idle
  BY <1>1 DEF OInv, TypeOK
<1>3. RequestInOrder(req[r])'
  BY <1>2, OrderPersists
<1> QED
  BY <1>1, <1>3, OneRequestMoves

LEMMA CreateTenantOInv ==
    ASSUME OInv, NEW r \in Requests, NEW u \in Users, CreateTenant(r, u)
    PROVE  OInv'
<1>1. req[r].name \in Names
  BY DEF CreateTenant, OInv, RequestInOrder
<1>2. tenant' \in [Users -> Names \cup {Null}] /\ Persists
  BY <1>1, NullAssumption DEF CreateTenant, OInv, TypeOK, Persists
<1>3. \A v \in Users : AccountInOrder(v)'
  BY DEF CreateTenant, OInv, AccountInOrder
<1>4. Finish(r)
  BY DEF CreateTenant
<1> QED
  BY <1>2, <1>3, <1>4, FinishInOrder DEF CreateTenant, OInv, TypeOK

LEMMA ReadUnverifiedOInv ==
    ASSUME OInv, NEW r \in Requests, NEW u \in Users, ReadUnverified(r, u)
    PROVE  OInv'
<1> DEFINE q == [Idle EXCEPT !.at = "writeCode", !.user = u]
<1>1. /\ Persists
      /\ \A v \in Users : AccountInOrder(v)'
  BY RowsUntouched DEF ReadUnverified
<1>2. q \in Request /\ req' = [req EXCEPT ![r] = q]
  BY DEF ReadUnverified, Idle, Request, Steps
<1>3. user[u].role = "user"
  BY DEF ReadUnverified, IsRegistered, OInv, TypeOK, User, AccountInOrder
<1>4. RequestInOrder(req[r])'
  BY <1>2, <1>3 DEF ReadUnverified, tables, OInv, TypeOK, RequestInOrder, Idle
<1> QED
  BY <1>1, <1>2, <1>4, OneRequestMoves DEF ReadUnverified, OInv, TypeOK, tables

LEMMA WriteCodeOInv ==
    ASSUME OInv, NEW r \in Requests, NEW u \in Users, NEW code \in Codes,
           WriteCode(r, u, code)
    PROVE  OInv'
<1>1. user' \in [Users -> User] /\ Persists
  BY DEF WriteCode, OInv, TypeOK, User, Persists
<1>2. user[u].role = "user"
  BY DEF WriteCode, OInv, RequestInOrder
<1>3. ASSUME NEW v \in Users PROVE AccountInOrder(v)'
  BY <1>2, NullAssumption DEF WriteCode, OInv, TypeOK, User, AccountInOrder
<1>4. Finish(r)
  BY DEF WriteCode
<1> QED
  BY <1>1, <1>3, <1>4, FinishInOrder DEF WriteCode, OInv, TypeOK

LEMMA CheckCodeOInv ==
    ASSUME OInv, NEW r \in Requests, NEW u \in Users, NEW code \in Codes,
           CheckCode(r, u, code)
    PROVE  OInv'
<1> DEFINE q == [Idle EXCEPT !.at = "markVerified", !.user = u]
<1>1. /\ Persists
      /\ \A v \in Users : AccountInOrder(v)'
  BY RowsUntouched DEF CheckCode
<1>2. q \in Request /\ req' = [req EXCEPT ![r] = q]
  BY DEF CheckCode, Idle, Request, Steps
<1>3. user[u].role = "user"
  BY NullAssumption DEF CheckCode, OInv, AccountInOrder
<1>4. RequestInOrder(req[r])'
  BY <1>2, <1>3 DEF CheckCode, tables, OInv, TypeOK, RequestInOrder, Idle
<1> QED
  BY <1>1, <1>2, <1>4, OneRequestMoves DEF CheckCode, OInv, TypeOK, tables

LEMMA MarkVerifiedOInv ==
    ASSUME OInv, NEW r \in Requests, NEW u \in Users, MarkVerified(r, u)
    PROVE  OInv'
<1> DEFINE q == [req[r] EXCEPT !.at = "findTenant"]
<1>1. user' \in [Users -> User] /\ Persists
  BY DEF MarkVerified, OInv, TypeOK, User, Persists
<1>2. ASSUME NEW v \in Users PROVE AccountInOrder(v)'
  BY DEF MarkVerified, OInv, TypeOK, User, AccountInOrder
<1>3. q \in Request /\ req' = [req EXCEPT ![r] = q]
  BY DEF MarkVerified, GoTo, OInv, TypeOK, Request, Steps
<1>4. user[u].role = "user"
  BY DEF MarkVerified, OInv, RequestInOrder
<1>5. RequestInOrder(req[r])'
  BY <1>3, <1>4
  DEF MarkVerified, OInv, TypeOK, RequestInOrder, Request, User
<1> QED
  BY <1>1, <1>2, <1>3, <1>5, OneRequestMoves DEF MarkVerified, OInv, TypeOK

LEMMA FindTenantOInv ==
    ASSUME OInv, NEW r \in Requests, NEW u \in Users, FindTenant(r, u)
    PROVE  OInv'
<1> DEFINE q == [req[r] EXCEPT !.at = "insertTrial"]
<1>1. /\ Persists
      /\ \A v \in Users : AccountInOrder(v)'
  BY RowsUntouched DEF FindTenant
<1>2. q \in Request /\ req' = [req EXCEPT ![r] = q]
  BY DEF FindTenant, GoTo, OInv, TypeOK, Request, Steps
<1>3. user[u].role = "user" /\ user[u].isVerified
  BY DEF FindTenant, OInv, RequestInOrder
<1>4. RequestInOrder(req[r])'
  BY <1>2, <1>3
  DEF FindTenant, tables, OInv, TypeOK, RequestInOrder, Request
<1> QED
  BY <1>1, <1>2, <1>4, OneRequestMoves DEF FindTenant, OInv, TypeOK, tables

LEMMA InsertTrialOInv ==
    ASSUME OInv, NEW r \in Requests, NEW u \in Users, InsertTrial(r, u)
    PROVE  OInv'
<1>1. rows' \in [Users -> 0..1]
  BY DEF InsertTrial, OInv, TypeOK
<1>2. Persists /\ \A v \in Users : AccountInOrder(v)'
  BY DEF InsertTrial, OInv, Persists, AccountInOrder
<1>3. Finish(r)
  BY DEF InsertTrial
<1> QED
  BY <1>1, <1>2, <1>3, FinishInOrder DEF InsertTrial, OInv, TypeOK

LEMMA FailRequestOInv ==
    ASSUME OInv, NEW r \in Requests, FailRequest(r)
    PROVE  OInv'
BY RowsUntouched, FinishInOrder DEF FailRequest, OInv, TypeOK, tables

LEMMA ExitProcessOInv ==
    ASSUME OInv, ExitProcess
    PROVE  OInv'
<1>1. /\ Persists
      /\ \A v \in Users : AccountInOrder(v)'
  BY RowsUntouched DEF ExitProcess
<1>2. req' \in [Requests -> Request]
  BY DEF ExitProcess, Idle, Request, Steps
<1>3. ASSUME NEW s \in Requests PROVE RequestInOrder(req[s])'
  BY <1>1, OrderPersists DEF ExitProcess
<1>4. lost' \subseteq Users
  BY DEF ExitProcess, OInv, TypeOK, RequestInOrder, InTrial
<1> QED
  BY <1>1, <1>2, <1>3, <1>4 DEF ExitProcess, OInv, TypeOK, tables

LEMMA CreateAdminOInv ==
    ASSUME OInv, NEW u \in Users, CreateAdmin(u)
    PROVE  OInv'
<1>1. user' \in [Users -> User] /\ Persists
  BY DEF CreateAdmin, OInv, TypeOK, User, Persists, IsRegistered
<1>2. ASSUME NEW v \in Users PROVE AccountInOrder(v)'
  BY DEF CreateAdmin, OInv, TypeOK, User, AccountInOrder
<1>3. ASSUME NEW s \in Requests PROVE RequestInOrder(req[s])'
  BY <1>1, OrderPersists DEF CreateAdmin
<1> QED
  BY <1>1, <1>2, <1>3 DEF CreateAdmin, OInv, TypeOK

LEMMA RenameTenantOInv ==
    ASSUME OInv, NEW u \in Users, NEW n \in Names, RenameTenant(u, n)
    PROVE  OInv'
<1>1. tenant' \in [Users -> Names \cup {Null}] /\ Persists
  BY NullAssumption DEF RenameTenant, OInv, TypeOK, Persists
<1>2. \A v \in Users : AccountInOrder(v)'
  BY DEF RenameTenant, OInv, AccountInOrder
<1>3. ASSUME NEW s \in Requests PROVE RequestInOrder(req[s])'
  BY <1>1, OrderPersists DEF RenameTenant
<1> QED
  BY <1>1, <1>2, <1>3 DEF RenameTenant, OInv, TypeOK

LEMMA NextOInv == OInv /\ [Next]_vars => OInv'
<1> SUFFICES ASSUME OInv, [Next]_vars PROVE OInv'
  OBVIOUS
<1>1. CASE \E r \in Requests, u \in Users : Arrive(r, u)
  BY <1>1, CheckSignupOInv, ReadUnverifiedOInv, CheckCodeOInv DEF Arrive
<1>2. CASE \E r \in Requests : Serve(r)
  BY <1>2, CreateUserOInv, WriteCodeOInv, CreateTenantOInv, MarkVerifiedOInv,
     FindTenantOInv, InsertTrialOInv, FailRequestOInv, ExitProcessOInv
  DEF Serve, RejectTrial
<1>3. CASE \E u \in Users : CreateAdmin(u) \/ \E n \in Names : RenameTenant(u, n)
  BY <1>3, CreateAdminOInv, RenameTenantOInv
<1>4. CASE ExitProcess
  BY <1>4, ExitProcessOInv
<1>5. CASE UNCHANGED vars
  BY <1>5
  DEF vars, OInv, TypeOK, AccountInOrder, RequestInOrder
<1> QED
  BY <1>1, <1>2, <1>3, <1>4, <1>5 DEF Next

LEMMA AlwaysOInv == Spec => []OInv
BY InitOInv, NextOInv, PTL DEF Spec

-----------------------------------------------------------------------------
(* The tables and the requests in progress keep their types; at most one     *)
(* subscription row exists per tenant (the unique columns).                  *)
THEOREM TypeCorrect == Spec => []TypeOK
BY AlwaysOInv, PTL DEF OInv

(* An account can be verified from wherever its owner stopped (signinUser,   *)
(* verifyVerificationToken).                                                 *)
THEOREM UnverifiedHasCode == Spec => []UnverifiedKeepsCode
<1>1. OInv => UnverifiedKeepsCode
  BY DEF OInv, TypeOK, User, AccountInOrder, UnverifiedKeepsCode, IsRegistered
<1> QED
  BY <1>1, AlwaysOInv, PTL

(* No request makes a tenant for an account that has lost its sign-up        *)
(* (signupUser).                                                             *)
THEOREM OrphansStayOrphans == Spec => OrphansStay
<1>1. OInv /\ [Next]_vars => OrphanStep
  <2> SUFFICES ASSUME OInv, [Next]_vars, NEW v \in Users, Orphaned(v)
               PROVE  Orphaned(v)'
    BY DEF OrphanStep
  <2>1. ASSUME UNCHANGED <<user, tenant>>,
               \A r \in Requests : req'[r].at = "createTenant" => req'[r] = req[r]
        PROVE  Orphaned(v)'
    BY <2>1 DEF Orphaned, IsRegistered
  <2>2. ASSUME NEW r \in Requests, Finish(r)
        PROVE  \A s \in Requests : req'[s].at = "createTenant" => req'[s] = req[s]
    BY <2>2 DEF OInv, TypeOK, Finish, Idle
  <2>3. ASSUME NEW r \in Requests, NEW u \in Users, NEW n \in Names,
               CheckSignup(r, u, n)
        PROVE  Orphaned(v)'
    BY <2>1, <2>3 DEF OInv, TypeOK, CheckSignup, tables
  <2>4. ASSUME NEW r \in Requests, NEW u \in Users, NEW code \in Codes,
               CreateUser(r, u, code)
        PROVE  Orphaned(v)'
    <3>1. u # v
      BY <2>4 DEF CreateUser, Orphaned
    <3>2. ASSUME NEW s \in Requests
          PROVE  ~(req'[s].at = "createTenant" /\ req'[s].user = v)
      BY <3>1, <2>4 DEF CreateUser, GoTo, OInv, TypeOK, Request, Orphaned
    <3> QED
      BY <3>1, <3>2, <2>4 DEF CreateUser, OInv, TypeOK, Orphaned, IsRegistered
  <2>5. ASSUME NEW r \in Requests, NEW u \in Users, CreateTenant(r, u)
        PROVE  Orphaned(v)'
    <3>1. u # v
      BY <2>5 DEF CreateTenant, Orphaned
    <3>2. \A s \in Requests : req'[s].at = "createTenant" => req'[s] = req[s]
      BY <2>2, <2>5 DEF CreateTenant
    <3> QED
      BY <3>1, <3>2, <2>5 DEF CreateTenant, OInv, TypeOK, Orphaned, IsRegistered
  <2>6. ASSUME NEW r \in Requests, NEW u \in Users, ReadUnverified(r, u)
        PROVE  Orphaned(v)'
    BY <2>1, <2>6 DEF OInv, TypeOK, ReadUnverified, tables, Idle
  <2>7. ASSUME NEW r \in Requests, NEW u \in Users, NEW code \in Codes,
               WriteCode(r, u, code)
        PROVE  Orphaned(v)'
    <3>1. \A s \in Requests : req'[s].at = "createTenant" => req'[s] = req[s]
      BY <2>2, <2>7 DEF WriteCode
    <3> QED
      BY <3>1, <2>7 DEF WriteCode, OInv, TypeOK, User, Orphaned, IsRegistered
  <2>8. ASSUME NEW r \in Requests, NEW u \in Users, NEW code \in Codes,
               CheckCode(r, u, code)
        PROVE  Orphaned(v)'
    BY <2>1, <2>8 DEF OInv, TypeOK, CheckCode, tables, Idle
  <2>9. ASSUME NEW r \in Requests, NEW u \in Users, MarkVerified(r, u)
        PROVE  Orphaned(v)'
    <3>1. \A s \in Requests : req'[s].at = "createTenant" => req'[s] = req[s]
      BY <2>9 DEF MarkVerified, GoTo, OInv, TypeOK, Request
    <3> QED
      BY <3>1, <2>9 DEF MarkVerified, OInv, TypeOK, User, Orphaned, IsRegistered
  <2>10. ASSUME NEW r \in Requests, NEW u \in Users, FindTenant(r, u)
         PROVE  Orphaned(v)'
    BY <2>1, <2>10 DEF OInv, TypeOK, Request, FindTenant, tables, GoTo
  <2>11. ASSUME NEW r \in Requests, NEW u \in Users, InsertTrial(r, u)
         PROVE  Orphaned(v)'
    BY <2>1, <2>2, <2>11 DEF InsertTrial
  <2>12. ASSUME NEW r \in Requests, FailRequest(r)
         PROVE  Orphaned(v)'
    BY <2>1, <2>2, <2>12 DEF FailRequest, tables
  <2>13. ASSUME ExitProcess
         PROVE  Orphaned(v)'
    BY <2>1, <2>13 DEF ExitProcess, tables, Idle
  <2>14. ASSUME NEW u \in Users, CreateAdmin(u)
         PROVE  Orphaned(v)'
    BY <2>14 DEF CreateAdmin, OInv, TypeOK, Orphaned, IsRegistered
  <2>15. ASSUME NEW u \in Users, NEW n \in Names, RenameTenant(u, n)
         PROVE  Orphaned(v)'
    BY <2>15 DEF RenameTenant, OInv, TypeOK, Orphaned, IsRegistered
  <2>16. CASE UNCHANGED vars
    BY <2>1, <2>16 DEF vars
  <2> QED
    BY <2>3, <2>4, <2>5, <2>6, <2>7, <2>8, <2>9, <2>10, <2>11, <2>12, <2>13,
       <2>14, <2>15, <2>16
    DEF Next, Arrive, Serve, RejectTrial
<1>2. OInv /\ [Next]_vars => [OrphanStep]_vars
  BY <1>1
<1> QED
  BY <1>2, AlwaysOInv, PTL DEF Spec, OrphansStay

-----------------------------------------------------------------------------
(* The refinement.  A step moves one account by one step of its lifecycle,   *)
(* or none.                                                                  *)

LEMMA StagesUnchanged ==
    ASSUME \A u \in Users : Stage(u)' = Stage(u)
    PROVE  [u \in Users |-> Stage(u)]' = [u \in Users |-> Stage(u)]
OBVIOUS

LEMMA StageMoves ==
    ASSUME NEW u \in Users, NEW s,
           Stage(u)' = s,
           \A v \in Users \ {u} : Stage(v)' = Stage(v)
    PROVE  [v \in Users |-> Stage(v)]'
               = [[v \in Users |-> Stage(v)] EXCEPT ![u] = s]
OBVIOUS

LEMMA InitRefines == Init => Lifecycle!Init
BY DEF Init, Lifecycle!Init, Stage, NoUser

LEMMA StepRefines ==
    ASSUME OInv, [Next]_vars
    PROVE  [Lifecycle!Next]_(Lifecycle!vars)
<1> USE DEF Lifecycle!vars
<1>1. ASSUME UNCHANGED tables
      PROVE  UNCHANGED Lifecycle!vars
  BY <1>1, StagesUnchanged DEF tables, Stage
<1>2. ASSUME NEW r \in Requests, NEW u \in Users, NEW code \in Codes,
             CreateUser(r, u, code)
      PROVE  Lifecycle!Next
  <2>1. Stage(u) = "absent" /\ Stage(u)' = "registered"
    BY <1>2 DEF CreateUser, OInv, TypeOK, User, Stage, IsRegistered
  <2>2. \A v \in Users \ {u} : Stage(v)' = Stage(v)
    BY <1>2 DEF CreateUser, OInv, TypeOK, Stage
  <2>3. Lifecycle!Register(u, "registered")
    BY <1>2, <2>1, <2>2, StageMoves DEF CreateUser, Lifecycle!Register
  <2> QED
    BY <2>3 DEF Lifecycle!Next
<1>3. ASSUME NEW u \in Users, CreateAdmin(u)
      PROVE  Lifecycle!Next
  <2>1. Stage(u) = "absent" /\ Stage(u)' = "admin"
    BY <1>3 DEF CreateAdmin, OInv, TypeOK, User, Stage, IsRegistered
  <2>2. \A v \in Users \ {u} : Stage(v)' = Stage(v)
    BY <1>3 DEF CreateAdmin, OInv, TypeOK, Stage
  <2>3. Lifecycle!Register(u, "admin")
    BY <1>3, <2>1, <2>2, StageMoves DEF CreateAdmin, Lifecycle!Register
  <2> QED
    BY <2>3 DEF Lifecycle!Next
<1>4. ASSUME NEW r \in Requests, NEW u \in Users, CreateTenant(r, u)
      PROVE  Lifecycle!Next
  <2>1. /\ Stage(u) \in {"registered", "verified"}
        /\ req[r].name \in Names
    BY <1>4 DEF CreateTenant, OInv, RequestInOrder, Stage
  <2>2. Lifecycle!Settle(u, req[r].name)
    BY <1>4, <2>1, StagesUnchanged
    DEF CreateTenant, NameIsFree, Stage, Lifecycle!Settle, Lifecycle!IsFree
  <2> QED
    BY <2>1, <2>2 DEF Lifecycle!Next
<1>5. ASSUME NEW u \in Users, NEW n \in Names, RenameTenant(u, n)
      PROVE  Lifecycle!Next
  <2>1. Lifecycle!Rename(u, n)
    BY <1>5, StagesUnchanged
    DEF RenameTenant, NameIsFree, Stage, Lifecycle!Rename, Lifecycle!IsFree
  <2> QED
    BY <2>1 DEF Lifecycle!Next
<1>6. ASSUME NEW r \in Requests, NEW u \in Users, NEW code \in Codes,
             WriteCode(r, u, code)
      PROVE  UNCHANGED Lifecycle!vars
  <2>1. \A v \in Users : Stage(v)' = Stage(v)
    BY <1>6 DEF WriteCode, OInv, TypeOK, User, Stage
  <2> QED
    BY <1>6, <2>1, StagesUnchanged DEF WriteCode
<1>7. ASSUME NEW r \in Requests, NEW u \in Users, MarkVerified(r, u)
      PROVE  [Lifecycle!Next]_(Lifecycle!vars)
  <2>1. user[u].role = "user"
    BY <1>7 DEF MarkVerified, OInv, RequestInOrder
  <2>2. /\ Stage(u) \in {"registered", "verified"}
        /\ Stage(u)' = "verified"
    BY <1>7, <2>1 DEF MarkVerified, OInv, TypeOK, User, Stage
  <2>3. \A v \in Users \ {u} : Stage(v)' = Stage(v)
    BY <1>7 DEF MarkVerified, OInv, TypeOK, Stage
  <2>4. CASE Stage(u) = "registered"
    <3>1. Lifecycle!Verify(u)
      BY <1>7, <2>2, <2>3, <2>4, StageMoves DEF MarkVerified, Lifecycle!Verify
    <3> QED
      BY <3>1 DEF Lifecycle!Next
  <2>5. CASE Stage(u) = "verified"
    <3>1. \A v \in Users : Stage(v)' = Stage(v)
      BY <2>2, <2>3, <2>5
    <3> QED
      BY <1>7, <3>1, StagesUnchanged DEF MarkVerified
  <2> QED
    BY <2>2, <2>4, <2>5
<1>8. ASSUME NEW r \in Requests, NEW u \in Users, InsertTrial(r, u)
      PROVE  Lifecycle!Next
  <2>1. Stage(u) = "verified" /\ tenant[u] # Null
    BY <1>8 DEF InsertTrial, OInv, RequestInOrder, Stage
  <2>2. rows' = [rows EXCEPT ![u] = 1]
    BY <1>8 DEF InsertTrial, OInv, TypeOK
  <2>3. Lifecycle!StartTrial(u)
    BY <1>8, <2>1, <2>2, StagesUnchanged
    DEF InsertTrial, Stage, Lifecycle!StartTrial
  <2> QED
    BY <2>3 DEF Lifecycle!Next
<1>9. CASE UNCHANGED tables
  BY <1>1, <1>9
<1>10. CASE ~UNCHANGED tables
  BY <1>10, <1>2, <1>3, <1>4, <1>5, <1>6, <1>7, <1>8
  DEF Next, Arrive, Serve, CheckSignup, ReadUnverified, CheckCode, FindTenant,
      FailRequest, ExitProcess, RejectTrial, vars, tables
<1> QED
  BY <1>9, <1>10

(* However requests overlap and wherever they are cut short, an account goes *)
(* through its lifecycle (signupUser, signinUser, verifyVerificationToken,   *)
(* startTrialForNewUser).                                                    *)
THEOREM OnboardingImplementsLifecycle == Spec => ImplementsLifecycle
<1>1. OInv /\ [Next]_vars => [Lifecycle!Next]_(Lifecycle!vars)
  BY StepRefines
<1> QED
  BY <1>1, InitRefines, AlwaysOInv, PTL
  DEF Spec, ImplementsLifecycle, Lifecycle!Spec

-----------------------------------------------------------------------------
(* From verification to the trial. *)

HasTrial(u) == rows[u] = 1 \/ u \in lost
TrialOf(r, u) == InTrial(r) /\ req[r].user = u
IsVerifiedUser(u) == user[u].role = "user" /\ user[u].isVerified

(* What a step may do to the trial a request is about to start. *)
LEMMA TrialMoves ==
    ASSUME OInv, [Next]_vars, NEW r \in Requests, InTrial(r)
    PROVE  \/ req'[r] = req[r] /\ ~<<Serve(r)>>_vars
           \/ req[r].user \in lost'
           \/ rows'[req[r].user] = 1
           \/ /\ req[r].at = "findTenant"
              /\ req'[r].at = "insertTrial" /\ req'[r].user = req[r].user
<1> DEFINE u == req[r].user
           Moved == \/ u \in lost'
                    \/ rows'[u] = 1
                    \/ /\ req[r].at = "findTenant"
                       /\ req'[r].at = "insertTrial" /\ req'[r].user = u
<1>0. req \in [Requests -> Request] /\ rows \in [Users -> 0..1] /\ u \in Users
  BY DEF OInv, TypeOK, RequestInOrder, InTrial
<1>1. ExitProcess => Moved
  BY DEF ExitProcess
<1>2. ASSUME Serve(r) PROVE Moved
  <2>1. ASSUME NEW v \in Users, FindTenant(r, v) PROVE Moved
    BY <1>0, <2>1 DEF FindTenant, GoTo, Request
  <2>2. ASSUME NEW v \in Users, InsertTrial(r, v) PROVE Moved
    BY <1>0, <2>2 DEF InsertTrial
  <2>3. CASE RejectTrial(r)
    BY <1>1, <2>3 DEF RejectTrial
  <2> QED
    BY <1>2, <2>1, <2>2, <2>3 DEF Serve, InTrial, CreateUser, WriteCode,
       CreateTenant, MarkVerified, FailRequest
<1>3. ASSUME NEW s \in Requests, s # r, Serve(s) PROVE Moved \/ req'[r] = req[r]
  BY <1>0, <1>1, <1>3 DEF Serve, CreateUser, WriteCode, CreateTenant,
     MarkVerified, FindTenant, InsertTrial, FailRequest, RejectTrial, GoTo, Finish
<1>4. ASSUME NEW s \in Requests, NEW v \in Users, Arrive(s, v)
      PROVE  req'[r] = req[r]
  <2>1. s # r
    BY <1>4 DEF Arrive, CheckSignup, ReadUnverified, CheckCode, InTrial, Idle
  <2> QED
    BY <1>0, <1>4, <2>1 DEF Arrive, CheckSignup, ReadUnverified, CheckCode
<1>5. ASSUME \/ \E v \in Users :
                   CreateAdmin(v) \/ \E n \in Names : RenameTenant(v, n)
             \/ UNCHANGED vars
      PROVE  req'[r] = req[r]
  BY <1>5 DEF CreateAdmin, RenameTenant, vars
<1> HIDE DEF Moved
<1>6. Moved \/ req'[r] = req[r]
  BY <1>1, <1>2, <1>3, <1>4, <1>5 DEF Next
<1>7. Moved \/ (req'[r] = req[r] /\ ~<<Serve(r)>>_vars)
  BY <1>2, <1>6
<1> QED
  BY <1>7 DEF Moved

(* A verified user has his trial, has lost it, or is being served: the trial  *)
(* of an account is never merely forgotten.                                   *)
TrialAccounted ==
    \A u \in Users :
        IsVerifiedUser(u) => HasTrial(u) \/ \E r \in Requests : TrialOf(r, u)

LEMMA TrialsStay ==
    ASSUME OInv, [Next]_vars, NEW u \in Users, HasTrial(u)
    PROVE  HasTrial(u)'
<1>0. rows \in [Users -> 0..1]
  BY DEF OInv, TypeOK
<1>1. lost \subseteq lost'
  BY DEF Next, Serve, Arrive, CreateUser, WriteCode, CreateTenant, MarkVerified,
     FindTenant, InsertTrial, FailRequest, RejectTrial, ExitProcess,
     CheckSignup, ReadUnverified, CheckCode, CreateAdmin, RenameTenant, vars
<1>2. rows[u] = 1 => rows'[u] = 1
  <2>1. ASSUME NEW r \in Requests, NEW v \in Users, InsertTrial(r, v)
        PROVE  rows[u] = 1 => rows'[u] = 1
    BY <1>0, <2>1 DEF InsertTrial
  <2>2. (\A r \in Requests, v \in Users : ~InsertTrial(r, v)) => rows' = rows
    BY DEF Next, Serve, Arrive, CreateUser, WriteCode, CreateTenant,
       MarkVerified, FindTenant, FailRequest, RejectTrial, ExitProcess,
       CheckSignup, ReadUnverified, CheckCode, CreateAdmin, RenameTenant,
       tables, vars
  <2> QED
    BY <2>1, <2>2
<1> QED
  BY <1>1, <1>2 DEF HasTrial

LEMMA NewlyVerified ==
    ASSUME OInv, [Next]_vars, NEW u \in Users, ~IsVerifiedUser(u),
           IsVerifiedUser(u)'
    PROVE  \E r \in Requests : TrialOf(r, u)'
<1>0. user \in [Users -> User] /\ req \in [Requests -> Request]
  BY DEF OInv, TypeOK
<1>1. ASSUME NEW r \in Requests, NEW v \in Users, MarkVerified(r, v)
      PROVE  TrialOf(r, u)'
  <2>1. u = v
    BY <1>0, <1>1 DEF MarkVerified, IsVerifiedUser
  <2> QED
    BY <1>0, <1>1, <2>1 DEF MarkVerified, GoTo, TrialOf, InTrial, Request
<1>2. ASSUME NEW r \in Requests, NEW v \in Users, NEW code \in Codes,
             CreateUser(r, v, code) \/ WriteCode(r, v, code)
      PROVE  FALSE
  BY <1>0, <1>2 DEF CreateUser, WriteCode, IsVerifiedUser, User
<1>3. ASSUME NEW v \in Users, CreateAdmin(v) PROVE FALSE
  BY <1>0, <1>3 DEF CreateAdmin, IsVerifiedUser
<1>4. ASSUME UNCHANGED user PROVE FALSE
  BY <1>4 DEF IsVerifiedUser
<1> QED
  BY <1>1, <1>2, <1>3, <1>4 DEF Next, Serve, Arrive, CreateTenant, FindTenant,
     InsertTrial, FailRequest, RejectTrial, ExitProcess, CheckSignup,
     ReadUnverified, CheckCode, RenameTenant, tables, vars

LEMMA TrialGoesOn ==
    ASSUME OInv, [Next]_vars, NEW r \in Requests, NEW u \in Users, TrialOf(r, u)
    PROVE  TrialOf(r, u)' \/ HasTrial(u)'
BY TrialMoves DEF TrialOf, InTrial, HasTrial

LEMMA TrialAccountedInv ==
    OInv /\ TrialAccounted /\ [Next]_vars => TrialAccounted'
<1> SUFFICES ASSUME OInv, TrialAccounted, [Next]_vars, NEW u \in Users,
                    IsVerifiedUser(u)'
             PROVE  HasTrial(u)' \/ \E r \in Requests : TrialOf(r, u)'
  BY DEF TrialAccounted
<1>1. CASE ~IsVerifiedUser(u)
  BY <1>1, NewlyVerified
<1>2. CASE HasTrial(u)
  BY <1>2, TrialsStay
<1>3. ASSUME NEW r \in Requests, TrialOf(r, u)
      PROVE  HasTrial(u)' \/ TrialOf(r, u)'
  BY <1>3, TrialGoesOn
<1> QED
  BY <1>1, <1>2, <1>3 DEF TrialAccounted

LEMMA AlwaysAccounted == Spec => []TrialAccounted
<1>1. Init => TrialAccounted
  BY DEF Init, NoUser, TrialAccounted, IsVerifiedUser
<1> QED
  BY <1>1, AlwaysOInv, TrialAccountedInv, PTL DEF Spec

(* Every verified user gets his subscription, or the rejection or exit that   *)
(* took it is on record, for any number of accounts and overlapping requests, *)
(* given that a request in progress has a next step (RequestsCanGoOn).        *)
THEOREM TrialsAreServed == FairSpec /\ []RequestsCanGoOn => TrialUnlessLost
<1> SUFFICES ASSUME NEW u \in Users
             PROVE  FairSpec /\ []RequestsCanGoOn
                        => (user[u].role = "user" /\ user[u].isVerified
                              ~> rows[u] = 1 \/ u \in lost)
  BY DEF TrialUnlessLost
<1> DEFINE F(r) == TrialOf(r, u) /\ req[r].at = "findTenant"
           I(r) == TrialOf(r, u) /\ req[r].at = "insertTrial"
           Ends(r) == TrialOf(r, u) => <>HasTrial(u)
           H == FairSpec /\ []RequestsCanGoOn
<1>1. ASSUME NEW r \in Requests PROVE H => []Ends(r)
  <2>1. TrialOf(r, u) => F(r) \/ I(r)
    BY DEF TrialOf, InTrial
  <2>2. /\ OInv /\ [Next]_vars /\ F(r) => F(r)' \/ I(r)' \/ HasTrial(u)'
        /\ OInv /\ [Next]_vars /\ I(r) => I(r)' \/ HasTrial(u)'
    BY TrialMoves DEF TrialOf, InTrial, HasTrial
  <2>3. /\ OInv /\ [Next]_vars /\ F(r) /\ <<Serve(r)>>_vars
               => I(r)' \/ HasTrial(u)'
        /\ OInv /\ [Next]_vars /\ I(r) /\ <<Serve(r)>>_vars => HasTrial(u)'
    BY TrialMoves DEF TrialOf, InTrial, HasTrial
  <2>4. RequestsCanGoOn /\ TrialOf(r, u) => ENABLED <<Serve(r)>>_vars
    BY DEF RequestsCanGoOn, CanGoOn, TrialOf, InTrial
  <2>5. F(r) \/ I(r) => TrialOf(r, u)
    OBVIOUS
  <2>6. FairSpec => Spec /\ FairServe(r)
    BY DEF FairSpec
  <2> HIDE DEF F, I
  <2> QED
    BY <2>1, <2>2, <2>3, <2>4, <2>5, <2>6, AlwaysOInv, PTL DEF Spec, FairServe, H, Ends
<1>2. (\A r \in Requests : Ends(r))
          => ((\E r \in Requests : TrialOf(r, u)) => <>HasTrial(u))
  OBVIOUS
<1>3. (\A r \in Requests : []Ends(r)) => [](\A r \in Requests : Ends(r))
  <2> HIDE DEF Ends
  <2> QED
    OBVIOUS
<1>4. H => \A r \in Requests : []Ends(r)
  <2> HIDE DEF Ends, H
  <2> QED
    BY <1>1
<1>5. TrialAccounted
          => (IsVerifiedUser(u) => HasTrial(u) \/ \E r \in Requests : TrialOf(r, u))
  BY DEF TrialAccounted
<1>6. /\ user[u].role = "user" /\ user[u].isVerified => IsVerifiedUser(u)
      /\ HasTrial(u) => rows[u] = 1 \/ u \in lost
  BY DEF IsVerifiedUser, HasTrial
<1>7. H => Spec
  BY DEF FairSpec
<1> HIDE DEF Ends
<1> QED
  BY <1>2, <1>3, <1>4, <1>5, <1>6, <1>7, AlwaysAccounted, PTL DEF H
=============================================================================
