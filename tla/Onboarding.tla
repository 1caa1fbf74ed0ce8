------------------------------ MODULE Onboarding ------------------------------
(***************************************************************************)
(* AuthService with the parts of UsersService, TenantsService and          *)
(* TenantProfilesService that write users and tenants, down to the insert  *)
(* of the trial subscription that verification starts.                     *)
(*                                                                         *)
(* None of the handlers opens a transaction: each statement is an action,  *)
(* a request remembers in req what it read, and other requests, a failing  *)
(* statement or the end of the process come in between.  Two reads in a    *)
(* row that a unique column decides again later are one step.              *)
(*                                                                         *)
(* Passwords, hashes and access tokens change no table and are left out; a *)
(* request that fails a check changes nothing and is left out with it.     *)
(***************************************************************************)
EXTENDS Naturals

CONSTANTS
    Users,       \* e-mail addresses: the unique login of table users
    Names,       \* tenant names
    Codes,       \* what generateRandomNumericCode may return, also again
    Requests,    \* requests served at the same time
    Null

ASSUME NullAssumption == Null \notin Users \cup Names \cup Codes

VARIABLES
    user,        \* table users
    tenant,      \* table tenants: the name of the tenant a user owns, or Null
    rows,        \* rows of tenant_subscriptions for that tenant
    tokens,      \* users who have been sent a verification token
    req,         \* what each request in progress is about to do
    lost         \* history: users whose trial start was rejected or cut off

tables == <<user, tenant, rows>>
vars == <<user, tenant, rows, tokens, req, lost>>

User == [role : {"none", "user", "admin"},
         isVerified : BOOLEAN,
         verificationCode : Codes \cup {Null}]

NoUser == [role |-> "none", isVerified |-> FALSE, verificationCode |-> Null]

Steps == {"idle", "createUser", "createTenant", "writeCode", "markVerified",
          "findTenant", "insertTrial"}

Request == [at : Steps, user : Users \cup {Null}, name : Names \cup {Null}]

Idle == [at |-> "idle", user |-> Null, name |-> Null]

IsRegistered(u) == user[u].role # "none"
NameIsFree(n) == \A v \in Users : tenant[v] # n

(* The steps of the trial that verification starts and does not wait for.    *)
InTrial(r) == req[r].at \in {"findTenant", "insertTrial"}

TypeOK ==
    /\ user \in [Users -> User]
    /\ tenant \in [Users -> Names \cup {Null}]
    /\ rows \in [Users -> 0..1]
    /\ tokens \subseteq Users
    /\ req \in [Requests -> Request]
    /\ lost \subseteq Users

Init ==
    /\ user = [u \in Users |-> NoUser]
    /\ tenant = [u \in Users |-> Null]
    /\ rows = [u \in Users |-> 0]
    /\ tokens = {}
    /\ req = [r \in Requests |-> Idle]
    /\ lost = {}

(* Request r goes on to the step named at. *)
GoTo(r, at) == req' = [req EXCEPT ![r].at = at]
Finish(r) == req' = [req EXCEPT ![r] = Idle]

-----------------------------------------------------------------------------
(* signupUser *)

CheckSignup(r, u, n) ==
    /\ req[r] = Idle
    /\ ~IsRegistered(u)
    /\ NameIsFree(n)
    /\ req' = [req EXCEPT ![r] = [at |-> "createUser", user |-> u, name |-> n]]
    /\ UNCHANGED <<tables, tokens, lost>>

(* Mutant: an e-mail address registered meanwhile is taken over. *)
CreateUserAgain(r, u, code) ==
    /\ req[r].at = "createUser"
    /\ req[r].user = u
    /\ user' = [user EXCEPT ![u] = [role |-> "user", isVerified |-> FALSE,
                                    verificationCode |-> code]]
    /\ GoTo(r, "createTenant")
    /\ UNCHANGED <<tenant, rows, tokens, lost>>

(* The unique e-mail address refuses a second account. *)
CreateUser(r, u, code) ==
    /\ req[r].at = "createUser"
    /\ req[r].user = u
    /\ ~IsRegistered(u)
    /\ user' = [user EXCEPT ![u] = [role |-> "user", isVerified |-> FALSE,
                                    verificationCode |-> code]]
    /\ GoTo(r, "createTenant")
    /\ UNCHANGED <<tenant, rows, tokens, lost>>

(* Tenant and usage row in one statement; name and owner are unique.         *)
CreateTenant(r, u) ==
    /\ req[r].at = "createTenant"
    /\ req[r].user = u
    /\ tenant[u] = Null
    /\ NameIsFree(req[r].name)
    /\ tenant' = [tenant EXCEPT ![u] = req[r].name]
    /\ tokens' = tokens \cup {u}
    /\ Finish(r)
    /\ UNCHANGED <<user, rows, lost>>

-----------------------------------------------------------------------------
(* signinUser of an account that is not verified *)

ReadUnverified(r, u) ==
    /\ req[r] = Idle
    /\ IsRegistered(u)
    /\ ~user[u].isVerified
    /\ req' = [req EXCEPT ![r] = [Idle EXCEPT !.at = "writeCode", !.user = u]]
    /\ UNCHANGED <<tables, tokens, lost>>

(* Mutant: the whole row is written back as it was read. *)
WriteCodeAndState(r, u, code) ==
    /\ req[r].at = "writeCode"
    /\ req[r].user = u
    /\ user' = [user EXCEPT ![u].isVerified = FALSE,
                            ![u].verificationCode = code]
    /\ tokens' = tokens \cup {u}
    /\ Finish(r)
    /\ UNCHANGED <<tenant, rows, lost>>

(* By now the account may be verified: it gets a code again. *)
WriteCode(r, u, code) ==
    /\ req[r].at = "writeCode"
    /\ req[r].user = u
    /\ user' = [user EXCEPT ![u].verificationCode = code]
    /\ tokens' = tokens \cup {u}
    /\ Finish(r)
    /\ UNCHANGED <<tenant, rows, lost>>

-----------------------------------------------------------------------------
(* verifyVerificationToken *)

(* Mutant: the code is used up before the account is marked. *)
CheckAndClearCode(r, u, code) ==
    /\ req[r] = Idle
    /\ u \in tokens
    /\ user[u].verificationCode = code
    /\ user' = [user EXCEPT ![u].verificationCode = Null]
    /\ req' = [req EXCEPT ![r] = [Idle EXCEPT !.at = "markVerified", !.user = u]]
    /\ UNCHANGED <<tenant, rows, tokens, lost>>

CheckCode(r, u, code) ==
    /\ req[r] = Idle
    /\ u \in tokens
    /\ user[u].verificationCode = code
    /\ req' = [req EXCEPT ![r] = [Idle EXCEPT !.at = "markVerified", !.user = u]]
    /\ UNCHANGED <<tables, tokens, lost>>

(* Mutant: the trial is not started. *)
MarkVerifiedOnly(r, u) ==
    /\ req[r].at = "markVerified"
    /\ req[r].user = u
    /\ user' = [user EXCEPT ![u] = [@ EXCEPT !.isVerified = TRUE,
                                              !.verificationCode = Null]]
    /\ Finish(r)
    /\ UNCHANGED <<tenant, rows, tokens, lost>>

(* The account is marked whatever its code is by now, and the trial starts. *)
MarkVerified(r, u) ==
    /\ req[r].at = "markVerified"
    /\ req[r].user = u
    /\ user' = [user EXCEPT ![u] = [@ EXCEPT !.isVerified = TRUE,
                                              !.verificationCode = Null]]
    /\ GoTo(r, "findTenant")
    /\ UNCHANGED <<tenant, rows, tokens, lost>>

(* startTrialForNewUser, the checks.  A profile read before the tenant was   *)
(* created has no tenant id; the query then goes by the owner alone.         *)
FindTenant(r, u) ==
    /\ req[r].at = "findTenant"
    /\ req[r].user = u
    /\ tenant[u] # Null
    /\ rows[u] = 0
    /\ GoTo(r, "insertTrial")
    /\ UNCHANGED <<tables, tokens, lost>>

(* Mutant: the tenant id of a subscription is not unique. *)
InsertTrialAgain(r, u) ==
    /\ req[r].at = "insertTrial"
    /\ req[r].user = u
    /\ rows' = [rows EXCEPT ![u] = @ + 1]
    /\ Finish(r)
    /\ UNCHANGED <<user, tenant, tokens, lost>>

(* startTrialForNewUser, the insert: tenantId is unique. *)
InsertTrial(r, u) ==
    /\ req[r].at = "insertTrial"
    /\ req[r].user = u
    /\ rows[u] = 0
    /\ rows' = [rows EXCEPT ![u] = @ + 1]
    /\ Finish(r)
    /\ UNCHANGED <<user, tenant, tokens, lost>>

-----------------------------------------------------------------------------
(* Failures *)

(* A statement fails, or a unique column refuses it: the exception filter    *)
(* answers, and what the request had written stays.                          *)
FailRequest(r) ==
    /\ req[r].at \in {"createUser", "createTenant", "writeCode", "markVerified"}
    /\ Finish(r)
    /\ UNCHANGED <<tables, tokens, lost>>

(* The process ends, with all it was doing. *)
ExitProcess ==
    /\ req' = [r \in Requests |-> Idle]
    /\ lost' = lost \cup {req[r].user : r \in {q \in Requests : InTrial(q)}}
    /\ UNCHANGED <<tables, tokens>>

(* A check or a statement of the trial fails.  Nobody handles the rejection, *)
(* and Node ends the process for it.                                         *)
RejectTrial(r) == InTrial(r) /\ ExitProcess

-----------------------------------------------------------------------------
(* Statements of other services on the same tables *)

(* UsersService.createAdmin *)
CreateAdmin(u) ==
    /\ ~IsRegistered(u)
    /\ user' = [user EXCEPT ![u] = [role |-> "admin", isVerified |-> TRUE,
                                    verificationCode |-> Null]]
    /\ UNCHANGED <<tenant, rows, tokens, req, lost>>

(* TenantProfilesService.update; its guard asks for a subscription. *)
RenameTenant(u, n) ==
    /\ rows[u] > 0
    /\ tenant[u] # Null
    /\ NameIsFree(n)
    /\ tenant' = [tenant EXCEPT ![u] = n]
    /\ UNCHANGED <<user, rows, tokens, req, lost>>

-----------------------------------------------------------------------------

Arrive(r, u) ==
    \/ \E n \in Names : CheckSignup(r, u, n)
    \/ ReadUnverified(r, u)
    \/ \E code \in Codes : CheckCode(r, u, code)

Serve(r) ==
    \/ \E u \in Users :
           \/ \E code \in Codes : CreateUser(r, u, code) \/ WriteCode(r, u, code)
           \/ CreateTenant(r, u)
           \/ MarkVerified(r, u)
           \/ FindTenant(r, u)
           \/ InsertTrial(r, u)
    \/ FailRequest(r)
    \/ RejectTrial(r)

Next ==
    \/ \E r \in Requests : Serve(r) \/ \E u \in Users : Arrive(r, u)
    \/ \E u \in Users : CreateAdmin(u) \/ \E n \in Names : RenameTenant(u, n)
    \/ ExitProcess

Spec == Init /\ [][Next]_vars

(* The event loop resumes every request in progress.  Nothing makes a user   *)
(* come, or come again.                                                      *)
FairServe(r) == WF_vars(Serve(r))

FairSpec == Spec /\ \A r \in Requests : FairServe(r)

-----------------------------------------------------------------------------
(* Safety *)

(* An account that is not verified always has a code, so that sign-in and    *)
(* verification can go on from wherever an earlier request was cut short     *)
(* (signinUser, verifyVerificationToken).                                    *)
UnverifiedKeepsCode ==
    \A u \in Users :
        IsRegistered(u) /\ ~user[u].isVerified => user[u].verificationCode # Null

Orphaned(u) ==
    /\ IsRegistered(u)
    /\ tenant[u] = Null
    /\ \A r \in Requests : ~(req[r].at = "createTenant" /\ req[r].user = u)

OrphanStep == \A u \in Users : Orphaned(u) => Orphaned(u)'

(* An account whose sign-up was cut short between its two inserts never gets *)
(* a tenant: its address is taken, and no other path creates one             *)
(* (signupUser).                                                             *)
OrphansStay == [][OrphanStep]_vars

Stage(u) ==
    IF user[u].role = "user"
    THEN IF user[u].isVerified THEN "verified" ELSE "registered"
    ELSE IF user[u].role = "admin" THEN "admin" ELSE "absent"

Lifecycle == INSTANCE AccountLifecycle
                 WITH stage <- [u \in Users |-> Stage(u)], home <- tenant

(* Overlapping, repeated and interrupted requests never do more to an        *)
(* account than its lifecycle allows: no second tenant or subscription, no   *)
(* shared name, no way back from verified, no trial before verification      *)
(* (the unique columns, and the order of the statements in AuthService).     *)
ImplementsLifecycle == Lifecycle!Spec

CanGoOn(r) == req[r].at # "idle" => ENABLED <<Serve(r)>>_vars

(* Every request in progress has a next step.  It has one by the shape of     *)
(* Serve, since any statement may fail and end its request (FailRequest,      *)
(* RejectTrial): said here because the proof of TrialUnlessLost has to assume *)
(* it, ENABLED being out of the proof system's reach.                         *)
RequestsCanGoOn == \A r \in Requests : CanGoOn(r)

(* Liveness, under FairSpec. *)

(* The trial of a verified account starts, unless its start was rejected or  *)
(* fell with the process: it is tried once and never again by itself         *)
(* (verifyVerificationToken does not wait for it).                           *)
TrialUnlessLost ==
    \A u \in Users :
        (user[u].role = "user" /\ user[u].isVerified)
            ~> (rows[u] = 1 \/ u \in lost)
=============================================================================
