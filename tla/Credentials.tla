---------------------------- MODULE Credentials ----------------------------
(***************************************************************************)
(* The shared password of one identity and the short-lived secrets that    *)
(* stand in for it: reset tokens, forced-change tokens and e-mailed        *)
(* one-time codes (services/auth.rs, routes/auth.rs,                       *)
(* repo/password_reset_tokens.rs, repo/force_change_tokens.rs,             *)
(* repo/otp.rs).  Every SQL statement is a step; handlers interleave       *)
(* between them and may fail after any of them.  A password is the number  *)
(* of the write that set it, a token or code the number of its issue.      *)
(***************************************************************************)
EXTENDS Naturals, FiniteSets

CONSTANTS
    Requests,      \* handlers that may be in flight at the same time
    Tenants,       \* tenants the identity may belong to
    MaxStarts,     \* bound: handlers ever started
    MaxAttempts    \* MAX_OTP_ATTEMPTS

ASSUME CredentialsAssumption ==
    /\ MaxStarts \in Nat /\ MaxAttempts \in Nat \ {0}
    /\ IsFiniteSet(Requests) /\ IsFiniteSet(Tenants) /\ "none" \notin Tenants

VARIABLES
    pw,        \* identities.password_hash: the number of the last password write
    force,     \* identities.force_password_change
    member,    \* users: the identity's membership of each tenant
    token,     \* password_reset_tokens and force_change_tokens, by kind and number
    otp,       \* otp_codes, in order of creation
    issued,    \* tokens issued of each kind, and codes under "otp"
    req,       \* the handlers in flight
    starts,    \* handlers started so far
    redeemed,  \* history: passwords set by each token, sessions opened by each code
    kept       \* history: uses that ended between their effect and the DELETE

vars == <<pw, force, member, token, otp, issued, req, starts, redeemed, kept>>

-----------------------------------------------------------------------------
Num == 1..MaxStarts
TokenKind == {"reset", "change"}
IssueKind == TokenKind \cup {"otp"}

Op == {"none", "issue", "redeem", "change", "admin", "otp"}
Label == {"idle", "sweep", "insert", "found", "spend", "set", "count", "flag", "wrong", "login", "drop"}

Handler == [pc : Label, op : Op, kind : IssueKind \cup {"none"}, num : 0..MaxStarts, force : BOOLEAN,
            tenant : Tenants \cup {"none"}]

NoHandler == [pc |-> "idle", op |-> "none", kind |-> "none", num |-> 0, force |-> FALSE, tenant |-> "none"]

Init ==
    /\ pw = 0 /\ force = FALSE
    /\ member \in {m \in [Tenants -> {"none", "active"}] : \E t \in Tenants : m[t] = "active"}
    /\ token = [k \in TokenKind |-> {}]
    /\ otp = [live |-> {}, attempts |-> [n \in Num |-> 0]]
    /\ issued = [k \in IssueKind |-> 0]
    /\ req = [r \in Requests |-> NoHandler]
    /\ starts = 0
    /\ redeemed = [k \in IssueKind |-> [n \in Num |-> 0]]
    /\ kept = [k \in IssueKind |-> [n \in Num |-> 0]]

At(r, l) == req[r].pc = l
Move(r, h) == req' = [req EXCEPT ![r] = h]
Goto(r, l) == Move(r, [req[r] EXCEPT !.pc = l])
\* The token or code of the handler has had its effect.
Use(r) == redeemed' = [redeemed EXCEPT ![req[r].kind][req[r].num] = @ + 1]
Start(r, h) == At(r, "idle") /\ starts < MaxStarts /\ starts' = starts + 1 /\ Move(r, h)

Active == {t \in Tenants : member[t] = "active"}

-----------------------------------------------------------------------------
(***************************************************************************)
(* Issuing a token: forgot_password, and issue_force_change_token when a   *)
(* login meets the force flag on the identity it read.  The older tokens   *)
(* are deleted, then the new one is inserted.                              *)
(***************************************************************************)
LoadIdentity(r, k) ==
    /\ k = "change" => force
    /\ Start(r, [NoHandler EXCEPT !.pc = "sweep", !.op = "issue", !.kind = k])
    /\ UNCHANGED <<pw, force, member, token, otp, issued, redeemed, kept>>

SweepTokens_Skipped(r) ==
    /\ At(r, "sweep")
    /\ Goto(r, "insert")
    /\ UNCHANGED <<pw, force, member, token, otp, issued, starts, redeemed, kept>>

SweepTokens(r) ==
    /\ At(r, "sweep")
    /\ token' = [token EXCEPT ![req[r].kind] = {}]
    /\ Goto(r, "insert")
    /\ UNCHANGED <<pw, force, member, otp, issued, starts, redeemed, kept>>

InsertToken(r) ==
    /\ At(r, "insert")
    /\ LET k == req[r].kind IN
        /\ issued' = [issued EXCEPT ![k] = @ + 1]
        /\ token' = [token EXCEPT ![k] = @ \cup {issued[k] + 1}]
    /\ Move(r, NoHandler)
    /\ UNCHANGED <<pw, force, member, otp, starts, redeemed, kept>>

(***************************************************************************)
(* Redeeming a token: reset_password and force_change_password.  The token *)
(* is looked up, the password set and the token deleted; the row count of  *)
(* the DELETE is ignored.                                                  *)
(***************************************************************************)
FindToken_LiftsForce(r, k, n) ==
    /\ n \in token[k]
    /\ Start(r, [NoHandler EXCEPT !.pc = "found", !.op = "redeem", !.kind = k, !.num = n])
    /\ force' = FALSE
    /\ UNCHANGED <<pw, member, token, otp, issued, redeemed, kept>>

FindToken(r, k, n) ==
    /\ n \in token[k]
    /\ Start(r, [NoHandler EXCEPT !.pc = "found", !.op = "redeem", !.kind = k, !.num = n])
    /\ UNCHANGED <<pw, force, member, token, otp, issued, redeemed, kept>>

\* update_password also clears the force flag.
WritePassword == pw' = pw + 1 /\ force' = FALSE

SetByToken(r) ==
    /\ At(r, "found")
    /\ WritePassword /\ Use(r)
    /\ Goto(r, "spend")
    /\ UNCHANGED <<member, token, otp, issued, starts, kept>>

DeleteToken_Kept(r) ==
    /\ At(r, "spend")
    /\ Move(r, NoHandler)
    /\ UNCHANGED <<pw, force, member, token, otp, issued, starts, redeemed, kept>>

DeleteToken(r) ==
    /\ At(r, "spend")
    /\ token' = [token EXCEPT ![req[r].kind] = @ \ {req[r].num}]
    /\ Move(r, NoHandler)
    /\ UNCHANGED <<pw, force, member, otp, issued, starts, redeemed, kept>>

\* change_password: the current password is checked on the identity read here.
VerifyCurrent(r) ==
    /\ Start(r, [NoHandler EXCEPT !.pc = "set", !.op = "change"])
    /\ UNCHANGED <<pw, force, member, token, otp, issued, redeemed, kept>>

ChangePassword(r) ==
    /\ At(r, "set") /\ req[r].op = "change"
    /\ WritePassword
    /\ Move(r, NoHandler)
    /\ UNCHANGED <<member, token, otp, issued, starts, redeemed, kept>>

-----------------------------------------------------------------------------
(***************************************************************************)
(* admin_reset_password by an admin of tenant t: archived users are found, *)
(* archived memberships are not counted.  Only a single-tenant identity's  *)
(* password is set.                                                        *)
(***************************************************************************)
GetUser(r, t, f) ==
    /\ member[t] # "none"
    /\ Start(r, [NoHandler EXCEPT !.pc = "count", !.op = "admin", !.tenant = t, !.force = f])
    /\ UNCHANGED <<pw, force, member, token, otp, issued, redeemed, kept>>

CountMemberships(r) ==
    /\ At(r, "count")
    /\ Cardinality(Active) > 1 => req[r].force
    /\ Goto(r, IF Cardinality(Active) > 1 THEN "flag" ELSE "set")
    /\ UNCHANGED <<pw, force, member, token, otp, issued, starts, redeemed, kept>>

AdminSetPassword(r) ==
    /\ At(r, "set") /\ req[r].op = "admin"
    /\ WritePassword
    /\ Goto(r, "flag")
    /\ UNCHANGED <<member, token, otp, issued, starts, redeemed, kept>>

SetForcePasswordChange(r) ==
    /\ At(r, "flag")
    /\ force' = req[r].force
    /\ Move(r, NoHandler)
    /\ UNCHANGED <<pw, member, token, otp, issued, starts, redeemed, kept>>

-----------------------------------------------------------------------------
(***************************************************************************)
(* email_otp_request inserts a code beside the older ones; otp_verify      *)
(* looks at the newest live one only.                                      *)
(***************************************************************************)
CreateOtp(r) ==
    /\ At(r, "idle") /\ starts < MaxStarts /\ starts' = starts + 1
    /\ issued' = [issued EXCEPT !["otp"] = @ + 1]
    /\ otp' = [otp EXCEPT !.live = @ \cup {issued["otp"] + 1}]
    /\ UNCHANGED <<pw, force, member, token, req, redeemed, kept>>

Latest == CHOOSE n \in otp.live : \A m \in otp.live : m <= n

\* The attempts the row had are compared with the limit, the code given with its code.
GetLatest_NoLimit(r, given) ==
    /\ otp.live # {}
    /\ Start(r, [NoHandler EXCEPT !.pc = IF given = Latest THEN "login" ELSE "wrong",
                                  !.op = "otp", !.kind = "otp", !.num = Latest])
    /\ UNCHANGED <<pw, force, member, token, otp, issued, redeemed, kept>>

GetLatest(r, given) ==
    /\ otp.live # {}
    /\ otp.attempts[Latest] < MaxAttempts
    /\ Start(r, [NoHandler EXCEPT !.pc = IF given = Latest THEN "login" ELSE "wrong",
                                  !.op = "otp", !.kind = "otp", !.num = Latest])
    /\ UNCHANGED <<pw, force, member, token, otp, issued, redeemed, kept>>

IncrementAttempts_CountsDown(r) ==
    /\ At(r, "wrong")
    /\ otp' = [otp EXCEPT !.attempts[req[r].num] = @ - (IF req[r].num \in otp.live THEN 1 ELSE 0)]
    /\ Move(r, NoHandler)
    /\ UNCHANGED <<pw, force, member, token, issued, starts, redeemed, kept>>

IncrementAttempts(r) ==
    /\ At(r, "wrong")
    /\ otp' = [otp EXCEPT !.attempts[req[r].num] = @ + (IF req[r].num \in otp.live THEN 1 ELSE 0)]
    /\ Move(r, NoHandler)
    /\ UNCHANGED <<pw, force, member, token, issued, starts, redeemed, kept>>

\* Login!LoginWithVerifiedOtp comes in between; when it fails the code stays.
LoggedIn(r) ==
    /\ At(r, "login")
    /\ Use(r)
    /\ Goto(r, "drop")
    /\ UNCHANGED <<pw, force, member, token, otp, issued, starts, kept>>

DeleteOtp(r) ==
    /\ At(r, "drop")
    /\ otp' = [otp EXCEPT !.live = @ \ {req[r].num}]
    /\ Move(r, NoHandler)
    /\ UNCHANGED <<pw, force, member, token, issued, starts, redeemed, kept>>

-----------------------------------------------------------------------------
\* An error, or a request cut off between two statements.
Abandon(r) ==
    /\ ~At(r, "idle")
    /\ Move(r, NoHandler)
    /\ kept' = IF req[r].pc \in {"spend", "drop"} THEN [kept EXCEPT ![req[r].kind][req[r].num] = @ + 1] ELSE kept
    /\ UNCHANGED <<pw, force, member, token, otp, issued, starts, redeemed>>

\* expires_at passes.
Expire ==
    /\ \/ \E k \in TokenKind : \E n \in token[k] : token' = [token EXCEPT ![k] = @ \ {n}] /\ UNCHANGED otp
       \/ \E n \in otp.live : otp' = [otp EXCEPT !.live = @ \ {n}] /\ UNCHANGED token
    /\ UNCHANGED <<pw, force, member, issued, req, starts, redeemed, kept>>

\* The identity joins a tenant (users.create) or is archived there.
Join(t) ==
    /\ member[t] = "none"
    /\ member' = [member EXCEPT ![t] = "active"]
    /\ UNCHANGED <<pw, force, token, otp, issued, req, starts, redeemed, kept>>

Archive(t) ==
    /\ member[t] = "active"
    /\ member' = [member EXCEPT ![t] = "archived"]
    /\ UNCHANGED <<pw, force, token, otp, issued, req, starts, redeemed, kept>>

-----------------------------------------------------------------------------
(***************************************************************************)
(* The handlers of routes/auth.rs, routes/session.rs and routes/admin.rs,  *)
(* each the steps it takes.  Both token kinds share their steps.           *)
(***************************************************************************)
Issue(r, k) == LoadIdentity(r, k) \/ (req[r].kind = k /\ (SweepTokens(r) \/ InsertToken(r)))
Redeem(r, k) == (\E n \in Num : FindToken(r, k, n)) \/ (req[r].kind = k /\ (SetByToken(r) \/ DeleteToken(r)))

ForgotPassword(r) == Issue(r, "reset")
ResetPassword(r) == Redeem(r, "reset")
IssueForceChangeToken(r) == Issue(r, "change")
ForceChangePassword(r) == Redeem(r, "change")
ChangeOwnPassword(r) == VerifyCurrent(r) \/ ChangePassword(r)
AdminResetPassword(r) ==
    \/ \E t \in Tenants, f \in BOOLEAN : GetUser(r, t, f)
    \/ CountMemberships(r) \/ AdminSetPassword(r) \/ SetForcePasswordChange(r)
EmailOtpRequest(r) == CreateOtp(r)
OtpVerify(r) ==
    \/ \E given \in 0..issued["otp"] : GetLatest(r, given)
    \/ IncrementAttempts(r) \/ LoggedIn(r) \/ DeleteOtp(r)

Next ==
    \/ \E r \in Requests :
        \/ ForgotPassword(r) \/ ResetPassword(r) \/ IssueForceChangeToken(r) \/ ForceChangePassword(r)
        \/ ChangeOwnPassword(r) \/ AdminResetPassword(r) \/ EmailOtpRequest(r) \/ OtpVerify(r) \/ Abandon(r)
    \/ Expire
    \/ \E t \in Tenants : Join(t) \/ Archive(t)

Spec == Init /\ [][Next]_vars

-----------------------------------------------------------------------------
(***************************************************************************)
(* TypeOK: the types, and the tables hold only what was issued.            *)
(***************************************************************************)
TypeOK ==
    /\ pw \in Nat /\ force \in BOOLEAN /\ starts \in 0..MaxStarts
    /\ member \in [Tenants -> {"none", "active", "archived"}]
    /\ \A k \in TokenKind : token[k] \subseteq 1..issued[k]
    /\ otp.live \subseteq 1..issued["otp"]
    /\ otp.attempts \in [Num -> Nat]
    /\ issued \in [IssueKind -> 0..MaxStarts]
    /\ req \in [Requests -> Handler]
    /\ redeemed \in [IssueKind -> [Num -> Nat]] /\ kept \in [IssueKind -> [Num -> Nat]]

(***************************************************************************)
(* services/auth.rs:704 says that a reset "invalidates token",             *)
(* repo/otp.rs:125 that the code is deleted "(one-time use)".  Neither is  *)
(* used once: the token or code is looked up, used and deleted in three    *)
(* statements, so a second request may find it before it is deleted, and   *)
(* one whose DELETE fails leaves it.  The negation of SomeSecretSingleUse  *)
(* is one behaviour that breaks both promises.                             *)
(***************************************************************************)
TokensSingleUse == \A k \in TokenKind, n \in Num : redeemed[k][n] <= 1
OtpSingleUse == \A n \in Num : redeemed["otp"][n] <= 1
SomeSecretSingleUse == TokensSingleUse \/ OtpSingleUse

(***************************************************************************)
(* What does hold of the single use promised above: but for one use per    *)
(* request that ended before its DELETE, a token sets a password, and a    *)
(* code opens a session, at most once per request in flight at the same    *)
(* time: never for a request that starts after a use was completed.        *)
(***************************************************************************)
SingleUseBound == \A k \in IssueKind, n \in Num : redeemed[k][n] <= kept[k][n] + Cardinality(Requests)

(***************************************************************************)
(* "Any existing tokens for the user are replaced": delete and insert are  *)
(* two statements, so requests that race leave one live token each, and    *)
(* never more.                                                             *)
(***************************************************************************)
LiveTokensBound == \A k \in TokenKind : Cardinality(token[k]) <= Cardinality(Requests)

(***************************************************************************)
(* otp_verify reads the attempt counter in one statement and increments it *)
(* in another: wrong codes go past MAX_OTP_ATTEMPTS only by the requests   *)
(* that were in flight when it was reached.                                *)
(***************************************************************************)
OtpAttemptBound == \A n \in Num : otp.attempts[n] < MaxAttempts + Cardinality(Requests)

(***************************************************************************)
(* services/auth.rs:787-790 says of admin_reset_password that the password *)
(* is set only for a single-tenant identity, "(no cross-tenant blast       *)
(* radius)": whoever else is an active member when an admin sets it, the   *)
(* admin's tenant is the only one.  It is not when the identity joins a    *)
(* tenant after its memberships were counted, or when the admin's own user *)
(* was archived and the one membership counted is of another tenant.       *)
(***************************************************************************)
AdminStaysInTenant ==
    [][\A r \in Requests :
         pw' # pw /\ req[r].op = "admin" /\ req'[r] # req[r] => Active \subseteq {req[r].tenant}]_vars

(***************************************************************************)
(* force_password_change, once set, is lifted only together with a new     *)
(* password, or by an admin reset that asked for no forced change.         *)
(***************************************************************************)
ForceLiftedByNewPassword ==
    [][force /\ ~force' => pw' # pw \/ \E r \in Requests : At(r, "flag") /\ ~req[r].force /\ req'[r] # req[r]]_vars
=============================================================================
