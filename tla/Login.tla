------------------------------- MODULE Login -------------------------------
(***************************************************************************)
(* The login pipeline of authrs (services/auth.rs): first factor, gates,   *)
(* force-change, MFA challenge, second factor, session.  The model follows *)
(* ONE global identity and its memberships (Users): every statement of     *)
(* these handlers touches one identity row, so identities are independent. *)
(*                                                                         *)
(* A handler is a sequence of autocommitted SQL statements separated by    *)
(* awaits.  Each action below is one statement together with the pure code *)
(* up to the next await; req[r] holds where handler r stands and the rows  *)
(* it has read, which may be stale by the time it acts on them.  Reads     *)
(* that only reject (login methods, tenant settings, an identity token     *)
(* looked up before its membership) are part of the step they lead to.     *)
(* Time is modelled by what it does: a lock, a window or a token lapses.   *)
(***************************************************************************)
EXTENDS Naturals, FiniteSets

CONSTANTS
    Requests,         \* handlers that may be in flight at the same time
    Users,            \* memberships (users rows) of the identity
    Challenges,       \* mfa_challenges tokens that can ever be generated
    ChangeTokens,     \* force_change_tokens that can ever be generated
    LockAfter,        \* DEFAULT_LOCK_AFTER_ATTEMPTS
    MaxMfaAttempts,   \* MAX_MFA_ATTEMPTS
    Surfaces          \* bound: what may happen in a behaviour, one of these

RouteNames == {"password", "identity", "otp", "select", "switch", "oauth", "mfa", "force"}

EventNames == {"archive", "access", "disable", "force", "enableMfa", "disableMfa"}

\* The routes clients call, what administrators and the owner's other requests do, a cap on failed_attempts.
Surface == [routes : SUBSET RouteNames, events : SUBSET EventNames, maxFailed : Nat]

ASSUME LoginAssumption ==
    /\ IsFiniteSet(Requests)
    /\ LockAfter \in Nat \ {0, 1}
    /\ MaxMfaAttempts \in Nat \ {0}
    /\ Surfaces \subseteq Surface
    /\ "none" \notin Users \cup Challenges \cup ChangeTokens

VARIABLES
    identity,       \* the identities row
    account,        \* users rows, one per membership
    challenge,      \* mfa_challenges rows by token
    changeToken,    \* force_change_tokens rows by token
    identityToken,  \* TRUE while some identity_tokens row is valid
    req,            \* the handlers in flight
    lastSession,    \* the session minted last (each session is the last one once)
    minted,         \* history: sessions minted from each challenge
    surface         \* the surface of this behaviour: chosen at its start, never changed

vars == <<surface, identity, account, challenge, changeToken, identityToken, req, lastSession, minted>>

-----------------------------------------------------------------------------
(***************************************************************************)
(* Rows and handler state.  A lock is "held", a window "open", a token     *)
(* "live" until its timestamp has passed.                                  *)
(***************************************************************************)
Identity == [status : {"active", "disabled"}, failed : Nat,
             lock : {"none", "held", "lapsed"}, force : BOOLEAN, mfa : BOOLEAN]

Account == [status : {"active", "archived"}, window : {"open", "ended"}]

RowState == {"unused", "live", "lapsed", "gone"}

Challenge == [row : RowState, user : Users \cup {"none"}, attempts : Nat]

ChangeToken == [row : RowState, user : Users \cup {"none"}]

Label == {"idle", "load", "member", "clear", "fail", "count", "finalize", "mint",
          "token", "insertChallenge", "insertChange", "exhausted", "mfaUser",
          "mfaVerify", "redeem", "forceUser", "setPassword", "dropChange", "reload"}

Kind == {"none", "password", "identity", "verified", "oauth", "mfa", "force"}

\* late and sawOff are history: the account was closed for good when the
\* handler began; MFA has been off at some moment since the handler began.
Handler == [pc : Label, kind : Kind, user : Users \cup {"none"},
            tok : Challenges \cup ChangeTokens \cup {"none"},
            acct : Account, id : Identity, late : BOOLEAN, sawOff : BOOLEAN]

Session == [user : Users \cup {"none"}, via : Kind, late : BOOLEAN, sawOff : BOOLEAN]

NoSession == [user |-> "none", via |-> "none", late |-> FALSE, sawOff |-> TRUE]

NewIdentity == [status |-> "active", failed |-> 0, lock |-> "none", force |-> FALSE, mfa |-> FALSE]

NewAccount == [status |-> "active", window |-> "open"]

NoHandler == [pc |-> "idle", kind |-> "none", user |-> "none", tok |-> "none",
              acct |-> NewAccount, id |-> NewIdentity, late |-> FALSE, sawOff |-> FALSE]

Init ==
    /\ identity \in {[NewIdentity EXCEPT !.mfa = m] : m \in BOOLEAN}
    /\ account = [u \in Users |-> NewAccount]
    /\ challenge = [c \in Challenges |-> [row |-> "unused", user |-> "none", attempts |-> 0]]
    /\ changeToken = [t \in ChangeTokens |-> [row |-> "unused", user |-> "none"]]
    /\ identityToken = FALSE
    /\ req = [r \in Requests |-> NoHandler]
    /\ lastSession = NoSession
    /\ minted = [c \in Challenges |-> 0]
    /\ surface \in Surfaces

-----------------------------------------------------------------------------
\* The account can never log in again: nothing reverts either status.
Closed(u) == account[u].status # "active" \/ identity.status # "active"

\* Gates common to the logins, on the rows the handler holds.
CheckGates_NoMembershipStatus(acct, id) ==
    /\ id.status = "active"
    /\ id.lock # "held"
    /\ acct.window # "ended"

CheckGates(acct, id) ==
    /\ acct.status = "active" /\ id.status = "active"
    /\ id.lock # "held"
    /\ acct.window # "ended"

\* What a handler still uses of the identity it read once the gates are
\* passed: the counter if the credential was wrong, the flags if it was right.
Rejected(id) == [NewIdentity EXCEPT !.failed = id.failed]

Accepted(id) == [NewIdentity EXCEPT !.force = id.force, !.mfa = id.mfa]

At(r, l) == req[r].pc = l

Move(r, h) == req' = [req EXCEPT ![r] = h]

Goto(r, l) == Move(r, [req[r] EXCEPT !.pc = l])

Finish(r) == Move(r, NoHandler)

\* A handler begins for membership u with the rows it reads first.
Begin(r, route, kind, u, t, l, acct, id) ==
    /\ route \in surface.routes
    /\ At(r, "idle")
    /\ Move(r, [pc |-> l, kind |-> kind, user |-> u, tok |-> t, acct |-> acct, id |-> id,
                late |-> Closed(u), sawOff |-> ~identity.mfa])

rows == <<surface, identity, account, challenge, changeToken, identityToken, lastSession, minted>>

(***************************************************************************)
(* The handler's future is dropped at an await (client gone) or ends with  *)
(* an error: a gate, a login method that is not allowed, a missing         *)
(* password hash, a failed statement.  What it wrote so far stays.         *)
(***************************************************************************)
Abandon(r) ==
    /\ ~At(r, "idle")
    /\ Finish(r)
    /\ UNCHANGED rows

-----------------------------------------------------------------------------
(***************************************************************************)
(* Password logins: login_email_password, login_username_password.         *)
(***************************************************************************)
LoginPassword(r, u) ==
    /\ Begin(r, "password", "password", u, "none", "load", account[u], NewIdentity)
    /\ UNCHANGED rows

\* do_password_login up to its first write: the identity is read, the gates
\* and the password are checked on it; a rejection before that is Abandon.
VerifyPassword(r) ==
    /\ At(r, "load") /\ req[r].kind = "password"
    /\ CheckGates(req[r].acct, identity)
    /\ \/ Move(r, [req[r] EXCEPT !.pc = "clear", !.id = Accepted(identity), !.acct = NewAccount])
       \/ Move(r, [req[r] EXCEPT !.pc = "fail", !.id = Rejected(identity), !.acct = NewAccount])
    /\ UNCHANGED rows

\* login_identity (tenant-less): status, lock, then the password.
LoginIdentity(r) ==
    /\ "identity" \in surface.routes
    /\ At(r, "idle")
    /\ identity.status = "active" /\ identity.lock # "held"
    /\ \/ Move(r, [NoHandler EXCEPT !.pc = "clear", !.kind = "identity"])
       \/ Move(r, [NoHandler EXCEPT !.pc = "fail", !.kind = "identity",
                                                       !.id = Rejected(identity)])
    /\ UNCHANGED rows

RegisterFailedAttempt_LocksLate(r) ==
    /\ At(r, "fail")
    /\ identity.failed < surface.maxFailed
    /\ identity' = [identity EXCEPT
                      !.failed = @ + 1,
                      !.lock = IF req[r].id.failed >= LockAfter THEN "held" ELSE @]
    /\ Finish(r)
    /\ UNCHANGED <<surface, account, challenge, changeToken, identityToken, lastSession, minted>>

\* register_failed_attempt: whether to lock is decided on the identity the
\* handler read earlier; the increment is the database's own.
RegisterFailedAttempt(r) ==
    /\ At(r, "fail")
    /\ identity.failed < surface.maxFailed
    /\ identity' = [identity EXCEPT
                      !.failed = @ + 1,
                      !.lock = IF req[r].id.failed + 1 >= LockAfter THEN "held" ELSE @]
    /\ Finish(r)
    /\ UNCHANGED <<surface, account, challenge, changeToken, identityToken, lastSession, minted>>

\* What follows the cleared counter: the tail of the handler that cleared it.
AfterClear(k) == CASE k = "mfa" -> "mint" [] k = "identity" -> "token" [] OTHER -> "finalize"

ClearFailedAttempts_Decrement(r) ==
    /\ At(r, "clear")
    /\ identity' = [identity EXCEPT !.failed = @ - 1, !.lock = "none"]
    /\ Goto(r, AfterClear(req[r].kind))
    /\ UNCHANGED <<surface, account, challenge, changeToken, identityToken, lastSession, minted>>

ClearFailedAttempts(r) ==
    /\ At(r, "clear")
    /\ identity' = [identity EXCEPT !.failed = 0, !.lock = "none"]
    /\ Goto(r, AfterClear(req[r].kind))
    /\ UNCHANGED <<surface, account, challenge, changeToken, identityToken, lastSession, minted>>

\* The end of login_identity: a reusable identity token is stored.
CreateIdentityToken(r) ==
    /\ At(r, "token")
    /\ identityToken' = TRUE
    /\ Finish(r)
    /\ UNCHANGED <<surface, identity, account, challenge, changeToken, lastSession, minted>>

-----------------------------------------------------------------------------
(***************************************************************************)
(* Logins whose first factor was established elsewhere.  All of them read  *)
(* the membership, then the identity, pass the gates and finalize.         *)
(***************************************************************************)
LoginWithVerifiedOtp(r, u) ==
    /\ Begin(r, "otp", "verified", u, "none", "load", account[u], NewIdentity)
    /\ UNCHANGED rows

SelectTenantWithToken(r, u) ==
    /\ identityToken
    /\ Begin(r, "select", "verified", u, "none", "load", account[u], NewIdentity)
    /\ UNCHANGED rows

SwitchTenant(r, u) ==
    /\ lastSession # NoSession
    /\ Begin(r, "switch", "verified", u, "none", "load", account[u], NewIdentity)
    /\ UNCHANGED rows

LoadVerified(r) ==
    /\ At(r, "load") /\ req[r].kind = "verified"
    /\ CheckGates(req[r].acct, identity)
    /\ Move(r, [req[r] EXCEPT !.pc = "finalize", !.id = Accepted(identity), !.acct = NewAccount])
    /\ UNCHANGED rows

\* login_oauth resolves the identity first and reads the membership later,
\* so its gates run on an identity row that may be stale.
LoginOauth(r, u) ==
    /\ identity.status = "active"
    /\ Begin(r, "oauth", "oauth", u, "none", "member", NewAccount, identity)
    /\ UNCHANGED rows

LoadMembership(r) ==
    /\ At(r, "member")
    /\ CheckGates(account[req[r].user], req[r].id)
    /\ Move(r, [req[r] EXCEPT !.pc = "finalize", !.id = Accepted(req[r].id)])
    /\ UNCHANGED rows

-----------------------------------------------------------------------------
(***************************************************************************)
(* finalize_login: force-change, then MFA, then the session, on the        *)
(* identity row the handler holds.                                         *)
(***************************************************************************)

\* issue_force_change_token, first statement: the user's tokens are deleted.
SweepChangeTokens(r) ==
    /\ At(r, "finalize") /\ req[r].id.force
    /\ changeToken' = [t \in ChangeTokens |->
                         IF changeToken[t].row \in {"live", "lapsed"} /\ changeToken[t].user = req[r].user
                         THEN [changeToken[t] EXCEPT !.row = "gone"] ELSE changeToken[t]]
    /\ Goto(r, "insertChange")
    /\ UNCHANGED <<surface, identity, account, challenge, identityToken, lastSession, minted>>

InsertChangeToken(r) ==
    /\ At(r, "insertChange")
    /\ \E t \in ChangeTokens :
         /\ changeToken[t].row = "unused"
         /\ changeToken' = [changeToken EXCEPT ![t] = [row |-> "live", user |-> req[r].user]]
    /\ Finish(r)
    /\ UNCHANGED <<surface, identity, account, challenge, identityToken, lastSession, minted>>

\* create_challenge, first statement: every lapsed challenge is deleted.
SweepChallenges(r) ==
    /\ At(r, "finalize") /\ ~req[r].id.force /\ req[r].id.mfa
    /\ challenge' = [c \in Challenges |->
                       IF challenge[c].row = "lapsed"
                       THEN [challenge[c] EXCEPT !.row = "gone"] ELSE challenge[c]]
    /\ Goto(r, "insertChallenge")
    /\ UNCHANGED <<surface, identity, account, changeToken, identityToken, lastSession, minted>>

InsertChallenge(r) ==
    /\ At(r, "insertChallenge")
    /\ \E c \in Challenges :
         /\ challenge[c].row = "unused"
         /\ challenge' = [challenge EXCEPT
                            ![c] = [row |-> "live", user |-> req[r].user, attempts |-> 0]]
    /\ Finish(r)
    /\ UNCHANGED <<surface, identity, account, changeToken, identityToken, lastSession, minted>>

\* The handler has nothing left to ask of the user.
FullyAuthenticated_IgnoresMfa(r) ==
    \/ At(r, "mint")
    \/ At(r, "finalize") /\ ~req[r].id.force

FullyAuthenticated(r) ==
    \/ At(r, "mint")
    \/ At(r, "finalize") /\ ~req[r].id.force /\ ~req[r].id.mfa

\* do_create_session: the roles and the policy it reads only fill the payload.
DoCreateSession(r) ==
    /\ FullyAuthenticated(r)
    /\ lastSession' = [user |-> req[r].user, via |-> req[r].kind,
                       late |-> req[r].late, sawOff |-> req[r].sawOff]
    /\ minted' = [c \in Challenges |->
                    IF req[r].kind = "mfa" /\ req[r].tok = c THEN minted[c] + 1 ELSE minted[c]]
    /\ Finish(r)
    /\ UNCHANGED <<surface, identity, account, challenge, changeToken, identityToken>>

-----------------------------------------------------------------------------
(***************************************************************************)
(* complete_mfa_login: the second factor of a pending challenge.           *)
(***************************************************************************)
GetChallenge_LimitOffByOne(r, c) ==
    /\ challenge[c].row = "live"
    /\ Begin(r, "mfa", "mfa", challenge[c].user, c,
             IF challenge[c].attempts > MaxMfaAttempts THEN "exhausted" ELSE "mfaUser",
             NewAccount, NewIdentity)
    /\ UNCHANGED rows

\* get_challenge and the attempt limit, checked on the row just read.
GetChallenge(r, c) ==
    /\ challenge[c].row = "live"
    /\ Begin(r, "mfa", "mfa", challenge[c].user, c,
             IF challenge[c].attempts >= MaxMfaAttempts THEN "exhausted" ELSE "mfaUser",
             NewAccount, NewIdentity)
    /\ UNCHANGED rows

\* delete_challenge: the row goes whether or not it has lapsed.
Deleted(c) == [challenge EXCEPT ![c].row = "gone"]

Present(c) == challenge[c].row \in {"live", "lapsed"}

DropExhausted(r) ==
    /\ At(r, "exhausted")
    /\ challenge' = Deleted(req[r].tok)
    /\ Finish(r)
    /\ UNCHANGED <<surface, identity, account, changeToken, identityToken, lastSession, minted>>

LoadMfaUser(r) ==
    /\ At(r, "mfaUser")
    /\ Move(r, [req[r] EXCEPT !.pc = "mfaVerify", !.acct = account[req[r].user]])
    /\ UNCHANGED rows

\* The identity is read, gated, and the code verified on that row.  The code
\* is right or wrong; with MFA off by now, verify always answers false.  The
\* used TOTP step or backup code that verify records is not kept here.
VerifyCode(r) ==
    /\ At(r, "mfaVerify")
    /\ CheckGates(req[r].acct, identity)
    /\ \/ /\ identity.mfa
          /\ Move(r, [req[r] EXCEPT !.pc = "redeem", !.acct = NewAccount])
       \/ Move(r, [req[r] EXCEPT !.pc = "count", !.id = Rejected(identity), !.acct = NewAccount])
    /\ UNCHANGED rows

\* increment_challenge_attempts; no row, no effect.
CountAttempt(r) ==
    /\ At(r, "count")
    /\ challenge' = [challenge EXCEPT ![req[r].tok].attempts =
                       IF Present(req[r].tok) THEN @ + 1 ELSE @]
    /\ Goto(r, "fail")
    /\ UNCHANGED <<surface, identity, account, changeToken, identityToken, lastSession, minted>>

RedeemChallenge_IgnoresRowCount(r) ==
    /\ At(r, "redeem")
    /\ challenge' = Deleted(req[r].tok)
    /\ Goto(r, "clear")
    /\ UNCHANGED <<surface, identity, account, changeToken, identityToken, lastSession, minted>>

\* Only the handler whose DELETE removed the row goes on.
RedeemChallenge(r) ==
    /\ At(r, "redeem")
    /\ challenge' = Deleted(req[r].tok)
    /\ IF Present(req[r].tok) THEN Goto(r, "clear") ELSE Finish(r)
    /\ UNCHANGED <<surface, identity, account, changeToken, identityToken, lastSession, minted>>

-----------------------------------------------------------------------------
(***************************************************************************)
(* force_change_password: a change token instead of a credential.          *)
(***************************************************************************)
GetChangeToken(r, t) ==
    /\ changeToken[t].row = "live"
    /\ Begin(r, "force", "force", changeToken[t].user, t, "forceUser", NewAccount, NewIdentity)
    /\ UNCHANGED rows

\* Only the access window is checked here: neither status nor the lock is.
LoadForceUser(r) ==
    /\ At(r, "forceUser")
    /\ account[req[r].user].window # "ended"
    /\ Move(r, [req[r] EXCEPT !.pc = "setPassword", !.acct = NewAccount])
    /\ UNCHANGED rows

UpdatePassword(r) ==
    /\ At(r, "setPassword")
    /\ identity' = [identity EXCEPT !.force = FALSE]
    /\ Goto(r, "dropChange")
    /\ UNCHANGED <<surface, account, challenge, changeToken, identityToken, lastSession, minted>>

\* delete_by_token: how many rows went is not looked at.
DropChangeToken(r) ==
    /\ At(r, "dropChange")
    /\ changeToken' = [changeToken EXCEPT ![req[r].tok].row = "gone"]
    /\ Goto(r, "reload")
    /\ UNCHANGED <<surface, identity, account, challenge, identityToken, lastSession, minted>>

ReloadIdentity(r) ==
    /\ At(r, "reload")
    /\ Move(r, [req[r] EXCEPT !.pc = "finalize", !.id = Accepted(identity)])
    /\ UNCHANGED rows

-----------------------------------------------------------------------------
(***************************************************************************)
(* What other handlers and time do to the same rows.                       *)
(***************************************************************************)
ArchiveUser(u) ==
    /\ "archive" \in surface.events
    /\ account[u].status = "active"
    /\ account' = [account EXCEPT ![u].status = "archived"]
    /\ UNCHANGED <<surface, identity, challenge, changeToken, identityToken, req, lastSession, minted>>

\* An administrator moves access_valid_until, or the date passes.
SetAccessValidUntil(u, w) ==
    /\ "access" \in surface.events
    /\ account' = [account EXCEPT ![u].window = w]
    /\ UNCHANGED <<surface, identity, challenge, changeToken, identityToken, req, lastSession, minted>>

\* set_status, the global kill-switch: no route calls it, an operator does.
DisableIdentity ==
    /\ "disable" \in surface.events
    /\ identity' = [identity EXCEPT !.status = "disabled"]
    /\ UNCHANGED <<surface, account, challenge, changeToken, identityToken, req, lastSession, minted>>

\* set_force_password_change, and update_password by any other handler.
SetForcePasswordChange(v) ==
    /\ "force" \in surface.events
    /\ identity' = [identity EXCEPT !.force = v]
    /\ UNCHANGED <<surface, account, challenge, changeToken, identityToken, req, lastSession, minted>>

EnableMfa ==
    /\ "enableMfa" \in surface.events
    /\ identity' = [identity EXCEPT !.mfa = TRUE]
    /\ UNCHANGED <<surface, account, challenge, changeToken, identityToken, req, lastSession, minted>>

DisableMfa ==
    /\ "disableMfa" \in surface.events
    /\ identity' = [identity EXCEPT !.mfa = FALSE]
    /\ req' = [r \in Requests |-> IF At(r, "idle") THEN req[r] ELSE [req[r] EXCEPT !.sawOff = TRUE]]
    /\ UNCHANGED <<surface, account, challenge, changeToken, identityToken, lastSession, minted>>

\* locked_until is compared with the clock: it lapses in every copy of the row.
LockLapses ==
    /\ identity.lock = "held" \/ \E r \in Requests : req[r].id.lock = "held"
    /\ identity' = [identity EXCEPT !.lock = IF @ = "held" THEN "lapsed" ELSE @]
    /\ req' = [r \in Requests |-> [req[r] EXCEPT !.id.lock = IF @ = "held" THEN "lapsed" ELSE @]]
    /\ UNCHANGED <<surface, account, challenge, changeToken, identityToken, lastSession, minted>>

ChallengeLapses(c) ==
    /\ challenge[c].row = "live"
    /\ challenge' = [challenge EXCEPT ![c].row = "lapsed"]
    /\ UNCHANGED <<surface, identity, account, changeToken, identityToken, req, lastSession, minted>>

ChangeTokenLapses(t) ==
    /\ changeToken[t].row = "live"
    /\ changeToken' = [changeToken EXCEPT ![t].row = "lapsed"]
    /\ UNCHANGED <<surface, identity, account, challenge, identityToken, req, lastSession, minted>>

IdentityTokensLapse ==
    /\ identityToken
    /\ identityToken' = FALSE
    /\ UNCHANGED <<surface, identity, account, challenge, changeToken, req, lastSession, minted>>

-----------------------------------------------------------------------------
FirstFactor(r) ==
    \/ \E u \in Users : \/ LoginPassword(r, u)
                        \/ LoginWithVerifiedOtp(r, u)
                        \/ SelectTenantWithToken(r, u)
                        \/ SwitchTenant(r, u)
                        \/ LoginOauth(r, u)
    \/ LoginIdentity(r)
    \/ VerifyPassword(r)
    \/ LoadVerified(r)
    \/ LoadMembership(r)
    \/ RegisterFailedAttempt(r)
    \/ ClearFailedAttempts(r)
    \/ CreateIdentityToken(r)

Tail(r) ==
    \/ SweepChangeTokens(r)
    \/ InsertChangeToken(r)
    \/ SweepChallenges(r)
    \/ InsertChallenge(r)
    \/ DoCreateSession(r)

SecondFactor(r) ==
    \/ \E c \in Challenges : GetChallenge(r, c)
    \/ DropExhausted(r)
    \/ LoadMfaUser(r)
    \/ VerifyCode(r)
    \/ CountAttempt(r)
    \/ RedeemChallenge(r)

ForceChange(r) ==
    \/ \E t \in ChangeTokens : GetChangeToken(r, t)
    \/ LoadForceUser(r)
    \/ UpdatePassword(r)
    \/ DropChangeToken(r)
    \/ ReloadIdentity(r)

Environment ==
    \/ \E u \in Users : ArchiveUser(u)
    \/ \E u \in Users, w \in {"open", "ended"} : SetAccessValidUntil(u, w)
    \/ DisableIdentity
    \/ \E v \in BOOLEAN : SetForcePasswordChange(v)
    \/ EnableMfa
    \/ DisableMfa
    \/ LockLapses
    \/ \E c \in Challenges : ChallengeLapses(c)
    \/ \E t \in ChangeTokens : ChangeTokenLapses(t)
    \/ IdentityTokensLapse

Next ==
    \/ \E r \in Requests : \/ FirstFactor(r)
                           \/ Tail(r)
                           \/ SecondFactor(r)
                           \/ ForceChange(r)
                           \/ Abandon(r)
    \/ Environment

Spec == Init /\ [][Next]_vars

-----------------------------------------------------------------------------
(***************************************************************************)
(* Type invariant: every row and every handler's copy of a row is well     *)
(* formed in every state the statements can interleave into.               *)
(***************************************************************************)
TypeOK ==
    /\ identity \in Identity
    /\ account \in [Users -> Account]
    /\ challenge \in [Challenges -> Challenge]
    /\ changeToken \in [ChangeTokens -> ChangeToken]
    /\ identityToken \in BOOLEAN
    /\ req \in [Requests -> Handler]
    /\ lastSession \in Session
    /\ minted \in [Challenges -> Nat]

(***************************************************************************)
(* complete_mfa_login: however many /mfa/validate calls race on one        *)
(* challenge, it yields at most one session; only the call whose DELETE    *)
(* took the row goes on.                                                   *)
(***************************************************************************)
ChallengeRedeemedOnce == \A c \in Challenges : minted[c] <= 1

(***************************************************************************)
(* The attempt limit of a challenge is read, and the counter incremented,  *)
(* in separate statements.  Concurrent calls can overshoot the limit, but  *)
(* only by the calls that were in flight when it was reached.              *)
(***************************************************************************)
AttemptBound ==
    \A c \in Challenges :
        challenge[c].attempts <= MaxMfaAttempts - 1 + Cardinality(Requests)

(***************************************************************************)
(* Global lockout (register_failed_attempt): the lock is decided on a      *)
(* stale failed_attempts, so it can come late, but an identity that was    *)
(* never locked since its counter was last cleared has at most the         *)
(* failures below the threshold plus one for each handler in flight.       *)
(***************************************************************************)
LockoutBound ==
    identity.lock = "none" => identity.failed <= LockAfter - 2 + Cardinality(Requests)

(***************************************************************************)
(* finalize_login: a session that was not bought with a second factor      *)
(* comes from a handler during which MFA has really been off: no path,     *)
(* force-change and tenant switch included, skips MFA that was on          *)
(* throughout.                                                             *)
(***************************************************************************)
SecondFactorEnforced == lastSession.via # "mfa" => lastSession.sawOff

(***************************************************************************)
(* check_gates: a handler that begins after the membership was archived or *)
(* the identity disabled mints nothing, even from a challenge, identity    *)
(* token or session issued while the account was open.  force-change is    *)
(* the exception: it consults neither status.                              *)
(***************************************************************************)
ClosedAccountStaysOut == lastSession.late => lastSession.via = "force"

(***************************************************************************)
(* check_gates, "Gates common to every login": no login at all succeeds    *)
(* that begins after the account was closed.                               *)
(***************************************************************************)
GatesCommonToEveryLogin == ~lastSession.late

=============================================================================
