---------------------------- MODULE LoginProofs ----------------------------
(***************************************************************************)
(* Proofs about Login, for every number of handlers, memberships and       *)
(* tokens and every value of the limits.  First type correctness and what  *)
(* each step leaves in the record of the handler that takes it.  TypeOK is *)
(* not inductive alone: GetChallenge needs a live challenge to have an     *)
(* owner and the MFA steps need their token to be a challenge, so it is    *)
(* proved together with Control.  Then the safety properties: each has an  *)
(* inductive strengthening of its own, proved on top of Typed, with one    *)
(* lemma per group of actions.                                             *)
(***************************************************************************)
EXTENDS Login, TLAPS, FiniteSetTheorems

MfaLabel == {"exhausted", "mfaUser", "mfaVerify", "redeem", "count", "fail", "clear", "mint"}

\* A handler's label, kind, membership and token fit together.
ControlOf(h) ==
    /\ h.pc # "idle" /\ h.kind # "identity" => h.user \in Users
    /\ h.pc = "idle" => h.kind = "none" /\ ~h.late
    /\ h.kind = "identity" => h.pc \in {"clear", "fail", "token"}
    /\ h.pc = "token" => h.kind = "identity"
    /\ h.kind = "mfa" => h.pc \in MfaLabel /\ h.tok \in Challenges
    /\ h.pc \in {"exhausted", "mfaUser", "mfaVerify", "redeem", "count", "mint"} => h.kind = "mfa"
    /\ h.kind = "force" => h.tok \in ChangeTokens
    /\ h.pc \in {"forceUser", "setPassword", "dropChange", "reload"} => h.kind = "force"
    /\ h.pc \in {"load", "member"} => h.kind \in {"password", "verified", "oauth"}

Control ==
    /\ \A r \in Requests : ControlOf(req[r])
    /\ \A c \in Challenges : challenge[c].row = "live" => challenge[c].user \in Users
    /\ \A t \in ChangeTokens : changeToken[t].row = "live" => changeToken[t].user \in Users

-----------------------------------------------------------------------------
(***************************************************************************)
(* The records the handlers build, and how one handler's step changes req. *)
(***************************************************************************)

\* TypeOK and Control, taken apart into the rows and the handlers.
RowsOK ==
    /\ identity \in Identity
    /\ account \in [Users -> Account]
    /\ challenge \in [Challenges -> Challenge]
    /\ changeToken \in [ChangeTokens -> ChangeToken]
    /\ identityToken \in BOOLEAN
    /\ lastSession \in Session
    /\ minted \in [Challenges -> Nat]

TokensOwned ==
    /\ \A c \in Challenges : challenge[c].row = "live" => challenge[c].user \in Users
    /\ \A t \in ChangeTokens : changeToken[t].row = "live" => changeToken[t].user \in Users

\* The rows a handler record starts from are well typed.
LEMMA DefaultRows == NewAccount \in Account /\ NewIdentity \in Identity
BY DEF NewAccount, Account, NewIdentity, Identity

\* The record of an idle handler is well typed and consistent.
LEMMA IdleHandler == NoHandler \in Handler /\ ControlOf(NoHandler)
<1>1. NoHandler \in Handler
    BY DefaultRows DEF NoHandler, Handler, Label, Kind
<1>2. QED BY <1>1 DEF NoHandler, ControlOf

\* What a handler keeps of the identity row it read.
LEMMA CopiedIdentity ==
    ASSUME NEW id \in Identity
    PROVE  /\ Rejected(id) \in Identity /\ Rejected(id).failed = id.failed
           /\ Rejected(id).mfa = FALSE
           /\ Accepted(id) \in Identity /\ Accepted(id).force = id.force 
           /\ Accepted(id).mfa = id.mfa
BY DEF Rejected, Accepted, NewIdentity, Identity

\* Writing a well-typed record for one handler keeps req well typed.
LEMMA MoveKeeps ==
    ASSUME req \in [Requests -> Handler], NEW r \in Requests, NEW h \in Handler, Move(r, h)
    PROVE  /\ req' \in [Requests -> Handler]
           /\ req'[r] = h
           /\ \A q \in Requests : q # r => req'[q] = req[q]
BY DEF Move

\* Writing a consistent record for one handler keeps every handler consistent.
LEMMA MoveControl ==
    ASSUME req \in [Requests -> Handler], \A q \in Requests : ControlOf(req[q]),
           NEW r \in Requests, NEW h \in Handler, Move(r, h), ControlOf(h)
    PROVE  req' \in [Requests -> Handler] /\ \A q \in Requests : ControlOf(req'[q])
<1>1. ASSUME NEW q \in Requests PROVE ControlOf(req'[q])
    <2>1. CASE q = r BY <2>1, MoveKeeps
    <2>2. CASE q # r
        <3>1. req'[q] = req[q] BY <2>2, MoveKeeps
        <3>2. QED BY <3>1
    <2>3. QED BY <2>1, <2>2
<1>2. QED BY <1>1, MoveKeeps

\* A handler that ends leaves every handler consistent.
LEMMA FinishControl ==
    ASSUME req \in [Requests -> Handler], \A q \in Requests : ControlOf(req[q]),
           NEW r \in Requests, Finish(r)
    PROVE  req' \in [Requests -> Handler] /\ \A q \in Requests : ControlOf(req'[q])
BY MoveControl, IdleHandler DEF Finish

\* Moving only the label leaves the other fields alone.
LEMMA GotoHandler ==
    ASSUME NEW h \in Handler, NEW l \in Label
    PROVE  LET g == [h EXCEPT !.pc = l] IN
           /\ g \in Handler
           /\ g.pc = l /\ g.kind = h.kind /\ g.user = h.user /\ g.tok = h.tok
           /\ g.acct = h.acct /\ g.id = h.id /\ g.late = h.late /\ g.sawOff = h.sawOff
BY DEF Handler

\* A handler that moves on to a label its record allows stays consistent.
LEMMA GotoControl ==
    ASSUME req \in [Requests -> Handler], \A q \in Requests : ControlOf(req[q]),
           NEW r \in Requests, NEW l \in Label \ {"idle"}, Goto(r, l),
           ControlOf([req[r] EXCEPT !.pc = l])
    PROVE  req' \in [Requests -> Handler] /\ \A q \in Requests : ControlOf(req'[q])
<1>1. [req[r] EXCEPT !.pc = l] \in Handler BY GotoHandler
<1>2. QED BY <1>1, MoveControl DEF Goto

\* Everything a handler's first record can be.
LEMMA BeginControl ==
    ASSUME req \in [Requests -> Handler], \A q \in Requests : ControlOf(req[q]),
           identity \in Identity,
           NEW r \in Requests, NEW route, NEW kind \in {"password", "verified", "oauth", "mfa", "force"},
           NEW u \in Users, NEW t \in Challenges \cup ChangeTokens \cup {"none"},
           NEW l \in Label, NEW acct \in Account, NEW id \in Identity,
           l # "idle", l # "token",
           kind = "mfa" => l \in {"exhausted", "mfaUser"} /\ t \in Challenges,
           kind = "force" => l = "forceUser" /\ t \in ChangeTokens,
           kind \in {"password", "verified", "oauth"} => l \in {"load", "member"},
           Begin(r, route, kind, u, t, l, acct, id)
    PROVE  /\ req' \in [Requests -> Handler] 
           /\ \A q \in Requests : ControlOf(req'[q])
<1> DEFINE h == [pc |-> l, kind |-> kind, user |-> u, tok |-> t, acct |-> acct, id |-> id,
                 late |-> Closed(u), sawOff |-> ~identity.mfa]
<1>1. Closed(u) \in BOOLEAN BY DEF Closed
<1>2. h \in Handler BY <1>1 DEF Handler, Kind, Identity
<1>3. ControlOf(h) BY DEF ControlOf, MfaLabel
<1>4. Move(r, h) BY DEF Begin
<1> HIDE DEF h
<1>5. QED BY <1>2, <1>3, <1>4, MoveControl

-----------------------------------------------------------------------------
(***************************************************************************)
(* Every action keeps the rows typed, the handlers typed, and the labels,  *)
(* kinds, memberships and tokens fitting together.                         *)
(***************************************************************************)
Typed == TypeOK /\ Control

\* Steps that write no row keep the rows typed.
LEMMA UnchangedRows ==
    ASSUME Typed, UNCHANGED rows
    PROVE  RowsOK' /\ TokensOwned'
BY DEF Typed, TypeOK, Control, RowsOK, TokensOwned, rows

\* Typed, split into rows and handlers.
LEMMA TypedParts ==
    Typed <=> /\ RowsOK /\ TokensOwned
              /\ req \in [Requests -> Handler] /\ \A q \in Requests : ControlOf(req[q])
BY DEF Typed, TypeOK, Control, RowsOK, TokensOwned

\* Typed in the next state, put together from rows and handlers.
LEMMA TypedNext ==
    ASSUME RowsOK', TokensOwned', req' \in [Requests -> Handler], \A q \in Requests : ControlOf(req'[q])
    PROVE Typed'
BY DEF Typed, TypeOK, Control, RowsOK, TokensOwned

\* The first-factor actions keep Typed.
LEMMA FirstFactorTyped ==
    ASSUME Typed, NEW r \in Requests, FirstFactor(r)
    PROVE  Typed'
<1>1. /\ RowsOK /\ TokensOwned
      /\ req \in [Requests -> Handler] /\ \A q \in Requests : ControlOf(req[q])
    BY TypedParts
<1>2. req[r] \in Handler /\ ControlOf(req[r])
    BY <1>1
<1>3. ASSUME NEW u \in Users, LoginPassword(r, u) PROVE Typed'
    <2>1. req' \in [Requests -> Handler] /\ \A q \in Requests : ControlOf(req'[q])
        BY <1>1, <1>3, BeginControl, DefaultRows DEF RowsOK, LoginPassword, Label
    <2>2. QED BY <2>1, <1>3, UnchangedRows, TypedNext DEF LoginPassword
<1>4. ASSUME NEW u \in Users, LoginWithVerifiedOtp(r, u) PROVE Typed'
    <2>1. req' \in [Requests -> Handler] /\ \A q \in Requests : ControlOf(req'[q])
        BY <1>1, <1>4, BeginControl, DefaultRows DEF RowsOK, LoginWithVerifiedOtp, Label
    <2>2. QED BY <2>1, <1>4, UnchangedRows, TypedNext DEF LoginWithVerifiedOtp
<1>5. ASSUME NEW u \in Users, SelectTenantWithToken(r, u) PROVE Typed'
    <2>1. req' \in [Requests -> Handler] /\ \A q \in Requests : ControlOf(req'[q])
        BY <1>1, <1>5, BeginControl, DefaultRows DEF RowsOK, SelectTenantWithToken, Label
    <2>2. QED BY <2>1, <1>5, UnchangedRows, TypedNext DEF SelectTenantWithToken
<1>6. ASSUME NEW u \in Users, SwitchTenant(r, u) PROVE Typed'
    <2>1. req' \in [Requests -> Handler] /\ \A q \in Requests : ControlOf(req'[q])
        BY <1>1, <1>6, BeginControl, DefaultRows DEF RowsOK, SwitchTenant, Label
    <2>2. QED BY <2>1, <1>6, UnchangedRows, TypedNext DEF SwitchTenant
<1>7. ASSUME NEW u \in Users, LoginOauth(r, u) PROVE Typed'
    <2>1. req' \in [Requests -> Handler] /\ \A q \in Requests : ControlOf(req'[q])
        BY <1>1, <1>7, BeginControl, DefaultRows DEF RowsOK, LoginOauth, Label
    <2>2. QED BY <2>1, <1>7, UnchangedRows, TypedNext DEF LoginOauth
<1>8. CASE LoginIdentity(r)
    <2> DEFINE g == [NoHandler EXCEPT !.pc = "clear", !.kind = "identity"]
               h == [NoHandler EXCEPT !.pc = "fail", !.kind = "identity", !.id = Rejected(identity)]
    <2>1. g \in Handler /\ ControlOf(g)
        BY IdleHandler DEF Handler, Label, Kind, ControlOf
    <2>2. h \in Handler /\ ControlOf(h)
        BY <1>1, IdleHandler, CopiedIdentity DEF RowsOK, Handler, Label, Kind, ControlOf
    <2>3. Move(r, g) \/ Move(r, h) BY <1>8 DEF LoginIdentity
    <2> HIDE DEF g, h
    <2>4. req' \in [Requests -> Handler] /\ \A q \in Requests : ControlOf(req'[q])
        BY <1>1, <2>1, <2>2, <2>3, MoveControl
    <2>5. QED BY <2>4, <1>8, UnchangedRows, TypedNext DEF LoginIdentity
<1>9. CASE VerifyPassword(r)
    <2> DEFINE g == [req[r] EXCEPT !.pc = "clear", !.id = Accepted(identity), !.acct = NewAccount]
               h == [req[r] EXCEPT !.pc = "fail", !.id = Rejected(identity), !.acct = NewAccount]
    <2>1. g \in Handler /\ h \in Handler
        BY <1>1, <1>2, DefaultRows, CopiedIdentity DEF RowsOK, Handler, Label
    <2>2. ControlOf(g) /\ ControlOf(h)
        BY <1>2, <1>9 DEF VerifyPassword, At, Handler, ControlOf
    <2>3. Move(r, g) \/ Move(r, h) BY <1>9 DEF VerifyPassword
    <2> HIDE DEF g, h
    <2>4. req' \in [Requests -> Handler] /\ \A q \in Requests : ControlOf(req'[q])
        BY <1>1, <2>1, <2>2, <2>3, MoveControl
    <2>5. QED BY <2>4, <1>9, UnchangedRows, TypedNext DEF VerifyPassword
<1>10. CASE LoadVerified(r)
    <2> DEFINE h == [req[r] EXCEPT !.pc = "finalize", !.id = Accepted(identity), !.acct = NewAccount]
    <2>1. h \in Handler BY <1>1, <1>2, <1>10, DefaultRows, CopiedIdentity DEF RowsOK, Handler, Label
    <2>2. ControlOf(h) BY <1>2, <1>10, DefaultRows, CopiedIdentity DEF ControlOf, MfaLabel, Handler, At, LoadVerified
    <2>3. Move(r, h) BY <1>10 DEF LoadVerified
    <2> HIDE DEF h
    <2>4. req' \in [Requests -> Handler] /\ \A q \in Requests : ControlOf(req'[q])
        BY <1>1, <2>1, <2>2, <2>3, MoveControl
    <2>5. QED BY <2>4, <1>10, UnchangedRows, TypedNext DEF LoadVerified
<1>11. CASE LoadMembership(r)
    <2> DEFINE h == [req[r] EXCEPT !.pc = "finalize", !.id = Accepted(req[r].id)]
    <2>1. h \in Handler BY <1>1, <1>2, <1>11, CopiedIdentity DEF RowsOK, Handler, Label
    <2>2. ControlOf(h) BY <1>2, <1>11, CopiedIdentity DEF ControlOf, MfaLabel, Handler, At, LoadMembership
    <2>3. Move(r, h) BY <1>11 DEF LoadMembership
    <2> HIDE DEF h
    <2>4. req' \in [Requests -> Handler] /\ \A q \in Requests : ControlOf(req'[q])
        BY <1>1, <2>1, <2>2, <2>3, MoveControl
    <2>5. QED BY <2>4, <1>11, UnchangedRows, TypedNext DEF LoadMembership
<1>12. CASE RegisterFailedAttempt(r)
    <2>1. req' \in [Requests -> Handler] /\ \A q \in Requests : ControlOf(req'[q])
        BY <1>1, <1>12, FinishControl DEF RegisterFailedAttempt
    <2>2. identity' \in Identity
        <3> DEFINE k == IF req[r].id.failed + 1 >= LockAfter THEN "held" ELSE identity.lock
               n == identity.failed + 1
        <3>1. n \in Nat /\ k \in {"none", "held", "lapsed"} BY <1>1 DEF RowsOK, Identity
        <3>2. identity' = [identity EXCEPT !.failed = n, !.lock = k]
            BY <1>12 DEF RegisterFailedAttempt
        <3> HIDE DEF k, n
        <3>3. QED BY <1>1, <3>1, <3>2 DEF RowsOK, Identity
    <2>3. RowsOK' /\ TokensOwned'
        BY <1>1, <2>2, <1>12 DEF RowsOK, TokensOwned, RegisterFailedAttempt
    <2>4. QED BY <2>1, <2>3, TypedNext
<1>13. CASE ClearFailedAttempts(r)
    <2> DEFINE l == AfterClear(req[r].kind)
    <2>1. l \in Label \ {"idle"} BY DEF AfterClear, Label
    <2>2. ControlOf([req[r] EXCEPT !.pc = l])
        BY <1>2, <1>13 DEF ClearFailedAttempts, At, AfterClear, Handler, Kind, ControlOf, MfaLabel
    <2>3. Goto(r, l) BY <1>13 DEF ClearFailedAttempts
    <2> HIDE DEF l
    <2>4. req' \in [Requests -> Handler] /\ \A q \in Requests : ControlOf(req'[q])
        BY <1>1, <2>1, <2>2, <2>3, GotoControl
    <2>5. RowsOK' /\ TokensOwned'
        BY <1>1, <1>13 DEF RowsOK, TokensOwned, ClearFailedAttempts, Identity
    <2>6. QED BY <2>4, <2>5, TypedNext
<1>14. CASE CreateIdentityToken(r)
    <2>1. req' \in [Requests -> Handler] /\ \A q \in Requests : ControlOf(req'[q])
        BY <1>1, <1>14, FinishControl DEF CreateIdentityToken
    <2>2. RowsOK' /\ TokensOwned'
        BY <1>1, <1>2, <1>14 DEF RowsOK, TokensOwned, CreateIdentityToken
    <2>3. QED BY <2>1, <2>2, TypedNext
<1>15. QED BY <1>3, <1>4, <1>5, <1>6, <1>7, <1>8, <1>9, <1>10, <1>11, <1>12, <1>13, <1>14 DEF FirstFactor

\* finalize_login and the session keep Typed.
LEMMA TailTyped ==
    ASSUME Typed, NEW r \in Requests, Tail(r)
    PROVE  Typed'
<1>1. /\ RowsOK /\ TokensOwned
      /\ req \in [Requests -> Handler] /\ \A q \in Requests : ControlOf(req[q])
    BY TypedParts
<1>2. req[r] \in Handler /\ ControlOf(req[r])
    BY <1>1
<1>3. CASE SweepChangeTokens(r)
    <2>1. ControlOf([req[r] EXCEPT !.pc = "insertChange"])
        BY <1>2, <1>3 DEF SweepChangeTokens, At, Handler, ControlOf, MfaLabel
    <2>2. req' \in [Requests -> Handler] /\ \A q \in Requests : ControlOf(req'[q])
        BY <1>1, <2>1, <1>3, GotoControl DEF SweepChangeTokens, Label
    <2>3. RowsOK' /\ TokensOwned'
        BY <1>1, <1>2, <1>3 DEF RowsOK, TokensOwned, SweepChangeTokens, ChangeToken, RowState
    <2>4. QED BY <2>2, <2>3, TypedNext
<1>4. CASE InsertChangeToken(r)
    <2>1. req' \in [Requests -> Handler] /\ \A q \in Requests : ControlOf(req'[q])
        BY <1>1, <1>4, FinishControl DEF InsertChangeToken
    <2>2. RowsOK' /\ TokensOwned'
        BY <1>1, <1>2, <1>4 DEF RowsOK, TokensOwned, InsertChangeToken, ChangeToken, RowState, Handler, ControlOf, At
    <2>3. QED BY <2>1, <2>2, TypedNext
<1>5. CASE SweepChallenges(r)
    <2>1. ControlOf([req[r] EXCEPT !.pc = "insertChallenge"])
        BY <1>2, <1>5 DEF SweepChallenges, At, Handler, ControlOf, MfaLabel
    <2>2. req' \in [Requests -> Handler] /\ \A q \in Requests : ControlOf(req'[q])
        BY <1>1, <2>1, <1>5, GotoControl DEF SweepChallenges, Label
    <2>3. RowsOK' /\ TokensOwned'
        BY <1>1, <1>2, <1>5 DEF RowsOK, TokensOwned, SweepChallenges, Challenge, RowState
    <2>4. QED BY <2>2, <2>3, TypedNext
<1>6. CASE InsertChallenge(r)
    <2>1. req' \in [Requests -> Handler] /\ \A q \in Requests : ControlOf(req'[q])
        BY <1>1, <1>6, FinishControl DEF InsertChallenge
    <2>2. RowsOK' /\ TokensOwned'
        BY <1>1, <1>2, <1>6 DEF RowsOK, TokensOwned, InsertChallenge, Challenge, RowState, Handler, ControlOf, At
    <2>3. QED BY <2>1, <2>2, TypedNext
<1>7. CASE DoCreateSession(r)
    <2>1. req' \in [Requests -> Handler] /\ \A q \in Requests : ControlOf(req'[q])
        BY <1>1, <1>7, FinishControl DEF DoCreateSession
    <2>2. RowsOK' /\ TokensOwned'
        BY <1>1, <1>2, <1>7 DEF RowsOK, TokensOwned, DoCreateSession, Session, Handler
    <2>3. QED BY <2>1, <2>2, TypedNext
<1>8. QED BY <1>3, <1>4, <1>5, <1>6, <1>7 DEF Tail

\* complete_mfa_login keeps Typed.
LEMMA SecondFactorTyped ==
    ASSUME Typed, NEW r \in Requests, SecondFactor(r)
    PROVE  Typed'
<1>1. /\ RowsOK /\ TokensOwned
      /\ req \in [Requests -> Handler] /\ \A q \in Requests : ControlOf(req[q])
    BY TypedParts
<1>2. req[r] \in Handler /\ ControlOf(req[r])
    BY <1>1
<1>3. ASSUME NEW c \in Challenges, GetChallenge(r, c) PROVE Typed'
    <2>1. challenge[c].user \in Users BY <1>1, <1>3 DEF TokensOwned, GetChallenge
    <2> DEFINE l == IF challenge[c].attempts >= MaxMfaAttempts THEN "exhausted" ELSE "mfaUser"
    <2>2. l \in {"exhausted", "mfaUser"} /\ l \in Label /\ l # "idle" /\ l # "token" BY DEF Label
    <2>3. Begin(r, "mfa", "mfa", challenge[c].user, c, l, NewAccount, NewIdentity)
        BY <1>3 DEF GetChallenge
    <2> HIDE DEF l
    <2>4. req' \in [Requests -> Handler] /\ \A q \in Requests : ControlOf(req'[q])
        BY <1>1, <2>1, <2>2, <2>3, BeginControl, DefaultRows DEF RowsOK
    <2>5. QED BY <2>4, <1>3, UnchangedRows, TypedNext DEF GetChallenge
<1>4. CASE DropExhausted(r)
    <2>2. req' \in [Requests -> Handler] /\ \A q \in Requests : ControlOf(req'[q])
        BY <1>1, <1>4, FinishControl DEF DropExhausted
    <2>3. req[r].tok \in Challenges BY <1>2, <1>4 DEF DropExhausted, At, ControlOf
    <2>4. challenge' \in [Challenges -> Challenge]
        BY <1>1, <2>3, <1>4 DEF RowsOK, DropExhausted, Challenge, RowState, Deleted
    <2>5. TokensOwned'
        BY <1>1, <2>3, <1>4 DEF RowsOK, TokensOwned, DropExhausted, Challenge, RowState, Deleted
    <2>6. RowsOK' BY <1>1, <2>4, <1>4 DEF RowsOK, DropExhausted
    <2>7. QED BY <2>2, <2>5, <2>6, TypedNext
<1>5. CASE LoadMfaUser(r)
    <2> DEFINE h == [req[r] EXCEPT !.pc = "mfaVerify", !.acct = account[req[r].user]]
    <2>1. h \in Handler BY <1>1, <1>2, <1>5 DEF RowsOK, Handler, Label, ControlOf, LoadMfaUser, At
    <2>2. ControlOf(h) BY <1>2, <1>5 DEF ControlOf, MfaLabel, Handler, At, LoadMfaUser, ControlOf, LoadMfaUser, At
    <2>3. Move(r, h) BY <1>5 DEF LoadMfaUser
    <2> HIDE DEF h
    <2>4. req' \in [Requests -> Handler] /\ \A q \in Requests : ControlOf(req'[q])
        BY <1>1, <2>1, <2>2, <2>3, MoveControl
    <2>5. QED BY <2>4, <1>5, UnchangedRows, TypedNext DEF LoadMfaUser
<1>6. CASE VerifyCode(r)
    <2> DEFINE g == [req[r] EXCEPT !.pc = "redeem", !.acct = NewAccount]
               h == [req[r] EXCEPT !.pc = "count", !.id = Rejected(identity), !.acct = NewAccount]
    <2>1. g \in Handler /\ h \in Handler
        BY <1>1, <1>2, DefaultRows, CopiedIdentity DEF RowsOK, Handler, Label
    <2>2. ControlOf(g) /\ ControlOf(h)
        BY <1>2, <1>6 DEF VerifyCode, At, Handler, ControlOf, MfaLabel
    <2>3. Move(r, g) \/ Move(r, h) BY <1>6 DEF VerifyCode
    <2> HIDE DEF g, h
    <2>4. req' \in [Requests -> Handler] /\ \A q \in Requests : ControlOf(req'[q])
        BY <1>1, <2>1, <2>2, <2>3, MoveControl
    <2>5. QED BY <2>4, <1>6, UnchangedRows, TypedNext DEF VerifyCode
<1>7. CASE CountAttempt(r)
    <2>1. ControlOf([req[r] EXCEPT !.pc = "fail"])
        BY <1>2, <1>7 DEF CountAttempt, At, Handler, ControlOf, MfaLabel
    <2>2. req' \in [Requests -> Handler] /\ \A q \in Requests : ControlOf(req'[q])
        BY <1>1, <2>1, <1>7, GotoControl DEF CountAttempt, Label
    <2>3. req[r].tok \in Challenges BY <1>2, <1>7 DEF CountAttempt, At, ControlOf
    <2>4. challenge' \in [Challenges -> Challenge]
        BY <1>1, <2>3, <1>7 DEF RowsOK, CountAttempt, Challenge, RowState, Present
    <2>5. TokensOwned'
        BY <1>1, <2>3, <1>7 DEF RowsOK, TokensOwned, CountAttempt, Challenge, RowState, Present
    <2>6. RowsOK' BY <1>1, <2>4, <1>7 DEF RowsOK, CountAttempt
    <2>7. QED BY <2>2, <2>5, <2>6, TypedNext
<1>8. CASE RedeemChallenge(r)
    <2>1. ControlOf([req[r] EXCEPT !.pc = "clear"])
        BY <1>2, <1>8 DEF RedeemChallenge, At, Handler, ControlOf, MfaLabel
    <2>2. req' \in [Requests -> Handler] /\ \A q \in Requests : ControlOf(req'[q])
        BY <1>1, <2>1, <1>8, GotoControl, FinishControl DEF RedeemChallenge, Label
    <2>3. req[r].tok \in Challenges BY <1>2, <1>8 DEF RedeemChallenge, At, ControlOf
    <2>4. challenge' \in [Challenges -> Challenge]
        BY <1>1, <2>3, <1>8 DEF RowsOK, RedeemChallenge, Challenge, RowState, Deleted
    <2>5. TokensOwned'
        BY <1>1, <2>3, <1>8 DEF RowsOK, TokensOwned, RedeemChallenge, Challenge, RowState, Deleted
    <2>6. RowsOK' BY <1>1, <2>4, <1>8 DEF RowsOK, RedeemChallenge
    <2>7. QED BY <2>2, <2>5, <2>6, TypedNext
<1>9. QED BY <1>3, <1>4, <1>5, <1>6, <1>7, <1>8 DEF SecondFactor

\* force_change_password keeps Typed.
LEMMA ForceChangeTyped ==
    ASSUME Typed, NEW r \in Requests, ForceChange(r)
    PROVE  Typed'
<1>1. /\ RowsOK /\ TokensOwned
      /\ req \in [Requests -> Handler] /\ \A q \in Requests : ControlOf(req[q])
    BY TypedParts
<1>2. req[r] \in Handler /\ ControlOf(req[r])
    BY <1>1
<1>3. ASSUME NEW t \in ChangeTokens, GetChangeToken(r, t) PROVE Typed'
    <2>1. changeToken[t].user \in Users BY <1>1, <1>3 DEF TokensOwned, GetChangeToken
    <2>2. req' \in [Requests -> Handler] /\ \A q \in Requests : ControlOf(req'[q])
        BY <1>1, <2>1, <1>3, BeginControl, DefaultRows DEF RowsOK, Label, GetChangeToken
    <2>3. QED BY <2>2, <1>3, UnchangedRows, TypedNext DEF GetChangeToken
<1>4. CASE LoadForceUser(r)
    <2> DEFINE h == [req[r] EXCEPT !.pc = "setPassword", !.acct = NewAccount]
    <2>1. h \in Handler BY <1>1, <1>2, <1>4, DefaultRows DEF RowsOK, Handler, Label
    <2>2. ControlOf(h) BY <1>2, <1>4, DefaultRows DEF ControlOf, MfaLabel, Handler, At, LoadForceUser
    <2>3. Move(r, h) BY <1>4 DEF LoadForceUser
    <2> HIDE DEF h
    <2>4. req' \in [Requests -> Handler] /\ \A q \in Requests : ControlOf(req'[q])
        BY <1>1, <2>1, <2>2, <2>3, MoveControl
    <2>5. QED BY <2>4, <1>4, UnchangedRows, TypedNext DEF LoadForceUser
<1>5. CASE UpdatePassword(r)
    <2>1. ControlOf([req[r] EXCEPT !.pc = "dropChange"])
        BY <1>2, <1>5 DEF UpdatePassword, At, Handler, ControlOf, MfaLabel
    <2>2. req' \in [Requests -> Handler] /\ \A q \in Requests : ControlOf(req'[q])
        BY <1>1, <2>1, <1>5, GotoControl DEF UpdatePassword, Label
    <2>3. RowsOK' /\ TokensOwned'
        BY <1>1, <1>2, <1>5 DEF RowsOK, TokensOwned, UpdatePassword, Identity
    <2>4. QED BY <2>2, <2>3, TypedNext
<1>6. CASE DropChangeToken(r)
    <2>1. ControlOf([req[r] EXCEPT !.pc = "reload"])
        BY <1>2, <1>6 DEF DropChangeToken, At, Handler, ControlOf, MfaLabel
    <2>2. req' \in [Requests -> Handler] /\ \A q \in Requests : ControlOf(req'[q])
        BY <1>1, <2>1, <1>6, GotoControl DEF DropChangeToken, Label
    <2>3. req[r].tok \in ChangeTokens BY <1>2, <1>6 DEF DropChangeToken, At, ControlOf
    <2>4. changeToken' \in [ChangeTokens -> ChangeToken]
        BY <1>1, <2>3, <1>6 DEF RowsOK, DropChangeToken, ChangeToken, RowState
    <2>5. TokensOwned'
        BY <1>1, <2>3, <1>6 DEF RowsOK, TokensOwned, DropChangeToken, ChangeToken, RowState
    <2>6. RowsOK' BY <1>1, <2>4, <1>6 DEF RowsOK, DropChangeToken
    <2>7. QED BY <2>2, <2>5, <2>6, TypedNext
<1>7. CASE ReloadIdentity(r)
    <2> DEFINE h == [req[r] EXCEPT !.pc = "finalize", !.id = Accepted(identity)]
    <2>1. h \in Handler BY <1>1, <1>2, <1>7, CopiedIdentity DEF RowsOK, Handler, Label
    <2>2. ControlOf(h) BY <1>2, <1>7, CopiedIdentity DEF ControlOf, MfaLabel, Handler, At, ReloadIdentity
    <2>3. Move(r, h) BY <1>7 DEF ReloadIdentity
    <2> HIDE DEF h
    <2>4. req' \in [Requests -> Handler] /\ \A q \in Requests : ControlOf(req'[q])
        BY <1>1, <2>1, <2>2, <2>3, MoveControl
    <2>5. QED BY <2>4, <1>7, UnchangedRows, TypedNext DEF ReloadIdentity
<1>8. QED BY <1>3, <1>4, <1>5, <1>6, <1>7 DEF ForceChange

\* Administrators, the owner and the clock keep Typed.
LEMMA EnvironmentTyped ==
    ASSUME Typed, Environment
    PROVE  Typed'
<1>1. /\ RowsOK /\ TokensOwned
      /\ req \in [Requests -> Handler] /\ \A q \in Requests : ControlOf(req[q])
    BY TypedParts
<1>2. ASSUME NEW u \in Users, ArchiveUser(u) PROVE Typed'
    <2>1. RowsOK' /\ TokensOwned'
        BY <1>1, <1>2 DEF RowsOK, TokensOwned, ArchiveUser, Account
    <2>2. QED BY <1>1, <2>1, <1>2, TypedNext DEF ArchiveUser
<1>3. ASSUME NEW u \in Users, NEW w \in {"open", "ended"}, SetAccessValidUntil(u, w) PROVE Typed'
    <2>1. RowsOK' /\ TokensOwned'
        BY <1>1, <1>3 DEF RowsOK, TokensOwned, SetAccessValidUntil, Account
    <2>2. QED BY <1>1, <2>1, <1>3, TypedNext DEF SetAccessValidUntil
<1>4. CASE DisableIdentity
    <2>1. RowsOK' /\ TokensOwned'
        BY <1>1, <1>4 DEF RowsOK, TokensOwned, DisableIdentity, Identity
    <2>2. QED BY <1>1, <2>1, <1>4, TypedNext DEF DisableIdentity
<1>5. ASSUME NEW v \in BOOLEAN, SetForcePasswordChange(v) PROVE Typed'
    <2>1. RowsOK' /\ TokensOwned'
        BY <1>1, <1>5 DEF RowsOK, TokensOwned, SetForcePasswordChange, Identity
    <2>2. QED BY <1>1, <2>1, <1>5, TypedNext DEF SetForcePasswordChange
<1>6. CASE EnableMfa
    <2>1. RowsOK' /\ TokensOwned'
        BY <1>1, <1>6 DEF RowsOK, TokensOwned, EnableMfa, Identity
    <2>2. QED BY <1>1, <2>1, <1>6, TypedNext DEF EnableMfa
<1>7. CASE DisableMfa
    <2>1. RowsOK' /\ TokensOwned'
        BY <1>1, <1>7 DEF RowsOK, TokensOwned, DisableMfa, Identity
    <2> DEFINE g(q) == IF At(q, "idle") THEN req[q] ELSE [req[q] EXCEPT !.sawOff = TRUE]
    <2>2. ASSUME NEW q \in Requests PROVE g(q) \in Handler /\ ControlOf(g(q))
        <3>1. req[q] \in Handler /\ ControlOf(req[q]) BY <1>1
        <3>2. g(q) \in Handler BY <3>1 DEF Handler
        <3>3. /\ g(q).pc = req[q].pc /\ g(q).kind = req[q].kind /\ g(q).user = req[q].user
              /\ g(q).tok = req[q].tok /\ g(q).late = req[q].late
            BY <3>1 DEF Handler
        <3> HIDE DEF g
        <3>4. QED BY <3>1, <3>2, <3>3 DEF ControlOf
    <2>3. req' = [q \in Requests |-> g(q)] BY <1>7 DEF DisableMfa
    <2> HIDE DEF g
    <2>4. req' \in [Requests -> Handler] BY <2>2, <2>3
    <2>5. \A q \in Requests : ControlOf(req'[q]) BY <2>2, <2>3
    <2>6. QED BY <2>1, <2>4, <2>5, TypedNext
<1>8. CASE LockLapses
    <2>1. RowsOK' /\ TokensOwned'
        BY <1>1, <1>8 DEF RowsOK, TokensOwned, LockLapses, Identity
    <2> DEFINE g(q) == [req[q] EXCEPT !.id.lock = IF req[q].id.lock = "held" THEN "lapsed" ELSE req[q].id.lock]
    <2>2. ASSUME NEW q \in Requests PROVE g(q) \in Handler /\ ControlOf(g(q))
        <3>1. req[q] \in Handler /\ ControlOf(req[q]) BY <1>1
        <3>2. g(q) \in Handler BY <3>1 DEF Handler, Identity
        <3>3. /\ g(q).pc = req[q].pc /\ g(q).kind = req[q].kind /\ g(q).user = req[q].user
              /\ g(q).tok = req[q].tok /\ g(q).late = req[q].late
            BY <3>1 DEF Handler
        <3> HIDE DEF g
        <3>4. QED BY <3>1, <3>2, <3>3 DEF ControlOf
    <2>3. req' = [q \in Requests |-> g(q)] BY <1>8 DEF LockLapses
    <2> HIDE DEF g
    <2>4. req' \in [Requests -> Handler] BY <2>2, <2>3
    <2>5. \A q \in Requests : ControlOf(req'[q]) BY <2>2, <2>3
    <2>6. QED BY <2>1, <2>4, <2>5, TypedNext
<1>9. ASSUME NEW c \in Challenges, ChallengeLapses(c) PROVE Typed'
    <2>1. RowsOK' /\ TokensOwned'
        BY <1>1, <1>9 DEF RowsOK, TokensOwned, ChallengeLapses, Challenge, RowState
    <2>2. QED BY <1>1, <2>1, <1>9, TypedNext DEF ChallengeLapses
<1>10. ASSUME NEW t \in ChangeTokens, ChangeTokenLapses(t) PROVE Typed'
    <2>1. RowsOK' /\ TokensOwned'
        BY <1>1, <1>10 DEF RowsOK, TokensOwned, ChangeTokenLapses, ChangeToken, RowState
    <2>2. QED BY <1>1, <2>1, <1>10, TypedNext DEF ChangeTokenLapses
<1>11. CASE IdentityTokensLapse
    <2>1. RowsOK' /\ TokensOwned'
        BY <1>1, <1>11 DEF RowsOK, TokensOwned, IdentityTokensLapse
    <2>2. QED BY <1>1, <2>1, <1>11, TypedNext DEF IdentityTokensLapse
<1>12. QED BY <1>2, <1>3, <1>4, <1>5, <1>6, <1>7, <1>8, <1>9, <1>10, <1>11 DEF Environment

\* Typed is inductive.
LEMMA TypedStep ==
    ASSUME Typed, [Next]_vars
    PROVE  Typed'
<1>1. ASSUME NEW r \in Requests, Abandon(r) PROVE Typed'
    BY <1>1, TypedParts, TypedNext, UnchangedRows, FinishControl DEF Abandon
<1>2. CASE UNCHANGED vars
    BY <1>2 DEF vars, Typed, TypeOK, Control
<1>3. QED BY <1>1, <1>2, FirstFactorTyped, TailTyped, SecondFactorTyped, ForceChangeTyped,
             EnvironmentTyped DEF Next

\* Typed holds initially.
LEMMA TypedInit == Init => Typed
<1> SUFFICES ASSUME Init PROVE Typed OBVIOUS
<1>1. PICK m \in BOOLEAN : identity = [NewIdentity EXCEPT !.mfa = m] BY DEF Init
<1>2. identity \in Identity BY <1>1 DEF NewIdentity, Identity
<1>3. account \in [Users -> Account] BY DefaultRows DEF Init
<1>4. challenge \in [Challenges -> Challenge] BY DEF Init, Challenge, RowState
<1>5. changeToken \in [ChangeTokens -> ChangeToken] BY DEF Init, ChangeToken, RowState
<1>6. lastSession \in Session BY DEF Init, NoSession, Session, Kind
<1>7. RowsOK /\ TokensOwned
    BY <1>2, <1>3, <1>4, <1>5, <1>6 DEF Init, RowsOK, TokensOwned
<1>8. req \in [Requests -> Handler] /\ \A q \in Requests : ControlOf(req[q])
    BY IdleHandler DEF Init
<1>9. QED BY <1>7, <1>8, TypedParts

(***************************************************************************)
(* In every behaviour of the login pipeline every row, and every copy of a *)
(* row that a handler holds across its awaits, is well formed (TypeOK).    *)
(***************************************************************************)
THEOREM TypeCorrect == Spec => []TypeOK
<1>1. Typed => TypeOK BY DEF Typed
<1>2. QED BY <1>1, TypedInit, TypedStep, PTL DEF Spec

-----------------------------------------------------------------------------
(***************************************************************************)
(* What each kind of step leaves in the record of the handler that takes   *)
(* it, field by field.                                                     *)
(***************************************************************************)
\* The value written for one handler, and only for it.
LEMMA MoveValue ==
    ASSUME req \in [Requests -> Handler], NEW r \in Requests, NEW h, Move(r, h)
    PROVE  req'[r] = h /\ \A q \in Requests : q # r => req'[q] = req[q]
BY DEF Move

Same(r) ==
    /\ req'[r].kind = req[r].kind /\ req'[r].user = req[r].user /\ req'[r].tok = req[r].tok
    /\ req'[r].late = req[r].late /\ req'[r].sawOff = req[r].sawOff

\* The record a handler begins with.
LEMMA BeginEffect ==
    ASSUME Typed, NEW r \in Requests, NEW route, NEW kind, NEW u, NEW t, NEW l, NEW acct, NEW id,
           Begin(r, route, kind, u, t, l, acct, id)
    PROVE  /\ req'[r].pc = l /\ req'[r].kind = kind /\ req'[r].user = u /\ req'[r].tok = t
           /\ req'[r].acct = acct /\ req'[r].id = id
           /\ req'[r].late = Closed(u) /\ req'[r].sawOff = ~identity.mfa
BY MoveValue, TypedParts DEF Begin

\* The record a handler ends with.
LEMMA FinishEffect ==
    ASSUME Typed, NEW r \in Requests, Finish(r)
    PROVE  /\ req'[r].pc = "idle" /\ req'[r].kind = "none" /\ req'[r].tok = "none"
           /\ ~req'[r].late /\ ~req'[r].sawOff /\ req'[r].id = NewIdentity
BY MoveValue, TypedParts DEF Finish, NoHandler

\* A step to another label changes nothing else of the record.
LEMMA GotoEffect ==
    ASSUME Typed, NEW r \in Requests, NEW l \in Label, Goto(r, l)
    PROVE  Same(r) /\ req'[r].pc = l /\ req'[r].acct = req[r].acct /\ req'[r].id = req[r].id
<1>1. req[r] \in Handler BY TypedParts
<1>2. req'[r] = [req[r] EXCEPT !.pc = l] BY MoveValue, TypedParts DEF Goto
<1>3. QED BY <1>1, <1>2, GotoHandler DEF Same

\* The record LoginIdentity leaves.
LEMMA LoginIdentityEffect ==
    ASSUME Typed, NEW r \in Requests, LoginIdentity(r)
    PROVE  /\ req'[r].kind = "identity" /\ ~req'[r].late
           /\ \/ req'[r].pc = "clear" /\ req'[r].id = NewIdentity
              \/ req'[r].pc = "fail" /\ req'[r].id = Rejected(identity)
<1>1. req \in [Requests -> Handler] /\ req[r] \in Handler BY TypedParts
<1> DEFINE g == [NoHandler EXCEPT !.pc = "clear", !.kind = "identity"]
           h == [NoHandler EXCEPT !.pc = "fail", !.kind = "identity", !.id = Rejected(identity)]
<1>2. g.kind = "identity" /\ ~g.late /\ g.pc = "clear" /\ g.id = NewIdentity
    BY DEF NoHandler
<1>3. h.kind = "identity" /\ ~h.late /\ h.pc = "fail" /\ h.id = Rejected(identity)
    BY DEF NoHandler
<1>4. Move(r, g) \/ Move(r, h) BY DEF LoginIdentity
<1> HIDE DEF g, h
<1>5. QED BY <1>1, <1>2, <1>3, <1>4, MoveValue DEF Same

\* The record VerifyPassword leaves.
LEMMA VerifyPasswordEffect ==
    ASSUME Typed, NEW r \in Requests, VerifyPassword(r)
    PROVE  /\ Same(r)
           /\ \/ req'[r].pc = "clear" /\ req'[r].id = Accepted(identity)
              \/ req'[r].pc = "fail" /\ req'[r].id = Rejected(identity)
<1>1. req \in [Requests -> Handler] /\ req[r] \in Handler BY TypedParts
<1> DEFINE g == [req[r] EXCEPT !.pc = "clear", !.id = Accepted(identity), !.acct = NewAccount]
           h == [req[r] EXCEPT !.pc = "fail", !.id = Rejected(identity), !.acct = NewAccount]
<1>2. /\ g.kind = req[r].kind /\ g.user = req[r].user /\ g.tok = req[r].tok
      /\ g.late = req[r].late /\ g.sawOff = req[r].sawOff
      /\ g.pc = "clear" /\ g.id = Accepted(identity)
    BY <1>1 DEF Handler
<1>3. /\ h.kind = req[r].kind /\ h.user = req[r].user /\ h.tok = req[r].tok
      /\ h.late = req[r].late /\ h.sawOff = req[r].sawOff
      /\ h.pc = "fail" /\ h.id = Rejected(identity)
    BY <1>1 DEF Handler
<1>4. Move(r, g) \/ Move(r, h) BY DEF VerifyPassword
<1> HIDE DEF g, h
<1>5. QED BY <1>1, <1>2, <1>3, <1>4, MoveValue DEF Same

\* The record LoadVerified leaves.
LEMMA LoadVerifiedEffect ==
    ASSUME Typed, NEW r \in Requests, LoadVerified(r)
    PROVE  /\ Same(r)
           /\ req'[r].pc = "finalize" /\ req'[r].id = Accepted(identity)
<1>1. req \in [Requests -> Handler] /\ req[r] \in Handler BY TypedParts
<1> DEFINE g == [req[r] EXCEPT !.pc = "finalize", !.id = Accepted(identity), !.acct = NewAccount]
<1>2. /\ g.kind = req[r].kind /\ g.user = req[r].user /\ g.tok = req[r].tok
      /\ g.late = req[r].late /\ g.sawOff = req[r].sawOff
      /\ g.pc = "finalize" /\ g.id = Accepted(identity)
    BY <1>1 DEF Handler
<1>3. Move(r, g) BY DEF LoadVerified
<1> HIDE DEF g
<1>4. QED BY <1>1, <1>2, <1>3, MoveValue DEF Same

\* The record LoadMembership leaves.
LEMMA LoadMembershipEffect ==
    ASSUME Typed, NEW r \in Requests, LoadMembership(r)
    PROVE  /\ Same(r)
           /\ req'[r].pc = "finalize" /\ req'[r].id = Accepted(req[r].id)
<1>1. req \in [Requests -> Handler] /\ req[r] \in Handler BY TypedParts
<1> DEFINE g == [req[r] EXCEPT !.pc = "finalize", !.id = Accepted(req[r].id)]
<1>2. /\ g.kind = req[r].kind /\ g.user = req[r].user /\ g.tok = req[r].tok
      /\ g.late = req[r].late /\ g.sawOff = req[r].sawOff
      /\ g.pc = "finalize" /\ g.id = Accepted(req[r].id)
    BY <1>1 DEF Handler
<1>3. Move(r, g) BY DEF LoadMembership
<1> HIDE DEF g
<1>4. QED BY <1>1, <1>2, <1>3, MoveValue DEF Same

\* The record LoadMfaUser leaves.
LEMMA LoadMfaUserEffect ==
    ASSUME Typed, NEW r \in Requests, LoadMfaUser(r)
    PROVE  /\ Same(r)
           /\ req'[r].pc = "mfaVerify" /\ req'[r].id = req[r].id /\ req'[r].acct = account[req[r].user]
<1>1. req \in [Requests -> Handler] /\ req[r] \in Handler BY TypedParts
<1> DEFINE g == [req[r] EXCEPT !.pc = "mfaVerify", !.acct = account[req[r].user]]
<1>2. /\ g.kind = req[r].kind /\ g.user = req[r].user /\ g.tok = req[r].tok
      /\ g.late = req[r].late /\ g.sawOff = req[r].sawOff
      /\ g.pc = "mfaVerify" /\ g.id = req[r].id /\ g.acct = account[req[r].user]
    BY <1>1 DEF Handler
<1>3. Move(r, g) BY DEF LoadMfaUser
<1> HIDE DEF g
<1>4. QED BY <1>1, <1>2, <1>3, MoveValue DEF Same

\* The record VerifyCode leaves.
LEMMA VerifyCodeEffect ==
    ASSUME Typed, NEW r \in Requests, VerifyCode(r)
    PROVE  /\ Same(r)
           /\ \/ req'[r].pc = "redeem" /\ req'[r].id = req[r].id
              \/ req'[r].pc = "count" /\ req'[r].id = Rejected(identity)
<1>1. req \in [Requests -> Handler] /\ req[r] \in Handler BY TypedParts
<1> DEFINE g == [req[r] EXCEPT !.pc = "redeem", !.acct = NewAccount]
           h == [req[r] EXCEPT !.pc = "count", !.id = Rejected(identity), !.acct = NewAccount]
<1>2. /\ g.kind = req[r].kind /\ g.user = req[r].user /\ g.tok = req[r].tok
      /\ g.late = req[r].late /\ g.sawOff = req[r].sawOff
      /\ g.pc = "redeem" /\ g.id = req[r].id
    BY <1>1 DEF Handler
<1>3. /\ h.kind = req[r].kind /\ h.user = req[r].user /\ h.tok = req[r].tok
      /\ h.late = req[r].late /\ h.sawOff = req[r].sawOff
      /\ h.pc = "count" /\ h.id = Rejected(identity)
    BY <1>1 DEF Handler
<1>4. Move(r, g) \/ Move(r, h) BY DEF VerifyCode
<1> HIDE DEF g, h
<1>5. QED BY <1>1, <1>2, <1>3, <1>4, MoveValue DEF Same

\* The record LoadForceUser leaves.
LEMMA LoadForceUserEffect ==
    ASSUME Typed, NEW r \in Requests, LoadForceUser(r)
    PROVE  /\ Same(r)
           /\ req'[r].pc = "setPassword" /\ req'[r].id = req[r].id
<1>1. req \in [Requests -> Handler] /\ req[r] \in Handler BY TypedParts
<1> DEFINE g == [req[r] EXCEPT !.pc = "setPassword", !.acct = NewAccount]
<1>2. /\ g.kind = req[r].kind /\ g.user = req[r].user /\ g.tok = req[r].tok
      /\ g.late = req[r].late /\ g.sawOff = req[r].sawOff
      /\ g.pc = "setPassword" /\ g.id = req[r].id
    BY <1>1 DEF Handler
<1>3. Move(r, g) BY DEF LoadForceUser
<1> HIDE DEF g
<1>4. QED BY <1>1, <1>2, <1>3, MoveValue DEF Same

\* The record ReloadIdentity leaves.
LEMMA ReloadIdentityEffect ==
    ASSUME Typed, NEW r \in Requests, ReloadIdentity(r)
    PROVE  /\ Same(r)
           /\ req'[r].pc = "finalize" /\ req'[r].id = Accepted(identity)
<1>1. req \in [Requests -> Handler] /\ req[r] \in Handler BY TypedParts
<1> DEFINE g == [req[r] EXCEPT !.pc = "finalize", !.id = Accepted(identity)]
<1>2. /\ g.kind = req[r].kind /\ g.user = req[r].user /\ g.tok = req[r].tok
      /\ g.late = req[r].late /\ g.sawOff = req[r].sawOff
      /\ g.pc = "finalize" /\ g.id = Accepted(identity)
    BY <1>1 DEF Handler
<1>3. Move(r, g) BY DEF ReloadIdentity
<1> HIDE DEF g
<1>4. QED BY <1>1, <1>2, <1>3, MoveValue DEF Same

HandlerStep(r) == FirstFactor(r) \/ Tail(r) \/ SecondFactor(r) \/ ForceChange(r) \/ Abandon(r)

\* A step of handler r leaves the other handlers where they are.
LEMMA OneHandlerMoves ==
    ASSUME Typed, NEW r \in Requests, HandlerStep(r)
    PROVE  \A q \in Requests : q # r => req'[q] = req[q]
<1>1. FirstFactor(r) => \E h : Move(r, h)
    BY DEF FirstFactor, LoginPassword, LoginWithVerifiedOtp, SelectTenantWithToken, SwitchTenant,
           LoginOauth, LoginIdentity, VerifyPassword, LoadVerified, LoadMembership,
           RegisterFailedAttempt, ClearFailedAttempts, CreateIdentityToken, Begin, Goto, Finish
<1>2. Tail(r) => \E h : Move(r, h)
    BY DEF Tail, SweepChangeTokens, InsertChangeToken, SweepChallenges, InsertChallenge,
           DoCreateSession, Goto, Finish
<1>3. SecondFactor(r) => \E h : Move(r, h)
    BY DEF SecondFactor, GetChallenge, DropExhausted, LoadMfaUser, VerifyCode, CountAttempt,
           RedeemChallenge, Begin, Goto, Finish
<1>4. ForceChange(r) => \E h : Move(r, h)
    BY DEF ForceChange, GetChangeToken, LoadForceUser, UpdatePassword, DropChangeToken,
           ReloadIdentity, Begin, Goto, Finish
<1>5. Abandon(r) => \E h : Move(r, h)
    BY DEF Abandon, Finish
<1>6. PICK h : Move(r, h) BY <1>1, <1>2, <1>3, <1>4, <1>5 DEF HandlerStep
<1>7. QED BY <1>6, MoveValue DEF Typed, TypeOK

\* The environment moves no handler and rewrites no token.
LEMMA EnvironmentLeavesHandlers ==
    ASSUME Typed, Environment, NEW q \in Requests
    PROVE  /\ req'[q].kind = req[q].kind /\ req'[q].tok = req[q].tok /\ req'[q].pc = req[q].pc
           /\ req'[q].id.failed = req[q].id.failed
<1>1. req[q] \in Handler BY TypedParts
<1>2. CASE req' = req BY <1>2
<1>3. CASE DisableMfa BY <1>1, <1>3 DEF DisableMfa, Handler
<1>4. CASE LockLapses BY <1>1, <1>4 DEF LockLapses, Handler, Identity
<1>5. QED BY <1>2, <1>3, <1>4 DEF Environment, ArchiveUser, SetAccessValidUntil, DisableIdentity,
       SetForcePasswordChange, EnableMfa, ChallengeLapses, ChangeTokenLapses, IdentityTokensLapse

-----------------------------------------------------------------------------
(***************************************************************************)
(* Redemption: between the DELETE that takes a challenge and the session it *)
(* buys, exactly one handler holds the challenge, and its row is gone.     *)
(***************************************************************************)
\* Handler r has deleted challenge c and has not minted its session yet.
Holds(r, c) == req[r].kind = "mfa" /\ req[r].tok = c /\ req[r].pc \in {"clear", "mint"}

Redemption ==
    \A c \in Challenges :
        /\ minted[c] <= 1
        /\ minted[c] = 1 => challenge[c].row = "gone"
        /\ \A r \in Requests : req[r].kind = "mfa" /\ req[r].tok = c => challenge[c].row # "unused"
        /\ \A r \in Requests : Holds(r, c) => challenge[c].row = "gone" /\ minted[c] = 0
        /\ \A q, r \in Requests : Holds(q, c) /\ Holds(r, c) => q = r

\* What a step may do to the challenges: a deleted row stays deleted and a
\* token is never fresh again.
RowsAdvance ==
    \A c \in Challenges : /\ challenge[c].row = "gone" => challenge'[c].row = "gone"
                          /\ challenge[c].row # "unused" => challenge'[c].row # "unused"

\* What a step may do to handler q: it works on an issued challenge, and it
\* holds a deleted challenge only if it held it before.
Follows(q) ==
    req'[q].kind = "mfa" =>
        /\ challenge[req'[q].tok].row # "unused"
        /\ req'[q].pc \in {"clear", "mint"} =>
               req[q].kind = "mfa" /\ req[q].tok = req'[q].tok /\ req[q].pc \in {"clear", "mint"}

\* Steps that mint nothing and redeem nothing keep Redemption.
LEMMA RedemptionKept ==
    ASSUME Typed, Redemption, RowsAdvance, minted' = minted, \A q \in Requests : Follows(q)
    PROVE  Redemption'
<1> SUFFICES ASSUME NEW c \in Challenges
             PROVE  (/\ minted[c] <= 1
                     /\ minted[c] = 1 => challenge[c].row = "gone"
                     /\ \A r \in Requests : req[r].kind = "mfa" /\ req[r].tok = c => challenge[c].row # "unused"
                     /\ \A r \in Requests : Holds(r, c) => challenge[c].row = "gone" /\ minted[c] = 0
                     /\ \A q, r \in Requests : Holds(q, c) /\ Holds(r, c) => q = r)'
    BY DEF Redemption
<1>1. /\ minted[c] <= 1
      /\ minted[c] = 1 => challenge[c].row = "gone"
      /\ \A r \in Requests : Holds(r, c) => challenge[c].row = "gone" /\ minted[c] = 0
      /\ \A q, r \in Requests : Holds(q, c) /\ Holds(r, c) => q = r
    BY DEF Redemption
<1>2. \A q \in Requests : Holds(q, c)' => Holds(q, c)
    BY DEF Follows, Holds
<1>3. ASSUME NEW r \in Requests, req'[r].kind = "mfa", req'[r].tok = c PROVE challenge'[c].row # "unused"
    BY <1>3 DEF Follows, RowsAdvance
<1>4. ASSUME NEW r \in Requests, Holds(r, c)' PROVE challenge'[c].row = "gone" /\ minted'[c] = 0
    BY <1>1, <1>2, <1>4 DEF RowsAdvance
<1>5. minted'[c] <= 1 /\ (minted'[c] = 1 => challenge'[c].row = "gone")
    BY <1>1 DEF RowsAdvance
<1>6. ASSUME NEW q \in Requests, NEW r \in Requests, Holds(q, c)', Holds(r, c)' PROVE q = r
    BY <1>1, <1>2, <1>6
<1>7. QED BY <1>3, <1>4, <1>5, <1>6

\* Every handler that does not move follows.
LEMMA OthersFollow ==
    ASSUME Typed, Redemption, NEW q \in Requests, req'[q] = req[q]
    PROVE  Follows(q)
<1>1. ControlOf(req[q]) /\ req[q] \in Handler BY TypedParts
<1>2. QED BY <1>1 DEF Follows, Redemption, ControlOf

\* For a handler step it is enough that the handler itself follows.
LEMMA FollowersSuffice ==
    ASSUME Typed, Redemption, NEW r \in Requests, HandlerStep(r), Follows(r),
           RowsAdvance, minted' = minted
    PROVE  Redemption'
BY OneHandlerMoves, OthersFollow, RedemptionKept

\* The first-factor actions keep Redemption.
LEMMA FirstFactorRedemption ==
    ASSUME Typed, Redemption, NEW r \in Requests, FirstFactor(r)
    PROVE  Redemption'
<1>1. req[r] \in Handler /\ ControlOf(req[r]) BY TypedParts
<1>2. RowsAdvance /\ minted' = minted
    BY DEF FirstFactor, LoginPassword, LoginWithVerifiedOtp, SelectTenantWithToken, SwitchTenant,
           LoginOauth, LoginIdentity, VerifyPassword, LoadVerified, LoadMembership,
           RegisterFailedAttempt, ClearFailedAttempts, CreateIdentityToken, RowsAdvance, rows
<1> SUFFICES Follows(r) BY <1>2, FollowersSuffice DEF HandlerStep
<1>3. CASE \E u \in Users : \/ LoginPassword(r, u) \/ LoginWithVerifiedOtp(r, u)
                            \/ SelectTenantWithToken(r, u) \/ SwitchTenant(r, u) \/ LoginOauth(r, u)
    <2>1. req'[r].kind # "mfa"
        BY <1>3, BeginEffect DEF LoginPassword, LoginWithVerifiedOtp, SelectTenantWithToken,
           SwitchTenant, LoginOauth
    <2>2. QED BY <2>1 DEF Follows
<1>4. CASE LoginIdentity(r)
    BY <1>4, LoginIdentityEffect DEF Follows
<1>5. CASE VerifyPassword(r) \/ LoadVerified(r)
    <2>1. req'[r].kind = req[r].kind /\ req[r].kind # "mfa"
        BY <1>5, VerifyPasswordEffect, LoadVerifiedEffect DEF Same, VerifyPassword, LoadVerified
    <2>2. QED BY <2>1 DEF Follows
<1>6. CASE LoadMembership(r)
    <2>1. req'[r].kind = req[r].kind /\ req[r].kind # "mfa"
        BY <1>1, <1>6, LoadMembershipEffect DEF Same, LoadMembership, At, ControlOf
    <2>2. QED BY <2>1 DEF Follows
<1>7. CASE RegisterFailedAttempt(r) \/ CreateIdentityToken(r)
    <2>1. req'[r].kind # "mfa"
        BY <1>7, FinishEffect DEF RegisterFailedAttempt, CreateIdentityToken
    <2>2. QED BY <2>1 DEF Follows
<1>8. CASE ClearFailedAttempts(r)
    <2>1. AfterClear(req[r].kind) \in Label BY DEF AfterClear, Label
    <2>2. Same(r) /\ req[r].pc = "clear" BY <1>8, <2>1, GotoEffect DEF ClearFailedAttempts, At
    <2>3. QED BY <1>1, <2>2 DEF Same, Follows, Redemption, ControlOf
<1>9. QED BY <1>3, <1>4, <1>5, <1>6, <1>7, <1>8 DEF FirstFactor

\* finalize_login and the session keep Redemption.
LEMMA TailRedemption ==
    ASSUME Typed, Redemption, NEW r \in Requests, Tail(r)
    PROVE  Redemption'
<1>1. req[r] \in Handler /\ ControlOf(req[r]) /\ RowsOK BY TypedParts
<1>2. CASE SweepChangeTokens(r) \/ InsertChangeToken(r) \/ InsertChallenge(r) \/ SweepChallenges(r)
    <2>1. RowsAdvance /\ minted' = minted
        BY <1>1, <1>2 DEF RowsOK, RowsAdvance, SweepChangeTokens, InsertChangeToken, InsertChallenge,
           SweepChallenges, Challenge
    <2>2. req[r].kind # "mfa" \/ req'[r].kind = "none"
        BY <1>1, <1>2, FinishEffect DEF SweepChangeTokens, SweepChallenges, At, ControlOf,
           InsertChangeToken, InsertChallenge, MfaLabel
    <2>3. req'[r].kind = req[r].kind \/ req'[r].kind = "none"
        BY <1>2, GotoEffect, FinishEffect DEF SweepChangeTokens, SweepChallenges, Same, Label,
           InsertChangeToken, InsertChallenge
    <2>4. Follows(r) BY <2>2, <2>3 DEF Follows
    <2>5. QED BY <2>1, <2>4, FollowersSuffice DEF HandlerStep
<1>3. CASE DoCreateSession(r)
    <2>1. Finish(r) /\ challenge' = challenge /\ RowsAdvance
        BY <1>3 DEF DoCreateSession, RowsAdvance
    <2>2. \A q \in Requests : q # r => req'[q] = req[q]
        BY OneHandlerMoves DEF HandlerStep
    <2>3. CASE req[r].kind # "mfa"
        <3>1. minted' = minted BY <1>1, <1>3, <2>3 DEF DoCreateSession, RowsOK
        <3>2. Follows(r) BY <2>1, FinishEffect DEF Follows
        <3>3. QED BY <2>1, <3>1, <3>2, FollowersSuffice DEF HandlerStep
    <2>4. CASE req[r].kind = "mfa"
        <3>1. req[r].pc = "mint" /\ req[r].tok \in Challenges
            BY <1>1, <1>3, <2>4 DEF DoCreateSession, FullyAuthenticated, At, ControlOf, MfaLabel
        <3> DEFINE d == req[r].tok
        <3>2. Holds(r, d) BY <2>4, <3>1 DEF Holds
        <3>3. /\ challenge[d].row = "gone" /\ minted[d] = 0
              /\ \A q \in Requests : Holds(q, d) => q = r
            BY <3>1, <3>2 DEF Redemption
        <3>4. \A c \in Challenges : minted'[c] = IF c = d THEN 1 ELSE minted[c]
            BY <1>3, <2>4, <3>3 DEF DoCreateSession
        <3>5. req'[r].kind = "none" BY <2>1, FinishEffect
        <3>6. \A q \in Requests, c \in Challenges : Holds(q, c)' => Holds(q, c) /\ q # r
            BY <2>2, <3>5 DEF Holds
        <3> HIDE DEF d
        <3> SUFFICES ASSUME NEW c \in Challenges
                     PROVE  (/\ minted[c] <= 1
                             /\ minted[c] = 1 => challenge[c].row = "gone"
                             /\ \A q \in Requests : req[q].kind = "mfa" /\ req[q].tok = c => challenge[c].row # "unused"
                             /\ \A q \in Requests : Holds(q, c) => challenge[c].row = "gone" /\ minted[c] = 0
                             /\ \A p, q \in Requests : Holds(p, c) /\ Holds(q, c) => p = q)'
            BY DEF Redemption
        <3>7. ASSUME NEW q \in Requests, req'[q].kind = "mfa", req'[q].tok = c
              PROVE  challenge'[c].row # "unused"
            BY <2>1, <2>2, <3>5, <3>7 DEF Redemption
        <3>8. ASSUME NEW q \in Requests, Holds(q, c)'
              PROVE  challenge'[c].row = "gone" /\ minted'[c] = 0
            <4>1. Holds(q, c) /\ q # r BY <3>6, <3>8
            <4>2. c # d BY <3>3, <4>1
            <4>3. minted'[c] = minted[c] BY <1>1, <3>4, <4>2 DEF RowsOK
            <4>4. QED BY <2>1, <4>1, <4>3 DEF Redemption
        <3>9. \A p, q \in Requests : Holds(p, c)' /\ Holds(q, c)' => p = q
            BY <3>6 DEF Redemption
        <3>10. minted'[c] <= 1 /\ (minted'[c] = 1 => challenge'[c].row = "gone")
            BY <1>1, <2>1, <3>3, <3>4 DEF RowsOK, Redemption
        <3>11. QED BY <3>7, <3>8, <3>9, <3>10
    <2>5. QED BY <2>3, <2>4
<1>4. QED BY <1>2, <1>3 DEF Tail

\* complete_mfa_login keeps Redemption.
LEMMA SecondFactorRedemption ==
    ASSUME Typed, Redemption, NEW r \in Requests, SecondFactor(r)
    PROVE  Redemption'
<1>1. req[r] \in Handler /\ ControlOf(req[r]) /\ RowsOK BY TypedParts
<1>2. ASSUME NEW c \in Challenges, GetChallenge(r, c) PROVE Redemption'
    <2> DEFINE l == IF challenge[c].attempts >= MaxMfaAttempts THEN "exhausted" ELSE "mfaUser"
    <2>1. RowsAdvance /\ minted' = minted /\ challenge[c].row # "unused"
        BY <1>2 DEF GetChallenge, RowsAdvance, rows
    <2>2. Begin(r, "mfa", "mfa", challenge[c].user, c, l, NewAccount, NewIdentity)
        BY <1>2 DEF GetChallenge
    <2>3. l \notin {"clear", "mint"} OBVIOUS
    <2> HIDE DEF l
    <2>4. req'[r].tok = c /\ req'[r].pc = l BY <2>2, BeginEffect
    <2>5. Follows(r) BY <2>1, <2>3, <2>4 DEF Follows
    <2>6. QED BY <1>2, <2>1, <2>5, FollowersSuffice DEF HandlerStep
<1>3. CASE DropExhausted(r)
    <2>1. req[r].tok \in Challenges BY <1>1, <1>3 DEF DropExhausted, At, ControlOf
    <2>2. RowsAdvance /\ minted' = minted
        BY <1>1, <1>3, <2>1 DEF RowsOK, RowsAdvance, DropExhausted, Deleted, Challenge
    <2>3. Follows(r) BY <1>3, FinishEffect DEF DropExhausted, Follows
    <2>4. QED BY <2>2, <2>3, FollowersSuffice DEF HandlerStep
<1>4. CASE LoadMfaUser(r) \/ VerifyCode(r)
    <2>1. RowsAdvance /\ minted' = minted
        BY <1>4 DEF LoadMfaUser, VerifyCode, RowsAdvance, rows
    <2>2. Same(r) /\ req'[r].pc \notin {"clear", "mint"}
        BY <1>4, LoadMfaUserEffect, VerifyCodeEffect
    <2>3. Follows(r) BY <1>1, <2>2 DEF Same, Follows, Redemption, ControlOf
    <2>4. QED BY <2>1, <2>3, FollowersSuffice DEF HandlerStep
<1>5. CASE CountAttempt(r)
    <2>1. req[r].tok \in Challenges BY <1>1, <1>5 DEF CountAttempt, At, ControlOf
    <2>2. RowsAdvance /\ minted' = minted
        BY <1>1, <1>5, <2>1 DEF RowsOK, RowsAdvance, CountAttempt, Challenge
    <2>3. Same(r) /\ req'[r].pc = "fail"
        BY <1>5, GotoEffect DEF CountAttempt, Label
    <2>4. Follows(r) BY <1>1, <2>1, <2>3 DEF Same, Follows, Redemption
    <2>5. QED BY <2>2, <2>4, FollowersSuffice DEF HandlerStep
<1>6. CASE RedeemChallenge(r)
    <2> DEFINE d == req[r].tok
    <2>1. d \in Challenges /\ req[r].kind = "mfa" /\ req[r].pc = "redeem"
        BY <1>1, <1>6 DEF RedeemChallenge, At, ControlOf
    <2>2. RowsAdvance /\ minted' = minted /\ challenge'[d].row = "gone"
        BY <1>1, <1>6, <2>1 DEF RowsOK, RowsAdvance, RedeemChallenge, Deleted, Challenge
    <2>3. CASE ~Present(d)
        <3>1. Follows(r) BY <1>6, <2>3, FinishEffect DEF RedeemChallenge, Follows
        <3>2. QED BY <2>2, <3>1, FollowersSuffice DEF HandlerStep
    <2>4. CASE Present(d)
        <3>1. Same(r) /\ req'[r].pc = "clear" BY <1>6, <2>4, GotoEffect DEF RedeemChallenge, Label
        <3>2. minted[d] = 0 /\ \A q \in Requests : ~Holds(q, d)
            BY <1>1, <2>1, <2>4 DEF Present, Redemption, RowsOK
        <3>3. \A q \in Requests : q # r => req'[q] = req[q]
            BY OneHandlerMoves DEF HandlerStep
        <3>4. \A q \in Requests, c \in Challenges :
                  Holds(q, c)' => (q = r /\ c = d) \/ (q # r /\ Holds(q, c))
            BY <3>1, <3>3 DEF Holds, Same
        <3>5. req'[r].tok = d BY <3>1 DEF Same
        <3> HIDE DEF d
        <3> SUFFICES ASSUME NEW c \in Challenges
                     PROVE  (/\ minted[c] <= 1
                             /\ minted[c] = 1 => challenge[c].row = "gone"
                             /\ \A q \in Requests : req[q].kind = "mfa" /\ req[q].tok = c => challenge[c].row # "unused"
                             /\ \A q \in Requests : Holds(q, c) => challenge[c].row = "gone" /\ minted[c] = 0
                             /\ \A p, q \in Requests : Holds(p, c) /\ Holds(q, c) => p = q)'
            BY DEF Redemption
        <3>6. ASSUME NEW q \in Requests, req'[q].kind = "mfa", req'[q].tok = c
              PROVE  challenge'[c].row # "unused"
            BY <2>2, <3>3, <3>5, <3>6 DEF RowsAdvance, Redemption
        <3>7. ASSUME NEW q \in Requests, Holds(q, c)'
              PROVE  challenge'[c].row = "gone" /\ minted'[c] = 0
            BY <2>2, <3>2, <3>4, <3>7 DEF RowsAdvance, Redemption
        <3>8. ASSUME NEW p \in Requests, NEW q \in Requests, Holds(p, c)', Holds(q, c)' PROVE p = q
            BY <3>2, <3>4, <3>8 DEF Redemption
        <3>9. minted'[c] <= 1 /\ (minted'[c] = 1 => challenge'[c].row = "gone")
            BY <2>2 DEF RowsAdvance, Redemption
        <3>10. QED BY <3>6, <3>7, <3>8, <3>9
    <2>5. QED BY <2>3, <2>4
<1>7. QED BY <1>2, <1>3, <1>4, <1>5, <1>6 DEF SecondFactor

\* force_change_password keeps Redemption.
LEMMA ForceChangeRedemption ==
    ASSUME Typed, Redemption, NEW r \in Requests, ForceChange(r)
    PROVE  Redemption'
<1>1. req[r] \in Handler /\ ControlOf(req[r]) BY TypedParts
<1>2. RowsAdvance /\ minted' = minted
    BY DEF ForceChange, GetChangeToken, LoadForceUser, UpdatePassword, DropChangeToken,
           ReloadIdentity, RowsAdvance, rows
<1>3. req'[r].kind = "force"
    <2>1. ASSUME NEW t \in ChangeTokens, GetChangeToken(r, t) PROVE req'[r].kind = "force"
        BY <2>1, BeginEffect DEF GetChangeToken
    <2>2. CASE LoadForceUser(r) \/ ReloadIdentity(r)
        BY <1>1, <2>2, LoadForceUserEffect, ReloadIdentityEffect DEF Same, LoadForceUser,
           ReloadIdentity, At, ControlOf
    <2>3. CASE UpdatePassword(r) \/ DropChangeToken(r)
        BY <1>1, <2>3, GotoEffect DEF Same, UpdatePassword, DropChangeToken, At, ControlOf, Label
    <2>4. QED BY <2>1, <2>2, <2>3 DEF ForceChange
<1>4. QED BY <1>2, <1>3, FollowersSuffice DEF Follows, HandlerStep

\* The environment keeps Redemption.
LEMMA EnvironmentRedemption ==
    ASSUME Typed, Redemption, Environment
    PROVE  Redemption'
<1>1. /\ RowsOK /\ req \in [Requests -> Handler]
      /\ \A q \in Requests : req[q] \in Handler /\ ControlOf(req[q])
    BY TypedParts
<1>2. RowsAdvance /\ minted' = minted
    BY <1>1 DEF Environment, ArchiveUser, SetAccessValidUntil, DisableIdentity, SetForcePasswordChange,
           EnableMfa, DisableMfa, LockLapses, ChallengeLapses, ChangeTokenLapses,
           IdentityTokensLapse, RowsAdvance, RowsOK, Challenge
<1>3. ASSUME NEW q \in Requests
      PROVE  req'[q].kind = req[q].kind /\ req'[q].tok = req[q].tok /\ req'[q].pc = req[q].pc
    <2>1. CASE req' = req BY <2>1
    <2>2. CASE DisableMfa BY <1>1, <2>2 DEF DisableMfa, Handler
    <2>3. CASE LockLapses BY <1>1, <2>3 DEF LockLapses, Handler
    <2>4. QED BY <2>1, <2>2, <2>3 DEF Environment, ArchiveUser, SetAccessValidUntil, DisableIdentity,
           SetForcePasswordChange, EnableMfa, ChallengeLapses, ChangeTokenLapses, IdentityTokensLapse
<1>4. \A q \in Requests : Follows(q)
    BY <1>1, <1>3 DEF Follows, Redemption, ControlOf
<1>5. QED BY <1>2, <1>4, RedemptionKept

\* Redemption is inductive on top of Typed.
LEMMA RedemptionStep ==
    ASSUME Typed, Redemption, [Next]_vars
    PROVE  Redemption'
<1>1. ASSUME NEW r \in Requests, Abandon(r) PROVE Redemption'
    <2>1. RowsAdvance /\ minted' = minted BY <1>1 DEF Abandon, RowsAdvance, rows
    <2>2. Follows(r) BY <1>1, FinishEffect DEF Abandon, Follows
    <2>3. QED BY <1>1, <2>1, <2>2, FollowersSuffice DEF HandlerStep
<1>2. CASE UNCHANGED vars
    BY <1>2 DEF vars, Redemption, Holds
<1>3. QED BY <1>1, <1>2, FirstFactorRedemption, TailRedemption, SecondFactorRedemption,
             ForceChangeRedemption, EnvironmentRedemption DEF Next

\* Redemption holds initially.
LEMMA RedemptionInit == Init => Redemption
BY DEF Init, Redemption, Holds, NoHandler

(***************************************************************************)
(* complete_mfa_login: however many handlers race on one MFA challenge, at *)
(* most one session is minted from it (ChallengeRedeemedOnce).             *)
(***************************************************************************)
THEOREM RedeemedOnce == Spec => []ChallengeRedeemedOnce
<1>1. Redemption => ChallengeRedeemedOnce BY DEF Redemption, ChallengeRedeemedOnce
<1>2. QED BY <1>1, TypedInit, TypedStep, RedemptionInit, RedemptionStep, PTL DEF Spec

-----------------------------------------------------------------------------
(***************************************************************************)
(* The second factor: a handler that finalizes on a row saying MFA is off has *)
(* seen it off, and so has every handler while it is off.                  *)
(***************************************************************************)
\* MFA that is off, now or in the row a handler finalizes on, was seen off.
SeenOf(h) ==
    h.pc # "idle" /\ h.kind # "identity" =>
        /\ ~identity.mfa => h.sawOff
        /\ h.kind # "mfa" /\ h.pc \in {"clear", "finalize", "member"} /\ ~h.id.mfa => h.sawOff

SecondFactorSeen == SecondFactorEnforced /\ \A r \in Requests : SeenOf(req[r])

\* A handler's step that keeps the flag and the last session only has to
\* account for its own record.
LEMMA SeenKept ==
    ASSUME Typed, SecondFactorSeen, NEW r \in Requests, HandlerStep(r),
           identity'.mfa = identity.mfa, lastSession' = lastSession, SeenOf(req[r])'
    PROVE  SecondFactorSeen'
<1>1. \A q \in Requests : q # r => req'[q] = req[q] BY OneHandlerMoves
<1>2. ASSUME NEW q \in Requests, q # r PROVE SeenOf(req[q])'
    BY <1>1, <1>2 DEF SecondFactorSeen, SeenOf
<1>3. QED BY <1>2 DEF SecondFactorSeen, SecondFactorEnforced

\* The first-factor actions keep SecondFactorSeen.
LEMMA FirstFactorSeen ==
    ASSUME Typed, SecondFactorSeen, NEW r \in Requests, FirstFactor(r)
    PROVE  SecondFactorSeen'
<1>1. req[r] \in Handler /\ ControlOf(req[r]) /\ RowsOK /\ SeenOf(req[r])
    BY TypedParts DEF SecondFactorSeen
<1>2. identity'.mfa = identity.mfa /\ lastSession' = lastSession
    BY <1>1 DEF FirstFactor, LoginPassword, LoginWithVerifiedOtp, SelectTenantWithToken, SwitchTenant,
           LoginOauth, LoginIdentity, VerifyPassword, LoadVerified, LoadMembership,
           RegisterFailedAttempt, ClearFailedAttempts, CreateIdentityToken, rows, RowsOK, Identity
<1> SUFFICES SeenOf(req[r])' BY <1>2, SeenKept DEF HandlerStep
<1>3. CASE \E u \in Users : \/ LoginPassword(r, u) \/ LoginWithVerifiedOtp(r, u)
                            \/ SelectTenantWithToken(r, u) \/ SwitchTenant(r, u)
    <2>1. req'[r].pc = "load" /\ req'[r].sawOff = ~identity.mfa
        BY <1>3, BeginEffect DEF LoginPassword, LoginWithVerifiedOtp, SelectTenantWithToken, SwitchTenant
    <2>2. QED BY <1>2, <2>1 DEF SeenOf
<1>4. ASSUME NEW u \in Users, LoginOauth(r, u) PROVE SeenOf(req[r])'
    <2>1. req'[r].id = identity /\ req'[r].sawOff = ~identity.mfa
        BY <1>4, BeginEffect DEF LoginOauth
    <2>2. QED BY <1>2, <2>1 DEF SeenOf
<1>5. CASE LoginIdentity(r)
    BY <1>5, LoginIdentityEffect DEF SeenOf
<1>6. CASE VerifyPassword(r)
    <2>1. Same(r) /\ req[r].pc = "load" /\ req[r].kind = "password"
        BY <1>6, VerifyPasswordEffect DEF VerifyPassword, At
    <2>2. req'[r].pc = "fail" \/ req'[r].id.mfa = identity.mfa
        BY <1>1, <1>6, VerifyPasswordEffect, CopiedIdentity DEF RowsOK
    <2>3. QED BY <1>1, <1>2, <2>1, <2>2 DEF SeenOf, Same
<1>7. CASE LoadVerified(r)
    <2>1. Same(r) /\ req[r].pc = "load" /\ req[r].kind = "verified"
        BY <1>7, LoadVerifiedEffect DEF LoadVerified, At
    <2>2. req'[r].id.mfa = identity.mfa
        BY <1>1, <1>7, LoadVerifiedEffect, CopiedIdentity DEF RowsOK
    <2>3. QED BY <1>1, <1>2, <2>1, <2>2 DEF SeenOf, Same
<1>8. CASE LoadMembership(r)
    <2>1. Same(r) /\ req[r].pc = "member" /\ req[r].kind \notin {"identity", "mfa"}
        BY <1>1, <1>8, LoadMembershipEffect DEF LoadMembership, At, ControlOf
    <2>2. req'[r].id.mfa = req[r].id.mfa
        BY <1>1, <1>8, LoadMembershipEffect, CopiedIdentity DEF Handler
    <2>3. QED BY <1>1, <1>2, <2>1, <2>2 DEF SeenOf, Same
<1>9. CASE RegisterFailedAttempt(r) \/ CreateIdentityToken(r)
    <2>1. req'[r].pc = "idle"
        BY <1>9, FinishEffect DEF RegisterFailedAttempt, CreateIdentityToken
    <2>2. QED BY <2>1 DEF SeenOf
<1>10. CASE ClearFailedAttempts(r)
    <2>1. AfterClear(req[r].kind) \in Label BY DEF AfterClear, Label
    <2>2. Same(r) /\ req[r].pc = "clear" /\ req'[r].id = req[r].id
        BY <1>10, <2>1, GotoEffect DEF ClearFailedAttempts, At
    <2>3. QED BY <1>1, <1>2, <2>2 DEF SeenOf, Same
<1>11. QED BY <1>3, <1>4, <1>5, <1>6, <1>7, <1>8, <1>9, <1>10 DEF FirstFactor

\* finalize_login and the session keep SecondFactorSeen.
LEMMA TailSeen ==
    ASSUME Typed, SecondFactorSeen, NEW r \in Requests, Tail(r)
    PROVE  SecondFactorSeen'
<1>1. req[r] \in Handler /\ ControlOf(req[r]) /\ SeenOf(req[r])
    BY TypedParts DEF SecondFactorSeen
<1>2. identity' = identity
    BY DEF Tail, SweepChangeTokens, InsertChangeToken, SweepChallenges, InsertChallenge, DoCreateSession
<1>3. CASE InsertChangeToken(r) \/ InsertChallenge(r)
    <2>1. req'[r].pc = "idle" BY <1>3, FinishEffect DEF InsertChangeToken, InsertChallenge
    <2>2. SeenOf(req[r])' BY <2>1 DEF SeenOf
    <2>3. QED BY <1>2, <1>3, <2>2, SeenKept DEF HandlerStep, InsertChangeToken, InsertChallenge
<1>4. CASE SweepChangeTokens(r) \/ SweepChallenges(r)
    <2>1. Same(r) /\ req[r].pc = "finalize" /\ req'[r].pc \in {"insertChange", "insertChallenge"}
        BY <1>4, GotoEffect DEF SweepChangeTokens, SweepChallenges, At, Label
    <2>2. SeenOf(req[r])' BY <1>1, <1>2, <2>1 DEF SeenOf, Same
    <2>3. QED BY <1>2, <1>4, <2>2, SeenKept DEF HandlerStep, SweepChangeTokens, SweepChallenges
<1>5. CASE DoCreateSession(r)
    <2>1. req'[r].pc = "idle" BY <1>5, FinishEffect DEF DoCreateSession
    <2>2. \A q \in Requests : q # r => req'[q] = req[q] BY OneHandlerMoves DEF HandlerStep
    <2>3. \A q \in Requests : SeenOf(req[q])' BY <1>2, <2>1, <2>2 DEF SeenOf, SecondFactorSeen
    <2>4. req[r].kind = "mfa" \/ req[r].sawOff
        BY <1>1, <1>5 DEF DoCreateSession, FullyAuthenticated, At, ControlOf, SeenOf
    <2>5. SecondFactorEnforced' BY <1>5, <2>4 DEF DoCreateSession, SecondFactorEnforced
    <2>6. QED BY <2>3, <2>5 DEF SecondFactorSeen
<1>6. QED BY <1>3, <1>4, <1>5 DEF Tail

\* complete_mfa_login keeps SecondFactorSeen.
LEMMA SecondFactorActionsSeen ==
    ASSUME Typed, SecondFactorSeen, NEW r \in Requests, SecondFactor(r)
    PROVE  SecondFactorSeen'
<1>1. req[r] \in Handler /\ ControlOf(req[r]) /\ SeenOf(req[r])
    BY TypedParts DEF SecondFactorSeen
<1>2. identity' = identity /\ lastSession' = lastSession
    BY DEF SecondFactor, GetChallenge, DropExhausted, LoadMfaUser, VerifyCode, CountAttempt,
           RedeemChallenge, rows
<1> SUFFICES SeenOf(req[r])' BY <1>2, SeenKept DEF HandlerStep
<1>3. ASSUME NEW c \in Challenges, GetChallenge(r, c) PROVE SeenOf(req[r])'
    <2>1. req'[r].kind = "mfa" /\ req'[r].sawOff = ~identity.mfa
        BY <1>3, BeginEffect DEF GetChallenge
    <2>2. QED BY <1>2, <2>1 DEF SeenOf
<1>4. CASE DropExhausted(r)
    BY <1>4, FinishEffect DEF DropExhausted, SeenOf
<1>5. CASE LoadMfaUser(r) \/ VerifyCode(r)
    <2>1. Same(r) /\ req[r].kind = "mfa" /\ req[r].pc # "idle"
        BY <1>1, <1>5, LoadMfaUserEffect, VerifyCodeEffect DEF LoadMfaUser, VerifyCode, At, ControlOf
    <2>2. QED BY <1>1, <1>2, <2>1 DEF SeenOf, Same
<1>6. CASE CountAttempt(r)
    <2>1. Same(r) /\ req[r].kind = "mfa" /\ req[r].pc # "idle"
        BY <1>1, <1>6, GotoEffect DEF CountAttempt, At, ControlOf, Label
    <2>2. QED BY <1>1, <1>2, <2>1 DEF SeenOf, Same
<1>7. CASE RedeemChallenge(r)
    <2>1. CASE req'[r].pc = "idle" BY <2>1 DEF SeenOf
    <2>2. CASE Same(r) /\ req[r].kind = "mfa" /\ req[r].pc # "idle"
        BY <1>1, <1>2, <2>2 DEF SeenOf, Same
    <2>3. QED
        BY <1>1, <1>7, <2>1, <2>2, GotoEffect, FinishEffect DEF RedeemChallenge, At, ControlOf, Label
<1>8. QED BY <1>3, <1>4, <1>5, <1>6, <1>7 DEF SecondFactor

\* force_change_password keeps SecondFactorSeen.
LEMMA ForceChangeSeen ==
    ASSUME Typed, SecondFactorSeen, NEW r \in Requests, ForceChange(r)
    PROVE  SecondFactorSeen'
<1>1. req[r] \in Handler /\ ControlOf(req[r]) /\ SeenOf(req[r]) /\ RowsOK
    BY TypedParts DEF SecondFactorSeen
<1>2. identity'.mfa = identity.mfa /\ lastSession' = lastSession
    BY <1>1 DEF ForceChange, GetChangeToken, LoadForceUser, UpdatePassword, DropChangeToken,
           ReloadIdentity, rows, RowsOK, Identity
<1> SUFFICES SeenOf(req[r])' BY <1>2, SeenKept DEF HandlerStep
<1>3. ASSUME NEW t \in ChangeTokens, GetChangeToken(r, t) PROVE SeenOf(req[r])'
    <2>1. req'[r].pc = "forceUser" /\ req'[r].sawOff = ~identity.mfa
        BY <1>3, BeginEffect DEF GetChangeToken
    <2>2. QED BY <1>2, <2>1 DEF SeenOf
<1>4. CASE LoadForceUser(r)
    <2>1. Same(r) /\ req[r].pc = "forceUser" /\ req'[r].pc = "setPassword" /\ req[r].kind = "force"
        BY <1>1, <1>4, LoadForceUserEffect DEF LoadForceUser, At, ControlOf
    <2>2. QED BY <1>1, <1>2, <2>1 DEF SeenOf, Same
<1>5. CASE UpdatePassword(r) \/ DropChangeToken(r)
    <2>1. Same(r) /\ req[r].pc # "idle" /\ req[r].kind = "force" /\ req'[r].pc \in {"dropChange", "reload"}
        BY <1>1, <1>5, GotoEffect DEF UpdatePassword, DropChangeToken, At, ControlOf, Label
    <2>2. QED BY <1>1, <1>2, <2>1 DEF SeenOf, Same
<1>6. CASE ReloadIdentity(r)
    <2>1. Same(r) /\ req[r].pc = "reload" /\ req[r].kind = "force"
        BY <1>1, <1>6, ReloadIdentityEffect DEF ReloadIdentity, At, ControlOf
    <2>2. req'[r].id.mfa = identity.mfa
        BY <1>1, <1>6, ReloadIdentityEffect, CopiedIdentity DEF RowsOK
    <2>3. QED BY <1>1, <1>2, <2>1, <2>2 DEF SeenOf, Same
<1>7. QED BY <1>3, <1>4, <1>5, <1>6 DEF ForceChange

\* The environment keeps SecondFactorSeen.
LEMMA EnvironmentSeen ==
    ASSUME Typed, SecondFactorSeen, Environment
    PROVE  SecondFactorSeen'
<1>1. RowsOK /\ \A q \in Requests : req[q] \in Handler /\ SeenOf(req[q])
    BY TypedParts DEF SecondFactorSeen
<1>2. lastSession' = lastSession
    BY DEF Environment, ArchiveUser, SetAccessValidUntil, DisableIdentity, SetForcePasswordChange,
           EnableMfa, DisableMfa, LockLapses, ChallengeLapses, ChangeTokenLapses, IdentityTokensLapse
<1> SUFFICES ASSUME NEW q \in Requests PROVE SeenOf(req[q])'
    BY <1>2 DEF SecondFactorSeen, SecondFactorEnforced
<1>3. CASE req' = req /\ (identity'.mfa = identity.mfa \/ identity'.mfa)
    BY <1>1, <1>3 DEF SeenOf
<1>4. CASE DisableMfa
    <2>1. req'[q].pc = "idle" \/ req'[q].sawOff
        BY <1>1, <1>4 DEF DisableMfa, At, Handler
    <2>2. QED BY <2>1 DEF SeenOf
<1>5. CASE LockLapses
    <2>1. /\ req'[q].pc = req[q].pc /\ req'[q].kind = req[q].kind
          /\ req'[q].sawOff = req[q].sawOff /\ req'[q].id.mfa = req[q].id.mfa
        BY <1>1, <1>5 DEF LockLapses, Handler, Identity
    <2>2. identity'.mfa = identity.mfa BY <1>1, <1>5 DEF LockLapses, RowsOK, Identity
    <2>3. QED BY <1>1, <2>1, <2>2 DEF SeenOf
<1>6. QED
    BY <1>1, <1>3, <1>4, <1>5 DEF Environment, ArchiveUser, SetAccessValidUntil, DisableIdentity,
       SetForcePasswordChange, EnableMfa, ChallengeLapses, ChangeTokenLapses, IdentityTokensLapse,
       RowsOK, Identity

\* SecondFactorSeen is inductive on top of Typed.
LEMMA SeenStep ==
    ASSUME Typed, SecondFactorSeen, [Next]_vars
    PROVE  SecondFactorSeen'
<1>1. ASSUME NEW r \in Requests, Abandon(r) PROVE SecondFactorSeen'
    <2>1. SeenOf(req[r])' BY <1>1, FinishEffect DEF Abandon, SeenOf
    <2>2. QED BY <1>1, <2>1, SeenKept DEF Abandon, HandlerStep, rows
<1>2. CASE UNCHANGED vars
    BY <1>2 DEF vars, SecondFactorSeen, SecondFactorEnforced, SeenOf
<1>3. QED BY <1>1, <1>2, FirstFactorSeen, TailSeen, SecondFactorActionsSeen, ForceChangeSeen,
             EnvironmentSeen DEF Next

\* SecondFactorSeen holds initially.
LEMMA SeenInit == Init => SecondFactorSeen
BY DEF Init, SecondFactorSeen, SecondFactorEnforced, SeenOf, NoSession, NoHandler

(***************************************************************************)
(* finalize_login: no session is minted without the second factor by a     *)
(* handler during which MFA was on throughout (SecondFactorEnforced).      *)
(***************************************************************************)
THEOREM SecondFactorHolds == Spec => []SecondFactorEnforced
<1>1. SecondFactorSeen => SecondFactorEnforced BY DEF SecondFactorSeen
<1>2. QED BY <1>1, TypedInit, TypedStep, SeenInit, SeenStep, PTL DEF Spec

-----------------------------------------------------------------------------
(***************************************************************************)
(* Closed accounts: a handler that began after the account was closed never *)
(* gets past the gates.                                                    *)
(***************************************************************************)
\* A handler that began too late is still on the near side of the gates.
LateOf(h) ==
    h.late /\ h.kind # "force" =>
        \/ /\ h.pc \in {"load", "mfaVerify"}
           /\ h.acct.status # "active" \/ identity.status # "active"
        \/ h.pc = "member" /\ h.id.status = "active" /\ account[h.user].status # "active"
        \/ h.pc = "mfaUser" /\ Closed(h.user)
        \/ h.pc = "exhausted"

Late == ClosedAccountStaysOut /\ \A r \in Requests : LateOf(req[r])

\* Neither status ever goes back to active.
StatusesFinal ==
    /\ identity.status # "active" => identity'.status # "active"
    /\ \A u \in Users : account[u].status # "active" => account'[u].status # "active"

\* A handler whose record does not move stays short of the gates.
LEMMA LateSurvives ==
    ASSUME Typed, StatusesFinal, NEW q \in Requests, LateOf(req[q]),
           req'[q].pc = req[q].pc, req'[q].kind = req[q].kind, req'[q].user = req[q].user,
           req'[q].late = req[q].late, req'[q].acct = req[q].acct,
           req'[q].id.status = req[q].id.status
    PROVE  LateOf(req[q])'
<1>1. ControlOf(req[q]) /\ req[q] \in Handler BY TypedParts
<1>2. QED BY <1>1 DEF LateOf, StatusesFinal, Closed, ControlOf

\* A handler step only has to account for its own record.
LEMMA LateKept ==
    ASSUME Typed, Late, NEW r \in Requests, HandlerStep(r),
           StatusesFinal, lastSession' = lastSession, LateOf(req[r])'
    PROVE  Late'
<1>1. \A q \in Requests : q # r => req'[q] = req[q] BY OneHandlerMoves
<1>2. ASSUME NEW q \in Requests, q # r PROVE LateOf(req[q])'
    BY <1>1, <1>2, LateSurvives DEF Late
<1>3. QED BY <1>2 DEF Late, ClosedAccountStaysOut

\* The first-factor actions keep Late.
LEMMA FirstFactorLate ==
    ASSUME Typed, Late, NEW r \in Requests, FirstFactor(r)
    PROVE  Late'
<1>1. req[r] \in Handler /\ ControlOf(req[r]) /\ RowsOK /\ LateOf(req[r])
    BY TypedParts DEF Late
<1>2. StatusesFinal /\ lastSession' = lastSession
    BY <1>1 DEF FirstFactor, LoginPassword, LoginWithVerifiedOtp, SelectTenantWithToken, SwitchTenant,
           LoginOauth, LoginIdentity, VerifyPassword, LoadVerified, LoadMembership,
           RegisterFailedAttempt, ClearFailedAttempts, CreateIdentityToken, rows, RowsOK, Identity,
           StatusesFinal
<1> SUFFICES LateOf(req[r])' BY <1>2, LateKept DEF HandlerStep
<1>3. ASSUME NEW u \in Users,
             LoginPassword(r, u) \/ LoginWithVerifiedOtp(r, u) \/ SelectTenantWithToken(r, u) \/ SwitchTenant(r, u)
      PROVE LateOf(req[r])'
    <2>1. req'[r].pc = "load" /\ req'[r].acct = account[u] /\ req'[r].late = Closed(u)
        BY <1>3, BeginEffect DEF LoginPassword, LoginWithVerifiedOtp, SelectTenantWithToken, SwitchTenant
    <2>2. QED BY <1>2, <2>1 DEF LateOf, Closed, StatusesFinal
<1>4. ASSUME NEW u \in Users, LoginOauth(r, u) PROVE LateOf(req[r])'
    <2>1. /\ req'[r].pc = "member" /\ req'[r].user = u /\ req'[r].late = Closed(u)
          /\ req'[r].id = identity /\ identity.status = "active"
        BY <1>4, BeginEffect DEF LoginOauth
    <2>2. QED BY <1>2, <2>1 DEF LateOf, Closed, StatusesFinal
<1>5. CASE LoginIdentity(r)
    BY <1>5, LoginIdentityEffect DEF LateOf
<1>6. CASE VerifyPassword(r) \/ LoadVerified(r)
    <2>1. Same(r) /\ ~req[r].late
        BY <1>1, <1>6, VerifyPasswordEffect, LoadVerifiedEffect DEF VerifyPassword, LoadVerified,
           CheckGates, At, LateOf, ControlOf
    <2>2. QED BY <2>1 DEF LateOf, Same
<1>7. CASE LoadMembership(r)
    <2>1. Same(r) /\ ~req[r].late
        BY <1>1, <1>7, LoadMembershipEffect DEF LoadMembership, CheckGates, At, LateOf, ControlOf
    <2>2. QED BY <2>1 DEF LateOf, Same
<1>8. CASE RegisterFailedAttempt(r) \/ CreateIdentityToken(r)
    <2>1. ~req'[r].late BY <1>8, FinishEffect DEF RegisterFailedAttempt, CreateIdentityToken
    <2>2. QED BY <2>1 DEF LateOf
<1>9. CASE ClearFailedAttempts(r)
    <2>1. AfterClear(req[r].kind) \in Label BY DEF AfterClear, Label
    <2>2. Same(r) /\ (req[r].late => req[r].kind = "force")
        BY <1>1, <1>9, <2>1, GotoEffect DEF ClearFailedAttempts, At, LateOf
    <2>3. QED BY <2>2 DEF LateOf, Same
<1>10. QED BY <1>3, <1>4, <1>5, <1>6, <1>7, <1>8, <1>9 DEF FirstFactor

\* finalize_login and the session keep Late.
LEMMA TailLate ==
    ASSUME Typed, Late, NEW r \in Requests, Tail(r)
    PROVE  Late'
<1>1. LateOf(req[r]) BY DEF Late
<1>2. StatusesFinal
    BY DEF Tail, SweepChangeTokens, InsertChangeToken, SweepChallenges, InsertChallenge,
           DoCreateSession, StatusesFinal
<1>3. req[r].late => req[r].kind = "force"
    BY <1>1 DEF Tail, SweepChangeTokens, InsertChangeToken, SweepChallenges, InsertChallenge,
           DoCreateSession, FullyAuthenticated, At, LateOf
<1>4. CASE InsertChangeToken(r) \/ InsertChallenge(r)
    <2>1. ~req'[r].late BY <1>4, FinishEffect DEF InsertChangeToken, InsertChallenge
    <2>2. LateOf(req[r])' BY <2>1 DEF LateOf
    <2>3. QED BY <1>2, <1>4, <2>2, LateKept DEF HandlerStep, InsertChangeToken, InsertChallenge
<1>5. CASE SweepChangeTokens(r) \/ SweepChallenges(r)
    <2>1. Same(r) BY <1>5, GotoEffect DEF SweepChangeTokens, SweepChallenges, Label
    <2>2. LateOf(req[r])' BY <1>3, <2>1 DEF LateOf, Same
    <2>3. QED BY <1>2, <1>5, <2>2, LateKept DEF HandlerStep, SweepChangeTokens, SweepChallenges
<1>6. CASE DoCreateSession(r)
    <2>1. ~req'[r].late BY <1>6, FinishEffect DEF DoCreateSession
    <2>2. \A q \in Requests : q # r => req'[q] = req[q] BY OneHandlerMoves DEF HandlerStep
    <2>3. ASSUME NEW q \in Requests PROVE LateOf(req[q])'
        <3>1. CASE q = r BY <2>1, <3>1 DEF LateOf
        <3>2. CASE q # r BY <1>2, <2>2, <3>2, LateSurvives DEF Late
        <3>3. QED BY <3>1, <3>2
    <2>4. ClosedAccountStaysOut' BY <1>3, <1>6 DEF DoCreateSession, ClosedAccountStaysOut
    <2>5. QED BY <2>3, <2>4 DEF Late
<1>7. QED BY <1>4, <1>5, <1>6 DEF Tail

\* complete_mfa_login keeps Late.
LEMMA SecondFactorLate ==
    ASSUME Typed, Late, NEW r \in Requests, SecondFactor(r)
    PROVE  Late'
<1>1. req[r] \in Handler /\ ControlOf(req[r]) /\ RowsOK /\ TokensOwned /\ LateOf(req[r])
    BY TypedParts DEF Late
<1>2. identity' = identity /\ account' = account /\ lastSession' = lastSession
    BY DEF SecondFactor, GetChallenge, DropExhausted, LoadMfaUser, VerifyCode, CountAttempt,
           RedeemChallenge, rows
<1> SUFFICES LateOf(req[r])' BY <1>2, LateKept DEF HandlerStep, StatusesFinal
<1>3. ASSUME NEW c \in Challenges, GetChallenge(r, c) PROVE LateOf(req[r])'
    <2>1. /\ req'[r].pc \in {"exhausted", "mfaUser"} /\ req'[r].user = challenge[c].user
          /\ req'[r].late = Closed(challenge[c].user)
        BY <1>3, BeginEffect DEF GetChallenge
    <2>2. QED BY <1>2, <2>1 DEF LateOf, Closed
<1>4. CASE DropExhausted(r)
    BY <1>4, FinishEffect DEF DropExhausted, LateOf
<1>5. CASE LoadMfaUser(r)
    <2>1. /\ Same(r) /\ req'[r].pc = "mfaVerify" /\ req'[r].acct = account[req[r].user]
          /\ req[r].pc = "mfaUser"
        BY <1>5, LoadMfaUserEffect DEF LoadMfaUser, At
    <2>2. QED BY <1>1, <1>2, <2>1 DEF LateOf, Same, Closed
<1>6. CASE VerifyCode(r)
    <2>1. Same(r) /\ (req[r].late => req[r].kind = "force")
        BY <1>1, <1>6, VerifyCodeEffect DEF VerifyCode, CheckGates, At, LateOf
    <2>2. QED BY <2>1 DEF LateOf, Same
<1>7. CASE CountAttempt(r)
    <2>1. Same(r) /\ (req[r].late => req[r].kind = "force")
        BY <1>1, <1>7, GotoEffect DEF CountAttempt, At, LateOf, Label
    <2>2. QED BY <2>1 DEF LateOf, Same
<1>8. CASE RedeemChallenge(r)
    <2>1. CASE ~req'[r].late BY <2>1 DEF LateOf
    <2>2. CASE Same(r) /\ (req[r].late => req[r].kind = "force") BY <2>2 DEF LateOf, Same
    <2>3. QED
        BY <1>1, <1>8, <2>1, <2>2, GotoEffect, FinishEffect DEF RedeemChallenge, At, LateOf, Label
<1>9. QED BY <1>3, <1>4, <1>5, <1>6, <1>7, <1>8 DEF SecondFactor

\* force_change_password keeps Late.
LEMMA ForceChangeLate ==
    ASSUME Typed, Late, NEW r \in Requests, ForceChange(r)
    PROVE  Late'
<1>1. req[r] \in Handler /\ ControlOf(req[r]) /\ RowsOK BY TypedParts
<1>2. StatusesFinal /\ lastSession' = lastSession
    BY <1>1 DEF ForceChange, GetChangeToken, LoadForceUser, UpdatePassword, DropChangeToken,
           ReloadIdentity, rows, RowsOK, Identity, StatusesFinal
<1>3. req'[r].kind = "force"
    <2>1. ASSUME NEW t \in ChangeTokens, GetChangeToken(r, t) PROVE req'[r].kind = "force"
        BY <2>1, BeginEffect DEF GetChangeToken
    <2>2. CASE LoadForceUser(r) \/ ReloadIdentity(r)
        BY <1>1, <2>2, LoadForceUserEffect, ReloadIdentityEffect DEF Same, LoadForceUser,
           ReloadIdentity, At, ControlOf
    <2>3. CASE UpdatePassword(r) \/ DropChangeToken(r)
        BY <1>1, <2>3, GotoEffect DEF Same, UpdatePassword, DropChangeToken, At, ControlOf, Label
    <2>4. QED BY <2>1, <2>2, <2>3 DEF ForceChange
<1>4. QED BY <1>2, <1>3, LateKept DEF HandlerStep, LateOf

\* The environment keeps Late.
LEMMA EnvironmentLate ==
    ASSUME Typed, Late, Environment
    PROVE  Late'
<1>1. RowsOK /\ \A q \in Requests : req[q] \in Handler /\ LateOf(req[q])
    BY TypedParts DEF Late
<1>2. StatusesFinal /\ lastSession' = lastSession
    <2>1. CASE \E u \in Users : ArchiveUser(u)
        BY <1>1, <2>1 DEF ArchiveUser, RowsOK, Account, StatusesFinal
    <2>2. CASE \E u \in Users, w \in {"open", "ended"} : SetAccessValidUntil(u, w)
        BY <1>1, <2>2 DEF SetAccessValidUntil, RowsOK, Account, StatusesFinal
    <2>3. CASE DisableIdentity \/ EnableMfa \/ DisableMfa \/ LockLapses
        BY <1>1, <2>3 DEF DisableIdentity, EnableMfa, DisableMfa, LockLapses, RowsOK, Identity,
           StatusesFinal
    <2>4. QED
        BY <1>1, <2>1, <2>2, <2>3 DEF Environment, SetForcePasswordChange, ChallengeLapses,
           ChangeTokenLapses, IdentityTokensLapse, RowsOK, Identity, StatusesFinal
<1> SUFFICES ASSUME NEW q \in Requests PROVE LateOf(req[q])'
    BY <1>2 DEF Late, ClosedAccountStaysOut
<1>3. /\ req'[q].pc = req[q].pc /\ req'[q].kind = req[q].kind /\ req'[q].user = req[q].user
      /\ req'[q].late = req[q].late /\ req'[q].acct = req[q].acct
      /\ req'[q].id.status = req[q].id.status
    <2>1. CASE req' = req BY <2>1
    <2>2. CASE DisableMfa BY <1>1, <2>2 DEF DisableMfa, Handler
    <2>3. CASE LockLapses BY <1>1, <2>3 DEF LockLapses, Handler, Identity
    <2>4. QED BY <2>1, <2>2, <2>3 DEF Environment, ArchiveUser, SetAccessValidUntil, DisableIdentity,
           SetForcePasswordChange, EnableMfa, ChallengeLapses, ChangeTokenLapses, IdentityTokensLapse
<1>4. QED BY <1>1, <1>2, <1>3, LateSurvives

\* Late is inductive on top of Typed.
LEMMA LateStep ==
    ASSUME Typed, Late, [Next]_vars
    PROVE  Late'
<1>1. ASSUME NEW r \in Requests, Abandon(r) PROVE Late'
    <2>1. LateOf(req[r])' BY <1>1, FinishEffect DEF Abandon, LateOf
    <2>2. QED BY <1>1, <2>1, LateKept DEF Abandon, HandlerStep, StatusesFinal, rows
<1>2. CASE UNCHANGED vars
    BY <1>2 DEF vars, Late, ClosedAccountStaysOut, LateOf, Closed
<1>3. QED BY <1>1, <1>2, FirstFactorLate, TailLate, SecondFactorLate, ForceChangeLate,
             EnvironmentLate DEF Next

\* Late holds initially.
LEMMA LateInit == Init => Late
BY DEF Init, Late, ClosedAccountStaysOut, LateOf, NoSession, NoHandler

(***************************************************************************)
(* check_gates: apart from force_change_password, no handler that begins   *)
(* after the account was closed mints a session (ClosedAccountStaysOut).   *)
(***************************************************************************)
THEOREM ClosedStaysOut == Spec => []ClosedAccountStaysOut
<1>1. Late => ClosedAccountStaysOut BY DEF Late
<1>2. QED BY <1>1, TypedInit, TypedStep, LateInit, LateStep, PTL DEF Spec

-----------------------------------------------------------------------------
(***************************************************************************)
(* The two counters.  Each bound leaves room for the handlers in flight that *)
(* passed their check and have not counted yet.                            *)
(***************************************************************************)
\* Handlers that passed the attempt limit of c and may still count an attempt.
Counting(c) == {r \in Requests : /\ req[r].kind = "mfa" /\ req[r].tok = c
                                 /\ req[r].pc \in {"mfaUser", "mfaVerify", "count"}}

Attempts ==
    \A c \in Challenges :
        challenge[c].attempts + Cardinality(Counting(c)) <= MaxMfaAttempts - 1 + Cardinality(Requests)

\* Handlers that will count a failure without locking the identity.
Unlocking == {r \in Requests : req[r].pc \in {"count", "fail"} /\ req[r].id.failed + 1 < LockAfter}

Lockout ==
    identity.lock = "none" =>
        identity.failed + Cardinality(Unlocking) <= LockAfter - 2 + Cardinality(Requests)

\* Sets of handlers are finite; their sizes compare as expected.
LEMMA HandlerSets ==
    ASSUME NEW S, S \subseteq Requests
    PROVE  /\ IsFiniteSet(S) /\ Cardinality(S) \in Nat /\ Cardinality(Requests) \in Nat
           /\ Cardinality(S) <= Cardinality(Requests)
           /\ \A T : T \subseteq S => Cardinality(T) \in Nat /\ Cardinality(T) <= Cardinality(S)
           /\ \A r \in S : Cardinality(S \ {r}) = Cardinality(S) - 1
BY LoginAssumption, FS_Subset, FS_CardinalityType, FS_RemoveElement

\* One challenge at a time.
AttemptsOf(c) ==
    challenge[c].attempts + Cardinality(Counting(c)) <= MaxMfaAttempts - 1 + Cardinality(Requests)

\* Attempts, challenge by challenge.
LEMMA AttemptsSplit == Attempts <=> \A c \in Challenges : AttemptsOf(c)
BY DEF Attempts, AttemptsOf

\* Below the limit there is room for every handler to count.
LEMMA FreshAttempts ==
    ASSUME NEW c \in Challenges, challenge'[c].attempts \in Nat,
           challenge'[c].attempts <= MaxMfaAttempts - 1
    PROVE  AttemptsOf(c)'
<1>1. Counting(c)' \subseteq Requests BY DEF Counting
<1>2. QED BY <1>1, HandlerSets, LoginAssumption DEF AttemptsOf

\* The bound survives while the counter stands still and nobody joins.
LEMMA FewerAttempts ==
    ASSUME NEW c \in Challenges, AttemptsOf(c), challenge[c].attempts \in Nat,
           challenge'[c].attempts = challenge[c].attempts, Counting(c)' \subseteq Counting(c)
    PROVE  AttemptsOf(c)'
<1>1. Counting(c) \subseteq Requests BY DEF Counting
<1>2. Cardinality(Counting(c)') \in Nat /\ Cardinality(Counting(c)) \in Nat
      /\ Cardinality(Counting(c)') <= Cardinality(Counting(c)) /\ Cardinality(Requests) \in Nat
    BY <1>1, HandlerSets
<1>3. QED BY <1>2, LoginAssumption DEF AttemptsOf

\* Handler q counts for a challenge only if it did before.
StillCounting(q) ==
    req'[q].kind = "mfa" /\ req'[q].pc \in {"mfaUser", "mfaVerify", "count"} =>
        req[q].kind = "mfa" /\ req[q].tok = req'[q].tok /\ req[q].pc \in {"mfaUser", "mfaVerify", "count"}

SameAttempts == \A c \in Challenges : challenge'[c].attempts = challenge[c].attempts

\* Steps that count nothing and admit nobody keep Attempts.
LEMMA AttemptsKept ==
    ASSUME Typed, Attempts, SameAttempts, \A q \in Requests : StillCounting(q)
    PROVE  Attempts'
<1>1. ASSUME NEW c \in Challenges PROVE AttemptsOf(c)'
    <2>1. challenge[c].attempts \in Nat BY TypedParts DEF RowsOK, Challenge
    <2>2. Counting(c)' \subseteq Counting(c) BY DEF Counting, StillCounting
    <2>3. QED BY <2>1, <2>2, FewerAttempts, AttemptsSplit DEF SameAttempts
<1>2. QED BY <1>1 DEF Attempts, AttemptsOf

\* The same for a step of one handler.
LEMMA HandlerAttempts ==
    ASSUME Typed, Attempts, NEW r \in Requests, HandlerStep(r), SameAttempts, StillCounting(r)
    PROVE  Attempts'
<1>1. \A q \in Requests : q # r => req'[q] = req[q] BY OneHandlerMoves
<1>2. \A q \in Requests : StillCounting(q) BY <1>1 DEF StillCounting
<1>3. QED BY <1>2, AttemptsKept

\* The first-factor actions keep Attempts.
LEMMA FirstFactorAttempts ==
    ASSUME Typed, Attempts, NEW r \in Requests, FirstFactor(r)
    PROVE  Attempts'
<1>1. req[r] \in Handler /\ ControlOf(req[r]) BY TypedParts
<1>2. SameAttempts
    BY DEF FirstFactor, LoginPassword, LoginWithVerifiedOtp, SelectTenantWithToken, SwitchTenant,
           LoginOauth, LoginIdentity, VerifyPassword, LoadVerified, LoadMembership,
           RegisterFailedAttempt, ClearFailedAttempts, CreateIdentityToken, SameAttempts, rows
<1>3. req'[r].pc \notin {"mfaUser", "mfaVerify", "count"}
    <2>1. CASE \E u \in Users : \/ LoginPassword(r, u) \/ LoginWithVerifiedOtp(r, u)
                                \/ SelectTenantWithToken(r, u) \/ SwitchTenant(r, u) \/ LoginOauth(r, u)
        BY <2>1, BeginEffect DEF LoginPassword, LoginWithVerifiedOtp, SelectTenantWithToken,
           SwitchTenant, LoginOauth
    <2>2. CASE LoginIdentity(r) \/ VerifyPassword(r) \/ LoadVerified(r) \/ LoadMembership(r)
        BY <2>2, LoginIdentityEffect, VerifyPasswordEffect, LoadVerifiedEffect, LoadMembershipEffect
    <2>3. CASE RegisterFailedAttempt(r) \/ CreateIdentityToken(r)
        BY <2>3, FinishEffect DEF RegisterFailedAttempt, CreateIdentityToken
    <2>4. CASE ClearFailedAttempts(r)
        <3>1. /\ AfterClear(req[r].kind) \in Label
              /\ AfterClear(req[r].kind) \notin {"mfaUser", "mfaVerify", "count"}
            BY DEF AfterClear, Label
        <3>2. QED BY <2>4, <3>1, GotoEffect DEF ClearFailedAttempts
    <2>5. QED BY <2>1, <2>2, <2>3, <2>4 DEF FirstFactor
<1>4. QED BY <1>2, <1>3, HandlerAttempts DEF HandlerStep, StillCounting

\* finalize_login and the session keep Attempts.
LEMMA TailAttempts ==
    ASSUME Typed, Attempts, NEW r \in Requests, Tail(r)
    PROVE  Attempts'
<1>1. RowsOK /\ req[r] \in Handler BY TypedParts
<1>2. req'[r].pc \notin {"mfaUser", "mfaVerify", "count"}
    BY GotoEffect, FinishEffect DEF Tail, SweepChangeTokens, InsertChangeToken, SweepChallenges,
       InsertChallenge, DoCreateSession, Label
<1>3. CASE InsertChallenge(r)
    <2>1. PICK d \in Challenges :
              challenge' = [challenge EXCEPT ![d] = [row |-> "live", user |-> req[r].user, attempts |-> 0]]
        BY <1>3 DEF InsertChallenge
    <2>2. challenge'[d].attempts = 0 /\ \A c \in Challenges : c # d => challenge'[c] = challenge[c]
        BY <1>1, <2>1 DEF RowsOK
    <2>3. \A q \in Requests : q # r => req'[q] = req[q] BY OneHandlerMoves DEF HandlerStep
    <2>4. ASSUME NEW c \in Challenges PROVE AttemptsOf(c)'
        <3>1. CASE c = d
            <4>1. challenge'[c].attempts \in Nat /\ challenge'[c].attempts <= MaxMfaAttempts - 1
                BY <2>2, <3>1, LoginAssumption
            <4>2. QED BY <4>1, FreshAttempts
        <3>2. CASE c # d
            <4>1. Counting(c)' \subseteq Counting(c) BY <1>2, <2>3 DEF Counting
            <4>2. challenge[c].attempts \in Nat BY <1>1 DEF RowsOK, Challenge
            <4>3. QED BY <2>2, <3>2, <4>1, <4>2, FewerAttempts, AttemptsSplit
        <3>3. QED BY <3>1, <3>2
    <2>5. QED BY <2>4 DEF Attempts, AttemptsOf
<1>4. CASE ~InsertChallenge(r)
    <2>1. SameAttempts
        BY <1>1, <1>4 DEF Tail, SweepChangeTokens, InsertChangeToken, SweepChallenges, DoCreateSession,
           SameAttempts, RowsOK, Challenge
    <2>2. QED BY <1>2, <2>1, HandlerAttempts DEF HandlerStep, StillCounting
<1>5. QED BY <1>3, <1>4

\* complete_mfa_login keeps Attempts.
LEMMA SecondFactorAttempts ==
    ASSUME Typed, Attempts, NEW r \in Requests, SecondFactor(r)
    PROVE  Attempts'
<1>1. req[r] \in Handler /\ ControlOf(req[r]) /\ RowsOK BY TypedParts
<1>2. \A q \in Requests : q # r => req'[q] = req[q] BY OneHandlerMoves DEF HandlerStep
<1>3. ASSUME NEW d \in Challenges, GetChallenge(r, d) PROVE Attempts'
    <2>1. challenge' = challenge /\ req'[r].tok = d /\ challenge[d].attempts \in Nat
        BY <1>1, <1>3, BeginEffect DEF GetChallenge, rows, RowsOK, Challenge
    <2>2. req'[r].pc = IF challenge[d].attempts >= MaxMfaAttempts THEN "exhausted" ELSE "mfaUser"
        BY <1>3, BeginEffect DEF GetChallenge
    <2>3. ASSUME NEW c \in Challenges PROVE AttemptsOf(c)'
        <3>1. challenge[c].attempts \in Nat BY <1>1 DEF RowsOK, Challenge
        <3>2. CASE c = d /\ challenge[d].attempts < MaxMfaAttempts
            <4>1. challenge'[c].attempts <= MaxMfaAttempts - 1 BY <2>1, <3>1, <3>2, LoginAssumption
            <4>2. QED BY <2>1, <3>1, <4>1, FreshAttempts
        <3>3. CASE c # d \/ challenge[d].attempts >= MaxMfaAttempts
            <4>1. Counting(c)' \subseteq Counting(c) BY <1>2, <2>1, <2>2, <3>3 DEF Counting
            <4>2. QED BY <2>1, <3>1, <4>1, FewerAttempts, AttemptsSplit
        <3>4. QED BY <2>1, <3>2, <3>3, LoginAssumption
    <2>4. QED BY <2>3 DEF Attempts, AttemptsOf
<1>4. CASE DropExhausted(r) \/ RedeemChallenge(r)
    <2>1. req[r].tok \in Challenges BY <1>1, <1>4 DEF DropExhausted, RedeemChallenge, At, ControlOf
    <2>2. SameAttempts
        BY <1>1, <1>4, <2>1 DEF DropExhausted, RedeemChallenge, Deleted, RowsOK, Challenge, SameAttempts
    <2>3. req'[r].pc \in {"idle", "clear"}
        BY <1>4, FinishEffect, GotoEffect DEF DropExhausted, RedeemChallenge, Label
    <2>4. QED BY <2>2, <2>3, HandlerAttempts DEF HandlerStep, StillCounting
<1>5. CASE LoadMfaUser(r) \/ VerifyCode(r)
    <2>1. SameAttempts BY <1>5 DEF LoadMfaUser, VerifyCode, rows, SameAttempts
    <2>2. StillCounting(r)
        BY <1>1, <1>5, LoadMfaUserEffect, VerifyCodeEffect DEF LoadMfaUser, VerifyCode, At, ControlOf,
           Same, StillCounting
    <2>3. QED BY <2>1, <2>2, HandlerAttempts DEF HandlerStep
<1>6. CASE CountAttempt(r)
    <2> DEFINE d == req[r].tok
    <2>1. d \in Challenges /\ req[r].kind = "mfa" /\ req[r].pc = "count"
        BY <1>1, <1>6 DEF CountAttempt, At, ControlOf
    <2>2. req'[r].pc = "fail" BY <1>6, GotoEffect DEF CountAttempt, Label
    <2>3. challenge'[d].attempts \in {challenge[d].attempts, challenge[d].attempts + 1}
        BY <1>1, <1>6, <2>1 DEF CountAttempt, RowsOK, Challenge
    <2>4. \A c \in Challenges : c # d => challenge'[c] = challenge[c]
        BY <1>1, <1>6, <2>1 DEF CountAttempt, RowsOK
    <2>5. ASSUME NEW c \in Challenges PROVE AttemptsOf(c)'
        <3>1. challenge[c].attempts \in Nat BY <1>1 DEF RowsOK, Challenge
        <3>2. CASE c # d
            <4>1. Counting(c)' \subseteq Counting(c) BY <1>2, <2>2 DEF Counting
            <4>2. QED BY <2>4, <3>1, <3>2, <4>1, FewerAttempts, AttemptsSplit
        <3>3. CASE c = d
            <4>1. r \in Counting(c) /\ Counting(c) \subseteq Requests BY <2>1, <3>3 DEF Counting
            <4>2. Counting(c)' \subseteq Counting(c) \ {r} BY <1>2, <2>2 DEF Counting
            <4>3. /\ Cardinality(Counting(c)) \in Nat /\ Cardinality(Requests) \in Nat
                  /\ Cardinality(Counting(c) \ {r}) = Cardinality(Counting(c)) - 1
                BY <4>1, HandlerSets
            <4>4. /\ Cardinality(Counting(c)') \in Nat
                  /\ Cardinality(Counting(c)') <= Cardinality(Counting(c) \ {r})
                BY <4>1, <4>2, HandlerSets
            <4>5. AttemptsOf(c) BY AttemptsSplit
            <4>6. challenge'[c].attempts \in {challenge[c].attempts, challenge[c].attempts + 1}
                BY <2>3, <3>3
            <4>7. QED BY <3>1, <4>3, <4>4, <4>5, <4>6, LoginAssumption DEF AttemptsOf
        <3>4. QED BY <3>2, <3>3
    <2>6. QED BY <2>5 DEF Attempts, AttemptsOf
<1>7. QED BY <1>3, <1>4, <1>5, <1>6 DEF SecondFactor

\* force_change_password keeps Attempts.
LEMMA ForceChangeAttempts ==
    ASSUME Typed, Attempts, NEW r \in Requests, ForceChange(r)
    PROVE  Attempts'
<1>1. SameAttempts
    BY DEF ForceChange, GetChangeToken, LoadForceUser, UpdatePassword, DropChangeToken,
           ReloadIdentity, SameAttempts, rows
<1>2. req'[r].pc \notin {"mfaUser", "mfaVerify", "count"}
    BY BeginEffect, GotoEffect, LoadForceUserEffect, ReloadIdentityEffect
       DEF ForceChange, GetChangeToken, UpdatePassword, DropChangeToken, Label
<1>3. QED BY <1>1, <1>2, HandlerAttempts DEF HandlerStep, StillCounting

\* Attempts is inductive on top of Typed.
LEMMA AttemptsStep ==
    ASSUME Typed, Attempts, [Next]_vars
    PROVE  Attempts'
<1>1. ASSUME NEW r \in Requests, Abandon(r) PROVE Attempts'
    <2>1. SameAttempts BY <1>1 DEF Abandon, SameAttempts, rows
    <2>2. StillCounting(r) BY <1>1, FinishEffect DEF Abandon, StillCounting
    <2>3. QED BY <1>1, <2>1, <2>2, HandlerAttempts DEF HandlerStep
<1>2. CASE Environment
    <2>1. RowsOK BY TypedParts
    <2>2. SameAttempts
        BY <1>2, <2>1 DEF Environment, ArchiveUser, SetAccessValidUntil, DisableIdentity,
           SetForcePasswordChange, EnableMfa, DisableMfa, LockLapses, ChallengeLapses,
           ChangeTokenLapses, IdentityTokensLapse, SameAttempts, RowsOK, Challenge
    <2>3. \A q \in Requests : StillCounting(q)
        BY <1>2, EnvironmentLeavesHandlers DEF StillCounting
    <2>4. QED BY <2>2, <2>3, AttemptsKept
<1>3. CASE UNCHANGED vars
    BY <1>3 DEF vars, Attempts, Counting
<1>4. QED BY <1>1, <1>2, <1>3, FirstFactorAttempts, TailAttempts, SecondFactorAttempts,
             ForceChangeAttempts DEF Next

\* Attempts holds initially.
LEMMA AttemptsInit == Init => Attempts
<1> SUFFICES ASSUME Init, NEW c \in Challenges PROVE AttemptsOf(c) BY DEF Attempts, AttemptsOf
<1>1. challenge[c].attempts = 0 BY DEF Init
<1>2. Counting(c) \subseteq Requests BY DEF Counting
<1>3. Cardinality(Counting(c)) <= Cardinality(Requests) /\ Cardinality(Counting(c)) \in Nat
      /\ Cardinality(Requests) \in Nat
    BY <1>2, HandlerSets
<1>4. QED BY <1>1, <1>3, LoginAssumption DEF AttemptsOf

(***************************************************************************)
(* complete_mfa_login: wrong codes against one challenge overshoot the     *)
(* limit by at most the other handlers in flight (AttemptBound).           *)
(***************************************************************************)
THEOREM AttemptsBounded == Spec => []AttemptBound
<1>1. Typed /\ Attempts => AttemptBound
    <2> SUFFICES ASSUME Typed, Attempts, NEW c \in Challenges
                 PROVE  challenge[c].attempts <= MaxMfaAttempts - 1 + Cardinality(Requests)
        BY DEF AttemptBound
    <2>1. challenge[c].attempts \in Nat BY TypedParts DEF RowsOK, Challenge
    <2>2. Counting(c) \subseteq Requests BY DEF Counting
    <2>3. Cardinality(Counting(c)) \in Nat /\ Cardinality(Requests) \in Nat BY <2>2, HandlerSets
    <2>4. QED BY <2>1, <2>3, LoginAssumption DEF Attempts
<1>2. QED BY <1>1, TypedInit, TypedStep, AttemptsInit, AttemptsStep, PTL DEF Spec

\* Handler q will count a failure without locking only if it would before.
StillUnlocking(q) ==
    req'[q].pc \in {"count", "fail"} /\ req'[q].id.failed + 1 < LockAfter =>
        req[q].pc \in {"count", "fail"} /\ req[q].id.failed + 1 < LockAfter

\* The lock was not taken off and the counter did not move.
SameCounter ==
    /\ identity'.failed = identity.failed
    /\ identity'.lock = "none" => identity.lock = "none"

\* Steps that neither count nor unlock nor read the counter keep Lockout.
LEMMA LockoutKept ==
    ASSUME Typed, Lockout, SameCounter, \A q \in Requests : StillUnlocking(q)
    PROVE  Lockout'
<1> SUFFICES ASSUME identity'.lock = "none"
             PROVE  identity'.failed + Cardinality(Unlocking') <= LockAfter - 2 + Cardinality(Requests)
    BY DEF Lockout
<1>1. Unlocking' \subseteq Unlocking /\ Unlocking \subseteq Requests BY DEF Unlocking, StillUnlocking
<1>2. /\ Cardinality(Unlocking') \in Nat /\ Cardinality(Unlocking) \in Nat
      /\ Cardinality(Unlocking') <= Cardinality(Unlocking) /\ Cardinality(Requests) \in Nat
    BY <1>1, HandlerSets
<1>3. identity.failed \in Nat BY TypedParts DEF RowsOK, Identity
<1>4. identity.failed + Cardinality(Unlocking) <= LockAfter - 2 + Cardinality(Requests)
    BY DEF Lockout, SameCounter
<1>5. QED BY <1>2, <1>3, <1>4, LoginAssumption DEF SameCounter

\* Far enough below the threshold every handler may be about to count.
LEMMA LockoutFresh ==
    ASSUME identity'.failed \in Nat, identity'.failed <= LockAfter - 2
    PROVE  Lockout'
<1>1. Unlocking' \subseteq Requests BY DEF Unlocking
<1>2. /\ Cardinality(Unlocking') \in Nat /\ Cardinality(Requests) \in Nat
      /\ Cardinality(Unlocking') <= Cardinality(Requests)
    BY <1>1, HandlerSets
<1>3. QED BY <1>2, LoginAssumption DEF Lockout

\* The same for a step of one handler.
LEMMA HandlerLockout ==
    ASSUME Typed, Lockout, NEW r \in Requests, HandlerStep(r), SameCounter, StillUnlocking(r)
    PROVE  Lockout'
<1>1. \A q \in Requests : q # r => req'[q] = req[q] BY OneHandlerMoves
<1>2. \A q \in Requests : StillUnlocking(q) BY <1>1 DEF StillUnlocking
<1>3. QED BY <1>2, LockoutKept

\* A handler that has just read the counter it will decide on.
LEMMA RejectionLockout ==
    ASSUME Typed, Lockout, NEW r \in Requests, HandlerStep(r), identity' = identity,
           req'[r].id = Rejected(identity)
    PROVE  Lockout'
<1>1. identity \in Identity /\ identity.failed \in Nat BY TypedParts DEF RowsOK, Identity
<1>2. req'[r].id.failed = identity.failed BY <1>1, CopiedIdentity
<1>3. CASE identity.failed + 1 < LockAfter
    <2>1. identity'.failed \in Nat /\ identity'.failed <= LockAfter - 2 BY <1>1, <1>3, LoginAssumption
    <2>2. QED BY <2>1, LockoutFresh
<1>4. CASE ~(identity.failed + 1 < LockAfter)
    BY <1>2, <1>4, HandlerLockout DEF SameCounter, StillUnlocking
<1>5. QED BY <1>3, <1>4

\* The first-factor actions keep Lockout.
LEMMA FirstFactorLockout ==
    ASSUME Typed, Lockout, NEW r \in Requests, FirstFactor(r)
    PROVE  Lockout'
<1>1. req[r] \in Handler /\ ControlOf(req[r]) /\ identity \in Identity BY TypedParts DEF RowsOK
<1>2. CASE \E u \in Users : \/ LoginPassword(r, u) \/ LoginWithVerifiedOtp(r, u)
                            \/ SelectTenantWithToken(r, u) \/ SwitchTenant(r, u) \/ LoginOauth(r, u)
    <2>1. req'[r].pc \in {"load", "member"} /\ identity' = identity
        BY <1>2, BeginEffect DEF LoginPassword, LoginWithVerifiedOtp, SelectTenantWithToken,
           SwitchTenant, LoginOauth, rows
    <2>2. QED BY <2>1, HandlerLockout DEF HandlerStep, SameCounter, StillUnlocking
<1>3. CASE LoginIdentity(r) \/ VerifyPassword(r)
    <2>1. identity' = identity BY <1>3 DEF LoginIdentity, VerifyPassword, rows
    <2>2. req'[r].pc = "clear" \/ req'[r].id = Rejected(identity)
        BY <1>3, LoginIdentityEffect, VerifyPasswordEffect
    <2>3. CASE req'[r].pc = "clear"
        BY <2>1, <2>3, HandlerLockout DEF HandlerStep, SameCounter, StillUnlocking
    <2>4. CASE req'[r].id = Rejected(identity)
        BY <2>1, <2>4, RejectionLockout DEF HandlerStep
    <2>5. QED BY <2>2, <2>3, <2>4
<1>4. CASE LoadVerified(r) \/ LoadMembership(r)
    <2>1. req'[r].pc = "finalize" /\ identity' = identity
        BY <1>4, LoadVerifiedEffect, LoadMembershipEffect DEF LoadVerified, LoadMembership, rows
    <2>2. QED BY <2>1, HandlerLockout DEF HandlerStep, SameCounter, StillUnlocking
<1>5. CASE CreateIdentityToken(r)
    <2>1. req'[r].pc = "idle" /\ identity' = identity
        BY <1>5, FinishEffect DEF CreateIdentityToken
    <2>2. QED BY <2>1, HandlerLockout DEF HandlerStep, SameCounter, StillUnlocking
<1>6. CASE ClearFailedAttempts(r)
    <2>1. identity'.failed = 0 BY <1>1, <1>6 DEF ClearFailedAttempts, Identity
    <2>2. identity'.failed \in Nat /\ identity'.failed <= LockAfter - 2 BY <2>1, LoginAssumption
    <2>3. QED BY <2>2, LockoutFresh
<1>7. CASE RegisterFailedAttempt(r)
    <2>1. req[r].id.failed \in Nat /\ identity.failed \in Nat BY <1>1 DEF Handler, Identity
    <2>2. req[r].pc = "fail" /\ req'[r].pc = "idle"
        BY <1>7, FinishEffect DEF RegisterFailedAttempt, At
    <2>3. CASE req[r].id.failed + 1 >= LockAfter
        <3>1. identity'.lock = "held" BY <1>1, <1>7, <2>3 DEF RegisterFailedAttempt, Identity
        <3>2. QED BY <3>1 DEF Lockout
    <2>4. CASE ~(req[r].id.failed + 1 >= LockAfter)
        <3>1. identity'.lock = identity.lock /\ identity'.failed = identity.failed + 1
            BY <1>1, <1>7, <2>4 DEF RegisterFailedAttempt, Identity
        <3>2. \A q \in Requests : q # r => req'[q] = req[q] BY OneHandlerMoves DEF HandlerStep
        <3>3. r \in Unlocking /\ Unlocking \subseteq Requests
            BY <2>1, <2>2, <2>4, LoginAssumption DEF Unlocking
        <3>4. Unlocking' \subseteq Unlocking \ {r} BY <2>2, <3>2 DEF Unlocking
        <3>5. /\ Cardinality(Unlocking) \in Nat /\ Cardinality(Requests) \in Nat
              /\ Cardinality(Unlocking \ {r}) = Cardinality(Unlocking) - 1
            BY <3>3, HandlerSets
        <3>6. Cardinality(Unlocking') \in Nat /\ Cardinality(Unlocking') <= Cardinality(Unlocking \ {r})
            BY <3>3, <3>4, HandlerSets
        <3>7. QED BY <2>1, <3>1, <3>5, <3>6, LoginAssumption DEF Lockout
    <2>5. QED BY <2>3, <2>4
<1>8. QED BY <1>2, <1>3, <1>4, <1>5, <1>6, <1>7 DEF FirstFactor

\* finalize_login and the session keep Lockout.
LEMMA TailLockout ==
    ASSUME Typed, Lockout, NEW r \in Requests, Tail(r)
    PROVE  Lockout'
<1>1. identity' = identity
    BY DEF Tail, SweepChangeTokens, InsertChangeToken, SweepChallenges, InsertChallenge, DoCreateSession
<1>2. req'[r].pc \notin {"count", "fail"}
    BY GotoEffect, FinishEffect DEF Tail, SweepChangeTokens, InsertChangeToken, SweepChallenges,
       InsertChallenge, DoCreateSession, Label
<1>3. QED BY <1>1, <1>2, HandlerLockout DEF HandlerStep, SameCounter, StillUnlocking

\* complete_mfa_login keeps Lockout.
LEMMA SecondFactorLockout ==
    ASSUME Typed, Lockout, NEW r \in Requests, SecondFactor(r)
    PROVE  Lockout'
<1>1. identity' = identity
    BY DEF SecondFactor, GetChallenge, DropExhausted, LoadMfaUser, VerifyCode, CountAttempt,
           RedeemChallenge, rows
<1>2. CASE req'[r].pc \notin {"count", "fail"}
    BY <1>1, <1>2, HandlerLockout DEF HandlerStep, SameCounter, StillUnlocking
<1>3. CASE VerifyCode(r) /\ req'[r].id = Rejected(identity)
    BY <1>1, <1>3, RejectionLockout DEF HandlerStep
<1>4. CASE CountAttempt(r)
    <2>1. req[r].pc = "count" /\ req'[r].id = req[r].id
        BY <1>4, GotoEffect DEF CountAttempt, At, Label
    <2>2. QED BY <1>1, <2>1, HandlerLockout DEF HandlerStep, SameCounter, StillUnlocking
<1>5. ASSUME NEW c \in Challenges, GetChallenge(r, c) PROVE req'[r].pc \in {"exhausted", "mfaUser"}
    BY <1>5, BeginEffect DEF GetChallenge
<1>6. QED BY <1>2, <1>3, <1>4, <1>5, VerifyCodeEffect, LoadMfaUserEffect, FinishEffect, GotoEffect
       DEF SecondFactor, DropExhausted, RedeemChallenge, Label

\* force_change_password keeps Lockout.
LEMMA ForceChangeLockout ==
    ASSUME Typed, Lockout, NEW r \in Requests, ForceChange(r)
    PROVE  Lockout'
<1>1. identity \in Identity BY TypedParts DEF RowsOK
<1>2. SameCounter
    BY <1>1 DEF ForceChange, GetChangeToken, LoadForceUser, UpdatePassword, DropChangeToken,
           ReloadIdentity, SameCounter, Identity, rows
<1>3. req'[r].pc \notin {"count", "fail"}
    BY BeginEffect, GotoEffect, LoadForceUserEffect, ReloadIdentityEffect
       DEF ForceChange, GetChangeToken, UpdatePassword, DropChangeToken, Label
<1>4. QED BY <1>2, <1>3, HandlerLockout DEF HandlerStep, StillUnlocking

\* Lockout is inductive on top of Typed.
LEMMA LockoutStep ==
    ASSUME Typed, Lockout, [Next]_vars
    PROVE  Lockout'
<1>1. ASSUME NEW r \in Requests, Abandon(r) PROVE Lockout'
    <2>1. SameCounter BY <1>1 DEF Abandon, SameCounter, rows
    <2>2. StillUnlocking(r) BY <1>1, FinishEffect DEF Abandon, StillUnlocking
    <2>3. QED BY <1>1, <2>1, <2>2, HandlerLockout DEF HandlerStep
<1>2. CASE Environment
    <2>1. identity \in Identity BY TypedParts DEF RowsOK
    <2>2. SameCounter
        BY <1>2, <2>1 DEF Environment, ArchiveUser, SetAccessValidUntil, DisableIdentity,
           SetForcePasswordChange, EnableMfa, DisableMfa, LockLapses, ChallengeLapses,
           ChangeTokenLapses, IdentityTokensLapse, SameCounter, Identity
    <2>3. \A q \in Requests : StillUnlocking(q)
        BY <1>2, EnvironmentLeavesHandlers DEF StillUnlocking
    <2>4. QED BY <2>2, <2>3, LockoutKept
<1>3. CASE UNCHANGED vars
    BY <1>3 DEF vars, Lockout, Unlocking
<1>4. QED BY <1>1, <1>2, <1>3, FirstFactorLockout, TailLockout, SecondFactorLockout,
             ForceChangeLockout DEF Next

\* Lockout holds initially.
LEMMA LockoutInit == Init => Lockout
<1> SUFFICES ASSUME Init PROVE Lockout OBVIOUS
<1>1. PICK m \in BOOLEAN : identity = [NewIdentity EXCEPT !.mfa = m] BY DEF Init
<1>2. identity.failed = 0 BY <1>1 DEF NewIdentity
<1>3. Unlocking \subseteq Requests BY DEF Unlocking
<1>4. Cardinality(Unlocking) <= Cardinality(Requests) /\ Cardinality(Unlocking) \in Nat
      /\ Cardinality(Requests) \in Nat
    BY <1>3, HandlerSets
<1>5. QED BY <1>2, <1>4, LoginAssumption DEF Lockout

(***************************************************************************)
(* register_failed_attempt: failures of a never-locked identity overshoot  *)
(* the threshold by at most the handlers in flight (LockoutBound).         *)
(***************************************************************************)
THEOREM LockoutBounded == Spec => []LockoutBound
<1>1. Typed /\ Lockout => LockoutBound
    <2> SUFFICES ASSUME Typed, Lockout, identity.lock = "none"
                 PROVE  identity.failed <= LockAfter - 2 + Cardinality(Requests)
        BY DEF LockoutBound
    <2>1. identity.failed \in Nat BY TypedParts DEF RowsOK, Identity
    <2>2. Unlocking \subseteq Requests BY DEF Unlocking
    <2>3. Cardinality(Unlocking) \in Nat /\ Cardinality(Requests) \in Nat BY <2>2, HandlerSets
    <2>4. QED BY <2>1, <2>3, LoginAssumption DEF Lockout
<1>2. QED BY <1>1, TypedInit, TypedStep, LockoutInit, LockoutStep, PTL DEF Spec

-----------------------------------------------------------------------------
(***************************************************************************)
(* The conjunction of the strengthenings, inductive as a whole.            *)
(***************************************************************************)
IInv == Typed /\ Redemption /\ Attempts /\ Lockout /\ SecondFactorSeen /\ Late

\* Every behaviour of the login pipeline stays inside the inductive invariant.
THEOREM Inductive == Spec => []IInv
<1>1. Init => IInv
    BY TypedInit, RedemptionInit, AttemptsInit, LockoutInit, SeenInit, LateInit DEF IInv
<1>2. IInv /\ [Next]_vars => IInv'
    BY TypedStep, RedemptionStep, AttemptsStep, LockoutStep, SeenStep, LateStep DEF IInv
<1>3. QED BY <1>1, <1>2, PTL DEF Spec
=============================================================================
