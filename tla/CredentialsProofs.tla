------------------------- MODULE CredentialsProofs -------------------------
(***************************************************************************)
(* Proofs about Credentials for every number of requests, tenants, starts  *)
(* and attempts: type correctness, how often a token or a one-time code is *)
(* used, how many tokens are live, how far the attempt counter overshoots  *)
(* and what lifts the force flag.                                          *)
(***************************************************************************)
EXTENDS Credentials, TLAPS, FiniteSetTheorems, WellFoundedInduction

\* The handlers between two statements of an operation.
Announced(k) == {r \in Requests : req[r].pc \in {"sweep", "insert"} /\ req[r].kind = k}
Inserting(k) == {r \in Requests : req[r].pc = "insert" /\ req[r].kind = k}
Finding(k, n) == {r \in Requests : req[r].pc \in {"found", "login"} /\ req[r].kind = k /\ req[r].num = n}
Spending(k, n) == {r \in Requests : req[r].pc \in {"spend", "drop"} /\ req[r].kind = k /\ req[r].num = n}
Failing(n) == {r \in Requests : req[r].pc = "wrong" /\ req[r].num = n}

\* A handler's label and what it carries fit together; i are the numbers issued.
ControlOf(h, i) ==
    /\ h.pc \in {"sweep", "insert"} => h.kind \in TokenKind
    /\ h.pc \in {"found", "spend"} => h.kind \in TokenKind /\ h.num \in 1..i[h.kind] /\ h.op = "redeem"
    /\ h.pc \in {"login", "drop", "wrong"} => h.kind = "otp" /\ h.num \in 1..i["otp"]
    /\ h.pc \in {"count", "flag"} => h.op = "admin"
    /\ h.pc = "set" => h.op \in {"change", "admin"}

\* Every issue takes a start.
Counted ==
    /\ \A k \in TokenKind : issued[k] + Cardinality(Announced(k)) <= starts
    /\ issued["otp"] <= starts

Typed ==
    /\ TypeOK
    /\ token \in [TokenKind -> SUBSET Num]
    /\ otp \in [live : SUBSET Num, attempts : [Num -> Nat]]
    /\ \A r \in Requests : ControlOf(req[r], issued)
    /\ Counted

\* What can still be found, and what has been found, used or kept of it.
Live(k) == IF k = "otp" THEN otp.live ELSE token[k]

UseOf(k, n) ==
    /\ n \notin 1..issued[k] => redeemed[k][n] = 0
    /\ n \in Live(k) => redeemed[k][n] <= kept[k][n] + Cardinality(Spending(k, n))
    /\ redeemed[k][n] + Cardinality(Finding(k, n)) <= kept[k][n] + Cardinality(Requests)

Uses == \A k \in IssueKind, n \in Num : UseOf(k, n)

\* Live tokens, and those about to be, are at most one per request.
Tokens == \A k \in TokenKind : Cardinality(token[k]) + Cardinality(Inserting(k)) <= Cardinality(Requests)

\* Attempts counted, and those about to be.
Attempts == \A n \in Num : otp.attempts[n] + Cardinality(Failing(n)) < MaxAttempts + Cardinality(Requests)

-----------------------------------------------------------------------------
(***************************************************************************)
(* The newest live code, and sizes of sets of requests.                    *)
(***************************************************************************)

\* A set of numbers with a bound has a greatest element.
LEMMA Greatest ==
    ASSUME NEW N \in Nat, NEW S \in SUBSET (1..N), S # {}
    PROVE  \E n \in S : \A m \in S : m <= n
<1> DEFINE T == {N - x : x \in S}
<1>1. T \subseteq Nat /\ T # {}
    <2>1. \A x \in S : N - x \in Nat OBVIOUS
    <2>2. PICK x \in S : TRUE OBVIOUS
    <2>3. N - x \in T OBVIOUS
    <2>4. QED BY <2>1, <2>3
<1>2. PICK y \in T : \A z \in T : ~(<<z, y>> \in OpToRel(<, Nat))
    <2> HIDE DEF T
    <2> QED BY <1>1, NatLessThanWellFounded, WFMin
<1>3. \A z \in T : ~(z < y)
    BY <1>1, <1>2 DEF OpToRel
<1>4. PICK n \in S : y = N - n OBVIOUS
<1>5. ASSUME NEW m \in S PROVE m <= n
    <2>1. ~(N - m < y) BY <1>3
    <2>2. QED BY <1>4, <2>1
<1>6. QED BY <1>5

\* get_latest finds a live code when there is one.
LEMMA LatestLive ==
    ASSUME Typed, otp.live # {}
    PROVE  Latest \in otp.live
<1>1. issued["otp"] \in Nat /\ otp.live \subseteq 1..issued["otp"]
    BY CredentialsAssumption DEF Typed, TypeOK, IssueKind
<1>2. \E n \in otp.live : \A m \in otp.live : m <= n BY <1>1, Greatest
<1>3. QED BY <1>2 DEF Latest

LEMMA RequestsSize == IsFiniteSet(Requests) /\ Cardinality(Requests) \in Nat
BY CredentialsAssumption, FS_CardinalityType

LEMMA SizeOf ==
    ASSUME NEW S \in SUBSET Requests
    PROVE  IsFiniteSet(S) /\ Cardinality(S) \in Nat /\ Cardinality(S) <= Cardinality(Requests)
BY RequestsSize, FS_Subset, FS_CardinalityType

LEMMA SizeMonotone ==
    ASSUME NEW S \in SUBSET Requests, NEW T \in SUBSET S
    PROVE  Cardinality(T) \in Nat /\ Cardinality(S) \in Nat /\ Cardinality(T) <= Cardinality(S)
BY SizeOf, FS_Subset, FS_CardinalityType

LEMMA SizeAdded ==
    ASSUME NEW S \in SUBSET Requests, NEW r \in Requests, r \notin S
    PROVE  Cardinality(S \cup {r}) = Cardinality(S) + 1 /\ Cardinality(S) + 1 <= Cardinality(Requests)
<1>1. Cardinality(S \cup {r}) <= Cardinality(Requests) BY SizeOf
<1>2. Cardinality(S \cup {r}) = Cardinality(S) + 1 BY SizeOf, FS_AddElement
<1>3. QED BY <1>1, <1>2

LEMMA SizeRemoved ==
    ASSUME NEW S \in SUBSET Requests, NEW r \in S
    PROVE  Cardinality(S \ {r}) + 1 = Cardinality(S)
BY SizeOf, FS_RemoveElement, FS_CardinalityType

-----------------------------------------------------------------------------
(***************************************************************************)
(* Records and steps.                                                      *)
(***************************************************************************)

\* Every step is of one handler, or of the world around them.
Act(r) ==
    \/ \E k \in TokenKind : LoadIdentity(r, k)
    \/ SweepTokens(r) \/ InsertToken(r)
    \/ \E k \in TokenKind, n \in Num : FindToken(r, k, n)
    \/ SetByToken(r) \/ DeleteToken(r) \/ VerifyCurrent(r) \/ ChangePassword(r)
    \/ \E t \in Tenants, f \in BOOLEAN : GetUser(r, t, f)
    \/ CountMemberships(r) \/ AdminSetPassword(r) \/ SetForcePasswordChange(r)
    \/ CreateOtp(r)
    \/ \E given \in 0..issued["otp"] : GetLatest(r, given)
    \/ IncrementAttempts(r) \/ LoggedIn(r) \/ DeleteOtp(r) \/ Abandon(r)

World == Expire \/ \E t \in Tenants : Join(t) \/ Archive(t)

LEMMA NextActs == Next => World \/ \E r \in Requests : Act(r)
<1>1. "reset" \in TokenKind /\ "change" \in TokenKind BY DEF TokenKind
<1>2. ASSUME NEW r \in Requests,
             ForgotPassword(r) \/ ResetPassword(r) \/ IssueForceChangeToken(r) \/ ForceChangePassword(r)
      PROVE  Act(r)
    BY <1>1, <1>2 DEF ForgotPassword, ResetPassword, IssueForceChangeToken, ForceChangePassword, Issue, Redeem, Act
<1>3. ASSUME NEW r \in Requests,
             ChangeOwnPassword(r) \/ AdminResetPassword(r) \/ EmailOtpRequest(r) \/ OtpVerify(r) \/ Abandon(r)
      PROVE  Act(r)
    BY <1>3 DEF ChangeOwnPassword, AdminResetPassword, EmailOtpRequest, OtpVerify, Act
<1>4. QED BY <1>2, <1>3 DEF Next, World

\* The record of an idle handler is well typed and consistent.
LEMMA IdleHandler == NoHandler \in Handler /\ \A i : ControlOf(NoHandler, i)
<1>1. 0 \in 0..MaxStarts BY CredentialsAssumption
<1>2. QED BY <1>1 DEF NoHandler, Handler, ControlOf, Label, Op

\* A handler's own record and control.
LEMMA HandlerParts ==
    ASSUME Typed, NEW r \in Requests
    PROVE  req[r] \in Handler /\ ControlOf(req[r], issued)
BY DEF Typed, TypeOK

\* What a handler's step does to req: its new record fits together, the others stay.
Moved(r) == /\ req' \in [Requests -> Handler] /\ ControlOf(req'[r], issued)
            /\ \A q \in Requests : q # r => req'[q] = req[q]

LEMMA MovedTo ==
    ASSUME Typed, NEW r \in Requests, NEW h \in Handler, ControlOf(h, issued), Move(r, h)
    PROVE  Moved(r) /\ req'[r] = h
BY DEF Moved, Typed, TypeOK, Move

LEMMA MovedIdle ==
    ASSUME Typed, NEW r \in Requests, Move(r, NoHandler)
    PROVE  Moved(r) /\ req'[r] = NoHandler
BY IdleHandler, MovedTo

LEMMA LoadIdentityEffect ==
    ASSUME Typed, NEW r \in Requests, NEW k \in TokenKind, LoadIdentity(r, k)
    PROVE  /\ Moved(r) /\ req'[r].pc = "sweep" /\ req'[r].kind = k
           /\ req[r].pc = "idle" /\ starts < MaxStarts /\ starts' = starts + 1
<1> DEFINE h == [NoHandler EXCEPT !.pc = "sweep", !.op = "issue", !.kind = k]
<1>1. h \in Handler /\ h.pc = "sweep" /\ h.op = "issue" /\ h.kind = k
    BY IdleHandler DEF NoHandler, Handler, Label, Op, IssueKind
<1>2. Move(r, h) BY DEF LoadIdentity, Start
<1> HIDE DEF h
<1>3. ControlOf(h, issued) BY <1>1 DEF ControlOf
<1>4. QED BY <1>1, <1>2, <1>3, MovedTo DEF LoadIdentity, Start, At

LEMMA FindTokenEffect ==
    ASSUME Typed, NEW r \in Requests, NEW k \in TokenKind, NEW n \in Num, FindToken(r, k, n)
    PROVE  /\ Moved(r) /\ req'[r].pc = "found" /\ req'[r].kind = k /\ req'[r].num = n /\ req'[r].op = "redeem"
           /\ req[r].pc = "idle" /\ starts < MaxStarts /\ starts' = starts + 1 /\ n \in token[k]
<1> DEFINE h == [NoHandler EXCEPT !.pc = "found", !.op = "redeem", !.kind = k, !.num = n]
<1>1. n \in 0..MaxStarts BY DEF Num
<1>2. n \in token[k] /\ n \in 1..issued[k] BY DEF FindToken, Typed, TypeOK
<1>3. /\ h \in Handler /\ h.pc = "found" /\ h.op = "redeem" /\ h.kind = k /\ h.num = n
    BY <1>1, IdleHandler DEF NoHandler, Handler, Label, Op, IssueKind
<1>4. Move(r, h) BY DEF FindToken, Start
<1> HIDE DEF h
<1>5. ControlOf(h, issued) BY <1>2, <1>3 DEF ControlOf
<1>6. QED BY <1>2, <1>3, <1>4, <1>5, MovedTo DEF FindToken, Start, At

LEMMA VerifyCurrentEffect ==
    ASSUME Typed, NEW r \in Requests, VerifyCurrent(r)
    PROVE  /\ Moved(r) /\ req'[r].pc = "set" /\ req'[r].op = "change"
           /\ req[r].pc = "idle" /\ starts < MaxStarts /\ starts' = starts + 1
<1> DEFINE h == [NoHandler EXCEPT !.pc = "set", !.op = "change"]
<1>1. h \in Handler /\ h.pc = "set" /\ h.op = "change"
    BY IdleHandler DEF NoHandler, Handler, Label, Op
<1>2. Move(r, h) BY DEF VerifyCurrent, Start
<1> HIDE DEF h
<1>3. ControlOf(h, issued) BY <1>1 DEF ControlOf
<1>4. QED BY <1>1, <1>2, <1>3, MovedTo DEF VerifyCurrent, Start, At

LEMMA GetUserEffect ==
    ASSUME Typed, NEW r \in Requests, NEW t \in Tenants, NEW f \in BOOLEAN, GetUser(r, t, f)
    PROVE  /\ Moved(r) /\ req'[r].pc = "count" /\ req'[r].op = "admin"
           /\ req[r].pc = "idle" /\ starts < MaxStarts /\ starts' = starts + 1
<1> DEFINE h == [NoHandler EXCEPT !.pc = "count", !.op = "admin", !.tenant = t, !.force = f]
<1>1. h \in Handler /\ h.pc = "count" /\ h.op = "admin" /\ h.tenant = t
    BY IdleHandler DEF NoHandler, Handler, Label, Op
<1>2. Move(r, h) BY DEF GetUser, Start
<1> HIDE DEF h
<1>3. ControlOf(h, issued) BY <1>1 DEF ControlOf
<1>4. QED BY <1>1, <1>2, <1>3, MovedTo DEF GetUser, Start, At

LEMMA GetLatestEffect ==
    ASSUME Typed, NEW r \in Requests, NEW given, GetLatest(r, given)
    PROVE  /\ Moved(r) /\ req'[r].pc \in {"login", "wrong"} /\ req'[r].kind = "otp" /\ req'[r].num = Latest
           /\ req[r].pc = "idle" /\ starts < MaxStarts /\ starts' = starts + 1
           /\ Latest \in otp.live /\ Latest \in Num /\ otp.attempts[Latest] < MaxAttempts
<1> DEFINE l == IF given = Latest THEN "login" ELSE "wrong"
           h == [NoHandler EXCEPT !.pc = l, !.op = "otp", !.kind = "otp", !.num = Latest]
<1>1. Latest \in otp.live BY LatestLive DEF GetLatest
<1>2. Latest \in 1..issued["otp"] /\ Latest \in Num /\ Latest \in 0..MaxStarts
    BY <1>1 DEF Typed, TypeOK, Num
<1>3. l \in {"login", "wrong"} /\ l \in Label BY DEF Label
<1>4. Move(r, h) BY DEF GetLatest, Start
<1> HIDE DEF l
<1>5. h \in Handler /\ h.pc = l /\ h.kind = "otp" /\ h.num = Latest
    BY <1>2, <1>3, IdleHandler DEF NoHandler, Handler, Op, IssueKind
<1> HIDE DEF h
<1>6. ControlOf(h, issued) BY <1>2, <1>3, <1>5 DEF ControlOf
<1>7. QED BY <1>1, <1>2, <1>3, <1>4, <1>5, <1>6, MovedTo DEF GetLatest, Start, At

\* The steps that change a handler's label and nothing else of it.
LEMMA GotoEffect ==
    ASSUME Typed, NEW r \in Requests, NEW l,
           \/ SetByToken(r) /\ l = "spend"
           \/ AdminSetPassword(r) /\ l = "flag"
           \/ LoggedIn(r) /\ l = "drop"
           \/ SweepTokens(r) /\ l = "insert"
           \/ CountMemberships(r) /\ l = IF Cardinality(Active) > 1 THEN "flag" ELSE "set"
    PROVE  /\ Moved(r) /\ req'[r].pc = l /\ req'[r].kind = req[r].kind /\ req'[r].num = req[r].num
           /\ starts' = starts
<1> DEFINE h == [req[r] EXCEPT !.pc = l]
<1>1. req[r] \in Handler /\ ControlOf(req[r], issued) BY HandlerParts
<1>2. l \in Label BY DEF Label
<1>3. h \in Handler /\ h.pc = l /\ h.op = req[r].op /\ h.kind = req[r].kind /\ h.num = req[r].num
    BY <1>1, <1>2 DEF Handler
<1>4. Move(r, h) BY DEF SetByToken, AdminSetPassword, LoggedIn, SweepTokens, CountMemberships, Goto
<1> HIDE DEF h
<1>5. ControlOf(h, issued)
    BY <1>1, <1>3 DEF ControlOf, SetByToken, AdminSetPassword, LoggedIn, SweepTokens, CountMemberships, At
<1>6. starts' = starts BY DEF SetByToken, AdminSetPassword, LoggedIn, SweepTokens, CountMemberships
<1>7. QED BY <1>3, <1>4, <1>5, <1>6, MovedTo

LEMMA CountMembershipsEffect ==
    ASSUME Typed, NEW r \in Requests, CountMemberships(r)
    PROVE  Moved(r) /\ req'[r].pc \in {"flag", "set"} /\ starts' = starts
<1> DEFINE l == IF Cardinality(Active) > 1 THEN "flag" ELSE "set"
<1>1. l \in {"flag", "set"} OBVIOUS
<1>2. Moved(r) /\ req'[r].pc = l /\ starts' = starts BY GotoEffect
<1> HIDE DEF l
<1>3. QED BY <1>1, <1>2

\* The steps that end their handler.
LEMMA EndEffect ==
    ASSUME Typed, NEW r \in Requests,
           \/ InsertToken(r) \/ DeleteToken(r) \/ ChangePassword(r) \/ SetForcePasswordChange(r)
           \/ IncrementAttempts(r) \/ DeleteOtp(r) \/ Abandon(r)
    PROVE  Moved(r) /\ req'[r] = NoHandler /\ starts' = starts
BY MovedIdle DEF InsertToken, DeleteToken, ChangePassword, SetForcePasswordChange, IncrementAttempts,
                 DeleteOtp, Abandon

\* create_otp has no handler in flight.
LEMMA CreateOtpEffect ==
    ASSUME Typed, NEW r \in Requests, CreateOtp(r)
    PROVE  Moved(r) /\ req' = req /\ req[r].pc = "idle" /\ starts < MaxStarts /\ starts' = starts + 1
BY HandlerParts DEF CreateOtp, Moved, At, Typed, TypeOK

-----------------------------------------------------------------------------
(***************************************************************************)
(* Typing.  Rows: the variables other than req.                            *)
(***************************************************************************)
Rows ==
    /\ pw \in Nat /\ force \in BOOLEAN /\ starts \in 0..MaxStarts
    /\ member \in [Tenants -> {"none", "active", "archived"}]
    /\ token \in [TokenKind -> SUBSET Num] /\ \A k \in TokenKind : token[k] \subseteq 1..issued[k]
    /\ otp \in [live : SUBSET Num, attempts : [Num -> Nat]] /\ otp.live \subseteq 1..issued["otp"]
    /\ issued \in [IssueKind -> 0..MaxStarts]
    /\ redeemed \in [IssueKind -> [Num -> Nat]] /\ kept \in [IssueKind -> [Num -> Nat]]

LEMMA TypedRows == ASSUME Typed PROVE Rows
BY DEF Typed, TypeOK, Rows, IssueKind

Grown == \A k \in IssueKind : issued'[k] >= issued[k]

\* What was issued stays issued.
LEMMA ControlGrows ==
    ASSUME Rows, Rows', Grown, NEW h \in Handler, ControlOf(h, issued)
    PROVE  ControlOf(h, issued')
<1>1. \A k \in IssueKind : 1..issued[k] \subseteq 1..issued'[k]
    BY CredentialsAssumption DEF Rows, Grown
<1>2. QED BY <1>1 DEF ControlOf, IssueKind

LEMMA TypedKept ==
    ASSUME Typed, NEW r \in Requests, Moved(r), Rows', Grown, Counted'
    PROVE  Typed'
<1>1. Rows BY TypedRows
<1>2. \A q \in Requests : ControlOf(req'[q], issued) /\ req'[q] \in Handler BY DEF Moved, Typed
<1>3. \A q \in Requests : ControlOf(req'[q], issued') BY <1>1, <1>2, ControlGrows
<1>4. TypeOK' BY DEF Rows, Moved, TypeOK, IssueKind
<1>5. QED BY <1>3, <1>4 DEF Typed, Rows, ControlOf

\* A step after which its handler issues no token.
LEMMA AnnouncedNext ==
    ASSUME NEW r \in Requests, Moved(r), req'[r].pc \notin {"sweep", "insert"}, NEW k
    PROVE  Announced(k)' = Announced(k) \ {r}
BY DEF Moved, Announced

LEMMA IssuersOf ==
    ASSUME NEW k
    PROVE  /\ Announced(k) \in SUBSET Requests /\ Announced(k)' \in SUBSET Requests
           /\ Inserting(k) \in SUBSET Requests /\ Inserting(k)' \in SUBSET Requests
BY DEF Announced, Inserting

LEMMA CountedKept ==
    ASSUME Typed, \A k \in TokenKind : Announced(k)' \subseteq Announced(k), issued' = issued,
           starts' \in Nat, starts' >= starts
    PROVE  Counted'
<1>1. Rows BY TypedRows
<1>2. ASSUME NEW k \in TokenKind PROVE issued'[k] + Cardinality(Announced(k)') <= starts'
    <2>1. /\ Cardinality(Announced(k)') <= Cardinality(Announced(k))
          /\ Cardinality(Announced(k)') \in Nat /\ Cardinality(Announced(k)) \in Nat
        BY IssuersOf, SizeMonotone
    <2>2. issued[k] + Cardinality(Announced(k)) <= starts BY DEF Typed, Counted
    <2>3. issued[k] \in Nat /\ starts \in Nat BY <1>1 DEF Rows, IssueKind
    <2>4. QED BY <2>1, <2>2, <2>3
<1>3. issued'["otp"] <= starts'
    <2>1. issued["otp"] \in Nat /\ starts \in Nat BY <1>1 DEF Rows, IssueKind
    <2>2. QED BY <2>1 DEF Typed, Counted
<1>4. QED BY <1>2, <1>3 DEF Counted

\* The steps that issue nothing keep Typed, as long as they keep the rows.
LEMMA TypedQuiet ==
    ASSUME Typed, NEW r \in Requests, Moved(r), \A k \in TokenKind : Announced(k)' \subseteq Announced(k),
           issued' = issued, Rows', starts' >= starts
    PROVE  Typed'
<1>1. Rows BY TypedRows
<1>2. Grown BY <1>1 DEF Grown, Rows
<1>3. Counted' BY CountedKept DEF Rows
<1>4. QED BY <1>2, <1>3, TypedKept

\* Loading the identity announces one more token, on a start of its own.
LEMMA LoadIdentityTyped ==
    ASSUME Typed, NEW r \in Requests, NEW k \in TokenKind, LoadIdentity(r, k)
    PROVE  Typed'
<1>1. Rows BY TypedRows
<1>2. /\ Moved(r) /\ req[r].pc = "idle" /\ starts < MaxStarts /\ starts' = starts + 1
    BY LoadIdentityEffect
<1>3. UNCHANGED <<pw, force, member, token, otp, issued, redeemed, kept>> BY DEF LoadIdentity
<1>4. Rows'
    <2>1. starts' \in 0..MaxStarts BY <1>1, <1>2, CredentialsAssumption DEF Rows
    <2>2. QED BY <1>1, <1>3, <2>1 DEF Rows
<1>5. Grown BY <1>1, <1>3 DEF Grown, Rows
<1>6. ASSUME NEW j \in TokenKind PROVE issued'[j] + Cardinality(Announced(j)') <= starts'
    <2>1. issued[j] + Cardinality(Announced(j)) <= starts BY DEF Typed, Counted
    <2>2. issued[j] \in Nat /\ starts \in Nat BY <1>1 DEF Rows, IssueKind
    <2>3. r \notin Announced(j) BY <1>2 DEF Announced
    <2>4. Announced(j)' \subseteq Announced(j) \cup {r} BY <1>2 DEF Announced, Moved
    <2>5. Cardinality(Announced(j)') <= Cardinality(Announced(j) \cup {r}) /\ Cardinality(Announced(j)') \in Nat
        BY <2>4, IssuersOf, SizeMonotone
    <2>6. Cardinality(Announced(j) \cup {r}) = Cardinality(Announced(j)) + 1 /\ Cardinality(Announced(j)) \in Nat
        BY <2>3, IssuersOf, SizeAdded, SizeOf
    <2>7. QED BY <1>2, <1>3, <2>1, <2>2, <2>5, <2>6
<1>7. issued'["otp"] <= starts'
    <2>1. issued["otp"] \in Nat /\ starts \in Nat BY <1>1 DEF Rows, IssueKind
    <2>2. QED BY <1>2, <1>3, <2>1 DEF Typed, Counted
<1>8. Counted' BY <1>6, <1>7 DEF Counted
<1>9. QED BY <1>2, <1>4, <1>5, <1>8, TypedKept

\* Sweeping only takes tokens away.
LEMMA SweepTokensTyped ==
    ASSUME Typed, NEW r \in Requests, SweepTokens(r)
    PROVE  Typed'
<1>1. Rows BY TypedRows
<1>2. Moved(r) /\ req'[r].pc = "insert" /\ req'[r].kind = req[r].kind /\ starts' = starts BY GotoEffect
<1>3. \A k \in TokenKind : Announced(k)' \subseteq Announced(k)
    BY <1>2 DEF Announced, Moved, SweepTokens, At
<1>4. token' = [token EXCEPT ![req[r].kind] = {}] BY DEF SweepTokens
<1>5. token' \in [TokenKind -> SUBSET Num] /\ \A j \in TokenKind : token'[j] \subseteq token[j]
    BY <1>1, <1>4 DEF Rows
<1>6. Rows' BY <1>1, <1>2, <1>5 DEF SweepTokens, Rows
<1>7. issued' = issued /\ starts' >= starts BY <1>1, <1>2 DEF SweepTokens, Rows
<1>8. QED BY <1>2, <1>3, <1>6, <1>7, TypedQuiet

\* Inserting uses the number that was announced.
LEMMA InsertTokenTyped ==
    ASSUME Typed, NEW r \in Requests, InsertToken(r)
    PROVE  Typed'
<1>1. Rows BY TypedRows
<1> DEFINE k == req[r].kind
<1>2. k \in TokenKind /\ r \in Announced(k) BY HandlerParts DEF ControlOf, InsertToken, At, Announced
<1>3. Moved(r) /\ req'[r] = NoHandler /\ starts' = starts BY EndEffect
<1>4. issued' = [issued EXCEPT ![k] = @ + 1] /\ token' = [token EXCEPT ![k] = @ \cup {issued[k] + 1}]
    BY DEF InsertToken
<1>5. req'[r].pc \notin {"sweep", "insert"} BY <1>3 DEF NoHandler
<1> HIDE DEF k
<1>6. \A j \in IssueKind : issued[j] \in Nat BY <1>1 DEF Rows
<1>7. k \in IssueKind /\ k # "otp" /\ starts \in Nat BY <1>1, <1>2 DEF IssueKind, TokenKind, Rows
<1>8. issued[k] + 1 <= starts
    <2>1. issued[k] + Cardinality(Announced(k)) <= starts BY <1>2 DEF Typed, Counted
    <2>2. Cardinality(Announced(k) \ {r}) + 1 = Cardinality(Announced(k)) /\ Cardinality(Announced(k) \ {r}) \in Nat
        BY <1>2, IssuersOf, SizeRemoved, SizeOf
    <2>3. QED BY <1>6, <1>7, <2>1, <2>2
<1>9. issued' \in [IssueKind -> 0..MaxStarts] /\ issued'[k] = issued[k] + 1
      /\ \A j \in IssueKind : j # k => issued'[j] = issued[j]
    BY <1>1, <1>4, <1>7, <1>8, CredentialsAssumption DEF Rows
<1>10. Rows'
    <2>1. issued[k] + 1 \in Num /\ issued[k] + 1 \in 1..issued'[k]
        BY <1>1, <1>6, <1>7, <1>8, <1>9, CredentialsAssumption DEF Num, Rows
    <2>2. 1..issued[k] \subseteq 1..issued'[k] BY <1>6, <1>7, <1>9
    <2>3. token' \in [TokenKind -> SUBSET Num] BY <1>1, <1>2, <1>4, <2>1 DEF Rows
    <2>4. ASSUME NEW j \in TokenKind PROVE token'[j] \subseteq 1..issued'[j]
        <3>1. CASE j = k
            <4>1. token'[j] = token[k] \cup {issued[k] + 1} /\ token[k] \subseteq 1..issued[k]
                BY <1>1, <1>2, <1>4, <3>1 DEF Rows
            <4>2. QED BY <2>1, <2>2, <3>1, <4>1
        <3>2. CASE j # k
            <4>1. token'[j] = token[j] /\ issued'[j] = issued[j] BY <1>1, <1>4, <1>9, <3>2 DEF Rows, IssueKind
            <4>2. QED BY <1>1, <4>1 DEF Rows
        <3>3. QED BY <3>1, <3>2
    <2>5. issued'["otp"] = issued["otp"] BY <1>7, <1>9 DEF IssueKind
    <2>6. QED BY <1>1, <1>9, <2>3, <2>4, <2>5 DEF InsertToken, Rows
<1>11. Grown BY <1>6, <1>9 DEF Grown
<1>12. ASSUME NEW j \in TokenKind PROVE issued'[j] + Cardinality(Announced(j)') <= starts'
    <2>1. issued[j] + Cardinality(Announced(j)) <= starts BY DEF Typed, Counted
    <2>2. Announced(j)' = Announced(j) \ {r} BY <1>3, <1>5, AnnouncedNext
    <2>3. CASE j = k
        <3>1. Cardinality(Announced(k) \ {r}) + 1 = Cardinality(Announced(k)) /\ Cardinality(Announced(k) \ {r}) \in Nat
            BY <1>2, IssuersOf, SizeRemoved, SizeOf
        <3>2. QED BY <1>3, <1>6, <1>7, <1>9, <2>1, <2>2, <2>3, <3>1
    <2>4. CASE j # k
        <3>1. r \notin Announced(j) BY <2>4 DEF Announced, k
        <3>2. Announced(j)' = Announced(j) /\ issued'[j] = issued[j] BY <1>9, <2>2, <2>4, <3>1 DEF IssueKind
        <3>3. QED BY <1>3, <2>1, <3>2
    <2>5. QED BY <2>3, <2>4
<1>13. Counted' BY <1>3, <1>7, <1>9, <1>12 DEF Counted, Typed, IssueKind
<1>14. QED BY <1>3, <1>10, <1>11, <1>13, TypedKept

\* A one-time code takes a start of its own.
LEMMA CreateOtpTyped ==
    ASSUME Typed, NEW r \in Requests, CreateOtp(r)
    PROVE  Typed'
<1>1. Rows BY TypedRows
<1>2. Moved(r) /\ req' = req /\ starts < MaxStarts /\ starts' = starts + 1 BY CreateOtpEffect
<1>3. issued' = [issued EXCEPT !["otp"] = @ + 1] /\ otp' = [otp EXCEPT !.live = @ \cup {issued["otp"] + 1}]
    BY DEF CreateOtp
<1>4. \A j \in IssueKind : issued[j] \in Nat BY <1>1 DEF Rows
<1>5. starts \in Nat /\ issued["otp"] <= starts BY <1>1 DEF Rows, Typed, Counted
<1>6. issued["otp"] \in Nat /\ issued["otp"] + 1 <= MaxStarts
    BY <1>2, <1>4, <1>5, CredentialsAssumption DEF IssueKind
<1>7. issued' \in [IssueKind -> 0..MaxStarts] /\ issued'["otp"] = issued["otp"] + 1
      /\ \A j \in TokenKind : issued'[j] = issued[j]
    BY <1>1, <1>3, <1>6, CredentialsAssumption DEF Rows, IssueKind, TokenKind
<1>8. Rows'
    <2>1. issued["otp"] + 1 \in Num /\ issued["otp"] + 1 \in 1..issued'["otp"]
        BY <1>6, <1>7, CredentialsAssumption DEF Num
    <2>2. 1..issued["otp"] \subseteq 1..issued'["otp"] BY <1>6, <1>7
    <2>3. otp' \in [live : SUBSET Num, attempts : [Num -> Nat]] /\ otp'.live = otp.live \cup {issued["otp"] + 1}
        BY <1>1, <1>3, <2>1 DEF Rows
    <2>4. otp'.live \subseteq 1..issued'["otp"] BY <1>1, <2>1, <2>2, <2>3 DEF Rows
    <2>5. starts' \in 0..MaxStarts BY <1>2, <1>5, CredentialsAssumption
    <2>6. QED BY <1>1, <1>7, <2>3, <2>4, <2>5 DEF CreateOtp, Rows
<1>9. Grown BY <1>4, <1>6, <1>7 DEF Grown, IssueKind
<1>10. ASSUME NEW j \in TokenKind PROVE issued'[j] + Cardinality(Announced(j)') <= starts'
    <2>1. issued[j] + Cardinality(Announced(j)) <= starts BY DEF Typed, Counted
    <2>2. Announced(j)' = Announced(j) BY <1>2 DEF Announced
    <2>3. Cardinality(Announced(j)) \in Nat /\ issued[j] \in Nat BY <1>4, IssuersOf, SizeOf DEF IssueKind
    <2>4. QED BY <1>2, <1>5, <1>7, <2>1, <2>2, <2>3
<1>11. Counted' BY <1>2, <1>5, <1>6, <1>7, <1>10 DEF Counted
<1>12. QED BY <1>2, <1>8, <1>9, <1>11, TypedKept

\* What a handler that has found a token or a code carries.
LEMMA UserOf ==
    ASSUME Typed, NEW r \in Requests, req[r].pc \in {"found", "spend", "login", "drop"}
    PROVE  req[r].kind \in IssueKind /\ req[r].num \in Num /\ req[r].num \in 1..issued[req[r].kind]
<1>1. Rows /\ ControlOf(req[r], issued) BY TypedRows, HandlerParts
<1>2. req[r].kind \in IssueKind /\ req[r].num \in 1..issued[req[r].kind] BY <1>1 DEF ControlOf, IssueKind
<1>3. issued[req[r].kind] \in 0..MaxStarts BY <1>1, <1>2 DEF Rows
<1>4. QED BY <1>2, <1>3, CredentialsAssumption DEF Num

\* One more in a table of counts.
LEMMA OneMore ==
    ASSUME NEW f \in [IssueKind -> [Num -> Nat]], NEW i \in IssueKind, NEW m \in Num,
           NEW g, g = [f EXCEPT ![i][m] = @ + 1]
    PROVE  /\ g \in [IssueKind -> [Num -> Nat]] /\ g[i][m] = f[i][m] + 1
           /\ \A k \in IssueKind, n \in Num : (k # i \/ n # m) => g[k][n] = f[k][n]
<1>1. f[i] \in [Num -> Nat] /\ f[i][m] \in Nat OBVIOUS
<1>2. [f[i] EXCEPT ![m] = @ + 1] \in [Num -> Nat] BY <1>1
<1>3. g = [f EXCEPT ![i] = [f[i] EXCEPT ![m] = @ + 1]] OBVIOUS
<1>4. g \in [IssueKind -> [Num -> Nat]] BY <1>2, <1>3
<1>5. QED BY <1>1, <1>3, <1>4

\* The counts of the steps that use a token or a code, or end after it.
LEMMA CountsTyped ==
    ASSUME Typed, NEW r \in Requests, Act(r)
    PROVE  redeemed' \in [IssueKind -> [Num -> Nat]] /\ kept' \in [IssueKind -> [Num -> Nat]]
<1>1. Rows BY TypedRows
<1>2. CASE SetByToken(r) \/ LoggedIn(r)
    <2>1. req[r].kind \in IssueKind /\ req[r].num \in Num BY <1>2, UserOf DEF SetByToken, LoggedIn, At
    <2>2. redeemed' = [redeemed EXCEPT ![req[r].kind][req[r].num] = @ + 1] /\ kept' = kept
        BY <1>2 DEF SetByToken, LoggedIn, Use
    <2>3. QED BY <1>1, <2>1, <2>2, OneMore DEF Rows
<1>3. CASE Abandon(r) /\ req[r].pc \in {"spend", "drop"}
    <2>1. req[r].kind \in IssueKind /\ req[r].num \in Num BY <1>3, UserOf
    <2>2. kept' = [kept EXCEPT ![req[r].kind][req[r].num] = @ + 1] /\ redeemed' = redeemed
        BY <1>3 DEF Abandon
    <2>3. QED BY <1>1, <2>1, <2>2, OneMore DEF Rows
<1>4. CASE ~SetByToken(r) /\ ~LoggedIn(r) /\ ~(Abandon(r) /\ req[r].pc \in {"spend", "drop"})
    <2>1. redeemed' = redeemed /\ kept' = kept
        BY <1>4 DEF Act, LoadIdentity, SweepTokens, InsertToken, FindToken, DeleteToken, VerifyCurrent, ChangePassword,
                    GetUser, CountMemberships, AdminSetPassword, SetForcePasswordChange, CreateOtp, GetLatest,
                    IncrementAttempts, DeleteOtp, Abandon
    <2>2. QED BY <1>1, <2>1 DEF Rows
<1>5. QED BY <1>2, <1>3, <1>4

\* The steps of a handler that change at most the password, the force flag and req.
LEMMA PasswordTyped ==
    ASSUME Typed, NEW r \in Requests,
           \/ SetByToken(r) \/ VerifyCurrent(r) \/ ChangePassword(r)
           \/ \E t \in Tenants, f \in BOOLEAN : GetUser(r, t, f)
           \/ CountMemberships(r) \/ AdminSetPassword(r) \/ SetForcePasswordChange(r)
           \/ \E k \in TokenKind, n \in Num : FindToken(r, k, n)
           \/ \E given \in 0..issued["otp"] : GetLatest(r, given)
           \/ LoggedIn(r) \/ Abandon(r)
    PROVE  Typed'
<1>1. Rows BY TypedRows
<1>2. UNCHANGED <<member, token, otp, issued>>
    BY DEF SetByToken, VerifyCurrent, ChangePassword, GetUser, CountMemberships, AdminSetPassword,
           SetForcePasswordChange, FindToken, GetLatest, LoggedIn, Abandon
<1>3. pw' \in Nat /\ force' \in BOOLEAN
    <2>1. CASE SetByToken(r) \/ ChangePassword(r) \/ AdminSetPassword(r)
        <3>1. pw' = pw + 1 /\ force' = FALSE
            BY <2>1 DEF SetByToken, ChangePassword, AdminSetPassword, WritePassword
        <3>2. pw' \in Nat BY <1>1, <3>1 DEF Rows
        <3>3. QED BY <3>1, <3>2
    <2>2. CASE SetForcePasswordChange(r)
        <3>1. req[r].force \in BOOLEAN BY HandlerParts DEF Handler
        <3>2. QED BY <1>1, <2>2, <3>1 DEF SetForcePasswordChange, Rows
    <2>3. CASE pw' = pw /\ force' = force BY <1>1, <2>3 DEF Rows
    <2>4. QED BY <2>1, <2>2, <2>3 DEF VerifyCurrent, GetUser, CountMemberships, FindToken, GetLatest, LoggedIn, Abandon
<1>4. Moved(r) /\ req'[r].pc \notin {"sweep", "insert"} /\ (starts' = starts \/ (starts < MaxStarts /\ starts' = starts + 1))
    <2>1. CASE SetByToken(r) \/ AdminSetPassword(r) \/ LoggedIn(r)
        <3>1. CASE SetByToken(r) BY <3>1, GotoEffect
        <3>2. CASE AdminSetPassword(r) BY <3>2, GotoEffect
        <3>3. CASE LoggedIn(r) BY <3>3, GotoEffect
        <3>4. QED BY <2>1, <3>1, <3>2, <3>3
    <2>2. CASE ChangePassword(r) \/ SetForcePasswordChange(r) \/ Abandon(r)
        BY <2>2, EndEffect DEF NoHandler
    <2>3. CASE VerifyCurrent(r) BY <2>3, VerifyCurrentEffect
    <2>4. CASE \E t \in Tenants, f \in BOOLEAN : GetUser(r, t, f) BY <2>4, GetUserEffect
    <2>5. CASE CountMemberships(r) BY <2>5, CountMembershipsEffect
    <2>6. CASE \E k \in TokenKind, n \in Num : FindToken(r, k, n) BY <2>6, FindTokenEffect
    <2>7. CASE \E given \in 0..issued["otp"] : GetLatest(r, given) BY <2>7, GetLatestEffect
    <2>8. QED BY <2>1, <2>2, <2>3, <2>4, <2>5, <2>6, <2>7
<1>5. starts' \in 0..MaxStarts /\ starts' >= starts BY <1>1, <1>4, CredentialsAssumption DEF Rows
<1>6. redeemed' \in [IssueKind -> [Num -> Nat]] /\ kept' \in [IssueKind -> [Num -> Nat]]
    BY CountsTyped DEF Act
<1>7. Rows' BY <1>1, <1>2, <1>3, <1>5, <1>6 DEF Rows
<1>8. \A k \in TokenKind : Announced(k)' \subseteq Announced(k) BY <1>4, AnnouncedNext
<1>9. QED BY <1>2, <1>4, <1>5, <1>7, <1>8, TypedQuiet

\* The row of a token or a code goes, or its attempts are counted.
LEMMA DeleteTyped ==
    ASSUME Typed, NEW r \in Requests, DeleteToken(r) \/ DeleteOtp(r) \/ IncrementAttempts(r)
    PROVE  Typed'
<1>1. Rows /\ ControlOf(req[r], issued) BY TypedRows, HandlerParts
<1>2. Moved(r) /\ req'[r] = NoHandler /\ starts' = starts BY EndEffect
<1>3. issued' = issued /\ UNCHANGED <<pw, force, member, redeemed, kept>>
    BY DEF DeleteToken, DeleteOtp, IncrementAttempts
<1> SUFFICES Rows'
    <2>1. req'[r].pc \notin {"sweep", "insert"} BY <1>2 DEF NoHandler
    <2>2. starts' >= starts BY <1>1, <1>2 DEF Rows
    <2>3. \A k \in TokenKind : Announced(k)' \subseteq Announced(k) BY <1>2, <2>1, AnnouncedNext
    <2>4. QED BY <1>2, <1>3, <2>2, <2>3, TypedQuiet
<1>4. CASE DeleteToken(r)
    <2>1. token' = [token EXCEPT ![req[r].kind] = @ \ {req[r].num}] BY <1>4 DEF DeleteToken
    <2>2. token' \in [TokenKind -> SUBSET Num] /\ \A j \in TokenKind : token'[j] \subseteq token[j]
        BY <1>1, <2>1 DEF Rows
    <2>3. QED BY <1>1, <1>2, <1>3, <1>4, <2>2 DEF DeleteToken, Rows
<1>5. CASE DeleteOtp(r)
    <2>1. otp' = [otp EXCEPT !.live = @ \ {req[r].num}] BY <1>5 DEF DeleteOtp
    <2>2. otp' \in [live : SUBSET Num, attempts : [Num -> Nat]] /\ otp'.live \subseteq otp.live
        BY <1>1, <2>1 DEF Rows
    <2>3. QED BY <1>1, <1>2, <1>3, <1>5, <2>2 DEF DeleteOtp, Rows
<1>6. CASE IncrementAttempts(r)
    <2> DEFINE n == req[r].num
               d == IF n \in otp.live THEN 1 ELSE 0
    <2>1. n \in Num
        BY <1>1, <1>6, CredentialsAssumption DEF ControlOf, IncrementAttempts, At, Num, Rows, IssueKind
    <2>2. otp' = [otp EXCEPT !.attempts[n] = @ + d] /\ d \in Nat BY <1>6 DEF IncrementAttempts
    <2> HIDE DEF n, d
    <2>3. [otp.attempts EXCEPT ![n] = @ + d] \in [Num -> Nat] BY <1>1, <2>1, <2>2 DEF Rows
    <2>4. otp' = [otp EXCEPT !.attempts = [otp.attempts EXCEPT ![n] = @ + d]] BY <1>1, <2>2 DEF Rows
    <2>5. otp' \in [live : SUBSET Num, attempts : [Num -> Nat]] /\ otp'.live = otp.live
        <3> DEFINE a == [otp.attempts EXCEPT ![n] = @ + d]
        <3> HIDE DEF a
        <3> QED BY <1>1, <2>3, <2>4 DEF Rows, a
    <2>6. QED BY <1>1, <1>2, <1>3, <1>6, <2>5 DEF IncrementAttempts, Rows
<1>7. QED BY <1>4, <1>5, <1>6

\* The world around the handlers.
LEMMA WorldTyped ==
    ASSUME Typed, World
    PROVE  Typed'
<1>1. Rows BY TypedRows
<1>2. req' = req /\ issued' = issued /\ UNCHANGED <<pw, force, starts, redeemed, kept>>
    BY DEF World, Expire, Join, Archive
<1>3. \A k : Announced(k)' = Announced(k) BY <1>2 DEF Announced
<1>4. Counted' BY <1>2, <1>3 DEF Typed, Counted
<1>5. Rows'
    <2>1. CASE \E t \in Tenants : Join(t) \/ Archive(t) BY <1>1, <1>2, <2>1 DEF Join, Archive, Rows
    <2>2. CASE Expire
        <3>1. CASE \E k \in TokenKind : \E n \in token[k] : token' = [token EXCEPT ![k] = @ \ {n}] /\ UNCHANGED otp
            <4>1. PICK k \in TokenKind : \E n : token' = [token EXCEPT ![k] = @ \ {n}] BY <3>1
            <4>2. token' \in [TokenKind -> SUBSET Num] /\ \A j \in TokenKind : token'[j] \subseteq token[j]
                BY <1>1, <4>1 DEF Rows
            <4>3. QED BY <1>1, <1>2, <2>2, <3>1, <4>2 DEF Expire, Rows
        <3>2. CASE \E n \in otp.live : otp' = [otp EXCEPT !.live = @ \ {n}] /\ UNCHANGED token
            <4>1. PICK n \in otp.live : otp' = [otp EXCEPT !.live = @ \ {n}] BY <3>2
            <4>2. otp' \in [live : SUBSET Num, attempts : [Num -> Nat]] /\ otp'.live \subseteq otp.live
                BY <1>1, <4>1 DEF Rows
            <4>3. QED BY <1>1, <1>2, <2>2, <3>2, <4>2 DEF Expire, Rows
        <3>3. QED BY <2>2, <3>1, <3>2 DEF Expire
    <2>3. QED BY <2>1, <2>2 DEF World
<1>6. TypeOK' BY <1>2, <1>5 DEF TypeOK, Rows, IssueKind, Typed
<1>7. QED BY <1>2, <1>4, <1>5, <1>6 DEF Typed, Rows, ControlOf

LEMMA TypedStep == Typed /\ [Next]_vars => Typed'
<1> SUFFICES ASSUME Typed, [Next]_vars PROVE Typed' OBVIOUS
<1>1. ASSUME NEW r \in Requests, Act(r) PROVE Typed'
    BY <1>1, LoadIdentityTyped, SweepTokensTyped, InsertTokenTyped, CreateOtpTyped, PasswordTyped, DeleteTyped DEF Act
<1>2. CASE UNCHANGED vars
    BY <1>2 DEF vars, Typed, TypeOK, At, ControlOf, Counted, Announced
<1>3. QED BY <1>1, <1>2, WorldTyped, NextActs

LEMMA TypedInit == Init => Typed
<1> SUFFICES ASSUME Init PROVE Typed OBVIOUS
<1>1. req \in [Requests -> Handler] /\ \A r \in Requests : ControlOf(req[r], issued) BY IdleHandler DEF Init
<1>2. \A k : Announced(k) = {} BY DEF Init, Announced, NoHandler
<1>3. Cardinality({}) = 0 BY FS_EmptySet
<1>4. Rows
    <2>1. 0 \in 0..MaxStarts BY CredentialsAssumption
    <2>2. otp \in [live : SUBSET Num, attempts : [Num -> Nat]] /\ otp.live = {} BY DEF Init
    <2>3. token \in [TokenKind -> SUBSET Num] /\ \A k \in TokenKind : token[k] = {} BY DEF Init
    <2>4. issued \in [IssueKind -> 0..MaxStarts] BY <2>1 DEF Init, IssueKind
    <2>5. member \in [Tenants -> {"none", "active", "archived"}] BY DEF Init
    <2>6. redeemed \in [IssueKind -> [Num -> Nat]] /\ kept \in [IssueKind -> [Num -> Nat]] BY DEF Init
    <2>7. QED BY <2>1, <2>2, <2>3, <2>4, <2>5, <2>6 DEF Init, Rows
<1>5. Counted BY <1>2, <1>3 DEF Init, Counted, IssueKind
<1>6. TypeOK BY <1>1, <1>4 DEF Rows, TypeOK, IssueKind
<1>7. QED BY <1>1, <1>4, <1>5, <1>6 DEF Typed, Rows, ControlOf

\* In every state of the credentials the tables hold only what was issued, and never more than was
\* started (services/auth.rs, repo/otp.rs).
THEOREM TypeCorrect == Spec => []TypeOK
<1>1. Typed => TypeOK BY DEF Typed
<1>2. QED BY <1>1, TypedInit, TypedStep, PTL DEF Spec

-----------------------------------------------------------------------------
(***************************************************************************)
(* Single use.  What can be found only shrinks, but for a number not yet   *)
(* issued, so a use is by a handler that found the token before it went.   *)
(***************************************************************************)
UserLabel == {"found", "spend", "login", "drop"}

LEMMA UsersOf ==
    ASSUME NEW k, NEW n
    PROVE  /\ Finding(k, n) \in SUBSET Requests /\ Finding(k, n)' \in SUBSET Requests
           /\ Spending(k, n) \in SUBSET Requests /\ Spending(k, n)' \in SUBSET Requests
           /\ Failing(n) \in SUBSET Requests /\ Failing(n)' \in SUBSET Requests
BY DEF Finding, Spending, Failing

\* Handlers before and after the use of one token are different handlers.
LEMMA UsersFit ==
    ASSUME NEW k, NEW n
    PROVE  Cardinality(Finding(k, n)') + Cardinality(Spending(k, n)') <= Cardinality(Requests)
<1> DEFINE S == Finding(k, n)'
           T == Spending(k, n)'
<1>1. S \in SUBSET Requests /\ T \in SUBSET Requests BY UsersOf
<1>2. S \cap T = {} BY DEF Finding, Spending
<1> HIDE DEF S, T
<1>3. IsFiniteSet(S) /\ IsFiniteSet(T) BY <1>1, SizeOf
<1>4. Cardinality(S \cup T) = Cardinality(S) + Cardinality(T) - Cardinality(S \cap T) BY <1>3, FS_Union
<1>5. Cardinality(S \cap T) = 0 BY <1>2, FS_EmptySet
<1>6. Cardinality(S \cup T) <= Cardinality(Requests) /\ Cardinality(S) \in Nat /\ Cardinality(T) \in Nat
    BY <1>1, SizeOf
<1>7. QED BY <1>4, <1>5, <1>6 DEF S, T

\* The numbers UseOf compares.
LEMMA UseNumbers ==
    ASSUME Typed, Typed', NEW k \in IssueKind, NEW n \in Num
    PROVE  /\ redeemed[k][n] \in Nat /\ kept[k][n] \in Nat /\ redeemed'[k][n] \in Nat /\ kept'[k][n] \in Nat
           /\ Cardinality(Finding(k, n)) \in Nat /\ Cardinality(Finding(k, n)') \in Nat
           /\ Cardinality(Spending(k, n)) \in Nat /\ Cardinality(Spending(k, n)') \in Nat
           /\ issued[k] \in Nat /\ issued'[k] \in Nat /\ Cardinality(Requests) \in Nat
<1>1. /\ redeemed \in [IssueKind -> [Num -> Nat]] /\ kept \in [IssueKind -> [Num -> Nat]]
      /\ issued \in [IssueKind -> 0..MaxStarts]
    BY DEF Typed, TypeOK
<1>2. /\ redeemed' \in [IssueKind -> [Num -> Nat]] /\ kept' \in [IssueKind -> [Num -> Nat]]
      /\ issued' \in [IssueKind -> 0..MaxStarts]
    BY DEF Typed, TypeOK
<1>3. redeemed[k][n] \in Nat /\ kept[k][n] \in Nat /\ issued[k] \in Nat BY <1>1
<1>4. redeemed'[k][n] \in Nat /\ kept'[k][n] \in Nat /\ issued'[k] \in Nat BY <1>2
<1>5. Cardinality(Finding(k, n)) \in Nat /\ Cardinality(Spending(k, n)) \in Nat BY UsersOf, SizeOf
<1>6. Cardinality(Finding(k, n)') \in Nat /\ Cardinality(Spending(k, n)') \in Nat BY UsersOf, SizeOf
<1>7. QED BY <1>3, <1>4, <1>5, <1>6, RequestsSize

\* A step that does not use the token, and ends no handler after its use without keeping or removing it.
LEMMA UseKept ==
    ASSUME Typed, Typed', Uses, NEW k \in IssueKind, NEW n \in Num,
           redeemed'[k][n] = redeemed[k][n], kept'[k][n] >= kept[k][n],
           issued'[k] >= issued[k], Finding(k, n)' \subseteq Finding(k, n),
           n \in Live(k)' /\ n \in 1..issued[k] =>
               /\ n \in Live(k)
               /\ kept'[k][n] + Cardinality(Spending(k, n)') >= kept[k][n] + Cardinality(Spending(k, n))
    PROVE  UseOf(k, n)'
<1>1. UseOf(k, n) BY DEF Uses
<1>2. n \notin 1..issued'[k] => redeemed'[k][n] = 0 BY <1>1, UseNumbers DEF UseOf
<1>3. n \in Live(k)' => redeemed'[k][n] <= kept'[k][n] + Cardinality(Spending(k, n)')
    BY <1>1, UseNumbers DEF UseOf
<1>4. Cardinality(Finding(k, n)') <= Cardinality(Finding(k, n)) BY UsersOf, SizeMonotone
<1>5. redeemed'[k][n] + Cardinality(Finding(k, n)') <= kept'[k][n] + Cardinality(Requests)
    BY <1>1, <1>4, UseNumbers DEF UseOf
<1>6. QED BY <1>2, <1>3, <1>5 DEF UseOf

\* find_token and get_latest: who finds a token finds it live.
LEMMA UseFound ==
    ASSUME Typed, Typed', Uses, NEW k \in IssueKind, NEW n \in Num, n \in Live(k),
           UNCHANGED <<token, otp, issued, redeemed, kept>>, Spending(k, n)' = Spending(k, n)
    PROVE  UseOf(k, n)'
<1>1. UseOf(k, n) /\ Live(k)' = Live(k) BY DEF Uses, Live
<1>2. redeemed'[k][n] <= kept'[k][n] + Cardinality(Spending(k, n)') BY <1>1 DEF UseOf
<1>3. redeemed'[k][n] + Cardinality(Finding(k, n)') <= kept'[k][n] + Cardinality(Requests)
    BY <1>2, UsersFit, UseNumbers
<1>4. QED BY <1>1, <1>2, <1>3 DEF UseOf

\* A use: the handler is counted, and is now one that has yet to delete.
LEMMA UseMade ==
    ASSUME Typed, Typed', Uses, NEW k \in IssueKind, NEW n \in Num, n \in 1..issued[k],
           UNCHANGED <<token, otp, issued, kept>>, redeemed'[k][n] = redeemed[k][n] + 1,
           NEW r \in Finding(k, n),
           Finding(k, n)' = Finding(k, n) \ {r}, Spending(k, n)' = Spending(k, n) \cup {r}
    PROVE  UseOf(k, n)'
<1>1. UseOf(k, n) /\ Live(k)' = Live(k) BY DEF Uses, Live
<1>2. Cardinality(Finding(k, n)') + 1 = Cardinality(Finding(k, n)) BY UsersOf, SizeRemoved
<1>3. r \in Requests /\ r \notin Spending(k, n) BY DEF Finding, Spending
<1>4. Cardinality(Spending(k, n)') = Cardinality(Spending(k, n)) + 1 BY <1>3, UsersOf, SizeAdded
<1>5. n \in Live(k)' => redeemed'[k][n] <= kept'[k][n] + Cardinality(Spending(k, n)')
    BY <1>1, <1>4, UseNumbers DEF UseOf
<1>6. redeemed'[k][n] + Cardinality(Finding(k, n)') <= kept'[k][n] + Cardinality(Requests)
    <2>1. redeemed[k][n] + Cardinality(Finding(k, n)) <= kept[k][n] + Cardinality(Requests) BY <1>1 DEF UseOf
    <2>2. kept'[k][n] = kept[k][n] OBVIOUS
    <2>3. /\ redeemed[k][n] \in Nat /\ kept[k][n] \in Nat /\ Cardinality(Requests) \in Nat
          /\ Cardinality(Finding(k, n)) \in Nat /\ Cardinality(Finding(k, n)') \in Nat
        BY UseNumbers
    <2> DEFINE f == Cardinality(Finding(k, n)')
    <2> HIDE DEF f
    <2>4. redeemed[k][n] + 1 + f <= kept[k][n] + Cardinality(Requests) BY <1>2, <2>1, <2>3 DEF f
    <2>5. QED BY <2>2, <2>4 DEF f
<1>7. n \notin 1..issued'[k] => redeemed'[k][n] = 0 OBVIOUS
<1>8. QED BY <1>5, <1>6, <1>7 DEF UseOf

\* The users of a token that is not the handler's, before and after its step.
LEMMA OthersUse ==
    ASSUME NEW r \in Requests, Moved(r), NEW k, NEW n,
           req[r].pc \in UserLabel => ~(req[r].kind = k /\ req[r].num = n),
           req'[r].pc \in UserLabel => ~(req'[r].kind = k /\ req'[r].num = n)
    PROVE  Finding(k, n)' = Finding(k, n) /\ Spending(k, n)' = Spending(k, n)
BY DEF Moved, UserLabel, Finding, Spending

LEMMA LiveParts ==
    /\ \A k \in TokenKind : Live(k) = token[k] /\ Live(k)' = token'[k]
    /\ Live("otp") = otp.live /\ Live("otp")' = otp'.live
BY DEF Live, TokenKind

\* FindToken and GetLatest.
LEMMA FindUses ==
    ASSUME Typed, Typed', Uses, NEW r \in Requests,
           \/ \E k \in TokenKind, n \in Num : FindToken(r, k, n)
           \/ \E given \in 0..issued["otp"] : GetLatest(r, given)
    PROVE  Uses'
<1>1. UNCHANGED <<token, otp, issued, redeemed, kept>> BY DEF FindToken, GetLatest
<1>2. PICK i \in IssueKind, m \in Num :
          /\ Moved(r) /\ req[r].pc = "idle" /\ req'[r].kind = i /\ req'[r].num = m
          /\ req'[r].pc \in {"found", "login", "wrong"} /\ m \in Live(i)
    <2>1. ASSUME NEW k \in TokenKind, NEW n \in Num, FindToken(r, k, n)
          PROVE  /\ Moved(r) /\ req[r].pc = "idle" /\ req'[r].kind = k /\ req'[r].num = n
                 /\ req'[r].pc \in {"found", "login", "wrong"} /\ n \in Live(k)
        BY <2>1, FindTokenEffect, LiveParts
    <2>2. ASSUME NEW given, GetLatest(r, given)
          PROVE  /\ Moved(r) /\ req[r].pc = "idle" /\ req'[r].kind = "otp" /\ req'[r].num = Latest
                 /\ req'[r].pc \in {"found", "login", "wrong"} /\ Latest \in Live("otp") /\ Latest \in Num
        BY <2>2, GetLatestEffect, LiveParts
    <2>3. QED BY <2>1, <2>2 DEF IssueKind
<1>3. ASSUME NEW k \in IssueKind, NEW n \in Num PROVE UseOf(k, n)'
    <2>1. CASE k = i /\ n = m
        <3>1. Spending(k, n)' = Spending(k, n) BY <1>2 DEF Spending, Moved
        <3>2. QED BY <1>1, <1>2, <2>1, <3>1, UseFound
    <2>2. CASE ~(k = i /\ n = m)
        <3>1. Finding(k, n)' = Finding(k, n) /\ Spending(k, n)' = Spending(k, n)
            BY <1>2, <2>2, OthersUse DEF UserLabel
        <3>2. Live(k)' = Live(k) BY <1>1 DEF Live
        <3>3. QED BY <1>1, <3>1, <3>2, UseKept, UseNumbers
    <2>3. QED BY <2>1, <2>2
<1>4. QED BY <1>3 DEF Uses

\* SetByToken and LoggedIn.
LEMMA MakeUses ==
    ASSUME Typed, Typed', Uses, NEW r \in Requests, SetByToken(r) \/ LoggedIn(r)
    PROVE  Uses'
<1> DEFINE i == req[r].kind
           m == req[r].num
<1>1. UNCHANGED <<token, otp, issued, kept>> /\ redeemed' = [redeemed EXCEPT ![i][m] = @ + 1]
    BY DEF SetByToken, LoggedIn, Use
<1>2. req[r].pc \in {"found", "login"} BY DEF SetByToken, LoggedIn, At
<1>3. i \in IssueKind /\ m \in Num /\ m \in 1..issued[i] BY <1>2, UserOf
<1>4. Moved(r) /\ req'[r].pc \in {"spend", "drop"} /\ req'[r].kind = i /\ req'[r].num = m
    <2>1. CASE SetByToken(r) BY <2>1, GotoEffect
    <2>2. CASE LoggedIn(r) BY <2>2, GotoEffect
    <2>3. QED BY <2>1, <2>2
<1>5. ASSUME NEW k, NEW n, k = i, n = m
      PROVE  /\ r \in Finding(k, n)
             /\ Finding(k, n)' = Finding(k, n) \ {r} /\ Spending(k, n)' = Spending(k, n) \cup {r}
    BY <1>2, <1>4, <1>5 DEF Finding, Spending, Moved
<1>6. ASSUME NEW k \in IssueKind, NEW n \in Num, k # i \/ n # m
      PROVE  Finding(k, n)' = Finding(k, n) /\ Spending(k, n)' = Spending(k, n)
    BY <1>4, <1>6, OthersUse
<1> HIDE DEF i, m
<1>7. redeemed \in [IssueKind -> [Num -> Nat]] BY TypedRows DEF Rows
<1>8. ASSUME NEW k \in IssueKind, NEW n \in Num PROVE UseOf(k, n)'
    <2>1. CASE k = i /\ n = m
        <3>1. redeemed'[k][n] = redeemed[k][n] + 1 BY <1>1, <1>3, <1>7, <2>1, OneMore
        <3>2. n \in 1..issued[k] BY <1>3, <2>1
        <3>3. /\ r \in Finding(k, n)
              /\ Finding(k, n)' = Finding(k, n) \ {r} /\ Spending(k, n)' = Spending(k, n) \cup {r}
            BY <1>5, <2>1
        <3>4. QED BY <1>1, <3>1, <3>2, <3>3, UseMade
    <2>2. CASE k # i \/ n # m
        <3>1. redeemed'[k][n] = redeemed[k][n] BY <1>1, <1>3, <1>7, <2>2, OneMore
        <3>2. Live(k)' = Live(k) BY <1>1 DEF Live
        <3>3. QED BY <1>1, <1>6, <2>2, <3>1, <3>2, UseKept, UseNumbers
    <2>3. QED BY <2>1, <2>2
<1>9. QED BY <1>8 DEF Uses

\* DeleteToken and DeleteOtp: the handler ends, and what it used is gone.
LEMMA DeleteUses ==
    ASSUME Typed, Typed', Uses, NEW r \in Requests, DeleteToken(r) \/ DeleteOtp(r)
    PROVE  Uses'
<1> DEFINE i == req[r].kind
           m == req[r].num
<1>1. UNCHANGED <<issued, redeemed, kept>> BY DEF DeleteToken, DeleteOtp
<1>2. Rows /\ ControlOf(req[r], issued) /\ req[r].pc \in {"spend", "drop"}
    BY TypedRows, HandlerParts DEF DeleteToken, DeleteOtp, At
<1>3. i \in IssueKind /\ m \in Num BY <1>2, UserOf
<1>4. Moved(r) /\ req'[r].pc = "idle" BY EndEffect DEF NoHandler
<1>5. \A k \in IssueKind : Live(k)' \subseteq Live(k) /\ (k = i => m \notin Live(k)')
    <2>1. CASE DeleteToken(r)
        <3>1. i \in TokenKind BY <1>2, <2>1 DEF ControlOf, DeleteToken, At
        <3>2. token' = [token EXCEPT ![i] = @ \ {m}] /\ otp' = otp BY <2>1 DEF DeleteToken
        <3> HIDE DEF i, m
        <3>3. m \notin token'[i] /\ \A k \in TokenKind : token'[k] \subseteq token[k] BY <1>2, <3>1, <3>2 DEF Rows
        <3>4. QED BY <3>1, <3>2, <3>3 DEF Live, IssueKind, TokenKind
    <2>2. CASE DeleteOtp(r)
        <3>1. i = "otp" BY <1>2, <2>2 DEF ControlOf, DeleteOtp, At
        <3>2. otp' = [otp EXCEPT !.live = @ \ {m}] /\ token' = token BY <2>2 DEF DeleteOtp
        <3> HIDE DEF i, m
        <3>3. m \notin otp'.live /\ otp'.live \subseteq otp.live BY <1>2, <3>2 DEF Rows
        <3>4. QED BY <3>1, <3>2, <3>3 DEF Live, IssueKind, TokenKind
    <2>3. QED BY <2>1, <2>2
<1>6. \A k, n : Finding(k, n)' \subseteq Finding(k, n) BY <1>4 DEF Finding, Moved
<1>7. ASSUME NEW k, NEW n, k # i \/ n # m PROVE Spending(k, n)' = Spending(k, n)
    BY <1>4, <1>7, OthersUse DEF UserLabel
<1> HIDE DEF i, m
<1>8. ASSUME NEW k \in IssueKind, NEW n \in Num PROVE UseOf(k, n)'
    <2>1. n \in Live(k)' => n \in Live(k) /\ (k # i \/ n # m) BY <1>5
    <2>2. n \in Live(k)' => Spending(k, n)' = Spending(k, n) BY <1>7, <2>1
    <2>3. QED BY <1>1, <1>6, <2>1, <2>2, UseKept, UseNumbers
<1>9. QED BY <1>8 DEF Uses

\* Abandon: a use that ends before the DELETE is kept.
LEMMA AbandonUses ==
    ASSUME Typed, Typed', Uses, NEW r \in Requests, Abandon(r)
    PROVE  Uses'
<1> DEFINE i == req[r].kind
           m == req[r].num
<1>1. UNCHANGED <<token, otp, issued, redeemed>>
      /\ kept' = IF req[r].pc \in {"spend", "drop"} THEN [kept EXCEPT ![i][m] = @ + 1] ELSE kept
    BY DEF Abandon
<1>2. Moved(r) /\ req'[r].pc = "idle" BY EndEffect DEF NoHandler
<1>3. \A k, n : Finding(k, n)' \subseteq Finding(k, n) BY <1>2 DEF Finding, Moved
<1>4. kept \in [IssueKind -> [Num -> Nat]] BY TypedRows DEF Rows
<1>5. ASSUME NEW k \in IssueKind, NEW n \in Num
      PROVE  /\ kept'[k][n] >= kept[k][n]
             /\ kept'[k][n] + Cardinality(Spending(k, n)') >= kept[k][n] + Cardinality(Spending(k, n))
    <2>1. CASE r \in Spending(k, n)
        <3>1. req[r].pc \in {"spend", "drop"} /\ k = i /\ n = m BY <2>1 DEF Spending
        <3>2. Spending(k, n)' = Spending(k, n) \ {r} BY <1>2 DEF Spending, Moved
        <3>3. Cardinality(Spending(k, n)') + 1 = Cardinality(Spending(k, n)) BY <2>1, <3>2, UsersOf, SizeRemoved
        <3> HIDE DEF i, m
        <3>4. kept'[k][n] = kept[k][n] + 1 BY <1>1, <1>4, <3>1, OneMore
        <3>5. QED BY <3>3, <3>4, UseNumbers
    <2>2. CASE r \notin Spending(k, n)
        <3>1. Spending(k, n)' = Spending(k, n) BY <1>2, <2>2 DEF Spending, Moved
        <3>2. kept'[k][n] = kept[k][n]
            <4>1. CASE req[r].pc \in {"spend", "drop"}
                <5>1. i \in IssueKind /\ m \in Num BY <4>1, UserOf
                <5>2. k # i \/ n # m BY <2>2, <4>1 DEF Spending
                <5> HIDE DEF i, m
                <5>3. QED BY <1>1, <1>4, <4>1, <5>1, <5>2, OneMore
            <4>2. CASE req[r].pc \notin {"spend", "drop"} BY <1>1, <4>2
            <4>3. QED BY <4>1, <4>2
        <3>3. QED BY <3>1, <3>2, UseNumbers
    <2>3. QED BY <2>1, <2>2
<1> HIDE DEF i, m
<1>6. ASSUME NEW k \in IssueKind, NEW n \in Num PROVE UseOf(k, n)'
    <2>1. Live(k)' = Live(k) BY <1>1 DEF Live
    <2>2. QED BY <1>1, <1>3, <1>5, <2>1, UseKept, UseNumbers
<1>7. QED BY <1>6 DEF Uses

\* The steps of every other kind, and of the world: no use, and nothing issued is found again.
LEMMA QuietUses ==
    ASSUME Typed, Typed', Uses, redeemed' = redeemed, kept' = kept,
           \A k \in IssueKind : issued'[k] >= issued[k],
           \A k, n : Finding(k, n)' = Finding(k, n) /\ Spending(k, n)' = Spending(k, n),
           \A k \in IssueKind, n \in Num : n \in Live(k)' /\ n \in 1..issued[k] => n \in Live(k)
    PROVE  Uses'
<1>1. ASSUME NEW k \in IssueKind, NEW n \in Num PROVE UseOf(k, n)' BY UseKept, UseNumbers
<1>2. QED BY <1>1 DEF Uses

\* A handler's step that neither finds, uses, deletes nor abandons a token or a code.
Quiet(r) ==
    \/ \E k \in TokenKind : LoadIdentity(r, k)
    \/ SweepTokens(r) \/ InsertToken(r) \/ VerifyCurrent(r) \/ ChangePassword(r)
    \/ \E t \in Tenants, f \in BOOLEAN : GetUser(r, t, f)
    \/ CountMemberships(r) \/ AdminSetPassword(r) \/ SetForcePasswordChange(r)
    \/ CreateOtp(r) \/ IncrementAttempts(r)

\* Its label is never that of a user.
LEMMA QuietLabels ==
    ASSUME Typed, NEW r \in Requests, Quiet(r)
    PROVE  Moved(r) /\ req[r].pc \notin UserLabel /\ req'[r].pc \notin UserLabel /\ req'[r].pc # "wrong"
<1>1. CASE \E k \in TokenKind : LoadIdentity(r, k) BY <1>1, LoadIdentityEffect DEF UserLabel
<1>2. CASE SweepTokens(r)
    <2>1. Moved(r) /\ req'[r].pc = "insert" BY <1>2, GotoEffect
    <2>2. req[r].pc = "sweep" BY <1>2 DEF SweepTokens, At
    <2>3. QED BY <2>1, <2>2 DEF UserLabel
<1>3. CASE InsertToken(r) \/ ChangePassword(r) \/ SetForcePasswordChange(r) \/ IncrementAttempts(r)
    BY <1>3, EndEffect DEF InsertToken, ChangePassword, SetForcePasswordChange, IncrementAttempts, At, NoHandler, UserLabel
<1>4. CASE VerifyCurrent(r) BY <1>4, VerifyCurrentEffect DEF UserLabel
<1>5. CASE \E t \in Tenants, f \in BOOLEAN : GetUser(r, t, f) BY <1>5, GetUserEffect DEF UserLabel
<1>6. CASE CountMemberships(r) BY <1>6, CountMembershipsEffect DEF CountMemberships, At, UserLabel
<1>7. CASE AdminSetPassword(r) BY <1>7, GotoEffect DEF AdminSetPassword, At, UserLabel
<1>8. CASE CreateOtp(r) BY <1>8, CreateOtpEffect DEF UserLabel
<1>9. QED BY <1>1, <1>2, <1>3, <1>4, <1>5, <1>6, <1>7, <1>8 DEF Quiet

\* It takes tokens and codes away, or inserts the next number.
LEMMA QuietLive ==
    ASSUME Typed, NEW r \in Requests, Quiet(r)
    PROVE  /\ redeemed' = redeemed /\ kept' = kept
           /\ \A k \in IssueKind : issued'[k] >= issued[k]
           /\ \A k \in IssueKind, n \in Num : n \in Live(k)' /\ n \in 1..issued[k] => n \in Live(k)
<1>1. Rows BY TypedRows
<1>2. \A k \in IssueKind : issued[k] \in Nat BY <1>1 DEF Rows
<1>3. redeemed' = redeemed /\ kept' = kept
    BY DEF Quiet, LoadIdentity, SweepTokens, InsertToken, VerifyCurrent, ChangePassword, GetUser, CountMemberships,
           AdminSetPassword, SetForcePasswordChange, CreateOtp, IncrementAttempts
<1>4. CASE SweepTokens(r)
    <2>1. issued' = issued /\ otp' = otp /\ \A k \in TokenKind : token'[k] \subseteq token[k]
        BY <1>1, <1>4 DEF SweepTokens, Rows
    <2>2. QED BY <1>2, <1>3, <2>1, LiveParts DEF IssueKind
<1>5. CASE InsertToken(r)
    <2> DEFINE i == req[r].kind
    <2>1. i \in TokenKind BY <1>5, HandlerParts DEF ControlOf, InsertToken, At
    <2>2. /\ issued' = [issued EXCEPT ![i] = @ + 1] /\ token' = [token EXCEPT ![i] = @ \cup {issued[i] + 1}]
          /\ otp' = otp
        BY <1>5 DEF InsertToken
    <2> HIDE DEF i
    <2>3. \A k \in IssueKind : issued'[k] >= issued[k] BY <1>1, <1>2, <2>2 DEF Rows
    <2>4. ASSUME NEW k \in TokenKind, NEW n \in Num, n \in token'[k], n \in 1..issued[k] PROVE n \in token[k]
        <3>1. issued[k] \in Nat BY <1>2 DEF IssueKind
        <3>2. n # issued[k] + 1 BY <2>4, <3>1
        <3>3. token'[k] = token[k] \/ (k = i /\ token'[k] = token[k] \cup {issued[k] + 1})
            BY <1>1, <2>2 DEF Rows
        <3>4. QED BY <2>4, <3>2, <3>3
    <2>5. QED BY <1>3, <2>2, <2>3, <2>4, LiveParts DEF IssueKind
<1>6. CASE CreateOtp(r)
    <2>1. /\ issued' = [issued EXCEPT !["otp"] = @ + 1] /\ otp' = [otp EXCEPT !.live = @ \cup {issued["otp"] + 1}]
          /\ token' = token
        BY <1>6 DEF CreateOtp
    <2>2. \A k \in IssueKind : issued'[k] >= issued[k] BY <1>1, <1>2, <2>1 DEF Rows
    <2>3. otp'.live = otp.live \cup {issued["otp"] + 1} BY <1>1, <2>1 DEF Rows
    <2>4. issued["otp"] \in Nat BY <1>2 DEF IssueKind
    <2>5. \A n \in Num : n \in otp'.live /\ n \in 1..issued["otp"] => n \in otp.live BY <2>3, <2>4
    <2>6. QED BY <1>3, <2>1, <2>2, <2>5, LiveParts DEF IssueKind
<1>7. CASE IncrementAttempts(r)
    <2>1. issued' = issued /\ token' = token BY <1>7 DEF IncrementAttempts
    <2>2. otp'.live = otp.live BY <1>1, <1>7 DEF IncrementAttempts, Rows
    <2>3. QED BY <1>2, <1>3, <2>1, <2>2, LiveParts DEF IssueKind
<1>8. CASE UNCHANGED <<token, otp, issued>>
    <2>1. \A k : Live(k)' = Live(k) BY <1>8 DEF Live
    <2>2. QED BY <1>2, <1>3, <1>8, <2>1
<1>9. QED BY <1>4, <1>5, <1>6, <1>7, <1>8
         DEF Quiet, LoadIdentity, VerifyCurrent, ChangePassword, GetUser, CountMemberships, AdminSetPassword,
             SetForcePasswordChange

LEMMA ActUses ==
    ASSUME Typed, Uses, Typed', NEW r \in Requests, Act(r)
    PROVE  Uses'
<1>1. CASE Quiet(r)
    <2>1. \A k, n : Finding(k, n)' = Finding(k, n) /\ Spending(k, n)' = Spending(k, n)
        BY <1>1, QuietLabels, OthersUse
    <2>2. QED BY <1>1, <2>1, QuietLive, QuietUses
<1>2. QED BY <1>1, FindUses, MakeUses, DeleteUses, AbandonUses DEF Act, Quiet

\* The world only takes tokens and codes away, and no handler moves.
LEMMA WorldCalm ==
    ASSUME Typed, World
    PROVE  /\ UNCHANGED <<pw, force, issued, req, starts, redeemed, kept>>
           /\ \A k \in TokenKind : token'[k] \subseteq token[k]
           /\ otp'.live \subseteq otp.live /\ otp'.attempts = otp.attempts
<1>1. Rows BY TypedRows
<1>2. UNCHANGED <<pw, force, issued, req, starts, redeemed, kept>> BY DEF World, Expire, Join, Archive
<1>3. CASE Expire
    <2>1. CASE \E k \in TokenKind : \E n \in token[k] : token' = [token EXCEPT ![k] = @ \ {n}] /\ UNCHANGED otp
        <3>1. PICK k \in TokenKind : \E n : token' = [token EXCEPT ![k] = @ \ {n}] BY <2>1
        <3>2. \A j \in TokenKind : token'[j] \subseteq token[j] BY <1>1, <3>1 DEF Rows
        <3>3. QED BY <1>2, <2>1, <3>2
    <2>2. CASE \E n \in otp.live : otp' = [otp EXCEPT !.live = @ \ {n}] /\ UNCHANGED token
        <3>1. PICK n \in otp.live : otp' = [otp EXCEPT !.live = @ \ {n}] BY <2>2
        <3>2. otp'.live \subseteq otp.live /\ otp'.attempts = otp.attempts BY <1>1, <3>1 DEF Rows
        <3>3. QED BY <1>2, <2>2, <3>2
    <2>3. QED BY <1>3, <2>1, <2>2 DEF Expire
<1>4. CASE \E t \in Tenants : Join(t) \/ Archive(t) BY <1>2, <1>4 DEF Join, Archive
<1>5. QED BY <1>3, <1>4 DEF World

LEMMA UsesStep == Typed /\ Uses /\ [Next]_vars => Uses'
<1> SUFFICES ASSUME Typed, Uses, [Next]_vars PROVE Uses' OBVIOUS
<1>1. Rows /\ Typed' BY TypedRows, TypedStep
<1>2. CASE World
    <2>1. \A k, n : Finding(k, n)' = Finding(k, n) /\ Spending(k, n)' = Spending(k, n)
        BY <1>2, WorldCalm DEF Finding, Spending
    <2>2. \A k \in IssueKind : issued'[k] >= issued[k] BY <1>1, <1>2, WorldCalm DEF Rows
    <2>3. \A k \in IssueKind : Live(k)' \subseteq Live(k) BY <1>2, WorldCalm, LiveParts DEF IssueKind
    <2>4. redeemed' = redeemed /\ kept' = kept BY <1>2, WorldCalm
    <2>5. QED BY <1>1, <2>1, <2>2, <2>3, <2>4, QuietUses
<1>3. CASE UNCHANGED vars BY <1>3 DEF vars, Uses, UseOf, Live, Finding, Spending
<1>4. QED BY <1>1, <1>2, <1>3, ActUses, NextActs

LEMMA UsesInit == Init => Uses
<1> SUFFICES ASSUME Init, NEW k \in IssueKind, NEW n \in Num PROVE UseOf(k, n) BY DEF Uses
<1>1. Finding(k, n) = {} /\ Spending(k, n) = {} BY DEF Init, Finding, Spending, NoHandler
<1>2. redeemed[k][n] = 0 /\ kept[k][n] = 0 BY DEF Init
<1>3. Cardinality({}) = 0 BY FS_EmptySet
<1>4. QED BY <1>1, <1>2, <1>3, RequestsSize DEF UseOf

\* A token sets a password, and a one-time code opens a session, at most once per request that can be
\* in flight, but for the uses that ended before their DELETE (reset_password, force_change_password,
\* otp_verify): a request that starts after a completed use finds nothing.
THEOREM SingleUse == Spec => []SingleUseBound
<1>1. Typed /\ Uses /\ [Next]_vars => Typed' /\ Uses' BY TypedStep, UsesStep
<1>2. Typed /\ Uses => SingleUseBound
    <2> SUFFICES ASSUME Typed, Uses, NEW k \in IssueKind, NEW n \in Num
                 PROVE  redeemed[k][n] <= kept[k][n] + Cardinality(Requests)
        BY DEF SingleUseBound
    <2>1. redeemed[k][n] \in Nat /\ kept[k][n] \in Nat BY TypedRows DEF Rows
    <2>2. Cardinality(Finding(k, n)) \in Nat BY UsersOf, SizeOf
    <2>3. UseOf(k, n) BY DEF Uses
    <2>4. QED BY <2>1, <2>2, <2>3, RequestsSize DEF UseOf
<1>3. QED BY <1>1, <1>2, TypedInit, UsesInit, PTL DEF Spec

-----------------------------------------------------------------------------
(***************************************************************************)
(* Live tokens.                                                            *)
(***************************************************************************)
LEMMA TokensFinite ==
    ASSUME Typed, NEW k \in TokenKind
    PROVE  IsFiniteSet(token[k]) /\ Cardinality(token[k]) \in Nat
<1>1. issued[k] \in Nat /\ token[k] \subseteq 1..issued[k]
    BY TypedRows, CredentialsAssumption DEF Rows, IssueKind
<1>2. IsFiniteSet(1..issued[k]) BY <1>1, FS_Interval
<1>3. QED BY <1>1, <1>2, FS_Subset, FS_CardinalityType

\* One kind of token: a step that adds neither a token nor a handler about to insert one.
LEMMA TokensKept ==
    ASSUME Typed, Tokens, NEW k \in TokenKind, token'[k] \subseteq token[k], Inserting(k)' \subseteq Inserting(k)
    PROVE  Cardinality(token'[k]) + Cardinality(Inserting(k)') <= Cardinality(Requests)
<1>1. Cardinality(token'[k]) <= Cardinality(token[k]) /\ Cardinality(token'[k]) \in Nat
    BY TokensFinite, FS_Subset, FS_CardinalityType
<1>2. /\ Cardinality(Inserting(k)') <= Cardinality(Inserting(k))
      /\ Cardinality(Inserting(k)') \in Nat /\ Cardinality(Inserting(k)) \in Nat
    BY IssuersOf, SizeMonotone
<1>3. Cardinality(token[k]) + Cardinality(Inserting(k)) <= Cardinality(Requests) BY DEF Tokens
<1>4. QED BY <1>1, <1>2, <1>3, TokensFinite, RequestsSize

LEMMA ActTokens ==
    ASSUME Typed, Tokens, NEW r \in Requests, Act(r)
    PROVE  Tokens'
<1>1. Rows BY TypedRows
<1>2. CASE SweepTokens(r)
    <2> DEFINE k == req[r].kind
    <2>1. Moved(r) /\ req'[r].kind = k /\ req[r].pc = "sweep" BY <1>2, GotoEffect DEF SweepTokens, At
    <2>2. token' = [token EXCEPT ![k] = {}] BY <1>2 DEF SweepTokens
    <2>3. ASSUME NEW j \in TokenKind
          PROVE  Cardinality(token'[j]) + Cardinality(Inserting(j)') <= Cardinality(Requests)
        <3>1. CASE j = k
            <4>1. token'[j] = {} BY <1>1, <2>2, <3>1 DEF Rows
            <4>2. Cardinality(token'[j]) = 0 BY <4>1, FS_EmptySet
            <4>3. Cardinality(Inserting(j)') \in Nat /\ Cardinality(Inserting(j)') <= Cardinality(Requests)
                BY IssuersOf, SizeOf
            <4>4. QED BY <4>2, <4>3
        <3>2. CASE j # k
            <4>1. token'[j] = token[j] BY <1>1, <2>2, <3>2 DEF Rows
            <4>2. Inserting(j)' = Inserting(j) BY <2>1, <3>2 DEF Inserting, Moved
            <4>3. QED BY <4>1, <4>2, TokensKept
        <3>3. QED BY <3>1, <3>2
    <2>4. QED BY <2>3 DEF Tokens
<1>3. CASE InsertToken(r)
    <2> DEFINE i == req[r].kind
    <2>1. i \in TokenKind /\ r \in Inserting(i)
        BY <1>3, HandlerParts DEF ControlOf, InsertToken, At, Inserting
    <2>2. Moved(r) /\ req'[r].pc = "idle" BY <1>3, EndEffect DEF NoHandler
    <2>3. token' = [token EXCEPT ![i] = @ \cup {issued[i] + 1}] BY <1>3 DEF InsertToken
    <2> HIDE DEF i
    <2>4. \A j : Inserting(j)' = Inserting(j) \ {r} BY <2>2 DEF Inserting, Moved
    <2>5. ASSUME NEW j \in TokenKind
          PROVE  Cardinality(token'[j]) + Cardinality(Inserting(j)') <= Cardinality(Requests)
        <3>1. CASE j = i
            <4>1. token'[j] = token[j] \cup {issued[i] + 1} BY <1>1, <2>3, <3>1 DEF Rows
            <4>2. Cardinality(token'[j]) \in Nat /\ Cardinality(token'[j]) <= Cardinality(token[j]) + 1
                <5>1. IsFiniteSet(token[j]) /\ Cardinality(token[j]) \in Nat BY TokensFinite
                <5>2. \/ Cardinality(token'[j]) = Cardinality(token[j])
                      \/ Cardinality(token'[j]) = Cardinality(token[j]) + 1
                    BY <4>1, <5>1, FS_AddElement
                <5>3. QED BY <5>1, <5>2
            <4>3. Cardinality(Inserting(j)') + 1 = Cardinality(Inserting(j)) /\ Cardinality(Inserting(j)') \in Nat
                BY <2>1, <2>4, <3>1, IssuersOf, SizeRemoved, SizeOf
            <4>4. Cardinality(token[j]) + Cardinality(Inserting(j)) <= Cardinality(Requests) BY DEF Tokens
            <4>5. QED BY <4>2, <4>3, <4>4, TokensFinite, RequestsSize
        <3>2. CASE j # i
            <4>1. token'[j] = token[j] BY <1>1, <2>3, <3>2 DEF Rows
            <4>2. QED BY <2>4, <4>1, TokensKept
        <3>3. QED BY <3>1, <3>2
    <2>6. QED BY <2>5 DEF Tokens
<1>4. CASE ~SweepTokens(r) /\ ~InsertToken(r)
    <2>1. Moved(r) /\ (req'[r].pc = "insert" => req' = req)
        <3>1. CASE \/ DeleteToken(r) \/ ChangePassword(r) \/ SetForcePasswordChange(r)
                   \/ IncrementAttempts(r) \/ DeleteOtp(r) \/ Abandon(r)
            BY <3>1, EndEffect DEF NoHandler
        <3>2. CASE SetByToken(r) BY <3>2, GotoEffect
        <3>3. CASE AdminSetPassword(r) BY <3>3, GotoEffect
        <3>4. CASE LoggedIn(r) BY <3>4, GotoEffect
        <3>5. CASE VerifyCurrent(r) BY <3>5, VerifyCurrentEffect
        <3>6. CASE \E t \in Tenants, f \in BOOLEAN : GetUser(r, t, f) BY <3>6, GetUserEffect
        <3>7. CASE CountMemberships(r) BY <3>7, CountMembershipsEffect
        <3>8. CASE CreateOtp(r) BY <3>8, CreateOtpEffect
        <3>9. CASE \E k \in TokenKind, n \in Num : FindToken(r, k, n) BY <3>9, FindTokenEffect
        <3>10. CASE \E given \in 0..issued["otp"] : GetLatest(r, given) BY <3>10, GetLatestEffect
        <3>11. CASE \E k \in TokenKind : LoadIdentity(r, k) BY <3>11, LoadIdentityEffect
        <3>12. QED BY <1>4, <3>1, <3>2, <3>3, <3>4, <3>5, <3>6, <3>7, <3>8, <3>9, <3>10, <3>11 DEF Act
    <2>2. \A k : Inserting(k)' \subseteq Inserting(k) BY <2>1 DEF Inserting, Moved
    <2>3. \A k \in TokenKind : token'[k] \subseteq token[k]
        <3>1. CASE DeleteToken(r) BY <1>1, <3>1 DEF DeleteToken, Rows
        <3>2. CASE ~DeleteToken(r)
            <4>1. token' = token
                BY <1>4, <3>2 DEF Act, LoadIdentity, FindToken, SetByToken, VerifyCurrent, ChangePassword, GetUser,
                       CountMemberships, AdminSetPassword, SetForcePasswordChange, CreateOtp, GetLatest,
                       IncrementAttempts, LoggedIn, DeleteOtp, Abandon
            <4>2. QED BY <4>1
        <3>3. QED BY <3>1, <3>2
    <2>4. QED BY <2>2, <2>3, TokensKept DEF Tokens
<1>5. QED BY <1>2, <1>3, <1>4

LEMMA TokensStep == Typed /\ Tokens /\ [Next]_vars => Tokens'
<1> SUFFICES ASSUME Typed, Tokens, [Next]_vars PROVE Tokens' OBVIOUS
<1>1. CASE World
    <2>1. \A k : Inserting(k)' = Inserting(k) BY <1>1, WorldCalm DEF Inserting
    <2>2. QED BY <1>1, <2>1, WorldCalm, TokensKept DEF Tokens
<1>2. CASE UNCHANGED vars BY <1>2 DEF vars, Tokens, Inserting
<1>3. QED BY <1>1, <1>2, ActTokens, NextActs

LEMMA TokensInit == Init => Tokens
<1> SUFFICES ASSUME Init PROVE Tokens OBVIOUS
<1>1. \A k : Inserting(k) = {} BY DEF Init, Inserting, NoHandler
<1>2. \A k \in TokenKind : token[k] = {} BY DEF Init
<1>3. Cardinality({}) = 0 BY FS_EmptySet
<1>4. QED BY <1>1, <1>2, <1>3, RequestsSize DEF Tokens

\* Requests that race to replace a token leave at most one live token each (forgot_password,
\* issue_force_change_token).
THEOREM LiveTokensBounded == Spec => []LiveTokensBound
<1>1. Typed /\ Tokens /\ [Next]_vars => Typed' /\ Tokens' BY TypedStep, TokensStep
<1>2. Typed /\ Tokens => LiveTokensBound
    <2> SUFFICES ASSUME Typed, Tokens, NEW k \in TokenKind PROVE Cardinality(token[k]) <= Cardinality(Requests)
        BY DEF LiveTokensBound
    <2>1. Cardinality(Inserting(k)) \in Nat /\ Cardinality(token[k]) \in Nat BY IssuersOf, SizeOf, TokensFinite
    <2>2. QED BY <2>1, RequestsSize DEF Tokens
<1>3. QED BY <1>1, <1>2, TypedInit, TokensInit, PTL DEF Spec

-----------------------------------------------------------------------------
(***************************************************************************)
(* Attempts.                                                               *)
(***************************************************************************)

\* One code: a step that neither counts an attempt at it nor commits a handler to one.
LEMMA AttemptsKept ==
    ASSUME Typed, Attempts, NEW n \in Num, otp'.attempts[n] = otp.attempts[n], Failing(n)' \subseteq Failing(n)
    PROVE  otp'.attempts[n] + Cardinality(Failing(n)') < MaxAttempts + Cardinality(Requests)
<1>1. /\ Cardinality(Failing(n)') <= Cardinality(Failing(n))
      /\ Cardinality(Failing(n)') \in Nat /\ Cardinality(Failing(n)) \in Nat
    BY UsersOf, SizeMonotone
<1>2. otp.attempts[n] \in Nat BY TypedRows DEF Rows
<1>3. otp.attempts[n] + Cardinality(Failing(n)) < MaxAttempts + Cardinality(Requests) BY DEF Attempts
<1>4. QED BY <1>1, <1>2, <1>3, RequestsSize, CredentialsAssumption

LEMMA ActAttempts ==
    ASSUME Typed, Attempts, NEW r \in Requests, Act(r)
    PROVE  Attempts'
<1>1. Rows BY TypedRows
<1>2. ASSUME NEW given, GetLatest(r, given) PROVE Attempts'
    <2>1. /\ Moved(r) /\ req'[r].num = Latest /\ req[r].pc = "idle" /\ Latest \in Num
          /\ otp.attempts[Latest] < MaxAttempts
        BY <1>2, GetLatestEffect
    <2>2. otp' = otp BY <1>2 DEF GetLatest
    <2>3. ASSUME NEW n \in Num
          PROVE  otp'.attempts[n] + Cardinality(Failing(n)') < MaxAttempts + Cardinality(Requests)
        <3>1. CASE n = Latest
            <4>1. Cardinality(Failing(n)') \in Nat /\ Cardinality(Failing(n)') <= Cardinality(Requests)
                BY UsersOf, SizeOf
            <4>2. otp.attempts[n] \in Nat BY <1>1 DEF Rows
            <4>3. QED BY <2>1, <2>2, <3>1, <4>1, <4>2, RequestsSize, CredentialsAssumption
        <3>2. CASE n # Latest
            <4>1. Failing(n)' = Failing(n) BY <2>1, <3>2 DEF Failing, Moved
            <4>2. QED BY <2>2, <4>1, AttemptsKept
        <3>3. QED BY <3>1, <3>2
    <2>4. QED BY <2>3 DEF Attempts
<1>3. CASE IncrementAttempts(r)
    <2> DEFINE m == req[r].num
               d == IF m \in otp.live THEN 1 ELSE 0
    <2>1. Moved(r) /\ req'[r].pc = "idle" BY <1>3, EndEffect DEF NoHandler
    <2>2. otp' = [otp EXCEPT !.attempts[m] = @ + d] /\ d \in {0, 1} /\ r \in Failing(m)
        BY <1>3 DEF IncrementAttempts, At, Failing
    <2> HIDE DEF m, d
    <2>3. \A n : Failing(n)' = Failing(n) \ {r} BY <2>1 DEF Failing, Moved
    <2>4. ASSUME NEW n \in Num
          PROVE  otp'.attempts[n] + Cardinality(Failing(n)') < MaxAttempts + Cardinality(Requests)
        <3>1. CASE n = m
            <4>1. otp'.attempts[n] = otp.attempts[n] + d BY <1>1, <2>2, <3>1 DEF Rows
            <4>2. Cardinality(Failing(n)') + 1 = Cardinality(Failing(n)) /\ Cardinality(Failing(n)') \in Nat
                BY <2>2, <2>3, <3>1, UsersOf, SizeRemoved, SizeOf
            <4>3. otp.attempts[n] \in Nat BY <1>1 DEF Rows
            <4>4. otp.attempts[n] + Cardinality(Failing(n)) < MaxAttempts + Cardinality(Requests)
                BY DEF Attempts
            <4>5. QED BY <2>2, <4>1, <4>2, <4>3, <4>4, RequestsSize, CredentialsAssumption
        <3>2. CASE n # m
            <4>1. otp'.attempts[n] = otp.attempts[n] BY <1>1, <2>2, <3>2 DEF Rows
            <4>2. QED BY <2>3, <4>1, AttemptsKept
        <3>3. QED BY <3>1, <3>2
    <2>5. QED BY <2>4 DEF Attempts
<1>4. CASE ~(\E given \in 0..issued["otp"] : GetLatest(r, given)) /\ ~IncrementAttempts(r)
    <2>1. Moved(r) /\ req'[r].pc # "wrong"
        <3>1. CASE \E k \in TokenKind, n \in Num : FindToken(r, k, n) BY <3>1, FindTokenEffect
        <3>2. CASE SetByToken(r) BY <3>2, GotoEffect
        <3>3. CASE LoggedIn(r) BY <3>3, GotoEffect
        <3>4. CASE DeleteToken(r) \/ DeleteOtp(r) \/ Abandon(r) BY <3>4, EndEffect DEF NoHandler
        <3>5. CASE Quiet(r) BY <3>5, QuietLabels
        <3>6. QED BY <1>4, <3>1, <3>2, <3>3, <3>4, <3>5 DEF Act, Quiet
    <2>2. \A n : Failing(n)' \subseteq Failing(n) BY <2>1 DEF Failing, Moved
    <2>3. otp'.attempts = otp.attempts
        <3>1. CASE CreateOtp(r) BY <1>1, <3>1 DEF CreateOtp, Rows
        <3>2. CASE DeleteOtp(r) BY <1>1, <3>2 DEF DeleteOtp, Rows
        <3>3. CASE ~CreateOtp(r) /\ ~DeleteOtp(r)
            <4>1. otp' = otp
                BY <1>4, <3>3 DEF Act, LoadIdentity, SweepTokens, InsertToken, FindToken, SetByToken, DeleteToken,
                       VerifyCurrent, ChangePassword, GetUser, CountMemberships, AdminSetPassword,
                       SetForcePasswordChange, GetLatest, LoggedIn, Abandon
            <4>2. QED BY <4>1
        <3>4. QED BY <3>1, <3>2, <3>3
    <2>4. QED BY <2>2, <2>3, AttemptsKept DEF Attempts
<1>5. QED BY <1>2, <1>3, <1>4

LEMMA AttemptsStep == Typed /\ Attempts /\ [Next]_vars => Attempts'
<1> SUFFICES ASSUME Typed, Attempts, [Next]_vars PROVE Attempts' OBVIOUS
<1>1. CASE World
    <2>1. \A n : Failing(n)' = Failing(n) BY <1>1, WorldCalm DEF Failing
    <2>2. otp'.attempts = otp.attempts BY <1>1, WorldCalm
    <2>3. QED BY <2>1, <2>2, AttemptsKept DEF Attempts
<1>2. CASE UNCHANGED vars BY <1>2 DEF vars, Attempts, Failing
<1>3. QED BY <1>1, <1>2, ActAttempts, NextActs

LEMMA AttemptsInit == Init => Attempts
<1> SUFFICES ASSUME Init PROVE Attempts OBVIOUS
<1>1. \A n : Failing(n) = {} BY DEF Init, Failing, NoHandler
<1>2. \A n \in Num : otp.attempts[n] = 0 BY DEF Init
<1>3. Cardinality({}) = 0 BY FS_EmptySet
<1>4. QED BY <1>1, <1>2, <1>3, RequestsSize, CredentialsAssumption DEF Attempts

\* Wrong codes go past MAX_OTP_ATTEMPTS only by the requests in flight when it was reached (otp_verify).
THEOREM OtpAttemptsBounded == Spec => []OtpAttemptBound
<1>1. Typed /\ Attempts /\ [Next]_vars => Typed' /\ Attempts' BY TypedStep, AttemptsStep
<1>2. Typed /\ Attempts => OtpAttemptBound
    <2> SUFFICES ASSUME Typed, Attempts, NEW n \in Num
                 PROVE  otp.attempts[n] < MaxAttempts + Cardinality(Requests)
        BY DEF OtpAttemptBound
    <2>1. Cardinality(Failing(n)) \in Nat /\ otp.attempts[n] \in Nat BY UsersOf, SizeOf, TypedRows DEF Rows
    <2>2. QED BY <2>1, RequestsSize, CredentialsAssumption DEF Attempts
<1>3. QED BY <1>1, <1>2, TypedInit, AttemptsInit, PTL DEF Spec

-----------------------------------------------------------------------------
(***************************************************************************)
(* What lifts the force flag.                                              *)
(***************************************************************************)

\* What ForceLiftedByNewPassword says of one step.
ForceLifted ==
    force /\ ~force' => pw' # pw \/ \E r \in Requests : At(r, "flag") /\ ~req[r].force /\ req'[r] # req[r]

LEMMA ForceStep == Typed /\ [Next]_vars => ForceLifted
<1> SUFFICES ASSUME Typed, [Next]_vars, force, ~force' PROVE ForceLifted BY DEF ForceLifted
<1>1. Rows BY TypedRows
<1>2. ~World BY WorldCalm
<1>3. PICK r \in Requests : Act(r) BY <1>2, NextActs DEF vars
<1>4. CASE SetByToken(r) \/ ChangePassword(r) \/ AdminSetPassword(r)
    <2>1. pw' = pw + 1 BY <1>4 DEF SetByToken, ChangePassword, AdminSetPassword, WritePassword
    <2>2. pw' # pw BY <1>1, <2>1 DEF Rows
    <2>3. QED BY <2>2 DEF ForceLifted
<1>5. CASE SetForcePasswordChange(r)
    <2>1. At(r, "flag") /\ force' = req[r].force BY <1>5 DEF SetForcePasswordChange
    <2>2. req'[r] # req[r] BY <1>5, <2>1, EndEffect DEF NoHandler, At
    <2>3. QED BY <2>1, <2>2 DEF ForceLifted
<1>6. CASE force' = force BY <1>6
<1>7. QED BY <1>3, <1>4, <1>5, <1>6 DEF Act, LoadIdentity, SweepTokens, InsertToken, DeleteToken, CreateOtp, DeleteOtp,
             IncrementAttempts, VerifyCurrent, GetUser, CountMemberships, FindToken, GetLatest, LoggedIn, Abandon

\* force_password_change is lifted only together with a new password, or by an admin reset that asked
\* for no forced change (update_password, set_force_password_change).
THEOREM ForceOnlyLifted == Spec => ForceLiftedByNewPassword
<1>1. Typed /\ [Next]_vars => Typed' /\ ForceLifted BY TypedStep, ForceStep
<1>2. Spec => [][ForceLifted]_vars BY <1>1, TypedInit, PTL DEF Spec
<1>3. QED BY <1>2 DEF ForceLiftedByNewPassword, ForceLifted
=============================================================================
