----------------------------- MODULE MfaProofs -----------------------------
(***************************************************************************)
(* Proofs about Mfa for every number of requests, secrets, batches, codes  *)
(* per batch and time steps, and every skew: type correctness, no replay   *)
(* of a time step, the bound on spending one code, backup codes beside an  *)
(* enabled second factor, and what may turn it off.                        *)
(***************************************************************************)
EXTENDS Mfa, TLAPS, FiniteSetTheorems

\* The operations that spend a code.
Spending == {"validate", "disable", "regenerate"}

\* A handler's label, operation and code fit together.
ControlOf(h) ==
    /\ h.pc = "loaded" /\ h.op = "verify" => h.code \in TotpCode
    /\ h.pc # "idle" /\ h.op \in Spending => h.code \in Code
    /\ h.pc = "consume" => h.op \in Spending /\ h.code \in BackupCode

Typed ==
    /\ MfaTypeOK
    /\ \A r \in MfaRequests : ControlOf(mfaReq[r])
    /\ \A r \in lock : mfaReq[r].op \in {"verify", "disable"}

\* The replay marker covers every step accepted since it was reset.
Marker == \A s \in Step : accepted[s] <= 1 /\ (accepted[s] > 0 => s <= row.last)

\* The handlers about to spend a TOTP code, and a backup code.
Loaded(c) == {r \in MfaRequests : mfaReq[r].pc = "loaded" /\ mfaReq[r].op \in Spending /\ mfaReq[r].code = c}
Selected(c) == {r \in MfaRequests : mfaReq[r].pc = "consume" /\ mfaReq[r].code = c}

\* While a code's secret is the identity's, the marker lets it be spent once; afterwards only
\* the handlers that had loaded it are left to spend it, and no other can join them.
TotpSpend(c) ==
    /\ spends[c] <= Cardinality(MfaRequests)
    /\ row.secret = c.of => spends[c] <= 1 /\ (spends[c] = 1 => c.n <= row.last)
    /\ row.secret # c.of => spends[c] + Cardinality(Loaded(c)) <= Cardinality(MfaRequests)
    /\ c.of > secrets => spends[c] = 0 /\ Loaded(c) = {}

\* A backup code is consumed when it is first spent; only the handlers that had selected it before
\* are left to spend it.
BackupSpend(c) ==
    /\ spends[c] <= Cardinality(MfaRequests)
    /\ spends[c] > 0 => c \in consumed /\ spends[c] + Cardinality(Selected(c)) <= Cardinality(MfaRequests)

Spends ==
    /\ row.secret <= secrets
    /\ \A c \in TotpCode : TotpSpend(c)
    /\ \A c \in BackupCode : BackupSpend(c)

\* A code was spent by every handler past its check, and an enrolment that may turn MFA off is stale.
Warranted ==
    \A r \in MfaRequests :
        /\ mfaReq[r].pc \in {"verified", "tx"} /\ mfaReq[r].op \in Spending => spends[mfaReq[r].code] > 0
        /\ mfaReq[r].pc = "loaded" /\ mfaReq[r].op = "enable" /\ row.enabled => mfaReq[r].stale

-----------------------------------------------------------------------------
(***************************************************************************)
(* Records and steps.                                                      *)
(***************************************************************************)

\* The record of an idle handler is well typed and consistent.
LEMMA IdleHandler == NoMfaHandler \in MfaHandler /\ ControlOf(NoMfaHandler)
BY DEF NoMfaHandler, MfaHandler, ControlOf, MfaLabel, MfaOp, NoCode

\* Every step is of the clock, or of one handler.
Act(r) ==
    \/ \E op \in MfaOp, c \in Code \cup {NoCode} : SessionIdentity(r, op, c)
    \/ BeginEnrollment(r) \/ ConfirmCode(r) \/ VerifyTotp(r)
    \/ SelectBackupCode(r) \/ ConsumeBackupCode(r) \/ Validated(r)
    \/ BeginTx(r) \/ EnableMfa(r) \/ DisableMfa(r) \/ RegenerateBackupCodes(r) \/ Refuse(r)

LEMMA NextActs == MfaNext => Tick \/ \E r \in MfaRequests : Act(r)
<1>1. Known \subseteq Code \cup {NoCode} BY DEF Known, Code
<1>2. {"enable", "verify", "validate", "disable", "regenerate"} \subseteq MfaOp BY DEF MfaOp
<1>3. NoCode \in Code \cup {NoCode} OBVIOUS
<1>4. ASSUME NEW r \in MfaRequests, MfaEnable(r) \/ MfaVerify(r) PROVE Act(r)
    BY <1>1, <1>2, <1>3, <1>4 DEF MfaEnable, MfaVerify, Act
<1>5. ASSUME NEW r \in MfaRequests, NEW op \in {"validate", "disable", "regenerate"}, RequireValidCode(r, op)
      PROVE  Act(r)
    BY <1>1, <1>2, <1>5 DEF RequireValidCode, Act
<1>6. ASSUME NEW r \in MfaRequests, MfaValidate(r) \/ MfaDisable(r) \/ MfaRegenerate(r) PROVE Act(r)
    BY <1>5, <1>6 DEF MfaValidate, MfaDisable, MfaRegenerate, Act
<1>7. QED BY <1>4, <1>6 DEF MfaNext, Act

\* What a handler's step does to req: the handler's new record fits together, the others stay.
Moved(r) == /\ mfaReq' \in [MfaRequests -> MfaHandler] /\ ControlOf(mfaReq'[r])
            /\ \A q \in MfaRequests : q # r => mfaReq'[q] = mfaReq[q]

\* A step that moves its handler to another record, and one that ends it.
LEMMA MovedTo ==
    ASSUME Typed, NEW r \in MfaRequests, NEW h \in MfaHandler, ControlOf(h), MfaMove(r, h)
    PROVE  Moved(r) /\ mfaReq'[r] = h
BY DEF Moved, Typed, MfaTypeOK, MfaMove

LEMMA MovedIdle ==
    ASSUME Typed, NEW r \in MfaRequests, MfaMove(r, NoMfaHandler)
    PROVE  Moved(r) /\ mfaReq'[r] = NoMfaHandler
BY IdleHandler, MovedTo

\* A handler's own record and control.
LEMMA HandlerParts ==
    ASSUME Typed, NEW r \in MfaRequests
    PROVE  mfaReq[r] \in MfaHandler /\ ControlOf(mfaReq[r])
BY DEF Typed, MfaTypeOK

\* SessionIdentity begins a handler.
LEMMA SessionIdentityEffect ==
    ASSUME Typed, NEW r \in MfaRequests, NEW op \in MfaOp, NEW c \in Code \cup {NoCode}, SessionIdentity(r, op, c)
    PROVE  Moved(r) /\ mfaReq'[r].pc = "loaded" /\ mfaReq'[r].op = op /\ mfaReq'[r].code = c
<1> DEFINE h == [NoMfaHandler EXCEPT !.pc = "loaded", !.op = op, !.code = c]
<1>1. h \in MfaHandler /\ h.pc = "loaded" /\ h.op = op /\ h.code = c
    BY DEF NoMfaHandler, MfaHandler, MfaLabel
<1>2. Admits(op, c) /\ MfaMove(r, h) BY DEF SessionIdentity
<1> HIDE DEF h
<1>3. ControlOf(h) BY <1>1, <1>2 DEF ControlOf, Admits, Spending, Code
<1>4. QED BY <1>1, <1>2, <1>3, MovedTo

\* A code checked, or a row selected: the handler's label changes and nothing else of it.
LEMMA GotoEffect ==
    ASSUME Typed, NEW r \in MfaRequests, NEW l \in {"consume", "verified"}, MfaGoto(r, l), mfaReq[r].pc # "idle",
           l = "consume" => mfaReq[r].op \in Spending /\ mfaReq[r].code \in BackupCode
    PROVE  Moved(r) /\ mfaReq'[r].pc = l /\ mfaReq'[r].op = mfaReq[r].op /\ mfaReq'[r].code = mfaReq[r].code
<1> DEFINE h == [mfaReq[r] EXCEPT !.pc = l]
<1>1. mfaReq[r] \in MfaHandler /\ ControlOf(mfaReq[r]) /\ l \in MfaLabel BY HandlerParts DEF MfaLabel
<1>2. h \in MfaHandler /\ h.pc = l /\ h.op = mfaReq[r].op /\ h.code = mfaReq[r].code BY <1>1 DEF MfaHandler
<1>3. MfaMove(r, h) BY DEF MfaGoto
<1> HIDE DEF h
<1>4. ControlOf(h) BY <1>1, <1>2 DEF ControlOf
<1>5. QED BY <1>2, <1>3, <1>4, MovedTo

\* BeginTx: the handler keeps its operation and its code, and sees the committed codes.
LEMMA BeginTxEffect ==
    ASSUME Typed, NEW r \in MfaRequests, BeginTx(r)
    PROVE  Moved(r) /\ mfaReq'[r].pc = "tx" /\ mfaReq'[r].op = mfaReq[r].op /\ mfaReq'[r].code = mfaReq[r].code
<1> DEFINE h == [mfaReq[r] EXCEPT !.pc = "tx", !.seen = codes]
<1>1. mfaReq[r] \in MfaHandler /\ ControlOf(mfaReq[r]) /\ mfaReq[r].pc = "verified" BY HandlerParts DEF BeginTx, MfaAt
<1>2. codes \in SUBSET BackupCode BY DEF Typed, MfaTypeOK
<1>3. h \in MfaHandler /\ h.pc = "tx" /\ h.op = mfaReq[r].op /\ h.code = mfaReq[r].code
    BY <1>1, <1>2 DEF MfaHandler, MfaLabel
<1>4. MfaMove(r, h) BY DEF BeginTx
<1> HIDE DEF h
<1>5. ControlOf(h) BY <1>1, <1>3 DEF ControlOf
<1>6. QED BY <1>3, <1>4, <1>5, MovedTo

\* EnableMfa ends its handler and marks the enrolments in flight; nothing else of a handler changes.
LEMMA EnableMfaEffect ==
    ASSUME Typed, NEW r \in MfaRequests, EnableMfa(r)
    PROVE  /\ mfaReq' \in [MfaRequests -> MfaHandler] /\ mfaReq'[r] = NoMfaHandler
           /\ \A q \in MfaRequests : q # r =>
                 /\ mfaReq'[q].pc = mfaReq[q].pc /\ mfaReq'[q].op = mfaReq[q].op /\ mfaReq'[q].code = mfaReq[q].code
                 /\ mfaReq'[q].stale = (mfaReq[q].op = "enable")
<1>1. ASSUME NEW q \in MfaRequests
      PROVE  LET g == [mfaReq[q] EXCEPT !.stale = mfaReq[q].op = "enable"] IN
             /\ g \in MfaHandler /\ g.pc = mfaReq[q].pc /\ g.op = mfaReq[q].op /\ g.code = mfaReq[q].code
             /\ g.stale = (mfaReq[q].op = "enable")
    BY <1>1, HandlerParts DEF MfaHandler
<1>2. mfaReq' = [q \in MfaRequests |-> IF q = r THEN NoMfaHandler
                                 ELSE [mfaReq[q] EXCEPT !.stale = mfaReq[q].op = "enable"]]
    BY DEF EnableMfa
<1>3. mfaReq' \in [MfaRequests -> MfaHandler] BY <1>1, <1>2, IdleHandler
<1>4. QED BY <1>1, <1>2, <1>3

-----------------------------------------------------------------------------
(***************************************************************************)
(* Typing.  Rows: the variables other than req and lock.                   *)
(***************************************************************************)
Rows ==
    /\ row \in Row
    /\ codes \subseteq BackupCode /\ consumed \subseteq BackupCode
    /\ secrets \in 0..MaxSecret /\ batches \in 0..MaxBatch /\ now \in Step
    /\ spends \in [Code -> Nat] /\ accepted \in [Step -> Nat]

LEMMA TypedRows == ASSUME Typed PROVE Rows
BY DEF Typed, MfaTypeOK, Rows

\* A step that leaves the lock alone, or releases it, and does not hold it afterwards keeps Typed.
LEMMA TypedKept ==
    ASSUME Typed, NEW r \in MfaRequests, Moved(r), Rows', lock' \subseteq lock, r \notin lock'
    PROVE  Typed'
<1>1. \A q \in MfaRequests : ControlOf(mfaReq'[q]) BY DEF Moved, Typed
<1>2. ASSUME NEW q \in lock'
      PROVE  q \in MfaRequests /\ lock' = {q} /\ mfaReq'[q].pc = "tx" /\ mfaReq'[q].op \in {"verify", "disable"}
    <2>1. q \in MfaRequests /\ q # r /\ lock = {q} /\ mfaReq[q].pc = "tx" /\ mfaReq[q].op \in {"verify", "disable"}
        BY <1>2 DEF Typed, MfaTypeOK, MfaAt
    <2>2. QED BY <2>1, <1>2 DEF Moved
<1>3. MfaTypeOK' BY <1>2 DEF Moved, Rows, MfaTypeOK, MfaAt
<1>4. QED BY <1>1, <1>2, <1>3 DEF Typed, ControlOf

\* A handler outside its transaction, or one that regenerates, does not hold the lock.
LEMMA NotHolding ==
    ASSUME Typed, NEW r \in MfaRequests, mfaReq[r].pc # "tx" \/ mfaReq[r].op = "regenerate"
    PROVE  r \notin lock
BY DEF Typed, MfaTypeOK, MfaAt

\* A matching code of a step, marked as used.
LEMMA MarkStepUsedType ==
    ASSUME Typed, NEW s \in Step, MarkStepUsed(s)
    PROVE  /\ row' \in Row /\ row'.secret = row.secret /\ row'.enabled = row.enabled
           /\ row'.last >= row.last /\ row'.last >= s
<1>1. row \in Row BY DEF Typed, MfaTypeOK
<1>2. s \in 1..MaxStep /\ MaxStep \in Nat BY MfaAssumption DEF Step
<1>3. CASE Fresh(s) BY <1>1, <1>2, <1>3 DEF MarkStepUsed, Fresh, Row
<1>4. CASE ~Fresh(s) BY <1>1, <1>2, <1>4 DEF MarkStepUsed, Fresh, Row
<1>5. QED BY <1>3, <1>4

\* Typed is inductive.
LEMMA TypedInit == MfaInit => Typed
<1> SUFFICES ASSUME MfaInit PROVE Typed OBVIOUS
<1>1. row \in Row /\ now \in Step /\ secrets \in 0..MaxSecret /\ batches \in 0..MaxBatch
    BY MfaAssumption DEF MfaInit, NoRow, Row, Step
<1>2. mfaReq \in [MfaRequests -> MfaHandler] /\ \A r \in MfaRequests : ControlOf(mfaReq[r]) BY IdleHandler DEF MfaInit
<1>3. spends \in [Code -> Nat] /\ accepted \in [Step -> Nat] BY DEF MfaInit
<1>4. codes = {} /\ consumed = {} /\ lock = {} BY DEF MfaInit
<1>5. QED BY <1>1, <1>2, <1>3, <1>4 DEF Typed, MfaTypeOK

LEMMA ReplacedType ==
    ASSUME Typed, NEW r PROVE Replaced(r) \subseteq BackupCode
BY DEF Replaced, Typed, MfaTypeOK

LEMMA ActTyped ==
    ASSUME Typed, NEW r \in MfaRequests, Act(r)
    PROVE  Typed'
<1>1. Rows BY TypedRows
<1>2. mfaReq[r] \in MfaHandler /\ ControlOf(mfaReq[r]) BY HandlerParts
<1>3. CASE \E op \in MfaOp, c \in Code \cup {NoCode} : SessionIdentity(r, op, c)
    <2>1. PICK op \in MfaOp, c \in Code \cup {NoCode} : SessionIdentity(r, op, c) BY <1>3
    <2>2. Moved(r) BY <2>1, SessionIdentityEffect
    <2>3. Rows' /\ lock' = lock /\ r \notin lock BY <1>1, <2>1, NotHolding DEF SessionIdentity, Rows, MfaAt
    <2>4. QED BY <2>2, <2>3, TypedKept
<1>4. CASE BeginEnrollment(r)
    <2>1. Moved(r) BY <1>4, MovedIdle DEF BeginEnrollment
    <2>2. Rows' BY <1>1, <1>4, MfaAssumption DEF BeginEnrollment, Rows, Row, Step
    <2>3. lock' = lock /\ r \notin lock BY <1>4, NotHolding DEF BeginEnrollment, MfaAt
    <2>4. QED BY <2>1, <2>2, <2>3, TypedKept
<1>5. CASE ConfirmCode(r)
    <2>1. mfaReq[r].code \in TotpCode /\ mfaReq[r].pc = "loaded" BY <1>2, <1>5 DEF ControlOf, ConfirmCode, MfaAt
    <2>2. mfaReq[r].code.n \in Step BY <2>1 DEF TotpCode
    <2>3. row' \in Row BY <1>5, <2>2, MarkStepUsedType DEF ConfirmCode
    <2>4. accepted' \in [Step -> Nat] BY <1>1, <1>5, <2>2 DEF ConfirmCode, Rows
    <2>5. Rows' BY <1>1, <1>5, <2>3, <2>4 DEF ConfirmCode, Rows
    <2>6. Moved(r) BY <1>5, <2>1, GotoEffect DEF ConfirmCode
    <2>7. lock' = lock /\ r \notin lock BY <1>5, <2>1, NotHolding DEF ConfirmCode
    <2>8. QED BY <2>5, <2>6, <2>7, TypedKept
<1>6. CASE VerifyTotp(r)
    <2>1. mfaReq[r].code \in TotpCode /\ mfaReq[r].pc = "loaded" BY <1>6 DEF VerifyTotp, MfaAt
    <2>2. mfaReq[r].code.n \in Step /\ mfaReq[r].code \in Code BY <2>1 DEF TotpCode, Code
    <2>3. row' \in Row BY <1>6, <2>2, MarkStepUsedType DEF VerifyTotp
    <2>4. accepted' \in [Step -> Nat] /\ spends' \in [Code -> Nat]
        BY <1>1, <1>6, <2>2 DEF VerifyTotp, Rows
    <2>5. Rows' BY <1>1, <1>6, <2>3, <2>4 DEF VerifyTotp, Rows
    <2>6. Moved(r) BY <1>6, <2>1, GotoEffect DEF VerifyTotp
    <2>7. lock' = lock /\ r \notin lock BY <1>6, <2>1, NotHolding DEF VerifyTotp
    <2>8. QED BY <2>5, <2>6, <2>7, TypedKept
<1>7. CASE SelectBackupCode(r)
    <2>1. mfaReq[r].pc = "loaded" /\ mfaReq[r].op \in Spending /\ mfaReq[r].code \in BackupCode
        BY <1>1, <1>7 DEF SelectBackupCode, MfaAt, Spending, Rows
    <2>2. Moved(r) BY <1>7, <2>1, GotoEffect DEF SelectBackupCode
    <2>3. Rows' /\ lock' = lock /\ r \notin lock BY <1>1, <1>7, <2>1, NotHolding DEF SelectBackupCode, Rows
    <2>4. QED BY <2>2, <2>3, TypedKept
<1>8. CASE ConsumeBackupCode(r)
    <2>1. mfaReq[r].pc = "consume" /\ mfaReq[r].code \in BackupCode /\ mfaReq[r].code \in Code
        BY <1>1, <1>8 DEF ConsumeBackupCode, MfaAt, Rows, Code
    <2>2. Moved(r) BY <1>8, <2>1, GotoEffect DEF ConsumeBackupCode
    <2>3. Rows' BY <1>1, <1>8, <2>1 DEF ConsumeBackupCode, Rows
    <2>4. lock' = lock /\ r \notin lock BY <1>8, <2>1, NotHolding DEF ConsumeBackupCode
    <2>5. QED BY <2>2, <2>3, <2>4, TypedKept
<1>9. CASE Validated(r)
    <2>1. Moved(r) BY <1>9, MovedIdle DEF Validated
    <2>2. Rows' /\ lock' = lock /\ r \notin lock BY <1>1, <1>9, NotHolding DEF Validated, Rows, MfaAt
    <2>3. QED BY <2>1, <2>2, TypedKept
<1>10. CASE BeginTx(r)
    <2>1. Moved(r) /\ mfaReq'[r].pc = "tx" /\ mfaReq'[r].op = mfaReq[r].op BY <1>10, BeginTxEffect
    <2>2. Rows' BY <1>1, <1>10 DEF BeginTx, Rows
    <2>3. CASE mfaReq[r].op = "regenerate"
        <3>1. lock' = lock /\ r \notin lock BY <1>10, <2>3, NotHolding DEF BeginTx
        <3>2. QED BY <2>1, <2>2, <3>1, TypedKept
    <2>4. CASE mfaReq[r].op # "regenerate"
        <3>1. lock' = {r} /\ mfaReq[r].op \in {"verify", "disable"} BY <1>10, <2>4 DEF BeginTx
        <3>2. \A q \in MfaRequests : ControlOf(mfaReq'[q]) BY <2>1 DEF Moved, Typed
        <3>3. MfaTypeOK' BY <2>1, <2>2, <3>1 DEF Moved, Rows, MfaTypeOK, MfaAt
        <3>4. QED BY <2>1, <3>1, <3>2, <3>3 DEF Typed, ControlOf
    <2>5. QED BY <2>3, <2>4
<1>11. CASE EnableMfa(r)
    <2>1. /\ mfaReq' \in [MfaRequests -> MfaHandler] /\ mfaReq'[r] = NoMfaHandler
          /\ \A q \in MfaRequests : q # r =>
                mfaReq'[q].pc = mfaReq[q].pc /\ mfaReq'[q].op = mfaReq[q].op /\ mfaReq'[q].code = mfaReq[q].code
        BY <1>11, EnableMfaEffect
    <2>2. \A q \in MfaRequests : ControlOf(mfaReq'[q]) BY <2>1, IdleHandler DEF Typed, ControlOf
    <2>3. Rows'
        <3>1. row' \in Row BY <1>1, <1>11 DEF EnableMfa, Rows, Row
        <3>2. codes' \subseteq BackupCode BY <1>11, ReplacedType DEF EnableMfa
        <3>3. batches' \in 0..MaxBatch BY <1>1, <1>11, MfaAssumption DEF EnableMfa, Rows
        <3>4. QED BY <1>1, <1>11, <3>1, <3>2, <3>3 DEF EnableMfa, Rows
    <2>4. lock' = {} BY <1>11 DEF EnableMfa
    <2>5. MfaTypeOK' BY <2>1, <2>3, <2>4 DEF MfaTypeOK, Rows
    <2>6. QED BY <2>2, <2>4, <2>5 DEF Typed, ControlOf
<1>12. CASE DisableMfa(r)
    <2>1. Moved(r) BY <1>12, MovedIdle DEF DisableMfa
    <2>2. Rows' BY <1>1, <1>12, MfaAssumption DEF DisableMfa, Rows, Row, NoRow
    <2>3. lock' = {} BY <1>12 DEF DisableMfa
    <2>4. QED BY <2>1, <2>2, <2>3, TypedKept
<1>13. CASE RegenerateBackupCodes(r)
    <2>1. Moved(r) BY <1>13, MovedIdle DEF RegenerateBackupCodes
    <2>2. Rows' BY <1>1, <1>13, ReplacedType, MfaAssumption DEF RegenerateBackupCodes, Rows
    <2>3. lock' = lock /\ r \notin lock BY <1>13, NotHolding DEF RegenerateBackupCodes
    <2>4. QED BY <2>1, <2>2, <2>3, TypedKept
<1>14. CASE Refuse(r)
    <2>1. Moved(r) BY <1>14, MovedIdle DEF Refuse
    <2>2. Rows' /\ lock' = lock \ {r} BY <1>1, <1>14 DEF Refuse, Rows
    <2>3. QED BY <2>1, <2>2, TypedKept
<1>15. QED BY <1>3, <1>4, <1>5, <1>6, <1>7, <1>8, <1>9, <1>10, <1>11, <1>12, <1>13, <1>14 DEF Act

\* The clock changes now and nothing else.
LEMMA TickTyped == ASSUME Typed, Tick PROVE Typed'
<1>1. now' \in Step BY MfaAssumption DEF Tick, Typed, MfaTypeOK, Step
<1>2. MfaTypeOK' BY <1>1 DEF Tick, Typed, MfaTypeOK, MfaAt
<1>3. QED BY <1>2 DEF Tick, Typed, ControlOf

LEMMA TypedStep == Typed /\ [MfaNext]_mfaVars => Typed'
<1> SUFFICES ASSUME Typed, [MfaNext]_mfaVars PROVE Typed' OBVIOUS
<1>1. CASE MfaNext BY <1>1, NextActs, ActTyped, TickTyped
<1>2. CASE UNCHANGED mfaVars BY <1>2 DEF mfaVars, Typed, MfaTypeOK, MfaAt, ControlOf
<1>3. QED BY <1>1, <1>2

\* In every state of the second factor the identity row, the code table and the handlers are well
\* typed, and only one transaction that updates the identity holds its row lock (repo/mfa.rs).
THEOREM TypeCorrect == MfaSpec => []MfaTypeOK
<1>1. Typed => MfaTypeOK BY DEF Typed
<1>2. QED BY <1>1, TypedInit, TypedStep, PTL DEF MfaSpec

-----------------------------------------------------------------------------
(***************************************************************************)
(* The replay marker and the backup codes of an enabled second factor.     *)
(***************************************************************************)

\* The steps that leave the identity's row alone.
LEMMA RowAlone ==
    ASSUME NEW r \in MfaRequests,
           \/ \E op \in MfaOp, c \in Code \cup {NoCode} : SessionIdentity(r, op, c)
           \/ SelectBackupCode(r) \/ ConsumeBackupCode(r) \/ Validated(r)
           \/ BeginTx(r) \/ RegenerateBackupCodes(r) \/ Refuse(r)
    PROVE  row' = row /\ accepted' = accepted /\ secrets' = secrets
BY DEF SessionIdentity, SelectBackupCode, ConsumeBackupCode, Validated, BeginTx,
       RegenerateBackupCodes, Refuse

\* A step accepted only while it is fresh was not accepted before.
LEMMA MarkerStep ==
    ASSUME Typed, Marker, [MfaNext]_mfaVars
    PROVE  Marker'
<1>1. Rows BY TypedRows
<1>2. CASE UNCHANGED <<row, accepted>> BY <1>2 DEF Marker
<1>3. CASE Tick BY <1>2, <1>3 DEF Tick
<1>4. ASSUME NEW r \in MfaRequests, Act(r) PROVE Marker'
    <2>1. mfaReq[r] \in MfaHandler /\ ControlOf(mfaReq[r]) BY HandlerParts
    <2>2. CASE BeginEnrollment(r) \/ DisableMfa(r)
        <3>1. accepted' = [s \in Step |-> 0] BY <2>2 DEF BeginEnrollment, DisableMfa
        <3>2. QED BY <3>1 DEF Marker
    <2>3. CASE ConfirmCode(r)
        <3> DEFINE n == mfaReq[r].code.n
        <3>1. n \in Step BY <2>1, <2>3 DEF ControlOf, ConfirmCode, MfaAt, TotpCode
        <3>2. accepted' = [accepted EXCEPT ![n] = IF @ = 0 THEN 1 ELSE @] BY <2>3 DEF ConfirmCode
        <3>3. row' \in Row /\ row'.last >= row.last /\ row'.last >= n
            BY <2>3, <3>1, MarkStepUsedType DEF ConfirmCode
        <3> HIDE DEF n
        <3>4. QED BY <1>1, <3>1, <3>2, <3>3 DEF Marker, Rows, Row, Step
    <2>4. CASE VerifyTotp(r)
        <3> DEFINE n == mfaReq[r].code.n
        <3>1. n \in Step BY <2>4 DEF VerifyTotp, TotpCode
        <3>2. accepted' = [accepted EXCEPT ![n] = @ + 1] /\ Fresh(n) BY <2>4 DEF VerifyTotp
        <3>3. row' \in Row /\ row'.last >= row.last /\ row'.last >= n
            BY <2>4, <3>1, MarkStepUsedType DEF VerifyTotp
        <3> HIDE DEF n
        <3>4. accepted[n] = 0 BY <1>1, <3>1, <3>2 DEF Marker, Rows, Row, Step, Fresh
        <3>5. QED BY <1>1, <3>1, <3>2, <3>3, <3>4 DEF Marker, Rows, Row, Step
    <2>5. CASE EnableMfa(r)
        <3>1. accepted' = accepted /\ row'.last = row.last BY <1>1, <2>5 DEF EnableMfa, Rows, Row
        <3>2. QED BY <3>1 DEF Marker
    <2>6. QED BY <1>2, <1>4, <2>2, <2>3, <2>4, <2>5, RowAlone DEF Act
<1>5. QED BY <1>2, <1>3, <1>4, NextActs DEF mfaVars

\* While the replay marker stands, verify accepts no time step twice and none that confirmed the
\* enrolment (mark_step_used), for every number of racing requests.
THEOREM NoReplayAlways == MfaSpec => []NoReplay
<1>1. MfaInit => Marker BY DEF MfaInit, Marker
<1>2. Typed /\ Marker /\ [MfaNext]_mfaVars => Typed' /\ Marker' BY TypedStep, MarkerStep
<1>3. Marker => NoReplay BY DEF Marker, NoReplay
<1>4. QED BY <1>1, <1>2, <1>3, TypedInit, PTL DEF MfaSpec

\* A batch has a code.
LEMMA BatchNotEmpty ==
    ASSUME Typed, batches < MaxBatch, NEW r PROVE Replaced(r) # {}
<1> DEFINE c == [kind |-> "backup", of |-> batches + 1, n |-> 1]
<1>1. batches + 1 \in 1..MaxBatch /\ 1 \in 1..BatchSize BY MfaAssumption DEF Typed, MfaTypeOK
<1>2. c \in BackupCode /\ c.of = batches + 1 BY <1>1 DEF BackupCode
<1>3. QED BY <1>2 DEF Replaced

LEMMA BackupCodesStep ==
    ASSUME Typed, EnabledHasBackupCodes, [MfaNext]_mfaVars
    PROVE  EnabledHasBackupCodes'
<1>1. CASE UNCHANGED <<row, codes>> BY <1>1 DEF EnabledHasBackupCodes
<1>2. CASE Tick BY <1>1, <1>2 DEF Tick
<1>3. ASSUME NEW r \in MfaRequests, Act(r) PROVE EnabledHasBackupCodes'
    <2>1. CASE EnableMfa(r) \/ RegenerateBackupCodes(r)
        <3>1. codes' # {} BY <2>1, BatchNotEmpty DEF EnableMfa, RegenerateBackupCodes
        <3>2. QED BY <3>1 DEF EnabledHasBackupCodes
    <2>2. CASE BeginEnrollment(r) \/ DisableMfa(r)
        <3>1. row'.enabled = FALSE BY <2>2 DEF BeginEnrollment, DisableMfa, NoRow
        <3>2. QED BY <3>1 DEF EnabledHasBackupCodes
    <2>3. CASE ConfirmCode(r) \/ VerifyTotp(r)
        <3>1. mfaReq[r].code.n \in Step /\ MarkStepUsed(mfaReq[r].code.n) /\ codes' = codes
            BY <2>3, HandlerParts DEF ConfirmCode, VerifyTotp, MfaAt, ControlOf, TotpCode
        <3>2. row'.enabled = row.enabled BY <3>1, MarkStepUsedType
        <3>3. QED BY <3>1, <3>2 DEF EnabledHasBackupCodes
    <2>4. CASE \/ \E op \in MfaOp, c \in Code \cup {NoCode} : SessionIdentity(r, op, c)
               \/ SelectBackupCode(r) \/ ConsumeBackupCode(r) \/ Validated(r) \/ BeginTx(r) \/ Refuse(r)
        <3>1. UNCHANGED <<row, codes>>
            BY <2>4 DEF SessionIdentity, SelectBackupCode, ConsumeBackupCode, Validated, BeginTx, Refuse
        <3>2. QED BY <3>1, <1>1
    <2>5. QED BY <1>3, <2>1, <2>2, <2>3, <2>4 DEF Act
<1>4. QED BY <1>1, <1>2, <1>3, NextActs DEF mfaVars

\* An identity with MFA on has backup codes, whatever regenerations run beside enable and disable
\* and whichever of them fails half-way (enable, disable, replace_backup_codes).
THEOREM BackupCodesAlways == MfaSpec => []EnabledHasBackupCodes
<1>1. MfaInit => EnabledHasBackupCodes BY DEF MfaInit, NoRow, EnabledHasBackupCodes
<1>2. Typed /\ EnabledHasBackupCodes /\ [MfaNext]_mfaVars => Typed' /\ EnabledHasBackupCodes'
    BY TypedStep, BackupCodesStep
<1>3. QED BY <1>1, <1>2, TypedInit, PTL DEF MfaSpec

-----------------------------------------------------------------------------
(***************************************************************************)
(* How often a code is spent.  First the sizes of sets of requests.        *)
(***************************************************************************)

\* A set of requests is finite and at most as large as Requests; a smaller one is at most as large.
LEMMA RequestsSize == IsFiniteSet(MfaRequests) /\ Cardinality(MfaRequests) \in Nat
BY MfaAssumption, FS_CardinalityType

LEMMA SizeOf ==
    ASSUME NEW S \in SUBSET MfaRequests
    PROVE  IsFiniteSet(S) /\ Cardinality(S) \in Nat /\ Cardinality(S) <= Cardinality(MfaRequests)
BY RequestsSize, FS_Subset, FS_CardinalityType

LEMMA SizeMonotone ==
    ASSUME NEW S \in SUBSET MfaRequests, NEW T \in SUBSET S
    PROVE  Cardinality(T) \in Nat /\ Cardinality(S) \in Nat /\ Cardinality(T) <= Cardinality(S)
BY SizeOf, FS_Subset, FS_CardinalityType

\* A set without one of the requests is smaller by one.
LEMMA SizeWithout ==
    ASSUME NEW S \in SUBSET MfaRequests, NEW r \in MfaRequests, r \notin S
    PROVE  Cardinality(S) + 1 <= Cardinality(MfaRequests)
<1>1. S \cup {r} \in SUBSET MfaRequests OBVIOUS
<1>2. Cardinality(S \cup {r}) <= Cardinality(MfaRequests) BY <1>1, SizeOf
<1>3. Cardinality(S \cup {r}) = Cardinality(S) + 1 BY SizeOf, FS_AddElement
<1>4. QED BY <1>2, <1>3

LEMMA SizeRemoved ==
    ASSUME NEW S \in SUBSET MfaRequests, NEW r \in S
    PROVE  Cardinality(S \ {r}) + 1 = Cardinality(S)
BY SizeOf, FS_RemoveElement, FS_CardinalityType

LEMMA SpendersOf ==
    ASSUME NEW c PROVE Loaded(c) \in SUBSET MfaRequests /\ Selected(c) \in SUBSET MfaRequests
BY DEF Loaded, Selected

LEMMA SpendersOfNext ==
    ASSUME NEW c PROVE Loaded(c)' \in SUBSET MfaRequests /\ Selected(c)' \in SUBSET MfaRequests
BY DEF Loaded, Selected

\* A step by which no code gains a handler about to spend it, on the same secret and marker.
Calm ==
    /\ spends' = spends /\ secrets' = secrets /\ consumed' = consumed
    /\ row'.secret = row.secret /\ row'.last >= row.last /\ row' \in Row
    /\ \A c \in Code : Loaded(c)' \subseteq Loaded(c) /\ Selected(c)' \subseteq Selected(c)

LEMMA CalmSpends ==
    ASSUME Typed, Spends, Calm
    PROVE  Spends'
<1>1. Rows BY TypedRows
<1>2. Cardinality(MfaRequests) \in Nat BY RequestsSize
<1>3. ASSUME NEW c \in TotpCode PROVE TotpSpend(c)'
    <2>1. c \in Code /\ spends[c] \in Nat /\ c.n \in Nat BY <1>1, <1>3 DEF Rows, Code, TotpCode, Step
    <2>2. Loaded(c)' \subseteq Loaded(c) BY <2>1 DEF Calm
    <2>3. /\ Cardinality(Loaded(c)') <= Cardinality(Loaded(c))
          /\ Cardinality(Loaded(c)') \in Nat /\ Cardinality(Loaded(c)) \in Nat
        BY <2>2, SpendersOf, SizeMonotone
    <2>4. TotpSpend(c) BY <1>3 DEF Spends
    <2>5. row.last \in Nat /\ row'.last \in Nat BY <1>1 DEF Rows, Row, Calm
    <2>6. spends' = spends /\ secrets' = secrets /\ row'.secret = row.secret /\ row'.last >= row.last
        BY DEF Calm
    <2>7. Loaded(c) = {} => Loaded(c)' = {} BY <2>2
    <2>8. row'.secret = c.of => spends'[c] <= 1 /\ (spends'[c] = 1 => c.n <= row'.last)
        BY <2>1, <2>4, <2>5, <2>6 DEF TotpSpend
    <2>9. row'.secret # c.of => spends'[c] + Cardinality(Loaded(c)') <= Cardinality(MfaRequests)
        BY <1>2, <2>1, <2>3, <2>4, <2>6 DEF TotpSpend
    <2>10. QED BY <2>4, <2>6, <2>7, <2>8, <2>9 DEF TotpSpend
<1>4. ASSUME NEW c \in BackupCode PROVE BackupSpend(c)'
    <2>1. c \in Code /\ spends[c] \in Nat BY <1>1, <1>4 DEF Rows, Code
    <2>2. Selected(c)' \subseteq Selected(c) BY <2>1 DEF Calm
    <2>3. /\ Cardinality(Selected(c)') <= Cardinality(Selected(c))
          /\ Cardinality(Selected(c)') \in Nat /\ Cardinality(Selected(c)) \in Nat
        BY <2>2, SpendersOf, SizeMonotone
    <2>4. BackupSpend(c) BY <1>4 DEF Spends
    <2>5. spends' = spends /\ consumed' = consumed BY DEF Calm
    <2>6. spends'[c] > 0 => spends'[c] + Cardinality(Selected(c)') <= Cardinality(MfaRequests)
        BY <1>2, <2>1, <2>3, <2>4, <2>5 DEF BackupSpend
    <2>7. QED BY <2>4, <2>5, <2>6 DEF BackupSpend
<1>5. row'.secret <= secrets' BY DEF Spends, Calm
<1>6. QED BY <1>3, <1>4, <1>5 DEF Spends

\* A step after which its handler is not about to spend a code.
LEMMA Leaves ==
    ASSUME NEW r \in MfaRequests, \A q \in MfaRequests : q # r =>
              mfaReq'[q].pc = mfaReq[q].pc /\ mfaReq'[q].op = mfaReq[q].op /\ mfaReq'[q].code = mfaReq[q].code,
           ~(mfaReq'[r].pc = "loaded" /\ mfaReq'[r].op \in Spending), mfaReq'[r].pc # "consume", NEW c
    PROVE  Loaded(c)' = Loaded(c) \ {r} /\ Selected(c)' = Selected(c) \ {r}
BY DEF Loaded, Selected

\* The calm steps.
LEMMA CalmSteps ==
    ASSUME Typed, NEW r \in MfaRequests,
           ConfirmCode(r) \/ Validated(r) \/ BeginTx(r) \/ EnableMfa(r) \/ RegenerateBackupCodes(r) \/ Refuse(r)
    PROVE  Calm
<1>1. Rows BY TypedRows
<1>2. spends' = spends /\ secrets' = secrets /\ consumed' = consumed
    BY DEF ConfirmCode, Validated, BeginTx, EnableMfa, RegenerateBackupCodes, Refuse
<1>3. /\ \A q \in MfaRequests : q # r =>
            mfaReq'[q].pc = mfaReq[q].pc /\ mfaReq'[q].op = mfaReq[q].op /\ mfaReq'[q].code = mfaReq[q].code
      /\ mfaReq'[r].pc \in {"verified", "idle", "tx"}
    <2>1. CASE ConfirmCode(r)
        <3>1. Moved(r) /\ mfaReq'[r].pc = "verified" BY <2>1, GotoEffect DEF ConfirmCode, MfaAt
        <3>2. QED BY <3>1 DEF Moved
    <2>2. CASE BeginTx(r) BY <2>2, BeginTxEffect DEF Moved
    <2>3. CASE EnableMfa(r) BY <2>3, EnableMfaEffect DEF NoMfaHandler
    <2>4. CASE Validated(r) \/ RegenerateBackupCodes(r) \/ Refuse(r)
        <3>1. Moved(r) /\ mfaReq'[r] = NoMfaHandler BY <2>4, MovedIdle DEF Validated, RegenerateBackupCodes, Refuse
        <3>2. QED BY <3>1 DEF Moved, NoMfaHandler
    <2>5. QED BY <2>1, <2>2, <2>3, <2>4
<1>4. \A c \in Code : Loaded(c)' \subseteq Loaded(c) /\ Selected(c)' \subseteq Selected(c)
    BY <1>3, Leaves
<1>5. row' \in Row /\ row'.secret = row.secret /\ row'.last >= row.last
    <2>1. CASE ConfirmCode(r)
        <3>1. mfaReq[r].code.n \in Step /\ MarkStepUsed(mfaReq[r].code.n)
            BY <2>1, HandlerParts DEF ConfirmCode, MfaAt, ControlOf, TotpCode
        <3>2. QED BY <3>1, MarkStepUsedType
    <2>2. CASE EnableMfa(r)
        <3>1. row' = [row EXCEPT !.enabled = TRUE] /\ row \in Row BY <1>1, <2>2 DEF EnableMfa, Rows
        <3>2. row'.last = row.last /\ row.last \in Nat BY <3>1 DEF Row
        <3>3. row'.secret = row.secret /\ row' \in Row BY <3>1 DEF Row
        <3>4. QED BY <3>2, <3>3
    <2>3. CASE Validated(r) \/ BeginTx(r) \/ RegenerateBackupCodes(r) \/ Refuse(r)
        <3>1. row' = row BY <2>3, RowAlone
        <3>2. QED BY <1>1, <3>1 DEF Rows, Row
    <2>4. QED BY <2>1, <2>2, <2>3
<1>6. QED BY <1>2, <1>4, <1>5 DEF Calm

LEMMA UnchangedCalm ==
    ASSUME Typed, UNCHANGED <<row, consumed, secrets, spends, mfaReq>> PROVE Calm
<1>1. \A c \in Code : Loaded(c)' = Loaded(c) /\ Selected(c)' = Selected(c) BY DEF Loaded, Selected
<1>2. QED BY <1>1 DEF Calm, Typed, MfaTypeOK, Row

\* A handler joins those about to spend a TOTP code only while the code's secret is the identity's.
LEMMA SessionIdentitySpends ==
    ASSUME Typed, Spends, NEW r \in MfaRequests, NEW op \in MfaOp, NEW k \in Code \cup {NoCode},
           SessionIdentity(r, op, k)
    PROVE  Spends'
<1>1. Rows BY TypedRows
<1>2. Moved(r) /\ mfaReq'[r].pc = "loaded" /\ mfaReq'[r].op = op /\ mfaReq'[r].code = k BY SessionIdentityEffect
<1>3. mfaReq[r].pc = "idle" /\ UNCHANGED <<row, secrets, spends, consumed>> BY DEF SessionIdentity, MfaAt
<1>4. \A c : Selected(c)' = Selected(c) BY <1>2, <1>3 DEF Selected, Moved
<1>5. \A c : (c # k \/ op \notin Spending) => Loaded(c)' = Loaded(c) BY <1>2, <1>3 DEF Loaded, Moved
<1>6. k \in TotpCode /\ op \in Spending => k.of = row.secret
    BY DEF SessionIdentity, Admits, Spending, TotpCode, BackupCode
<1>7. ASSUME NEW c \in TotpCode PROVE TotpSpend(c)'
    <2>1. TotpSpend(c) BY <1>7 DEF Spends
    <2>2. CASE Loaded(c)' = Loaded(c) BY <1>3, <2>1, <2>2 DEF TotpSpend
    <2>3. CASE c = k /\ op \in Spending
        <3>1. c.of = row.secret /\ row.secret <= secrets BY <1>6, <1>7, <2>3 DEF Spends
        <3>2. ~(c.of > secrets)
            BY <1>1, <1>7, <3>1, MfaAssumption DEF Rows, Row, TotpCode, Secret
        <3>3. QED BY <1>3, <2>1, <3>1, <3>2 DEF TotpSpend
    <2>4. QED BY <1>5, <2>2, <2>3
<1>8. ASSUME NEW c \in BackupCode PROVE BackupSpend(c)'
    BY <1>3, <1>4, <1>8 DEF Spends, BackupSpend
<1>9. QED BY <1>3, <1>7, <1>8 DEF Spends

\* An unused code was never spent, so selecting it commits nobody beyond the requests.
LEMMA SelectBackupCodeSpends ==
    ASSUME Typed, Spends, NEW r \in MfaRequests, SelectBackupCode(r)
    PROVE  Spends'
<1>1. Rows BY TypedRows
<1> DEFINE k == mfaReq[r].code
<1>2. k \in BackupCode /\ k \notin consumed /\ mfaReq[r].pc = "loaded" /\ mfaReq[r].op \in Spending
    BY <1>1 DEF SelectBackupCode, MfaAt, Rows, Spending
<1>3. Moved(r) /\ mfaReq'[r].pc = "consume" /\ mfaReq'[r].code = k BY <1>2, GotoEffect DEF SelectBackupCode
<1>4. UNCHANGED <<row, secrets, spends, consumed>> BY DEF SelectBackupCode
<1> HIDE DEF k
<1>5. \A c \in TotpCode : Loaded(c)' = Loaded(c)
    BY <1>2, <1>3 DEF Loaded, Moved, TotpCode, BackupCode, k
<1>6. \A c : c # k => Selected(c)' = Selected(c) BY <1>2, <1>3 DEF Selected, Moved
<1>7. ASSUME NEW c \in TotpCode PROVE TotpSpend(c)'
    BY <1>4, <1>5, <1>7 DEF Spends, TotpSpend
<1>8. ASSUME NEW c \in BackupCode PROVE BackupSpend(c)'
    <2>1. BackupSpend(c) BY <1>8 DEF Spends
    <2>2. CASE c # k BY <1>4, <1>6, <2>1, <2>2 DEF BackupSpend
    <2>3. CASE c = k
        <3>1. spends[c] \in Nat BY <1>1, <1>8 DEF Rows, Code
        <3>2. ~(spends[c] > 0) BY <1>2, <2>1, <2>3 DEF BackupSpend
        <3>3. QED BY <1>4, <2>1, <3>2 DEF BackupSpend
    <2>4. QED BY <2>2, <2>3
<1>9. QED BY <1>4, <1>7, <1>8 DEF Spends

\* Spending a backup code takes its handler out of those that selected it.
LEMMA ConsumeBackupCodeSpends ==
    ASSUME Typed, Spends, NEW r \in MfaRequests, ConsumeBackupCode(r)
    PROVE  Spends'
<1>1. Rows /\ Cardinality(MfaRequests) \in Nat BY TypedRows, RequestsSize
<1> DEFINE k == mfaReq[r].code
<1>2. k \in BackupCode /\ mfaReq[r].pc = "consume" BY <1>1 DEF ConsumeBackupCode, MfaAt, Rows
<1>3. Moved(r) /\ mfaReq'[r].pc = "verified" BY <1>2, GotoEffect DEF ConsumeBackupCode
<1>4. UNCHANGED <<row, secrets>> /\ consumed' = consumed \cup {k} BY DEF ConsumeBackupCode
<1>5. spends' = [spends EXCEPT ![k] = @ + 1] BY DEF ConsumeBackupCode
<1>6. \A c : Loaded(c)' = Loaded(c) \ {r} /\ Selected(c)' = Selected(c) \ {r} BY <1>3, Leaves DEF Moved
<1>7. r \in Selected(k) BY <1>2 DEF Selected
<1> HIDE DEF k
<1>8. ASSUME NEW c \in TotpCode PROVE TotpSpend(c)'
    <2>1. Loaded(c)' = Loaded(c) BY <1>2, <1>6 DEF Loaded
    <2>2. c \in Code /\ c # k BY <1>2, <1>8 DEF Code, TotpCode, BackupCode
    <2>3. spends'[c] = spends[c] BY <1>1, <1>5, <2>2 DEF Rows
    <2>4. QED BY <1>4, <1>8, <2>1, <2>3 DEF Spends, TotpSpend
<1>9. ASSUME NEW c \in BackupCode PROVE BackupSpend(c)'
    <2>1. BackupSpend(c) /\ c \in Code /\ spends[c] \in Nat BY <1>1, <1>9 DEF Spends, Code, Rows
    <2>2. /\ Cardinality(Selected(c)') <= Cardinality(Selected(c)) /\ Selected(c) \in SUBSET MfaRequests
          /\ Cardinality(Selected(c)') \in Nat /\ Cardinality(Selected(c)) \in Nat
          /\ Cardinality(Selected(c)) <= Cardinality(MfaRequests)
        BY <1>6, SpendersOf, SizeMonotone, SizeOf
    <2>3. CASE c # k
        <3>1. spends'[c] = spends[c] BY <1>1, <1>5, <2>1, <2>3 DEF Rows
        <3>2. QED BY <1>1, <1>4, <2>1, <2>2, <3>1 DEF BackupSpend
    <2>4. CASE c = k
        <3>1. spends'[c] = spends[c] + 1 BY <1>1, <1>5, <2>1, <2>4 DEF Rows
        <3>2. Cardinality(Selected(c)') + 1 = Cardinality(Selected(c))
            BY <1>6, <1>7, <2>2, <2>4, SizeRemoved
        <3>3. spends[c] + Cardinality(Selected(c)) <= Cardinality(MfaRequests)
            BY <1>1, <2>1, <2>2 DEF BackupSpend
        <3>4. spends'[c] + Cardinality(Selected(c)') <= Cardinality(MfaRequests)
            BY <1>1, <2>1, <2>2, <3>1, <3>2, <3>3
        <3>5. spends'[c] <= Cardinality(MfaRequests) /\ c \in consumed'
            BY <1>1, <1>4, <2>1, <2>2, <2>4, <3>1, <3>4
        <3>6. QED BY <3>4, <3>5 DEF BackupSpend
    <2>5. QED BY <2>3, <2>4
<1>10. QED BY <1>4, <1>8, <1>9 DEF Spends

\* While the code's secret is the identity's, the marker admits the code once; a handler left over
\* from an earlier secret leaves the set of those that may still spend the code.
LEMMA VerifyTotpSpends ==
    ASSUME Typed, Spends, NEW r \in MfaRequests, VerifyTotp(r)
    PROVE  Spends'
<1>1. Rows /\ Cardinality(MfaRequests) \in Nat BY TypedRows, RequestsSize
<1> DEFINE k == mfaReq[r].code
<1>2. k \in TotpCode /\ mfaReq[r].pc = "loaded" /\ mfaReq[r].op \in Spending BY DEF VerifyTotp, MfaAt, Spending
<1>3. Moved(r) /\ mfaReq'[r].pc = "verified" BY <1>2, GotoEffect DEF VerifyTotp
<1>4. UNCHANGED <<secrets, consumed>> /\ MarkStepUsed(k.n) /\ Fresh(k.n) BY DEF VerifyTotp
<1>5. spends' = [spends EXCEPT ![k] = @ + 1] BY DEF VerifyTotp
<1>6. \A c : Loaded(c)' = Loaded(c) \ {r} /\ Selected(c)' = Selected(c) \ {r} BY <1>3, Leaves DEF Moved
<1>7. r \in Loaded(k) BY <1>2 DEF Loaded
<1> HIDE DEF k
<1>8. k.n \in Step BY <1>2 DEF TotpCode
<1>9. row' \in Row /\ row'.secret = row.secret /\ row'.last >= row.last /\ row'.last >= k.n
    BY <1>4, <1>8, MarkStepUsedType
<1>10. row.last \in Nat /\ row'.last \in Nat BY <1>1, <1>9 DEF Rows, Row
<1>11. ASSUME NEW c \in BackupCode PROVE BackupSpend(c)'
    <2>1. Selected(c)' = Selected(c) BY <1>2, <1>6 DEF Selected
    <2>2. c \in Code /\ c # k BY <1>2, <1>11 DEF Code, TotpCode, BackupCode
    <2>3. spends'[c] = spends[c] BY <1>1, <1>5, <2>2 DEF Rows
    <2>4. QED BY <1>4, <1>11, <2>1, <2>3 DEF Spends, BackupSpend
<1>12. ASSUME NEW c \in TotpCode PROVE TotpSpend(c)'
    <2>1. TotpSpend(c) /\ c \in Code /\ spends[c] \in Nat /\ c.n \in Nat /\ c.n >= 1
        BY <1>1, <1>12 DEF Spends, Code, Rows, TotpCode, Step
    <2>2. /\ Cardinality(Loaded(c)') <= Cardinality(Loaded(c)) /\ Loaded(c) \in SUBSET MfaRequests
          /\ Cardinality(Loaded(c)') \in Nat /\ Cardinality(Loaded(c)) \in Nat
        BY <1>6, SpendersOf, SizeMonotone, SizeOf
    <2>3. CASE c # k
        <3>1. spends'[c] = spends[c] BY <1>1, <1>5, <2>1, <2>3 DEF Rows
        <3>2. row'.secret = c.of => spends'[c] <= 1 /\ (spends'[c] = 1 => c.n <= row'.last)
            BY <1>9, <1>10, <2>1, <3>1 DEF TotpSpend
        <3>3. row'.secret # c.of => spends'[c] + Cardinality(Loaded(c)') <= Cardinality(MfaRequests)
            BY <1>1, <1>9, <2>1, <2>2, <3>1 DEF TotpSpend
        <3>4. c.of > secrets' => spends'[c] = 0 /\ Loaded(c)' = {}
            BY <1>4, <1>6, <2>1, <3>1 DEF TotpSpend
        <3>5. QED BY <2>1, <3>1, <3>2, <3>3, <3>4 DEF TotpSpend
    <2>4. CASE c = k
        <3>1. spends'[c] = spends[c] + 1 BY <1>1, <1>5, <2>1, <2>4 DEF Rows
        <3>2. ~(c.of > secrets') BY <1>4, <1>7, <2>1, <2>4 DEF TotpSpend
        <3>3. Cardinality(Loaded(c)') + 1 = Cardinality(Loaded(c))
            BY <1>6, <1>7, <2>2, <2>4, SizeRemoved
        <3>4. CASE row.secret = c.of
            <4>1. spends[c] = 0 BY <1>4, <1>10, <2>1, <2>4, <3>4 DEF TotpSpend, Fresh
            <4>2. Cardinality(MfaRequests) >= 1
                <5>1. Cardinality(Loaded(c)) <= Cardinality(MfaRequests) BY <2>2, SizeOf
                <5>2. QED BY <1>1, <2>2, <3>3, <5>1
            <4>3. c.n <= row'.last BY <1>9, <1>10, <2>1, <2>4
            <4>4. QED BY <1>1, <1>9, <3>1, <3>2, <3>4, <4>1, <4>2, <4>3 DEF TotpSpend
        <3>5. CASE row.secret # c.of
            <4>1. spends[c] + Cardinality(Loaded(c)) <= Cardinality(MfaRequests)
                BY <2>1, <3>5 DEF TotpSpend
            <4>2. spends'[c] + Cardinality(Loaded(c)') <= Cardinality(MfaRequests)
                BY <1>1, <2>1, <2>2, <3>1, <3>3, <4>1
            <4>3. spends'[c] <= Cardinality(MfaRequests) BY <1>1, <2>1, <2>2, <3>1, <4>2
            <4>4. QED BY <1>9, <3>2, <3>5, <4>2, <4>3 DEF TotpSpend
        <3>6. QED BY <3>4, <3>5
    <2>5. QED BY <2>3, <2>4
<1>13. QED BY <1>4, <1>9, <1>11, <1>12 DEF Spends

\* A new secret, or none: the codes of the old one are left to the handlers that had loaded them,
\* and the handler that changes the secret is not one of these.
LEMMA ResetSpends ==
    ASSUME Typed, Spends, NEW r \in MfaRequests, Moved(r), mfaReq'[r] = NoMfaHandler,
           mfaReq[r].pc = "tx" \/ mfaReq[r].op = "enable", mfaReq[r].pc # "consume",
           UNCHANGED <<spends, consumed>>, secrets' \in Nat, secrets' >= secrets,
           row'.secret \in {0} \cup {n \in Nat : n > secrets}, row'.secret <= secrets'
    PROVE  Spends'
<1>1. Rows /\ Cardinality(MfaRequests) \in Nat BY TypedRows, RequestsSize
<1>2. \A c : Loaded(c)' = Loaded(c) \ {r} /\ Selected(c)' = Selected(c) \ {r}
    BY Leaves DEF Moved, NoMfaHandler
<1>3. \A c : r \notin Loaded(c) /\ r \notin Selected(c) BY DEF Loaded, Selected, Spending
<1>4. \A c : Loaded(c)' = Loaded(c) /\ Selected(c)' = Selected(c) BY <1>2, <1>3
<1>5. ASSUME NEW c \in BackupCode PROVE BackupSpend(c)'
    BY <1>4, <1>5 DEF Spends, BackupSpend
<1>6. ASSUME NEW c \in TotpCode PROVE TotpSpend(c)'
    <2>1. TotpSpend(c) /\ spends[c] \in Nat /\ c.of \in Nat /\ c.of >= 1
        BY <1>1, <1>6 DEF Spends, Code, Rows, TotpCode, Secret
    <2>2. secrets \in Nat /\ row.secret \in Nat /\ row.secret <= secrets
        BY <1>1 DEF Rows, Row, Spends
    <2>3. Cardinality(Loaded(c)) \in Nat /\ Cardinality(Loaded(c)) + 1 <= Cardinality(MfaRequests)
        BY <1>3, SpendersOf, SizeOf, SizeWithout
    <2>4. c.of > secrets' => spends[c] = 0 /\ Loaded(c)' = {}
        BY <1>4, <2>1, <2>2 DEF TotpSpend
    <2>5. row'.secret = c.of => spends[c] = 0
        BY <2>1, <2>2 DEF TotpSpend
    <2>6. row'.secret # c.of => spends[c] + Cardinality(Loaded(c)) <= Cardinality(MfaRequests)
        BY <1>1, <2>1, <2>2, <2>3 DEF TotpSpend
    <2>7. QED BY <1>4, <2>1, <2>4, <2>5, <2>6 DEF TotpSpend
<1>7. QED BY <1>5, <1>6 DEF Spends

LEMMA SpendsStep ==
    ASSUME Typed, Spends, [MfaNext]_mfaVars
    PROVE  Spends'
<1>1. Rows BY TypedRows
<1>2. CASE UNCHANGED mfaVars BY <1>2, UnchangedCalm, CalmSpends DEF mfaVars
<1>3. CASE Tick BY <1>3, UnchangedCalm, CalmSpends DEF Tick
<1>4. ASSUME NEW r \in MfaRequests, Act(r) PROVE Spends'
    <2>1. CASE ConfirmCode(r) \/ Validated(r) \/ BeginTx(r) \/ EnableMfa(r) \/ RegenerateBackupCodes(r) \/ Refuse(r)
        BY <2>1, CalmSteps, CalmSpends
    <2>2. CASE BeginEnrollment(r)
        <3>1. Moved(r) /\ mfaReq'[r] = NoMfaHandler BY <2>2, MovedIdle DEF BeginEnrollment
        <3>2. secrets \in Nat /\ secrets' = secrets + 1 /\ row'.secret = secrets + 1
            BY <1>1, <2>2 DEF BeginEnrollment, Rows
        <3>3. QED BY <2>2, <3>1, <3>2, ResetSpends DEF BeginEnrollment, MfaAt
    <2>3. CASE DisableMfa(r)
        <3>1. Moved(r) /\ mfaReq'[r] = NoMfaHandler BY <2>3, MovedIdle DEF DisableMfa
        <3>2. secrets \in Nat /\ secrets' = secrets /\ row'.secret = 0
            BY <1>1, <2>3 DEF DisableMfa, Rows, NoRow
        <3>3. QED BY <2>3, <3>1, <3>2, ResetSpends DEF DisableMfa, MfaAt
    <2>4. QED BY <1>4, <2>1, <2>2, <2>3, SessionIdentitySpends, SelectBackupCodeSpends,
                 ConsumeBackupCodeSpends, VerifyTotpSpends DEF Act
<1>5. QED BY <1>2, <1>3, <1>4, NextActs

LEMMA SpendsInit == MfaInit => Spends
<1> SUFFICES ASSUME MfaInit PROVE Spends OBVIOUS
<1>1. Cardinality(MfaRequests) \in Nat BY RequestsSize
<1>2. \A c : Loaded(c) = {} /\ Selected(c) = {} BY DEF MfaInit, NoMfaHandler, Loaded, Selected
<1>3. row.secret = 0 /\ secrets = 0 /\ \A c \in Code : spends[c] = 0 BY DEF MfaInit, NoRow
<1>4. Cardinality({}) = 0 BY FS_EmptySet
<1>5. ASSUME NEW c \in TotpCode PROVE TotpSpend(c)
    <2>1. spends[c] = 0 /\ Loaded(c) = {} BY <1>2, <1>3, <1>5 DEF Code
    <2>2. QED BY <1>1, <1>4, <2>1 DEF TotpSpend
<1>6. ASSUME NEW c \in BackupCode PROVE BackupSpend(c)
    <2>1. spends[c] = 0 BY <1>3, <1>6 DEF Code
    <2>2. QED BY <1>1, <2>1 DEF BackupSpend
<1>7. QED BY <1>3, <1>5, <1>6 DEF Spends

\* A code, TOTP or backup, is accepted at most once per request that can be in flight: only those
\* that were when it was first accepted can spend it again (verify, consume_backup_code).
THEOREM CodeSpendBounded == MfaSpec => []CodeSpendBound
<1>1. Typed /\ Spends /\ [MfaNext]_mfaVars => Typed' /\ Spends' BY TypedStep, SpendsStep
<1>2. Spends => CodeSpendBound BY DEF Spends, TotpSpend, BackupSpend, CodeSpendBound, Code
<1>3. QED BY <1>1, <1>2, TypedInit, SpendsInit, PTL DEF MfaSpec

-----------------------------------------------------------------------------
(***************************************************************************)
(* What turns MFA off.                                                     *)
(***************************************************************************)

\* No code is ever unspent.
LEMMA SpendsGrow ==
    ASSUME Typed, NEW r \in MfaRequests, Act(r), NEW c \in Code
    PROVE  spends[c] \in Nat /\ spends'[c] \in Nat /\ spends'[c] >= spends[c]
<1>1. spends \in [Code -> Nat] BY DEF Typed, MfaTypeOK
<1>2. CASE VerifyTotp(r) \/ ConsumeBackupCode(r)
    <2>1. spends' = [spends EXCEPT ![mfaReq[r].code] = @ + 1] BY <1>2 DEF VerifyTotp, ConsumeBackupCode
    <2>2. QED BY <1>1, <2>1
<1>3. CASE spends' = spends BY <1>1, <1>3
<1>4. QED BY <1>2, <1>3 DEF Act, SessionIdentity, BeginEnrollment, ConfirmCode, SelectBackupCode, Validated,
             BeginTx, EnableMfa, DisableMfa, RegenerateBackupCodes, Refuse

\* What Warranted says of one handler.
WarrantOf(h) ==
    /\ h.pc \in {"verified", "tx"} /\ h.op \in Spending => spends[h.code] > 0
    /\ h.pc = "loaded" /\ h.op = "enable" /\ row.enabled => h.stale

\* The handlers that do not move keep their warrant, unless MFA is turned on under them.
LEMMA OthersWarranted ==
    ASSUME Typed, Warranted, NEW r \in MfaRequests, Act(r), Moved(r), row'.enabled => row.enabled
    PROVE  \A q \in MfaRequests : q # r => WarrantOf(mfaReq[q])'
<1> SUFFICES ASSUME NEW q \in MfaRequests, q # r PROVE WarrantOf(mfaReq[q])' OBVIOUS
<1>1. mfaReq'[q] = mfaReq[q] /\ WarrantOf(mfaReq[q]) BY DEF Moved, Warranted, WarrantOf
<1>2. mfaReq[q].pc # "idle" /\ mfaReq[q].op \in Spending => mfaReq[q].code \in Code BY HandlerParts DEF ControlOf
<1>3. mfaReq[q].pc \in {"verified", "tx"} /\ mfaReq[q].op \in Spending => spends'[mfaReq[q].code] > 0
    BY <1>1, <1>2, SpendsGrow DEF WarrantOf
<1>4. QED BY <1>1, <1>3 DEF WarrantOf

LEMMA WarrantedStep ==
    ASSUME Typed, Warranted, [MfaNext]_mfaVars
    PROVE  Warranted'
<1>1. CASE UNCHANGED <<row, mfaReq, spends>> BY <1>1 DEF Warranted
<1>2. CASE Tick BY <1>1, <1>2 DEF Tick
<1>3. ASSUME NEW r \in MfaRequests, Act(r) PROVE Warranted'
    <2>1. Rows /\ mfaReq[r] \in MfaHandler /\ ControlOf(mfaReq[r]) BY TypedRows, HandlerParts
    <2>2. ASSUME Moved(r), row'.enabled => row.enabled, WarrantOf(mfaReq[r])' PROVE Warranted'
        BY <1>3, <2>2, OthersWarranted DEF Warranted, WarrantOf
    <2>3. CASE \E op \in MfaOp, c \in Code \cup {NoCode} : SessionIdentity(r, op, c)
        <3>1. PICK op \in MfaOp, c \in Code \cup {NoCode} : SessionIdentity(r, op, c) BY <2>3
        <3>2. Moved(r) /\ mfaReq'[r].pc = "loaded" /\ mfaReq'[r].op = op BY <3>1, SessionIdentityEffect
        <3>3. row' = row /\ (op = "enable" => ~row.enabled) BY <3>1 DEF SessionIdentity, Admits
        <3>4. QED BY <2>2, <3>2, <3>3 DEF WarrantOf
    <2>4. CASE BeginEnrollment(r) \/ DisableMfa(r)
        <3>1. Moved(r) /\ mfaReq'[r] = NoMfaHandler BY <2>4, MovedIdle DEF BeginEnrollment, DisableMfa
        <3>2. row'.enabled = FALSE BY <2>4 DEF BeginEnrollment, DisableMfa, NoRow
        <3>3. QED BY <2>2, <3>1, <3>2 DEF WarrantOf, NoMfaHandler
    <2>5. CASE Validated(r) \/ RegenerateBackupCodes(r) \/ Refuse(r)
        <3>1. Moved(r) /\ mfaReq'[r] = NoMfaHandler
            BY <2>5, MovedIdle DEF Validated, RegenerateBackupCodes, Refuse
        <3>2. row' = row BY <2>5, RowAlone
        <3>3. QED BY <2>2, <3>1, <3>2 DEF WarrantOf, NoMfaHandler
    <2>6. CASE ConfirmCode(r)
        <3>1. Moved(r) /\ mfaReq'[r].pc = "verified" /\ mfaReq'[r].op = "verify"
            BY <2>6, GotoEffect DEF ConfirmCode, MfaAt
        <3>2. mfaReq[r].code.n \in Step /\ MarkStepUsed(mfaReq[r].code.n)
            BY <2>1, <2>6 DEF ConfirmCode, MfaAt, ControlOf, TotpCode
        <3>3. row'.enabled = row.enabled BY <3>2, MarkStepUsedType
        <3>4. QED BY <2>2, <3>1, <3>3 DEF WarrantOf, Spending
    <2>7. CASE VerifyTotp(r)
        <3>1. mfaReq[r].code \in TotpCode /\ mfaReq[r].code \in Code BY <2>7 DEF VerifyTotp, Code
        <3>2. Moved(r) /\ mfaReq'[r].pc = "verified" /\ mfaReq'[r].op = mfaReq[r].op /\ mfaReq'[r].code = mfaReq[r].code
            BY <2>7, GotoEffect DEF VerifyTotp, MfaAt
        <3>3. mfaReq[r].code.n \in Step /\ MarkStepUsed(mfaReq[r].code.n) BY <2>7, <3>1 DEF VerifyTotp, TotpCode
        <3>4. row'.enabled = row.enabled BY <3>3, MarkStepUsedType
        <3>5. spends'[mfaReq[r].code] > 0 BY <2>1, <2>7, <3>1 DEF VerifyTotp, Rows
        <3>6. QED BY <2>2, <3>2, <3>4, <3>5 DEF WarrantOf
    <2>8. CASE SelectBackupCode(r)
        <3>1. Moved(r) /\ mfaReq'[r].pc = "consume"
            BY <2>1, <2>8, GotoEffect DEF SelectBackupCode, MfaAt, Spending, Rows
        <3>2. row' = row BY <2>8, RowAlone
        <3>3. QED BY <2>2, <3>1, <3>2 DEF WarrantOf
    <2>9. CASE ConsumeBackupCode(r)
        <3>1. mfaReq[r].code \in BackupCode /\ mfaReq[r].code \in Code
            BY <2>1, <2>9 DEF ConsumeBackupCode, Rows, Code
        <3>2. Moved(r) /\ mfaReq'[r].pc = "verified" /\ mfaReq'[r].code = mfaReq[r].code
            BY <2>9, GotoEffect DEF ConsumeBackupCode, MfaAt
        <3>3. spends'[mfaReq[r].code] > 0 BY <2>1, <2>9, <3>1 DEF ConsumeBackupCode, Rows
        <3>4. row' = row BY <2>9, RowAlone
        <3>5. QED BY <2>2, <3>2, <3>3, <3>4 DEF WarrantOf
    <2>10. CASE BeginTx(r)
        <3>1. /\ Moved(r) /\ mfaReq'[r].pc = "tx" /\ mfaReq'[r].op = mfaReq[r].op /\ mfaReq'[r].code = mfaReq[r].code
              /\ mfaReq[r].pc = "verified"
            BY <2>10, BeginTxEffect DEF BeginTx, MfaAt
        <3>2. row' = row /\ spends' = spends BY <2>10, RowAlone DEF BeginTx
        <3>3. QED BY <2>2, <3>1, <3>2 DEF WarrantOf, Warranted
    <2>11. CASE EnableMfa(r)
        <3>1. spends' = spends BY <2>11 DEF EnableMfa
        <3>2. mfaReq'[r] = NoMfaHandler BY <2>11, EnableMfaEffect
        <3>3. ASSUME NEW q \in MfaRequests, q # r PROVE WarrantOf(mfaReq[q])'
            <4>1. /\ mfaReq'[q].pc = mfaReq[q].pc /\ mfaReq'[q].op = mfaReq[q].op /\ mfaReq'[q].code = mfaReq[q].code
                  /\ mfaReq'[q].stale = (mfaReq[q].op = "enable")
                BY <2>11, <3>3, EnableMfaEffect
            <4>2. mfaReq[q].pc \in {"verified", "tx"} /\ mfaReq[q].op \in Spending => spends[mfaReq[q].code] > 0
                BY DEF Warranted
            <4>3. QED BY <3>1, <4>1, <4>2 DEF WarrantOf
        <3>4. QED BY <3>2, <3>3 DEF Warranted, WarrantOf, NoMfaHandler
    <2>12. QED BY <1>3, <2>3, <2>4, <2>5, <2>6, <2>7, <2>8, <2>9, <2>10, <2>11 DEF Act
<1>4. QED BY <1>1, <1>2, <1>3, NextActs DEF mfaVars

LEMMA WarrantedInit == MfaInit => Warranted
BY DEF MfaInit, Warranted, NoMfaHandler

\* What OffNeedsCode says of one step.
Off ==
    row.enabled /\ ~row'.enabled =>
        \E r \in MfaRequests :
            /\ mfaReq'[r] # mfaReq[r]
            /\ \/ mfaReq[r].op = "disable" /\ spends[mfaReq[r].code] > 0
               \/ mfaReq[r].op = "enable" /\ mfaReq[r].stale

LEMMA OffStep ==
    ASSUME Typed, Warranted, [MfaNext]_mfaVars
    PROVE  Off
<1>1. CASE row' = row BY <1>1 DEF Off
<1>2. CASE Tick BY <1>1, <1>2 DEF Tick
<1>3. ASSUME NEW r \in MfaRequests, Act(r) PROVE Off
    <2>1. CASE BeginEnrollment(r)
        <3>1. mfaReq'[r] = NoMfaHandler /\ mfaReq[r].pc = "loaded" /\ mfaReq[r].op = "enable"
            BY <2>1, MovedIdle DEF BeginEnrollment, MfaAt
        <3>2. mfaReq'[r] # mfaReq[r] BY <3>1 DEF NoMfaHandler
        <3>3. row.enabled => mfaReq[r].stale BY <3>1 DEF Warranted
        <3>4. QED BY <3>1, <3>2, <3>3 DEF Off
    <2>2. CASE DisableMfa(r)
        <3>1. mfaReq'[r] = NoMfaHandler /\ mfaReq[r].pc = "tx" /\ mfaReq[r].op = "disable"
            BY <2>2, MovedIdle DEF DisableMfa, MfaAt
        <3>2. mfaReq'[r] # mfaReq[r] BY <3>1 DEF NoMfaHandler
        <3>3. spends[mfaReq[r].code] > 0 BY <3>1 DEF Warranted, Spending
        <3>4. QED BY <3>1, <3>2, <3>3 DEF Off
    <2>3. CASE ConfirmCode(r) \/ VerifyTotp(r)
        <3>1. mfaReq[r].code.n \in Step /\ MarkStepUsed(mfaReq[r].code.n)
            BY <2>3, HandlerParts DEF ConfirmCode, VerifyTotp, MfaAt, ControlOf, TotpCode
        <3>2. row'.enabled = row.enabled BY <3>1, MarkStepUsedType
        <3>3. QED BY <3>2 DEF Off
    <2>4. CASE EnableMfa(r)
        <3>1. row'.enabled BY <2>4, TypedRows DEF EnableMfa, Rows, Row
        <3>2. QED BY <3>1 DEF Off
    <2>5. QED BY <1>1, <1>3, <2>1, <2>2, <2>3, <2>4, RowAlone DEF Act
<1>4. QED BY <1>1, <1>2, <1>3, NextActs DEF mfaVars

\* MFA goes off only in a disable whose code was accepted, or in a restarted enrolment whose handler
\* read the identity before MFA was last turned on (mfa_disable, begin_enrollment).
THEOREM OffAlwaysNeedsCode == MfaSpec => OffNeedsCode
<1>1. Typed /\ Warranted /\ [MfaNext]_mfaVars => Typed' /\ Warranted' /\ [Off]_mfaVars
    BY TypedStep, WarrantedStep, OffStep
<1>2. MfaSpec => [][Off]_mfaVars BY <1>1, TypedInit, WarrantedInit, PTL DEF MfaSpec
<1>3. QED BY <1>2 DEF OffNeedsCode, Off
=============================================================================
