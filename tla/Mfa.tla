-------------------------------- MODULE Mfa --------------------------------
(***************************************************************************)
(* The second factor of one identity: TOTP enrolment, code verification,   *)
(* disabling and backup codes (services/mfa.rs, repo/mfa.rs, routes/mfa.rs)*)
(* A handler reads the identity once and acts on that copy; every SQL      *)
(* statement is a step, and the DELETE of a transaction sees only the rows *)
(* committed when it starts.  A code stands for itself: the TOTP code of a *)
(* secret and a time step, or one backup code of a batch.                  *)
(***************************************************************************)
EXTENDS Naturals, FiniteSets

CONSTANTS
    MfaRequests,  \* handlers that may be in flight at the same time
    MaxSecret,    \* bound: secrets ever generated
    MaxBatch,     \* bound: batches of backup codes ever generated
    BatchSize,    \* BACKUP_CODE_COUNT
    MaxStep,      \* bound: the last TOTP time step
    Skew          \* TOTP_SKEW_STEPS

ASSUME MfaAssumption ==
    /\ {MaxSecret, MaxBatch, BatchSize, MaxStep, Skew} \subseteq Nat
    /\ MaxStep > 0 /\ BatchSize > 0 /\ IsFiniteSet(MfaRequests)

VARIABLES
    row,        \* identities: mfa_secret, mfa_enabled, mfa_last_used_step (0 is NULL)
    codes,      \* identity_backup_codes
    consumed,   \* the codes with a consumed_at
    lock,       \* the requests whose transaction holds the identity's row lock
    secrets,    \* secrets generated so far
    batches,    \* batches generated so far
    now,        \* the current TOTP time step
    mfaReq,     \* the handlers in flight
    spends,     \* history: how often a code was accepted by verify
    accepted    \* history: steps accepted since the replay marker was last reset

mfaVars == <<row, codes, consumed, lock, secrets, batches, now, mfaReq, spends, accepted>>

-----------------------------------------------------------------------------
Secret == 1..MaxSecret
Step == 1..MaxStep
TotpCode == [kind : {"totp"}, of : Secret, n : Step]
BackupCode == [kind : {"backup"}, of : 1..MaxBatch, n : 1..BatchSize]
Code == TotpCode \cup BackupCode
NoCode == [kind |-> "none", of |-> 0, n |-> 0]

Row == [secret : 0..MaxSecret, enabled : BOOLEAN, last : 0..MaxStep]

MfaOp == {"none", "enable", "verify", "validate", "disable", "regenerate"}
MfaLabel == {"idle", "loaded", "consume", "verified", "tx"}

\* Of the identity a handler read, what it still uses is the secret, and that is code.of.
\* stale is history: MFA was turned on after the handler read the identity.
MfaHandler == [pc : MfaLabel, op : MfaOp, code : Code \cup {NoCode}, seen : SUBSET BackupCode, stale : BOOLEAN]

NoRow == [secret |-> 0, enabled |-> FALSE, last |-> 0]
NoMfaHandler == [pc |-> "idle", op |-> "none", code |-> NoCode, seen |-> {}, stale |-> FALSE]

MfaInit ==
    /\ row = NoRow
    /\ codes = {} /\ consumed = {} /\ lock = {}
    /\ secrets = 0 /\ batches = 0 /\ now = 1
    /\ mfaReq = [r \in MfaRequests |-> NoMfaHandler]
    /\ spends = [c \in Code |-> 0]
    /\ accepted = [s \in Step |-> 0]

\* The codes a client can know: those of secrets and batches it was given.
Known == {c \in TotpCode : c.of <= secrets} \cup {c \in BackupCode : c.of <= batches}

MfaAt(r, l) == mfaReq[r].pc = l
MfaMove(r, h) == mfaReq' = [mfaReq EXCEPT ![r] = h]
MfaGoto(r, l) == MfaMove(r, [mfaReq[r] EXCEPT !.pc = l])

\* matching_step: the code's step is within Skew of the current one.
MatchingStep(c) == c.n \in (IF now > Skew THEN now - Skew ELSE 0)..(now + Skew)

Unlocked == lock = {}

-----------------------------------------------------------------------------
(***************************************************************************)
(* session_identity, and the load of the identity in complete_mfa_login.   *)
(* Every later decision is taken on this copy, so what it rules out (MFA   *)
(* already on or still off, no secret, the code of another secret) is an   *)
(* answer without effect and no step.                                      *)
(***************************************************************************)
Admits_EnableAlways(op, c) ==
    \/ op = "enable" /\ c = NoCode
    \/ op = "verify" /\ ~row.enabled /\ c \in TotpCode /\ c.of = row.secret
    \/ /\ op \in {"validate", "disable", "regenerate"} /\ row.enabled
       /\ c \in BackupCode \/ (c \in TotpCode /\ c.of = row.secret)

Admits(op, c) ==
    \/ op = "enable" /\ ~row.enabled /\ c = NoCode
    \/ op = "verify" /\ ~row.enabled /\ c \in TotpCode /\ c.of = row.secret
    \/ /\ op \in {"validate", "disable", "regenerate"} /\ row.enabled
       /\ c \in BackupCode \/ (c \in TotpCode /\ c.of = row.secret)

SessionIdentity(r, op, c) ==
    /\ MfaAt(r, "idle")
    /\ Admits(op, c)
    /\ MfaMove(r, [NoMfaHandler EXCEPT !.pc = "loaded", !.op = op, !.code = c])
    /\ UNCHANGED <<row, codes, consumed, lock, secrets, batches, now, spends, accepted>>

(***************************************************************************)
(* begin_enrollment: a fresh secret is stored as pending, with mfa_enabled *)
(* = false and no replay marker.                                           *)
(***************************************************************************)
BeginEnrollment(r) ==
    /\ MfaAt(r, "loaded") /\ mfaReq[r].op = "enable"
    /\ Unlocked /\ secrets < MaxSecret
    /\ secrets' = secrets + 1
    /\ row' = [secret |-> secrets + 1, enabled |-> FALSE, last |-> 0]
    /\ accepted' = [s \in Step |-> 0]
    /\ MfaMove(r, NoMfaHandler)
    /\ UNCHANGED <<codes, consumed, lock, batches, now, spends>>

\* UPDATE ... WHERE mfa_last_used_step IS NULL OR mfa_last_used_step < step.
Fresh(s) == row.last = 0 \/ row.last < s

MarkStepUsed(s) == row' = [row EXCEPT !.last = IF Fresh(s) THEN s ELSE @]

\* confirm_enrollment up to mark_step_used, whose row count it ignores.
ConfirmCode(r) ==
    /\ MfaAt(r, "loaded") /\ mfaReq[r].op = "verify"
    /\ MatchingStep(mfaReq[r].code)
    /\ Unlocked
    /\ MarkStepUsed(mfaReq[r].code.n)
    /\ accepted' = [accepted EXCEPT ![mfaReq[r].code.n] = IF @ = 0 THEN 1 ELSE @]
    /\ MfaGoto(r, "verified")
    /\ UNCHANGED <<codes, consumed, lock, secrets, batches, now, spends>>

(***************************************************************************)
(* verify, called by require_valid_code and complete_mfa_login: a TOTP     *)
(* code is accepted by the row count of mark_step_used.  A code that is    *)
(* not accepted ends the handler (Refuse).                                 *)
(***************************************************************************)
VerifyTotp_IgnoresMarker(r) ==
    /\ MfaAt(r, "loaded") /\ mfaReq[r].op \in {"validate", "disable", "regenerate"}
    /\ mfaReq[r].code \in TotpCode /\ MatchingStep(mfaReq[r].code)
    /\ Unlocked
    /\ MarkStepUsed(mfaReq[r].code.n)
    /\ spends' = [spends EXCEPT ![mfaReq[r].code] = @ + 1]
    /\ accepted' = [accepted EXCEPT ![mfaReq[r].code.n] = @ + 1]
    /\ MfaGoto(r, "verified")
    /\ UNCHANGED <<codes, consumed, lock, secrets, batches, now>>

VerifyTotp(r) ==
    /\ MfaAt(r, "loaded") /\ mfaReq[r].op \in {"validate", "disable", "regenerate"}
    /\ mfaReq[r].code \in TotpCode /\ MatchingStep(mfaReq[r].code)
    /\ Unlocked
    /\ Fresh(mfaReq[r].code.n)
    /\ MarkStepUsed(mfaReq[r].code.n)
    /\ spends' = [spends EXCEPT ![mfaReq[r].code] = @ + 1]
    /\ accepted' = [accepted EXCEPT ![mfaReq[r].code.n] = @ + 1]
    /\ MfaGoto(r, "verified")
    /\ UNCHANGED <<codes, consumed, lock, secrets, batches, now>>

\* consume_backup_code: the sub-select finds the row of an unused code ...
SelectBackupCode_Consumed(r) ==
    /\ MfaAt(r, "loaded") /\ mfaReq[r].op \in {"validate", "disable", "regenerate"}
    /\ mfaReq[r].code \in codes
    /\ MfaGoto(r, "consume")
    /\ UNCHANGED <<row, codes, consumed, lock, secrets, batches, now, spends, accepted>>

SelectBackupCode(r) ==
    /\ MfaAt(r, "loaded") /\ mfaReq[r].op \in {"validate", "disable", "regenerate"}
    /\ mfaReq[r].code \in codes \ consumed
    /\ MfaGoto(r, "consume")
    /\ UNCHANGED <<row, codes, consumed, lock, secrets, batches, now, spends, accepted>>

\* ... and the UPDATE matches it by id, consumed in the meantime or not.
ConsumeBackupCode(r) ==
    /\ MfaAt(r, "consume")
    /\ mfaReq[r].code \in codes
    /\ consumed' = consumed \cup {mfaReq[r].code}
    /\ spends' = [spends EXCEPT ![mfaReq[r].code] = @ + 1]
    /\ MfaGoto(r, "verified")
    /\ UNCHANGED <<row, codes, lock, secrets, batches, now, accepted>>

\* complete_mfa_login takes over (Login!RedeemChallenge).
Validated(r) ==
    /\ MfaAt(r, "verified") /\ mfaReq[r].op = "validate"
    /\ MfaMove(r, NoMfaHandler)
    /\ UNCHANGED <<row, codes, consumed, lock, secrets, batches, now, spends, accepted>>

-----------------------------------------------------------------------------
(***************************************************************************)
(* The three transactions.  enable and disable update the identity first   *)
(* and so hold its row lock; replace_backup_codes does not.  Their DELETE  *)
(* removes the codes committed when it ran.                                *)
(***************************************************************************)
BeginTx(r) ==
    /\ MfaAt(r, "verified") /\ mfaReq[r].op \in {"verify", "disable", "regenerate"}
    /\ IF mfaReq[r].op = "regenerate" THEN UNCHANGED lock
       ELSE Unlocked /\ lock' = {r}
    /\ MfaMove(r, [mfaReq[r] EXCEPT !.pc = "tx", !.seen = codes])
    /\ UNCHANGED <<row, codes, consumed, secrets, batches, now, spends, accepted>>

\* replace_backup_codes_tx
Replaced(r) == (codes \ mfaReq[r].seen) \cup {c \in BackupCode : c.of = batches + 1}

EnableMfa_CodesLater(r) ==
    /\ MfaAt(r, "tx") /\ mfaReq[r].op = "verify"
    /\ row' = [row EXCEPT !.enabled = TRUE]
    /\ lock' = {}
    /\ mfaReq' = [q \in MfaRequests |-> IF q = r THEN [mfaReq[r] EXCEPT !.op = "regenerate"]
                                       ELSE [mfaReq[q] EXCEPT !.stale = mfaReq[q].op = "enable"]]
    /\ UNCHANGED <<codes, consumed, secrets, batches, now, spends, accepted>>

EnableMfa(r) ==
    /\ MfaAt(r, "tx") /\ mfaReq[r].op = "verify"
    /\ batches < MaxBatch
    /\ row' = [row EXCEPT !.enabled = TRUE]
    /\ codes' = Replaced(r)
    /\ batches' = batches + 1
    /\ lock' = {}
    /\ mfaReq' = [q \in MfaRequests |-> IF q = r THEN NoMfaHandler
                                       ELSE [mfaReq[q] EXCEPT !.stale = mfaReq[q].op = "enable"]]
    /\ UNCHANGED <<consumed, secrets, now, spends, accepted>>

DisableMfa(r) ==
    /\ MfaAt(r, "tx") /\ mfaReq[r].op = "disable"
    /\ row' = NoRow
    /\ codes' = codes \ mfaReq[r].seen
    /\ accepted' = [s \in Step |-> 0]
    /\ lock' = {}
    /\ MfaMove(r, NoMfaHandler)
    /\ UNCHANGED <<consumed, secrets, batches, now, spends>>

RegenerateBackupCodes(r) ==
    /\ MfaAt(r, "tx") /\ mfaReq[r].op = "regenerate"
    /\ batches < MaxBatch
    /\ codes' = Replaced(r)
    /\ batches' = batches + 1
    /\ MfaMove(r, NoMfaHandler)
    /\ UNCHANGED <<row, consumed, lock, secrets, now, spends, accepted>>

-----------------------------------------------------------------------------
Refuse_KeepsLock(r) ==
    /\ ~MfaAt(r, "idle")
    /\ MfaMove(r, NoMfaHandler)
    /\ UNCHANGED <<row, codes, consumed, lock, secrets, batches, now, spends, accepted>>

\* An error answer, or a failed or cancelled request: its transaction rolls back.
Refuse(r) ==
    /\ ~MfaAt(r, "idle")
    /\ lock' = lock \ {r}
    /\ MfaMove(r, NoMfaHandler)
    /\ UNCHANGED <<row, codes, consumed, secrets, batches, now, spends, accepted>>

Tick ==
    /\ now < MaxStep
    /\ now' = now + 1
    /\ UNCHANGED <<row, codes, consumed, lock, secrets, batches, mfaReq, spends, accepted>>

-----------------------------------------------------------------------------
(***************************************************************************)
(* The handlers of routes/mfa.rs, each the steps it takes.                 *)
(***************************************************************************)
In(r, op) == mfaReq[r].op = op

\* require_valid_code: load the identity, then accept or refuse the code.
RequireValidCode(r, op) ==
    \/ \E c \in Known : SessionIdentity(r, op, c)
    \/ In(r, op) /\ (VerifyTotp(r) \/ SelectBackupCode(r) \/ ConsumeBackupCode(r))

MfaEnable(r) == SessionIdentity(r, "enable", NoCode) \/ BeginEnrollment(r)
MfaVerify(r) ==
    \/ \E c \in Known : SessionIdentity(r, "verify", c)
    \/ ConfirmCode(r) \/ (In(r, "verify") /\ BeginTx(r)) \/ EnableMfa(r)
MfaValidate(r) == RequireValidCode(r, "validate") \/ Validated(r)
MfaDisable(r) == RequireValidCode(r, "disable") \/ (In(r, "disable") /\ BeginTx(r)) \/ DisableMfa(r)
MfaRegenerate(r) == RequireValidCode(r, "regenerate") \/ (In(r, "regenerate") /\ BeginTx(r)) \/ RegenerateBackupCodes(r)

MfaNext ==
    \/ \E r \in MfaRequests : MfaEnable(r) \/ MfaVerify(r) \/ MfaValidate(r) \/ MfaDisable(r) \/ MfaRegenerate(r) \/ Refuse(r)
    \/ Tick

MfaSpec == MfaInit /\ [][MfaNext]_mfaVars

-----------------------------------------------------------------------------
(***************************************************************************)
(* MfaTypeOK: the state of the identity row, the code table and the handlers; *)
(* only a transaction holds the row lock.                                  *)
(***************************************************************************)
MfaTypeOK ==
    /\ row \in Row
    /\ codes \subseteq BackupCode /\ consumed \subseteq BackupCode
    /\ \A r \in lock : MfaAt(r, "tx") /\ lock = {r} /\ r \in MfaRequests
    /\ secrets \in 0..MaxSecret /\ batches \in 0..MaxBatch /\ now \in Step
    /\ mfaReq \in [MfaRequests -> MfaHandler]
    /\ spends \in [Code -> Nat] /\ accepted \in [Step -> Nat]

(***************************************************************************)
(* mark_step_used: "Returns false if this step (or a later one) was        *)
(* already accepted".  While the replay marker stands, verify accepts no   *)
(* time step twice, and none that confirmed the enrolment, whatever        *)
(* requests race for it.                                                   *)
(***************************************************************************)
NoReplay == \A s \in Step : accepted[s] <= 1

(***************************************************************************)
(* services/mfa.rs:5 promises "single-use backup codes", README.md:140     *)
(* that "TOTP codes cannot be replayed".  Neither holds: two requests may  *)
(* both select a backup code before one consumes it, and a code checked    *)
(* against a secret read before MFA was disabled is fresh again once the   *)
(* marker is reset.  The negation of SomeCodeSingleUse is one behaviour    *)
(* that breaks both promises.                                              *)
(***************************************************************************)
BackupSingleUse == \A c \in BackupCode : spends[c] <= 1
TotpSingleUse == \A c \in TotpCode : spends[c] <= 1
SomeCodeSingleUse == BackupSingleUse \/ TotpSingleUse

(***************************************************************************)
(* verify: what does hold of the single use promised above.  A code, TOTP  *)
(* or backup, can be accepted again only by requests that were in flight   *)
(* when it was first accepted: never more often than there are requests.   *)
(***************************************************************************)
CodeSpendBound == \A c \in Code : spends[c] <= Cardinality(MfaRequests)

(***************************************************************************)
(* enable and disable keep the identity and its backup codes together: an  *)
(* identity with MFA on has backup codes, also when a regeneration runs    *)
(* beside them or any of them fails half-way.                              *)
(***************************************************************************)
EnabledHasBackupCodes == row.enabled => codes # {}

(***************************************************************************)
(* mfa_disable: "requires a current TOTP or backup code".  MFA goes off    *)
(* only in a disable whose code was accepted, or in a restarted enrolment  *)
(* whose handler read the identity before MFA was last turned on.          *)
(***************************************************************************)
OffNeedsCode ==
    [][row.enabled /\ ~row'.enabled =>
         \E r \in MfaRequests :
            /\ mfaReq'[r] # mfaReq[r]
            /\ \/ mfaReq[r].op = "disable" /\ spends[mfaReq[r].code] > 0
               \/ mfaReq[r].op = "enable" /\ mfaReq[r].stale]_mfaVars
=============================================================================
