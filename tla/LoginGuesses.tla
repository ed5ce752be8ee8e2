---------------------------- MODULE LoginGuesses ----------------------------
(***************************************************************************)
(* Login with an observer that counts the wrong second factors given since *)
(* the identity was last locked or last logged in with one.                *)
(***************************************************************************)
EXTENDS Login

CONSTANT MaxWrongCodes    \* bound of the model on the observer

VARIABLE wrongCodes

\* The identity was locked, or a right code was accepted.
Settled == identity'.lock = "held" \/ \E r \in Requests : At(r, "redeem") /\ req'[r].pc = "clear"

\* A handler of complete_mfa_login registered a failed attempt.
GuessedWrong ==
    \E r \in Requests : At(r, "fail") /\ req[r].kind = "mfa" /\ identity'.failed > identity.failed

Observe ==
    \/ Settled /\ wrongCodes' = 0
    \/ ~Settled /\ GuessedWrong /\ wrongCodes < MaxWrongCodes /\ wrongCodes' = wrongCodes + 1
    \/ ~Settled /\ ~GuessedWrong /\ UNCHANGED wrongCodes

\* One client that knows the password and one second factor at a time.
GuessSurfaces == {[routes |-> {"password", "mfa"}, events |-> {}, maxFailed |-> 3]}

GuessInit == Init /\ wrongCodes = 0

GuessNext == Next /\ Observe

GuessSpec == GuessInit /\ [][GuessNext]_<<vars, wrongCodes>>

-----------------------------------------------------------------------------
(***************************************************************************)
(* complete_mfa_login's comment: wrong codes count toward "the identity's  *)
(* global lockout, so the second factor cannot be brute-forced by          *)
(* repeating the first".  With one handler at a time, LockAfter wrong      *)
(* codes in a row never go by without a lock.                              *)
(***************************************************************************)
WrongCodesLock == wrongCodes < LockAfter
=============================================================================
