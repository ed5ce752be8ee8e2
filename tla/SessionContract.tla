-------------------------- MODULE SessionContract --------------------------
(***************************************************************************)
(* What the session layer promises its callers, whatever the backend.  A   *)
(* token is issued once; once it stops validating it never validates       *)
(* again; and a logout that answers "ok" has ended every session it owed,  *)
(* that is, every covered session that was in a client's hands when it     *)
(* took its inventory.  A logout that fails promises nothing.              *)
(***************************************************************************)
CONSTANTS Requests, Tokens

VARIABLES
    issued,   \* tokens that were ever handed to a client
    live,     \* issued tokens that validate
    owed,     \* per logout in flight: the tokens it has to end
    answer    \* per logout: "none" until it answers

contractVars == <<issued, live, owed, answer>>

ContractInit ==
    /\ issued = {} /\ live = {}
    /\ owed = [r \in Requests |-> {}]
    /\ answer = [r \in Requests |-> "none"]

Issue(t) ==
    /\ t \notin issued
    /\ issued' = issued \cup {t}
    /\ live' \in {live, live \cup {t}}
    /\ UNCHANGED <<owed, answer>>

\* Sessions end: revoked or expired.
End ==
    /\ live' \in SUBSET live
    /\ UNCHANGED <<issued, owed, answer>>

\* A logout takes its inventory; it may end some of it in the same step.
Promise(r) ==
    /\ answer[r] = "none"
    /\ \E S \in SUBSET issued : owed' = [owed EXCEPT ![r] = S]
    /\ live' \in SUBSET live
    /\ answer' \in {answer, [answer EXCEPT ![r] = "ok"]}
    /\ answer'[r] = "ok" => owed'[r] \cap live' = {}
    /\ UNCHANGED issued

\* It answers only when none of what it owed is left.
Answer(r) ==
    /\ answer[r] = "none"
    /\ owed[r] \cap live' = {}
    /\ live' \in SUBSET live
    /\ answer' = [answer EXCEPT ![r] = "ok"]
    /\ UNCHANGED <<issued, owed>>

Close(r) ==
    /\ owed' = [owed EXCEPT ![r] = {}]
    /\ answer' = [answer EXCEPT ![r] = "none"]
    /\ UNCHANGED <<issued, live>>

ContractNext ==
    \/ \E t \in Tokens : Issue(t)
    \/ End
    \/ \E r \in Requests : Promise(r) \/ Answer(r) \/ Close(r)

ContractSpec == ContractInit /\ [][ContractNext]_contractVars
=============================================================================
