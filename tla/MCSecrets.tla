----------------------------- MODULE MCSecrets -----------------------------
(***************************************************************************)
(* TLC instance of Mfa and Credentials.  They have no state in common, so  *)
(* each is explored by itself: part says which.  Requests and tenants are  *)
(* interchangeable.                                                        *)
(***************************************************************************)
EXTENDS Mfa, Credentials, TLC

VARIABLE part

MCVars == <<mfaVars, vars, part>>
MCInit ==
    /\ MfaInit /\ Init
    /\ part \in {"mfa", "credentials"}
    /\ part = "mfa" => member = [t \in Tenants |-> "active"]
MCNext ==
    /\ UNCHANGED part
    /\ \/ part = "mfa" /\ MfaNext /\ UNCHANGED vars
       \/ part = "credentials" /\ Next /\ UNCHANGED mfaVars
MCSpec == MCInit /\ [][MCNext]_MCVars

MCSymmetry == Permutations(MfaRequests) \cup Permutations(Requests) \cup Permutations(Tenants)
=============================================================================
