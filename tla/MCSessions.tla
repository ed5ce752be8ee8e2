----------------------------- MODULE MCSessions -----------------------------
(***************************************************************************)
(* TLC instance of Sessions.  Requests, memberships and tokens are         *)
(* interchangeable, in the contract too.                                   *)
(***************************************************************************)
EXTENDS Sessions, TLC

MCSymmetry == Permutations(Requests) \cup Permutations(Users) \cup Permutations(Tokens)
=============================================================================
