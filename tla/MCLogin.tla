------------------------------ MODULE MCLogin ------------------------------
(***************************************************************************)
(* TLC instance of Login.  Everything at once is out of reach, so a        *)
(* behaviour explores one of three surfaces of the pipeline.  Requests are *)
(* interchangeable, and every property checked is an invariant.            *)
(***************************************************************************)
EXTENDS Login, TLC

\* The guessing surface: passwords and second factors, racing with the lock.
Guess == [routes |-> {"password", "identity", "select", "mfa"},
          events |-> {"disable", "disableMfa"}, maxFailed |-> 3]

\* Every other way into the tail of the pipeline, racing with archival, force-change and MFA.
Paths == [routes |-> {"otp", "switch", "oauth", "mfa", "force"},
          events |-> {"archive", "force", "enableMfa", "disableMfa"}, maxFailed |-> 0]

\* The gates: what closes an account, for good or for a while, racing with stale copies of its rows.
Gates == [routes |-> {"password", "otp", "oauth", "mfa"},
          events |-> {"archive", "access", "disable"}, maxFailed |-> 1]

MCPaths == {Paths}
MCSurfaces == {Guess, Paths, Gates}
MCSymmetry == Permutations(Requests)
=============================================================================
