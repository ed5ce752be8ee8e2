------------------------------ MODULE MCTenant ------------------------------
(***************************************************************************)
(* TLC instance of Provisioning, Access and Caches: who is a member of a   *)
(* tenant, what a member may do, and what a process remembers of it.  They *)
(* have no state in common, nor have the three caches, so each is explored *)
(* by itself: part says which.                                             *)
(***************************************************************************)
EXTENDS Provisioning, Access, Caches

VARIABLE part

MCVars == <<vars, accessVars, cachesVars, part>>
\* The tenant before its first role, where no part is about its roles.
NoRoles ==
    /\ uid = <<>> /\ roles = {} /\ parent = [i \in Role |-> 0] /\ direct = {} /\ group = NoGroup
    /\ perm = [p \in Permissions |-> NoDoc] /\ attached = {} /\ ops = 0
    /\ check = NoCheck /\ move = [m \in Movers |-> NoMove] /\ window = [some |-> {}, every |-> {}]
MCInit ==
    /\ part \in {"provisioning", "access", "schema", "config", "jwks"}
    /\ Init /\ CachesInit
    /\ IF part = "access" THEN AccessInit ELSE NoRoles
MCNext ==
    /\ UNCHANGED part
    /\ \/ part = "provisioning" /\ Next /\ UNCHANGED <<accessVars, cachesVars>>
       \/ part = "access" /\ AccessNext /\ UNCHANGED <<vars, cachesVars>>
       \/ UNCHANGED <<vars, accessVars>> /\ \/ part = "schema" /\ SchemaNext
                                            \/ part = "config" /\ (ConfigNext \/ Tick)
                                            \/ part = "jwks" /\ (JwksNext \/ Tick)
MCSpec == MCInit /\ [][MCNext]_MCVars

\* No part sees another's actors, so the same two values stand for the requests, the set_parent handlers
\* and the cache readers, and the same two for the tenants, the permissions and the packages.
MCSymmetry == Permutations(Requests) \cup Permutations(Tenants)
=============================================================================
