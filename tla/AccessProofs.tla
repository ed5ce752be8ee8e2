---------------------------- MODULE AccessProofs ----------------------------
(***************************************************************************)
(* Proofs about Access and Caches, which MCTenant checks together.         *)
(* Access, for every number of role uids, permissions, roles and           *)
(* set_parent handlers: type correctness, that only a raced set_parent     *)
(* makes a cycle, that an allow is explained by what held during the check *)
(* and that a deny that held all through it is honoured.  Caches, for      *)
(* every number of handlers, packages, versions and rotations, every       *)
(* lifetime and every latency: type correctness, when the schema is        *)
(* current, and how old an answer from the configuration or the key cache  *)
(* can be.                                                                 *)
(***************************************************************************)
EXTENDS Access, Caches, TLAPS, FiniteSetTheorems

\* Roles are numbered from 1, and what is attached is a permission to a role.
Typed ==
    /\ AccessTypeOK
    /\ \E n \in 0..MaxRoles : uid \in [1..n -> Uids]
    /\ attached \subseteq Role \X Permissions

\* A set_parent in flight that nobody overtook would still pass its walk.
Guarded ==
    \A m \in Movers :
        move[m].busy =>
            /\ move[m].child \in DOMAIN uid /\ move[m].parent \in DOMAIN uid \cup {0}
            /\ ~move[m].raced /\ move[m].parent # 0 =>
                  move[m].child # move[m].parent /\ move[m].child \notin Ancestors(move[m].parent)

\* What holds now has held at some moment of the check, and what held at every moment holds now.
Windowed == check.pc # "idle" => Facts \subseteq window.some /\ window.every \subseteq Facts

\* What the check has read held at some moment of it.
Witnessed ==
    check.pc # "idle" =>
        /\ \A n \in check.names : \E j \in DOMAIN uid : uid[j] = n /\ HeldIn(j, window.some)
        /\ \A i \in check.ids : i \in Role /\ HeldIn(i, window.some)
        /\ \A d \in check.docs : /\ d \in Doc
                                 /\ \E i \in Role : HeldIn(i, window.some) /\ <<"doc", <<i, d>>>> \in window.some

\* What held at every moment of the check, it has read, once it is past that read.
Noticed ==
    /\ check.pc \in {"ids", "group names", "group ids", "policies", "decide"} =>
          \A j \in DOMAIN uid : <<"direct", j>> \in window.every => uid[j] \in check.names
    /\ check.pc \in {"group names", "group ids", "policies", "decide"} =>
          \A j \in Role : <<"direct", j>> \in window.every => j \in check.ids
    /\ check.pc \in {"group ids", "policies", "decide"} =>
          \A j \in DOMAIN uid : <<"group", j>> \in window.every => uid[j] \in check.names
    /\ check.pc \in {"policies", "decide"} =>
          \A j \in Role : <<"group", j>> \in window.every => j \in check.ids
    /\ check.pc = "decide" =>
          \A i \in check.ids, d \in Doc : <<"doc", <<i, d>>>> \in window.every => d \in check.docs

Inv == Typed /\ Guarded /\ Windowed /\ Witnessed /\ Noticed

-----------------------------------------------------------------------------
(***************************************************************************)
(* Hierarchies: f gives each role its parent, or 0.                        *)
(***************************************************************************)
Hierarchy == [Role -> Role \cup {0}]
UpIn(C, f) == \A i \in C : f[i] \in C \cup {0}
ClosureIn(S, f) == {j \in Role : \A C \in SUBSET Role : S \subseteq C /\ UpIn(C, f) => j \in C}
Above(i, f) == ClosureIn({f[i]} \ {0}, f)

LEMMA Constants ==
    /\ MaxRoles \in Nat /\ MaxOps \in Nat /\ IsFiniteSet(Uids) /\ Uids # {} /\ Cardinality(Uids) <= MaxRoles
    /\ "*" \notin Uids /\ 0 \notin Role /\ Role \subseteq Nat
BY AccessAssumption DEF Role

\* The operators of Access, in this state and the next.
LEMMA ClosureNow ==
    /\ \A S : Closure(S) = ClosureIn(S, parent)
    /\ \A i : Ancestors(i) = Above(i, parent)
BY DEF Closure, Upward, ClosureIn, UpIn, Ancestors, Above

LEMMA ClosureNext ==
    /\ \A S : Closure(S)' = ClosureIn(S, parent')
    /\ \A i : Ancestors(i)' = Above(i, parent')
BY DEF Closure, Upward, ClosureIn, UpIn, Ancestors, Above

\* The closure is the least set of roles that has S and is closed upwards.
LEMMA ClosureLeast ==
    ASSUME NEW f, NEW S, NEW C \in SUBSET Role, S \subseteq C, UpIn(C, f)
    PROVE  ClosureIn(S, f) \subseteq C
BY DEF ClosureIn

LEMMA ClosureUp ==
    ASSUME NEW f \in Hierarchy, NEW S \in SUBSET Role
    PROVE  ClosureIn(S, f) \in SUBSET Role /\ S \subseteq ClosureIn(S, f) /\ UpIn(ClosureIn(S, f), f)
<1>1. ClosureIn(S, f) \in SUBSET Role /\ S \subseteq ClosureIn(S, f) BY DEF ClosureIn
<1>2. ASSUME NEW i \in ClosureIn(S, f), f[i] # 0 PROVE f[i] \in ClosureIn(S, f)
    <2>1. i \in Role /\ f[i] \in Role BY <1>1, <1>2 DEF Hierarchy
    <2>2. ASSUME NEW C \in SUBSET Role, S \subseteq C, UpIn(C, f) PROVE f[i] \in C
        <3>1. i \in C BY <2>2 DEF ClosureIn
        <3>2. QED BY <1>2, <2>2, <3>1 DEF UpIn
    <2>3. QED BY <2>1, <2>2 DEF ClosureIn
<1>3. QED BY <1>1, <1>2 DEF UpIn

LEMMA AboveFacts ==
    ASSUME NEW f \in Hierarchy, NEW i \in Role
    PROVE  Above(i, f) \in SUBSET Role /\ f[i] \in Above(i, f) \cup {0} /\ UpIn(Above(i, f), f)
<1>1. {f[i]} \ {0} \in SUBSET Role BY DEF Hierarchy
<1>2. QED BY <1>1, ClosureUp DEF Above

LEMMA AboveLeast ==
    ASSUME NEW f, NEW i \in Role, NEW C \in SUBSET Role, f[i] \in C \cup {0}, UpIn(C, f)
    PROVE  Above(i, f) \subseteq C
<1>1. {f[i]} \ {0} \subseteq C OBVIOUS
<1>2. QED BY <1>1, ClosureLeast DEF Above

LEMMA AboveTransitive ==
    ASSUME NEW f \in Hierarchy, NEW p \in Role, NEW i \in Role, i = p \/ i \in Above(p, f)
    PROVE  Above(i, f) \subseteq Above(p, f)
<1>1. Above(p, f) \in SUBSET Role /\ f[p] \in Above(p, f) \cup {0} /\ UpIn(Above(p, f), f) BY AboveFacts
<1>2. f[i] \in Above(p, f) \cup {0} BY <1>1 DEF UpIn
<1>3. QED BY <1>1, <1>2, AboveLeast

\* Parents taken away add no ancestors.
LEMMA FewerParents ==
    ASSUME NEW f \in Hierarchy, NEW g \in Hierarchy, \A j \in Role : g[j] \in {f[j], 0}, NEW i \in Role
    PROVE  Above(i, g) \subseteq Above(i, f)
<1>1. Above(i, f) \in SUBSET Role /\ f[i] \in Above(i, f) \cup {0} /\ UpIn(Above(i, f), f) BY AboveFacts
<1>2. g[i] \in Above(i, f) \cup {0} BY <1>1
<1>3. UpIn(Above(i, f), g) BY <1>1 DEF UpIn
<1>4. QED BY <1>1, <1>2, <1>3, AboveLeast

\* A parent for a role that is nobody's parent, itself not above the new one, changes no other's ancestors.
LEMMA NewRole ==
    ASSUME NEW f \in Hierarchy, NEW g \in Hierarchy, NEW R \in SUBSET Role, NEW k \in Role, k \notin R,
           \A j \in Role : f[j] \in R \cup {0}, \A j \in Role : j # k => g[j] = f[j], g[k] \in R \cup {0}
    PROVE  /\ k \notin Above(k, g)
           /\ \A i \in Role : i # k => Above(i, g) \subseteq Above(i, f)
<1>1. UpIn(R, g) /\ UpIn(R, f) BY DEF UpIn
<1>2. Above(k, g) \subseteq R BY <1>1, AboveLeast
<1>3. ASSUME NEW i \in Role, i # k PROVE Above(i, g) \subseteq Above(i, f)
    <2>1. Above(i, f) \in SUBSET Role /\ f[i] \in Above(i, f) \cup {0} /\ UpIn(Above(i, f), f) BY AboveFacts
    <2>2. Above(i, f) \subseteq R BY <1>1, AboveLeast
    <2>3. k \notin Above(i, f) BY <2>2
    <2>4. UpIn(Above(i, f), g) BY <2>1, <2>3 DEF UpIn
    <2>5. g[i] \in Above(i, f) \cup {0} BY <1>3, <2>1
    <2>6. QED BY <2>1, <2>4, <2>5, AboveLeast
<1>4. QED BY <1>2, <1>3

\* Moving c below p makes no cycle when c is neither p nor above p.
LEMMA NewParent ==
    ASSUME NEW f \in Hierarchy, NEW c \in Role, NEW p \in Role \cup {0},
           p # 0 => c # p /\ c \notin Above(p, f),
           NEW g \in Hierarchy, g = [f EXCEPT ![c] = p], NEW i \in Role, i \notin Above(i, f)
    PROVE  i \notin Above(i, g)
<1>1. g[c] = p /\ \A j \in Role : j # c => g[j] = f[j] BY DEF Hierarchy
<1>2. Above(i, f) \in SUBSET Role /\ f[i] \in Above(i, f) \cup {0} /\ UpIn(Above(i, f), f) BY AboveFacts
<1>3. CASE p = 0
    <2>1. \A j \in Role : g[j] \in {f[j], 0} BY <1>1, <1>3
    <2>2. QED BY <2>1, FewerParents
<1>4. CASE p # 0
    <2>1. p \in Role /\ c # p /\ c \notin Above(p, f) BY <1>4
    <2>2. Above(p, f) \in SUBSET Role /\ f[p] \in Above(p, f) \cup {0} /\ UpIn(Above(p, f), f)
        BY <2>1, AboveFacts
    <2> DEFINE P == {p} \cup Above(p, f)
    <2>3. P \in SUBSET Role /\ c \notin P BY <2>1, <2>2
    <2>4. UpIn(P, g) BY <1>1, <2>1, <2>2, <2>3 DEF UpIn
    <2>5. CASE i = c
        <3>1. Above(c, g) \subseteq P BY <1>1, <2>3, <2>4, AboveLeast
        <3>2. QED BY <2>3, <2>5, <3>1
    <2>6. CASE i # c /\ c \notin Above(i, f)
        <3>1. UpIn(Above(i, f), g) BY <1>1, <1>2, <2>6 DEF UpIn
        <3>2. g[i] \in Above(i, f) \cup {0} BY <1>1, <1>2, <2>6
        <3>3. QED BY <1>2, <3>1, <3>2, AboveLeast
    <2>7. CASE i # c /\ c \in Above(i, f)
        <3> DEFINE C == Above(i, f) \cup P
        <3>1. i \notin P
            <4>1. i \in P => Above(i, f) \subseteq Above(p, f) BY <2>1, AboveTransitive
            <4>2. QED BY <2>1, <2>7, <4>1
        <3>2. C \in SUBSET Role /\ i \notin C BY <1>2, <2>3, <3>1
        <3>3. UpIn(C, g)
            <4> SUFFICES ASSUME NEW j \in C PROVE g[j] \in C \cup {0} BY DEF UpIn
            <4>1. CASE j = c BY <1>1, <4>1
            <4>2. CASE j # c /\ j \in Above(i, f) BY <1>1, <1>2, <4>2 DEF UpIn
            <4>3. CASE j \in P BY <2>4, <4>3 DEF UpIn
            <4>4. QED BY <4>1, <4>2, <4>3
        <3>4. g[i] \in C \cup {0} BY <1>1, <1>2, <2>7
        <3> HIDE DEF C
        <3>5. Above(i, g) \subseteq C BY <3>2, <3>3, <3>4, AboveLeast
        <3>6. QED BY <3>2, <3>5
    <2>8. QED BY <2>5, <2>6, <2>7
<1>5. QED BY <1>3, <1>4

-----------------------------------------------------------------------------
(***************************************************************************)
(* Typing.                                                                 *)
(***************************************************************************)
LEMMA ParentIsHierarchy ==
    ASSUME Typed
    PROVE  /\ parent \in Hierarchy /\ roles \in SUBSET Role /\ roles \subseteq DOMAIN uid
           /\ DOMAIN uid \in SUBSET Role /\ \A j \in Role : parent[j] \in roles \cup {0}
           /\ UpIn(roles, parent)
BY DEF Typed, AccessTypeOK, Hierarchy, UpIn

LEMMA UidNumbers ==
    ASSUME Typed
    PROVE  /\ Cardinality(DOMAIN uid) \in 0..MaxRoles
           /\ uid \in [1..Cardinality(DOMAIN uid) -> Uids]
<1>1. PICK n \in 0..MaxRoles : uid \in [1..n -> Uids] BY DEF Typed
<1>2. n \in Nat BY Constants
<1>3. DOMAIN uid = 1..n BY <1>1
<1>4. Cardinality(1..n) = n BY <1>2, FS_Interval
<1>5. QED BY <1>1, <1>3, <1>4

\* The roles a user holds, directly or by the group, exist.
LEMMA HeldExist ==
    ASSUME Typed
    PROVE  /\ get_user_role_ids \subseteq roles /\ GroupRoleIds \subseteq roles
           /\ get_user_roles \subseteq Uids /\ GroupRoleUids \subseteq Uids
<1>1. roles \in SUBSET Role /\ UpIn(roles, parent) /\ roles \subseteq DOMAIN uid BY ParentIsHierarchy
<1>2. direct \subseteq roles /\ group.roles \subseteq roles BY DEF Typed, AccessTypeOK
<1>3. Closure(direct) \subseteq roles /\ Closure(group.roles) \subseteq roles
    BY <1>1, <1>2, ClosureNow, ClosureLeast
<1>4. \A i \in DOMAIN uid : uid[i] \in Uids BY UidNumbers
<1>5. QED BY <1>1, <1>3, <1>4 DEF get_user_role_ids, GroupRoleIds, get_user_roles, GroupRoleUids

\* The tables that a step leaves alone stay well typed.
Tables ==
    /\ roles \subseteq DOMAIN uid /\ DOMAIN uid \subseteq Role
    /\ \E n \in 0..MaxRoles : uid \in [1..n -> Uids]
    /\ parent \in [Role -> roles \cup {0}]
    /\ direct \subseteq roles /\ group \in Group /\ group.roles \subseteq roles
    /\ perm \in [Permissions -> Doc \cup {NoDoc}]
    /\ attached \subseteq Role \X Permissions
    /\ \A a \in attached : a[1] \in roles /\ perm[a[2]] # NoDoc

LEMMA TypedParts == Typed <=> Tables /\ check \in Check /\ move \in [Movers -> Moving]
BY DEF Typed, Tables, AccessTypeOK

LEMMA TypedPartsNext == Typed' <=> Tables' /\ check' \in Check /\ move' \in [Movers -> Moving]
BY DEF Typed, Tables, AccessTypeOK

\* A role gets the next number.
LEMMA CreateRoleEffect ==
    ASSUME Typed, NEW u \in Uids, NEW p \in roles \cup {0}, CreateRole(u, p)
    PROVE  \E k \in Role :
             /\ k \notin DOMAIN uid /\ roles' = roles \cup {k} /\ parent' = [parent EXCEPT ![k] = p]
             /\ DOMAIN uid' = DOMAIN uid \cup {k} /\ (\A j \in DOMAIN uid : uid'[j] = uid[j])
             /\ uid' \in [1..k -> Uids] /\ UNCHANGED <<direct, group, perm, attached, check, move>>
<1> DEFINE n == Cardinality(DOMAIN uid)
           k == n + 1
<1>1. n \in 0..MaxRoles /\ uid \in [1..n -> Uids] /\ n < MaxRoles BY UidNumbers DEF CreateRole
<1>2. /\ uid' = [j \in 1..k |-> IF j = k THEN u ELSE uid[j]] /\ roles' = roles \cup {k}
      /\ parent' = [parent EXCEPT ![k] = p] /\ UNCHANGED <<direct, group, perm, attached, check, move>>
    BY DEF CreateRole, Write
<1> HIDE DEF n
<1>3. n \in Nat /\ k \in Role /\ DOMAIN uid = 1..n /\ k \notin 1..n /\ 1..k = 1..n \cup {k}
    BY <1>1, Constants DEF Role
<1>4. uid' \in [1..k -> Uids] /\ \A j \in DOMAIN uid : uid'[j] = uid[j] BY <1>1, <1>2, <1>3
<1>5. DOMAIN uid' = DOMAIN uid \cup {k} BY <1>2, <1>3
<1> HIDE DEF k
<1>6. QED BY <1>2, <1>3, <1>4, <1>5

LEMMA CreateRoleTables ==
    ASSUME Typed, NEW u \in Uids, NEW p \in roles \cup {0}, CreateRole(u, p)
    PROVE  Tables'
<1>1. PICK k \in Role :
             /\ k \notin DOMAIN uid /\ roles' = roles \cup {k} /\ parent' = [parent EXCEPT ![k] = p]
             /\ DOMAIN uid' = DOMAIN uid \cup {k}
             /\ uid' \in [1..k -> Uids] /\ UNCHANGED <<direct, group, perm, attached>>
    BY CreateRoleEffect
<1>2. Tables BY TypedParts
<1>3. k \in 0..MaxRoles BY Constants DEF Role
<1>4. roles' \subseteq DOMAIN uid' /\ DOMAIN uid' \subseteq Role BY <1>1, <1>2 DEF Tables
<1>5. parent' \in [Role -> roles' \cup {0}] BY <1>1, <1>2 DEF Tables
<1>6. direct' \subseteq roles' /\ group' \in Group /\ group'.roles \subseteq roles' BY <1>1, <1>2 DEF Tables
<1>7. QED BY <1>1, <1>2, <1>3, <1>4, <1>5, <1>6 DEF Tables

LEMMA DeleteRoleTables ==
    ASSUME Typed, NEW i \in Role, DeleteRole(i)
    PROVE  Tables' /\ parent' \in Hierarchy /\ \A j \in Role : parent'[j] \in {parent[j], 0}
<1>1. Tables BY TypedParts
<1>2. /\ roles' = roles \ {i} /\ direct' = direct \ {i} /\ UNCHANGED <<uid, perm>>
      /\ parent' = [j \in Role |-> IF i \in {j, parent[j]} THEN 0 ELSE parent[j]]
      /\ attached' = {a \in attached : a[1] # i} /\ group' = [group EXCEPT !.roles = @ \ {i}]
    BY DEF DeleteRole
<1>3. parent' \in [Role -> roles' \cup {0}] /\ \A j \in Role : parent'[j] \in {parent[j], 0}
    BY <1>1, <1>2 DEF Tables
<1>4. group' \in Group /\ group'.roles = group.roles \ {i} BY <1>1, <1>2 DEF Tables, Group
<1>5. Tables' BY <1>1, <1>2, <1>3, <1>4 DEF Tables
<1>6. parent' \in Hierarchy BY <1>3, <1>2, <1>1 DEF Hierarchy, Tables
<1>7. QED BY <1>3, <1>5, <1>6

\* The writes that leave the roles and their hierarchy alone.
OtherWrite ==
    \/ \E i \in Role : AssignRole(i) \/ RemoveRole(i) \/ AssignGroupRole(i) \/ RemoveGroupRole(i)
    \/ CreateGroup \/ DeleteGroup \/ AddUser \/ RemoveUser
    \/ \E p \in Permissions, doc \in Doc, overwrite \in BOOLEAN : CreatePermission(p, doc, overwrite)
    \/ \E p \in Permissions : DeletePermission(p)
    \/ \E i \in Role, p \in Permissions : AttachToRole(i, p) \/ DetachFromRole(i, p)

LEMMA AdminStepWrites ==
    AdminStep => \/ \E u \in Uids, p \in roles \cup {0} : CreateRole(u, p)
                 \/ \E i \in Role : DeleteRole(i)
                 \/ OtherWrite
BY DEF AdminStep, AdminCreateRole, AdminDeleteRole, AdminAssignRoleToUser, AdminRemoveRoleFromUser,
       AdminAssignRoleToGroup, AdminRemoveRoleFromGroup, AdminCreatePermission, AdminDeletePermission,
       AdminAttachPermission, AdminDetachPermission, OtherWrite

LEMMA OtherWriteFrame == OtherWrite => UNCHANGED <<uid, roles, parent, check, move>>
BY DEF OtherWrite, AssignRole, RemoveRole, AssignGroupRole, RemoveGroupRole, CreateGroup, DeleteGroup, AddUser,
       RemoveUser, CreatePermission, DeletePermission, AttachToRole, DetachFromRole, Write

LEMMA OtherWriteTables ==
    ASSUME Typed, OtherWrite
    PROVE  Tables'
<1>1. Tables BY TypedParts
<1>2. UNCHANGED <<uid, roles, parent>> BY OtherWriteFrame
<1>3. ASSUME NEW i \in Role, AssignRole(i) \/ RemoveRole(i) PROVE Tables'
    BY <1>1, <1>3 DEF AssignRole, RemoveRole, Tables
<1>4. ASSUME group' \in Group, group'.roles \subseteq roles, UNCHANGED <<direct, perm, attached>> PROVE Tables'
    BY <1>1, <1>2, <1>4 DEF Tables
<1>5. ASSUME NEW i \in Role, AssignGroupRole(i) \/ RemoveGroupRole(i) PROVE Tables'
    <2>1. group \in Group /\ group.roles \subseteq roles /\ roles \subseteq Role BY <1>1 DEF Tables
    <2>2. group' \in Group /\ group'.roles \subseteq roles /\ UNCHANGED <<direct, perm, attached>>
        BY <1>5, <2>1 DEF AssignGroupRole, RemoveGroupRole, Group
    <2>3. QED BY <1>4, <2>2
<1>6. CASE CreateGroup \/ DeleteGroup \/ AddUser \/ RemoveUser
    <2>1. group \in Group /\ group.roles \subseteq roles BY <1>1 DEF Tables
    <2>2. UNCHANGED <<direct, perm, attached>> BY <1>6 DEF CreateGroup, DeleteGroup, AddUser, RemoveUser
    <2>3. CASE CreateGroup
        <3>1. group' = [exists |-> TRUE, member |-> FALSE, roles |-> {}] BY <2>3 DEF CreateGroup, NoGroup
        <3>2. QED BY <1>4, <2>2, <3>1 DEF Group
    <2>4. CASE DeleteGroup
        <3>1. group' = [exists |-> FALSE, member |-> FALSE, roles |-> {}] BY <2>4 DEF DeleteGroup, NoGroup
        <3>2. QED BY <1>4, <2>2, <3>1 DEF Group
    <2>5. CASE AddUser
        <3>1. group' \in Group /\ group'.roles = group.roles BY <2>1, <2>5 DEF AddUser, Group
        <3>2. QED BY <1>4, <2>1, <2>2, <3>1
    <2>6. CASE RemoveUser
        <3>1. group' \in Group /\ group'.roles = group.roles BY <2>1, <2>6 DEF RemoveUser, Group
        <3>2. QED BY <1>4, <2>1, <2>2, <3>1
    <2>7. QED BY <1>6, <2>3, <2>4, <2>5, <2>6
<1>7. ASSUME NEW p \in Permissions, NEW doc \in Doc, NEW overwrite \in BOOLEAN, CreatePermission(p, doc, overwrite)
      PROVE  Tables'
    <2>1. perm' = [perm EXCEPT ![p] = doc] /\ UNCHANGED <<direct, group, attached>> BY <1>7 DEF CreatePermission
    <2>2. doc # NoDoc BY DEF Doc, NoDoc
    <2>3. perm' \in [Permissions -> Doc \cup {NoDoc}] BY <1>1, <2>1 DEF Tables
    <2>4. ASSUME NEW a \in attached PROVE perm'[a[2]] # NoDoc
        <3>1. a[2] \in Permissions /\ perm[a[2]] # NoDoc BY <1>1 DEF Tables
        <3>2. QED BY <1>1, <2>1, <2>2, <3>1 DEF Tables
    <2>5. QED BY <1>1, <1>2, <2>1, <2>3, <2>4 DEF Tables
<1>8. ASSUME NEW p \in Permissions, DeletePermission(p) PROVE Tables'
    <2>1. /\ perm' = [perm EXCEPT ![p] = NoDoc] /\ attached' = {a \in attached : a[2] # p}
          /\ UNCHANGED <<direct, group>>
        BY <1>8 DEF DeletePermission
    <2>2. perm' \in [Permissions -> Doc \cup {NoDoc}] BY <1>1, <2>1 DEF Tables
    <2>3. ASSUME NEW a \in attached' PROVE a[1] \in roles /\ perm'[a[2]] # NoDoc
        <3>1. a \in attached /\ a[2] # p BY <2>1
        <3>2. a[2] \in Permissions BY <1>1, <3>1 DEF Tables
        <3>3. perm'[a[2]] = perm[a[2]] BY <1>1, <2>1, <3>1, <3>2 DEF Tables
        <3>4. QED BY <1>1, <3>1, <3>3 DEF Tables
    <2>4. attached' \subseteq Role \X Permissions BY <1>1, <2>1 DEF Tables
    <2>5. QED BY <1>1, <1>2, <2>1, <2>2, <2>3, <2>4 DEF Tables
<1>9. ASSUME NEW i \in Role, NEW p \in Permissions, AttachToRole(i, p) \/ DetachFromRole(i, p) PROVE Tables'
    <2>1. \/ i \in roles /\ perm[p] # NoDoc /\ attached' = attached \cup {<<i, p>>}
          \/ attached' = attached \ {<<i, p>>}
        BY <1>9 DEF AttachToRole, DetachFromRole
    <2>2. UNCHANGED <<direct, group, perm>> BY <1>9 DEF AttachToRole, DetachFromRole
    <2>3. QED BY <1>1, <1>2, <2>1, <2>2 DEF Tables
<1>10. QED BY <1>3, <1>5, <1>6, <1>7, <1>8, <1>9 DEF OtherWrite

\* set_parent writes one parent, of a role that is still there, and marks those it overtakes; or nothing.
LEMMA UpdateParentEffect ==
    ASSUME Typed, NEW m \in Movers, UpdateParent(m)
    PROVE  /\ Tables' /\ UNCHANGED <<uid, roles, direct, group, perm, attached, check>>
           /\ move' \in [Movers -> Moving] /\ ~move'[m].busy
           /\ ~Updates(m) => parent' = parent
           /\ \A n \in Movers : n # m =>
                 /\ move'[n].busy = move[n].busy
                 /\ move'[n].raced <=> move[n].raced \/ (move[n].busy /\ Updates(m))
                 /\ move'[n].child = move[n].child /\ move'[n].parent = move[n].parent
<1>1. Tables /\ move \in [Movers -> Moving] BY TypedParts
<1>2. UNCHANGED <<uid, roles, direct, group, perm, attached, check>> BY DEF UpdateParent
<1>3. parent' \in [Role -> roles \cup {0}]
    <2>1. CASE Updates(m) BY <1>1, <2>1 DEF UpdateParent, Updates, Tables
    <2>2. CASE ~Updates(m) BY <1>1, <2>2 DEF UpdateParent, Tables
    <2>3. QED BY <2>1, <2>2
<1>4. Tables' BY <1>1, <1>2, <1>3 DEF Tables
<1>5. ~Updates(m) => parent' = parent BY DEF UpdateParent
<1> DEFINE u == Updates(m)
           o(n) == [move[n] EXCEPT !.raced = @ \/ (move[n].busy /\ u)]
<1>6. move' = [n \in Movers |-> IF n = m THEN NoMove ELSE o(n)] BY DEF UpdateParent
<1> HIDE DEF u
<1>7. ASSUME NEW n \in Movers
      PROVE  /\ o(n) \in Moving /\ o(n).busy = move[n].busy /\ (o(n).raced <=> move[n].raced \/ (move[n].busy /\ u))
             /\ o(n).child = move[n].child /\ o(n).parent = move[n].parent
    <2>1. move[n] \in Moving BY <1>1
    <2>2. QED BY <2>1 DEF Moving
<1>8. NoMove \in Moving /\ ~NoMove.busy BY Constants DEF NoMove, Moving
<1> HIDE DEF o
<1>9. move' \in [Movers -> Moving] /\ move'[m] = NoMove /\ \A n \in Movers : n # m => move'[n] = o(n)
    BY <1>6, <1>7, <1>8
<1>10. \A n \in Movers : n # m =>
                 /\ move'[n].busy = move[n].busy
                 /\ move'[n].raced <=> move[n].raced \/ (move[n].busy /\ u)
                 /\ move'[n].child = move[n].child /\ move'[n].parent = move[n].parent
    BY <1>7, <1>9
<1>11. QED BY <1>2, <1>4, <1>5, <1>8, <1>9, <1>10 DEF u

\* A walk that ended well starts a move.
LEMMA ValidateParentEffect ==
    ASSUME Typed, NEW m \in Movers, NEW c \in roles \cup {0}, NEW p \in roles \cup {0}, ValidateParent(m, c, p)
    PROVE  /\ UNCHANGED <<db, check>> /\ move' \in [Movers -> Moving]
           /\ c \in roles /\ p # c /\ (p # 0 => c \notin Ancestors(p))
           /\ move'[m].busy /\ move'[m].child = c /\ move'[m].parent = p
           /\ \A n \in Movers : n # m => move'[n] = move[n]
<1> DEFINE g == [busy |-> TRUE, child |-> c, parent |-> p, raced |-> FALSE]
<1>1. c \in roles /\ p # c /\ (p # 0 => c \notin Ancestors(p)) BY DEF ValidateParent
<1>2. UNCHANGED <<db, check>> /\ move' = [move EXCEPT ![m] = g] BY DEF ValidateParent, Walked
<1>3. g \in Moving /\ g.busy /\ g.child = c /\ g.parent = p
    <2>1. c \in 0..MaxRoles /\ p \in 0..MaxRoles BY ParentIsHierarchy, Constants DEF Role
    <2>2. QED BY <2>1 DEF Moving
<1>4. move \in [Movers -> Moving] BY TypedParts
<1> HIDE DEF g
<1>5. move' \in [Movers -> Moving] /\ move'[m] = g /\ \A n \in Movers : n # m => move'[n] = move[n]
    BY <1>2, <1>3, <1>4
<1>6. QED BY <1>1, <1>2, <1>3, <1>5

-----------------------------------------------------------------------------
(***************************************************************************)
(* The five reads of a check.                                              *)
(***************************************************************************)
LEMMA NoCheckType == NoCheck \in Check /\ NoCheck.pc = "idle"
BY DEF NoCheck, Check

LEMMA ReadNamesEffect ==
    ASSUME Typed, ReadNames
    PROVE  /\ check.pc = "idle" /\ check' \in Check /\ check'.pc = "ids" /\ check'.names = get_user_roles
           /\ check'.ids = {} /\ check'.docs = {} /\ UNCHANGED <<db, move>>
<1>1. get_user_roles \in SUBSET Uids BY HeldExist
<1>2. check' = [NoCheck EXCEPT !.pc = "ids", !.names = get_user_roles] /\ UNCHANGED <<db, move>>
      /\ check.pc = "idle"
    BY DEF ReadNames
<1>3. QED BY <1>1, <1>2 DEF NoCheck, Check

LEMMA ReadIdsEffect ==
    ASSUME Typed, ReadIds
    PROVE  /\ check.pc = "ids" /\ check' \in Check /\ check'.pc = "group names" /\ check'.names = check.names
           /\ check'.ids = get_user_role_ids /\ check'.docs = check.docs /\ UNCHANGED <<db, move>>
<1>1. get_user_role_ids \in SUBSET Role BY HeldExist, ParentIsHierarchy
<1>2. check \in Check BY TypedParts
<1>3. /\ check' = [check EXCEPT !.pc = "group names", !.ids = get_user_role_ids] /\ UNCHANGED <<db, move>>
      /\ check.pc = "ids"
    BY DEF ReadIds, ReadStep
<1>4. QED BY <1>1, <1>2, <1>3 DEF Check

LEMMA ReadGroupNamesEffect ==
    ASSUME Typed, ReadGroupNames
    PROVE  /\ check.pc = "group names" /\ check' \in Check /\ check'.pc = "group ids"
           /\ check'.names = check.names \cup GroupRoleUids
           /\ check'.ids = check.ids /\ check'.docs = check.docs /\ UNCHANGED <<db, move>>
<1>1. GroupRoleUids \in SUBSET Uids BY HeldExist
<1>2. check \in Check BY TypedParts
<1>3. /\ check' = [check EXCEPT !.pc = "group ids", !.names = @ \cup GroupRoleUids] /\ UNCHANGED <<db, move>>
      /\ check.pc = "group names"
    BY DEF ReadGroupNames, ReadStep
<1>4. QED BY <1>1, <1>2, <1>3 DEF Check

LEMMA ReadGroupIdsEffect ==
    ASSUME Typed, ReadGroupIds
    PROVE  /\ check.pc = "group ids" /\ check' \in Check /\ check'.pc = "policies" /\ check'.names = check.names
           /\ check'.ids = check.ids \cup GroupRoleIds /\ check'.docs = check.docs /\ UNCHANGED <<db, move>>
<1>1. GroupRoleIds \in SUBSET Role BY HeldExist, ParentIsHierarchy
<1>2. check \in Check BY TypedParts
<1>3. /\ check' = [check EXCEPT !.pc = "policies", !.ids = @ \cup GroupRoleIds] /\ UNCHANGED <<db, move>>
      /\ check.pc = "group ids"
    BY DEF ReadGroupIds, ReadStep
<1>4. QED BY <1>1, <1>2, <1>3 DEF Check

LEMMA ReadPoliciesEffect ==
    ASSUME Typed, ReadPolicies
    PROVE  /\ check.pc = "policies" /\ check' \in Check /\ check'.pc = "decide" /\ check'.names = check.names
           /\ check'.ids = check.ids /\ check'.docs = get_for_roles(check.ids) /\ UNCHANGED <<db, move>>
<1>1. get_for_roles(check.ids) \in SUBSET Doc BY TypedParts DEF get_for_roles, Tables
<1>2. check \in Check BY TypedParts
<1>3. /\ check' = [check EXCEPT !.pc = "decide", !.docs = get_for_roles(check.ids)] /\ UNCHANGED <<db, move>>
      /\ check.pc = "policies"
    BY DEF ReadPolicies, ReadStep
<1> HIDE DEF get_for_roles
<1>4. QED BY <1>1, <1>2, <1>3 DEF Check

LEMMA CheckStepFrame ==
    ASSUME Typed, CheckStep
    PROVE  check' \in Check /\ UNCHANGED <<db, move>>
BY ReadNamesEffect, ReadIdsEffect, ReadGroupNamesEffect, ReadGroupIdsEffect, ReadPoliciesEffect, NoCheckType
   DEF CheckStep, Decide, ReadStep

-----------------------------------------------------------------------------
(***************************************************************************)
(* Typed and Guarded are inductive.                                        *)
(***************************************************************************)
LEMMA TypedNext == ASSUME Typed, AdminStep \/ MoveStep \/ CheckStep PROVE Typed'
<1>1. Tables /\ check \in Check /\ move \in [Movers -> Moving] BY TypedParts
<1>2. CASE AdminStep
    <2>1. ASSUME NEW u \in Uids, NEW p \in roles \cup {0}, CreateRole(u, p) PROVE Typed'
        <3>1. UNCHANGED <<check, move>> BY <2>1 DEF CreateRole, Write
        <3>2. QED BY <1>1, <2>1, <3>1, CreateRoleTables, TypedPartsNext
    <2>2. ASSUME NEW i \in Role, DeleteRole(i) PROVE Typed'
        <3>1. UNCHANGED <<check, move>> BY <2>2 DEF DeleteRole, Write
        <3>2. QED BY <1>1, <2>2, <3>1, DeleteRoleTables, TypedPartsNext
    <2>3. CASE OtherWrite BY <1>1, <2>3, OtherWriteFrame, OtherWriteTables, TypedPartsNext
    <2>4. QED BY <1>2, <2>1, <2>2, <2>3, AdminStepWrites
<1>3. ASSUME NEW m \in Movers, UpdateParent(m) PROVE Typed'
    BY <1>1, <1>3, UpdateParentEffect, TypedPartsNext
<1>4. ASSUME UNCHANGED db PROVE Tables' BY <1>1, <1>4 DEF db, Tables
<1>5. ASSUME NEW m \in Movers, NEW c \in roles \cup {0}, NEW p \in roles \cup {0}, ValidateParent(m, c, p)
      PROVE  Typed'
    BY <1>1, <1>4, <1>5, ValidateParentEffect, TypedPartsNext
<1>6. CASE CheckStep BY <1>1, <1>4, <1>6, CheckStepFrame, TypedPartsNext
<1>7. QED BY <1>2, <1>3, <1>5, <1>6 DEF MoveStep

\* No write but another set_parent gives a role ancestors it had not.
LEMMA GuardedGrows ==
    ASSUME Typed, Guarded, move' = move, DOMAIN uid \subseteq DOMAIN uid',
           \A i \in DOMAIN uid : Above(i, parent') \subseteq Above(i, parent)
    PROVE  Guarded'
<1>1. ASSUME NEW m \in Movers, move[m].busy
      PROVE  /\ move[m].child \in DOMAIN uid' /\ move[m].parent \in DOMAIN uid' \cup {0}
             /\ ~move[m].raced /\ move[m].parent # 0 =>
                   move[m].child # move[m].parent /\ move[m].child \notin Above(move[m].parent, parent')
    BY <1>1, ClosureNow DEF Guarded
<1>2. \A m \in Movers : Ancestors(move[m].parent)' = Above(move'[m].parent, parent')
    BY DEF Ancestors, Closure, Upward, Above, ClosureIn, UpIn
<1>3. QED BY <1>1, <1>2 DEF Guarded

LEMMA GuardedNext == ASSUME Typed, Guarded, AdminStep \/ MoveStep \/ CheckStep PROVE Guarded'
<1>1. parent \in Hierarchy /\ DOMAIN uid \in SUBSET Role /\ roles \subseteq DOMAIN uid /\ roles \in SUBSET Role
    BY ParentIsHierarchy
<1>2. ASSUME NEW u \in Uids, NEW p \in roles \cup {0}, CreateRole(u, p) PROVE Guarded'
    <2>1. PICK k \in Role :
             /\ k \notin DOMAIN uid /\ roles' = roles \cup {k} /\ parent' = [parent EXCEPT ![k] = p]
             /\ DOMAIN uid' = DOMAIN uid \cup {k} /\ move' = move
        BY <1>2, CreateRoleEffect
    <2>2. parent' \in Hierarchy /\ parent'[k] = p /\ \A j \in Role : j # k => parent'[j] = parent[j]
        BY <1>1, <2>1 DEF Hierarchy
    <2>3. k \notin roles /\ (\A j \in Role : parent[j] \in roles \cup {0}) /\ parent'[k] \in roles \cup {0}
        BY <1>1, <2>1, <2>2, ParentIsHierarchy
    <2>4. \A i \in Role : i # k => Above(i, parent') \subseteq Above(i, parent)
        BY <1>1, <2>2, <2>3, NewRole
    <2>5. QED BY <1>1, <2>1, <2>4, GuardedGrows
<1>3. ASSUME NEW i \in Role, DeleteRole(i) PROVE Guarded'
    <2>1. parent' \in Hierarchy /\ \A j \in Role : parent'[j] \in {parent[j], 0} BY <1>3, DeleteRoleTables
    <2>2. UNCHANGED <<uid, move>> BY <1>3 DEF DeleteRole, Write
    <2>3. QED BY <1>1, <2>1, <2>2, FewerParents, GuardedGrows
<1>4. ASSUME UNCHANGED <<uid, parent, move>> PROVE Guarded' BY <1>4, GuardedGrows
<1>5. ASSUME NEW m \in Movers, UpdateParent(m) PROVE Guarded'
    <2>1. /\ uid' = uid /\ ~move'[m].busy /\ (~Updates(m) => parent' = parent)
          /\ \A n \in Movers : n # m =>
                 /\ move'[n].busy = move[n].busy
                 /\ move'[n].raced <=> move[n].raced \/ (move[n].busy /\ Updates(m))
                 /\ move'[n].child = move[n].child /\ move'[n].parent = move[n].parent
        BY <1>5, UpdateParentEffect
    <2>2. ASSUME NEW n \in Movers, move'[n].busy
          PROVE  /\ n # m /\ move[n].busy /\ move'[n].child = move[n].child /\ move'[n].parent = move[n].parent
                 /\ ~move'[n].raced => ~move[n].raced /\ parent' = parent
        BY <2>1, <2>2
    <2>3. ASSUME NEW n \in Movers, move'[n].busy
          PROVE  /\ move'[n].child \in DOMAIN uid' /\ move'[n].parent \in DOMAIN uid' \cup {0}
                 /\ ~move'[n].raced /\ move'[n].parent # 0 =>
                       /\ move'[n].child # move'[n].parent
                       /\ move'[n].child \notin Above(move'[n].parent, parent')
        BY <2>1, <2>2, <2>3, ClosureNow DEF Guarded
    <2>4. \A n \in Movers : Ancestors(move[n].parent)' = Above(move'[n].parent, parent')
        BY DEF Ancestors, Closure, Upward, Above, ClosureIn, UpIn
    <2>5. QED BY <2>3, <2>4 DEF Guarded
<1>6. ASSUME NEW m \in Movers, NEW c \in roles \cup {0}, NEW p \in roles \cup {0}, ValidateParent(m, c, p)
      PROVE  Guarded'
    <2>1. /\ UNCHANGED db /\ c \in roles /\ p # c /\ (p # 0 => c \notin Ancestors(p))
          /\ move'[m].child = c /\ move'[m].parent = p
          /\ \A n \in Movers : n # m => move'[n] = move[n]
        BY <1>6, ValidateParentEffect
    <2>2. uid' = uid /\ parent' = parent BY <2>1 DEF db
    <2>3. ASSUME NEW n \in Movers, move'[n].busy
          PROVE  /\ move'[n].child \in DOMAIN uid /\ move'[n].parent \in DOMAIN uid \cup {0}
                 /\ ~move'[n].raced /\ move'[n].parent # 0 =>
                       /\ move'[n].child # move'[n].parent
                       /\ move'[n].child \notin Above(move'[n].parent, parent)
        <3>1. CASE n = m BY <1>1, <2>1, <3>1, ClosureNow
        <3>2. CASE n # m
            <4>1. move'[n] = move[n] BY <2>1, <3>2
            <4>2. QED BY <2>3, <4>1, ClosureNow DEF Guarded
        <3>3. QED BY <3>1, <3>2
    <2>4. \A n \in Movers : Ancestors(move[n].parent)' = Above(move'[n].parent, parent')
        BY DEF Ancestors, Closure, Upward, Above, ClosureIn, UpIn
    <2>5. QED BY <2>2, <2>3, <2>4 DEF Guarded
<1>7. CASE CheckStep
    <2>1. UNCHANGED <<uid, parent, move>> BY <1>7, CheckStepFrame DEF db
    <2>2. QED BY <1>4, <2>1
<1>8. CASE OtherWrite
    <2>1. UNCHANGED <<uid, parent, move>> BY <1>8, OtherWriteFrame
    <2>2. QED BY <1>4, <2>1
<1>9. QED BY <1>2, <1>3, <1>5, <1>6, <1>7, <1>8, AdminStepWrites DEF MoveStep

-----------------------------------------------------------------------------
(***************************************************************************)
(* What held during a check.                                               *)
(***************************************************************************)
LEMMA FactsMembers ==
    ASSUME Typed
    PROVE  /\ \A j : <<"direct", j>> \in Facts <=> j \in get_user_role_ids
           /\ \A j : <<"group", j>> \in Facts <=> j \in GroupRoleIds
           /\ \A i, d : <<"doc", <<i, d>>>> \in Facts <=> \E p \in Permissions : <<i, p>> \in attached /\ d = perm[p]
<1> DEFINE D == {<<a[1], perm[a[2]]>> : a \in attached}
<1>1. attached \subseteq Role \X Permissions BY DEF Typed
<1>2. \A i, d : <<i, d>> \in D <=> \E p \in Permissions : <<i, p>> \in attached /\ d = perm[p]
    <2> TAKE i, d
    <2>1. ASSUME <<i, d>> \in D PROVE \E p \in Permissions : <<i, p>> \in attached /\ d = perm[p]
        <3>1. PICK a \in attached : <<i, d>> = <<a[1], perm[a[2]]>> BY <2>1
        <3>2. a = <<a[1], a[2]>> /\ a[2] \in Permissions BY <1>1
        <3>3. i = a[1] /\ d = perm[a[2]] BY <3>1
        <3>4. QED BY <3>2, <3>3
    <2>2. ASSUME NEW p \in Permissions, <<i, p>> \in attached, d = perm[p] PROVE <<i, d>> \in D BY <2>2
    <2>3. QED BY <2>1, <2>2
<1>3. Facts = ({"direct"} \X get_user_role_ids) \cup ({"group"} \X GroupRoleIds) \cup ({"doc"} \X D) BY DEF Facts
<1> HIDE DEF D
<1>4. QED BY <1>2, <1>3

LEMMA FactsKept == UNCHANGED db => Facts' = Facts
BY DEF db, Facts, get_user_role_ids, GroupRoleIds, Closure, Upward

\* The history says what its names say.
LEMMA WatchWindowed == ASSUME Watch PROVE Windowed'
BY DEF Watch, Windowed

LEMMA WatchGrows ==
    ASSUME Watch, check.pc # "idle", check'.pc # "idle"
    PROVE  window.some \subseteq window'.some /\ window'.every \subseteq window.every
BY DEF Watch

LEMMA WatchNow ==
    ASSUME Watch, check'.pc # "idle", UNCHANGED db
    PROVE  Facts \subseteq window'.some /\ window'.every \subseteq Facts
BY FactsKept, WatchWindowed DEF Windowed

\* Roles keep their number and their uid.
UidKept == DOMAIN uid \subseteq DOMAIN uid' /\ \A j \in DOMAIN uid : uid'[j] = uid[j]

LEMMA WriteKeeps == ASSUME Typed, AdminStep \/ MoveStep PROVE check' = check /\ UidKept
<1>1. ASSUME NEW u \in Uids, NEW p \in roles \cup {0}, CreateRole(u, p) PROVE check' = check /\ UidKept
    <2>1. PICK k \in Role : /\ DOMAIN uid' = DOMAIN uid \cup {k} /\ (\A j \in DOMAIN uid : uid'[j] = uid[j])
                            /\ check' = check
        BY <1>1, CreateRoleEffect
    <2>2. QED BY <2>1 DEF UidKept
<1>2. ASSUME uid' = uid PROVE UidKept BY <1>2 DEF UidKept
<1>3. ASSUME NEW i \in Role, DeleteRole(i) PROVE check' = check /\ UidKept BY <1>2, <1>3 DEF DeleteRole, Write
<1>4. CASE OtherWrite BY <1>2, <1>4, OtherWriteFrame
<1>5. ASSUME NEW m \in Movers, UpdateParent(m) PROVE check' = check /\ UidKept BY <1>2, <1>5 DEF UpdateParent
<1>6. ASSUME NEW m \in Movers, NEW c, NEW p, ValidateParent(m, c, p) PROVE check' = check /\ UidKept
    BY <1>2, <1>6 DEF ValidateParent, Walked, db
<1>7. QED BY <1>1, <1>3, <1>4, <1>5, <1>6, AdminStepWrites DEF MoveStep

\* A write between two reads changes nothing of what was read.
LEMMA WriteWitnessed ==
    ASSUME Typed, Windowed, Witnessed, Noticed, AdminStep \/ MoveStep, Watch
    PROVE  Witnessed' /\ Noticed'
<1>1. check' = check /\ DOMAIN uid \subseteq DOMAIN uid' /\ \A j \in DOMAIN uid : uid'[j] = uid[j]
    BY WriteKeeps DEF UidKept
<1>2. CASE check.pc = "idle"
    BY <1>1, <1>2 DEF Witnessed, Noticed
<1>3. CASE check.pc # "idle"
    <2>1. window.some \subseteq window'.some /\ window'.every \subseteq window.every BY <1>1, <1>3, WatchGrows
    <2>2. window.every \subseteq Facts BY <1>3 DEF Windowed
    <2>3. \A j : <<"direct", j>> \in window.every \/ <<"group", j>> \in window.every => j \in DOMAIN uid
        BY <2>2, FactsMembers, HeldExist, ParentIsHierarchy
    <2>4. Witnessed'
        <3>1. ASSUME NEW n \in check.names
              PROVE  \E j \in DOMAIN uid' :
                        uid'[j] = n /\ (<<"direct", j>> \in window'.some \/ <<"group", j>> \in window'.some)
            BY <1>1, <1>3, <2>1 DEF Witnessed, HeldIn
        <3>2. ASSUME NEW i \in check.ids
              PROVE  i \in Role /\ (<<"direct", i>> \in window'.some \/ <<"group", i>> \in window'.some)
            BY <1>3, <2>1 DEF Witnessed, HeldIn
        <3>3. ASSUME NEW d \in check.docs
              PROVE  /\ d \in Doc
                     /\ \E i \in Role : /\ <<"direct", i>> \in window'.some \/ <<"group", i>> \in window'.some
                                        /\ <<"doc", <<i, d>>>> \in window'.some
            BY <1>3, <2>1 DEF Witnessed, HeldIn
        <3>4. QED BY <1>1, <3>1, <3>2, <3>3 DEF Witnessed, HeldIn
    <2>5. Noticed' BY <1>1, <2>1, <2>3 DEF Noticed
    <2>6. QED BY <2>4, <2>5
<1>4. QED BY <1>2, <1>3

\* What a read adds to what was read held at that moment, and is all that held then.
LEMMA ReadsSee ==
    ASSUME Typed, Watch, UNCHANGED db, check'.pc # "idle"
    PROVE  /\ \A n \in get_user_roles : \E j \in DOMAIN uid : uid[j] = n /\ <<"direct", j>> \in window'.some
           /\ \A n \in GroupRoleUids : \E j \in DOMAIN uid : uid[j] = n /\ <<"group", j>> \in window'.some
           /\ \A j \in get_user_role_ids : j \in Role /\ <<"direct", j>> \in window'.some
           /\ \A j \in GroupRoleIds : j \in Role /\ <<"group", j>> \in window'.some
           /\ \A j : <<"direct", j>> \in window'.every => j \in get_user_role_ids /\ uid[j] \in get_user_roles
           /\ \A j : <<"group", j>> \in window'.every => j \in GroupRoleIds /\ uid[j] \in GroupRoleUids
<1>1. Facts \subseteq window'.some /\ window'.every \subseteq Facts BY WatchNow
<1>2. /\ \A j : <<"direct", j>> \in Facts <=> j \in get_user_role_ids
      /\ \A j : <<"group", j>> \in Facts <=> j \in GroupRoleIds
    BY FactsMembers
<1>3. get_user_role_ids \subseteq DOMAIN uid /\ GroupRoleIds \subseteq DOMAIN uid /\ DOMAIN uid \subseteq Role
    BY HeldExist, ParentIsHierarchy
<1>4. /\ get_user_roles = {uid[i] : i \in get_user_role_ids} /\ GroupRoleUids = {uid[i] : i \in GroupRoleIds}
    BY DEF get_user_roles, get_user_role_ids, GroupRoleUids
<1>5. QED BY <1>1, <1>2, <1>3, <1>4

LEMMA PoliciesSee ==
    ASSUME Typed, Watch, UNCHANGED db, check'.pc # "idle", NEW I
    PROVE  /\ \A d \in get_for_roles(I) : d \in Doc /\ \E i \in I : <<"doc", <<i, d>>>> \in window'.some
           /\ \A i \in I, d \in Doc : <<"doc", <<i, d>>>> \in window'.every => d \in get_for_roles(I)
<1>1. Facts \subseteq window'.some /\ window'.every \subseteq Facts BY WatchNow
<1>2. \A i, d : <<"doc", <<i, d>>>> \in Facts <=> \E p \in Permissions : <<i, p>> \in attached /\ d = perm[p]
    BY FactsMembers
<1>3. perm \in [Permissions -> Doc \cup {NoDoc}] BY DEF Typed, AccessTypeOK
<1>4. ASSUME NEW d \in get_for_roles(I) PROVE d \in Doc /\ \E i \in I : <<"doc", <<i, d>>>> \in window'.some
    <2>1. PICK p \in Permissions : (\E i \in I : <<i, p>> \in attached) /\ d = perm[p] /\ d # NoDoc
        BY DEF get_for_roles
    <2>2. QED BY <1>1, <1>2, <1>3, <2>1
<1>5. ASSUME NEW i \in I, NEW d \in Doc, <<"doc", <<i, d>>>> \in window'.every PROVE d \in get_for_roles(I)
    <2>1. PICK p \in Permissions : <<i, p>> \in attached /\ d = perm[p] BY <1>1, <1>2, <1>5
    <2>2. d # NoDoc BY DEF Doc, NoDoc
    <2>3. QED BY <2>1, <2>2 DEF get_for_roles
<1>6. QED BY <1>4, <1>5

\* What was witnessed before a read stays so.
LEMMA WitnessKept ==
    ASSUME Witnessed, Watch, UNCHANGED db, check.pc # "idle", check'.pc # "idle"
    PROVE  /\ \A n \in check.names : \E j \in DOMAIN uid :
                uid[j] = n /\ (<<"direct", j>> \in window'.some \/ <<"group", j>> \in window'.some)
           /\ \A i \in check.ids : i \in Role /\ (<<"direct", i>> \in window'.some \/ <<"group", i>> \in window'.some)
           /\ \A d \in check.docs :
                /\ d \in Doc
                /\ \E i \in Role : /\ <<"direct", i>> \in window'.some \/ <<"group", i>> \in window'.some
                                   /\ <<"doc", <<i, d>>>> \in window'.some
<1>1. window.some \subseteq window'.some BY WatchGrows
<1>2. QED BY <1>1 DEF Witnessed, HeldIn

LEMMA ReadWitnessed ==
    ASSUME Typed, Witnessed, CheckStep, Watch
    PROVE  Witnessed'
<1>1. UNCHANGED db /\ uid' = uid BY CheckStepFrame DEF db
<1>2. CASE ReadNames
    <2>1. check'.pc = "ids" /\ check'.names = get_user_roles /\ check'.ids = {} /\ check'.docs = {}
        BY <1>2, ReadNamesEffect
    <2>2. QED BY <1>1, <2>1, ReadsSee DEF Witnessed, HeldIn
<1>3. CASE ReadIds
    <2>1. /\ check.pc = "ids" /\ check'.pc = "group names" /\ check'.names = check.names
          /\ check'.ids = get_user_role_ids /\ check'.docs = check.docs
        BY <1>3, ReadIdsEffect
    <2>2. QED BY <1>1, <2>1, ReadsSee, WitnessKept DEF Witnessed, HeldIn
<1>4. CASE ReadGroupNames
    <2>1. /\ check.pc = "group names" /\ check'.pc = "group ids" /\ check'.names = check.names \cup GroupRoleUids
          /\ check'.ids = check.ids /\ check'.docs = check.docs
        BY <1>4, ReadGroupNamesEffect
    <2>2. QED BY <1>1, <2>1, ReadsSee, WitnessKept DEF Witnessed, HeldIn
<1>5. CASE ReadGroupIds
    <2>1. /\ check.pc = "group ids" /\ check'.pc = "policies" /\ check'.names = check.names
          /\ check'.ids = check.ids \cup GroupRoleIds /\ check'.docs = check.docs
        BY <1>5, ReadGroupIdsEffect
    <2>2. QED BY <1>1, <2>1, ReadsSee, WitnessKept DEF Witnessed, HeldIn
<1>6. CASE ReadPolicies
    <2>1. /\ check.pc = "policies" /\ check'.pc = "decide" /\ check'.names = check.names
          /\ check'.ids = check.ids /\ check'.docs = get_for_roles(check.ids)
        BY <1>6, ReadPoliciesEffect
    <2>2. \A d \in check'.docs : d \in Doc /\ \E i \in check.ids : <<"doc", <<i, d>>>> \in window'.some
        BY <1>1, <2>1, PoliciesSee
    <2>3. QED BY <1>1, <2>1, <2>2, WitnessKept DEF Witnessed, HeldIn
<1>7. CASE Decide
    <2>1. check'.pc = "idle" BY <1>7, NoCheckType DEF Decide, ReadStep
    <2>2. QED BY <2>1 DEF Witnessed
<1>8. QED BY <1>2, <1>3, <1>4, <1>5, <1>6, <1>7 DEF CheckStep

LEMMA ReadNoticed ==
    ASSUME Typed, Noticed, CheckStep, Watch
    PROVE  Noticed'
<1>1. UNCHANGED db /\ uid' = uid BY CheckStepFrame DEF db
<1>2. CASE ReadNames
    <2>1. check'.pc = "ids" /\ check'.names = get_user_roles BY <1>2, ReadNamesEffect
    <2>2. QED BY <1>1, <2>1, ReadsSee DEF Noticed
<1>3. CASE ReadIds
    <2>1. /\ check.pc = "ids" /\ check'.pc = "group names" /\ check'.names = check.names
          /\ check'.ids = get_user_role_ids
        BY <1>3, ReadIdsEffect
    <2>2. window'.every \subseteq window.every BY <2>1, WatchGrows
    <2>3. QED BY <1>1, <2>1, <2>2, ReadsSee DEF Noticed
<1>4. CASE ReadGroupNames
    <2>1. /\ check.pc = "group names" /\ check'.pc = "group ids" /\ check'.names = check.names \cup GroupRoleUids
          /\ check'.ids = check.ids
        BY <1>4, ReadGroupNamesEffect
    <2>2. window'.every \subseteq window.every BY <2>1, WatchGrows
    <2>3. QED BY <1>1, <2>1, <2>2, ReadsSee DEF Noticed
<1>5. CASE ReadGroupIds
    <2>1. /\ check.pc = "group ids" /\ check'.pc = "policies" /\ check'.names = check.names
          /\ check'.ids = check.ids \cup GroupRoleIds
        BY <1>5, ReadGroupIdsEffect
    <2>2. window'.every \subseteq window.every BY <2>1, WatchGrows
    <2>3. QED BY <1>1, <2>1, <2>2, ReadsSee DEF Noticed
<1>6. CASE ReadPolicies
    <2>1. /\ check.pc = "policies" /\ check'.pc = "decide" /\ check'.names = check.names
          /\ check'.ids = check.ids /\ check'.docs = get_for_roles(check.ids)
        BY <1>6, ReadPoliciesEffect
    <2>2. window'.every \subseteq window.every BY <2>1, WatchGrows
    <2>3. \A i \in check.ids, d \in Doc : <<"doc", <<i, d>>>> \in window'.every => d \in check'.docs
        BY <1>1, <2>1, PoliciesSee
    <2>4. QED BY <1>1, <2>1, <2>2, <2>3 DEF Noticed
<1>7. CASE Decide
    <2>1. check'.pc = "idle" BY <1>7, NoCheckType DEF Decide, ReadStep
    <2>2. QED BY <2>1 DEF Noticed
<1>8. QED BY <1>2, <1>3, <1>4, <1>5, <1>6, <1>7 DEF CheckStep

-----------------------------------------------------------------------------
(***************************************************************************)
(* The invariant.                                                          *)
(***************************************************************************)
\* There is a role for each uid to begin with.
LEMMA FirstRoles ==
    ASSUME AccessInit
    PROVE  /\ Cardinality(Uids) \in 1..MaxRoles /\ uid \in [1..Cardinality(Uids) -> Uids]
           /\ DOMAIN uid = 1..Cardinality(Uids) /\ DOMAIN uid \subseteq Role /\ 1 \in DOMAIN uid
<1> DEFINE n == Cardinality(Uids)
           Onto(f) == \A u \in Uids : \E i \in DOMAIN f : f[i] = u
<1>1. n \in Nat /\ ExistsBijection(1..n, Uids) BY Constants, FS_CardinalityType
<1>2. \E f \in [1..n -> Uids] : Onto(f)
    <2>1. PICK f : f \in [1..n -> Uids] /\ \A u \in Uids : \E i \in 1..n : f[i] = u
        BY <1>1 DEF ExistsBijection, Bijection, Surjection
    <2>2. QED BY <2>1
<1>3. uid = CHOOSE f \in [1..n -> Uids] : Onto(f) BY DEF AccessInit
<1> HIDE DEF Onto
<1>4. uid \in [1..n -> Uids] BY <1>2, <1>3
<1>5. n # 0 BY Constants, FS_EmptySet
<1>6. n \in 1..MaxRoles BY <1>1, <1>5, Constants
<1> HIDE DEF n
<1>7. DOMAIN uid = 1..n /\ DOMAIN uid \subseteq Role /\ 1 \in DOMAIN uid BY <1>4, <1>6, Constants DEF Role
<1>8. QED BY <1>4, <1>6, <1>7 DEF n

LEMMA InitInv == AccessInit => Inv
<1> SUFFICES ASSUME AccessInit PROVE Inv OBVIOUS
<1> DEFINE n == Cardinality(Uids)
<1>1. /\ n \in 1..MaxRoles /\ uid \in [1..n -> Uids]
      /\ DOMAIN uid = 1..n /\ DOMAIN uid \subseteq Role /\ 1 \in DOMAIN uid
    BY FirstRoles
<1>2. roles = DOMAIN uid /\ direct \in {{}, {1}} BY DEF AccessInit
<1>3. parent \in [Role -> roles \cup {0}]
    <2>1. PICK p \in {0, 1} : parent = [i \in Role |-> IF i = n THEN p ELSE 0] BY DEF AccessInit
    <2>2. QED BY <1>1, <1>2, <2>1
<1>4. group \in Group /\ group.roles \subseteq roles
    <2>1. group = [exists |-> TRUE, member |-> TRUE, roles |-> roles \ direct] BY DEF AccessInit
    <2>2. roles \ direct \in SUBSET Role BY <1>1, <1>2
    <2>3. QED BY <2>1, <2>2 DEF Group
<1>5. perm \in [Permissions -> Doc] BY DEF AccessInit
<1>6. attached \subseteq Role \X Permissions /\ \A a \in attached : a[1] \in roles
    <2>1. PICK on \in [Permissions -> roles] : attached = {<<on[p], p>> : p \in Permissions} BY DEF AccessInit
    <2>2. QED BY <1>1, <1>2, <2>1
<1>7. NoDoc \notin Doc BY DEF NoDoc, Doc
<1>8. \A a \in attached : perm[a[2]] # NoDoc BY <1>5, <1>6, <1>7
<1>9. \E k \in 0..MaxRoles : uid \in [1..k -> Uids]
    <2>1. n \in 0..MaxRoles BY <1>1, Constants
    <2> HIDE DEF n
    <2>2. QED BY <1>1, <2>1
<1>10. Tables BY <1>1, <1>2, <1>3, <1>4, <1>5, <1>6, <1>8, <1>9 DEF Tables
<1>11. check = NoCheck /\ move = [m \in Movers |-> NoMove] BY DEF AccessInit
<1>12. NoMove \in Moving /\ ~NoMove.busy BY Constants DEF NoMove, Moving
<1>13. check \in Check /\ check.pc = "idle" BY <1>11, NoCheckType
<1>14. Typed BY <1>10, <1>11, <1>12, <1>13, TypedParts
<1>15. Guarded BY <1>11, <1>12 DEF Guarded
<1>16. Windowed /\ Witnessed /\ Noticed BY <1>13 DEF Windowed, Witnessed, Noticed
<1>17. QED BY <1>14, <1>15, <1>16 DEF Inv

LEMMA NextInv == Inv /\ [AccessNext]_accessVars => Inv'
<1> SUFFICES ASSUME Inv, [AccessNext]_accessVars PROVE Inv' OBVIOUS
<1>1. CASE AccessNext
    <2>1. Typed' /\ Guarded' BY <1>1, TypedNext, GuardedNext DEF Inv, AccessNext
    <2>2. Windowed' BY <1>1, WatchWindowed DEF AccessNext
    <2>3. Witnessed' /\ Noticed'
        BY <1>1, WriteWitnessed, ReadWitnessed, ReadNoticed DEF Inv, AccessNext
    <2>4. QED BY <2>1, <2>2, <2>3 DEF Inv
<1>2. CASE UNCHANGED accessVars
    <2>1. UNCHANGED db /\ UNCHANGED <<check, move, window>> BY <1>2 DEF accessVars, db
    <2>2. UNCHANGED <<uid, roles, parent, direct, group, perm, attached>> BY <2>1 DEF db
    <2>3. Typed' BY <2>1, <2>2, TypedParts, TypedPartsNext DEF Inv, Tables
    <2>4. Guarded' BY <2>1, <2>2, GuardedGrows DEF Inv
    <2>5. Windowed' BY <2>1, FactsKept DEF Inv, Windowed
    <2>6. Witnessed' BY <2>1, <2>2 DEF Inv, Witnessed, HeldIn
    <2>7. Noticed' BY <2>1, <2>2 DEF Inv, Noticed
    <2>8. QED BY <2>3, <2>4, <2>5, <2>6, <2>7 DEF Inv
<1>3. QED BY <1>1, <1>2

\* Inv is inductive, for any set of movers, uids and permissions: the tables agree, a set_parent
\* that was not overtaken is still sound, and a check has read what held during it.
THEOREM AccessInvariance == AccessSpec => []Inv
BY InitInv, NextInv, PTL DEF AccessSpec

\* Every parent, user role, group role and attachment is between rows that exist, whatever the
\* order of the admin writes: a deleted role takes its links and its children's parent with it.
THEOREM AccessTypeCorrect == AccessSpec => []AccessTypeOK
<1>1. Inv => AccessTypeOK BY DEF Inv, Typed
<1>2. QED BY <1>1, AccessInvariance, PTL

-----------------------------------------------------------------------------
(***************************************************************************)
(* Cycles.                                                                 *)
(***************************************************************************)
Acyclic(f, R) == \A i \in R : i \notin Above(i, f)
Raced == \E m \in Movers : move[m].raced /\ ~move'[m].busy

LEMMA NoCycles ==
    /\ (\A i \in roles : ~OnCycle(i)) <=> Acyclic(parent, roles)
    /\ (\A i \in roles' : ~OnCycle(i)') <=> Acyclic(parent', roles')
<1>1. \A i : OnCycle(i) <=> i \in Above(i, parent) BY ClosureNow DEF OnCycle
<1>2. \A i : OnCycle(i)' <=> i \in Above(i, parent')
    BY DEF OnCycle, Ancestors, Closure, Upward, Above, ClosureIn, UpIn
<1>3. QED BY <1>1, <1>2 DEF Acyclic

LEMMA CreateRoleAcyclic ==
    ASSUME Typed, Acyclic(parent, roles), NEW u \in Uids, NEW p \in roles \cup {0}, CreateRole(u, p)
    PROVE  Acyclic(parent', roles')
<1>1. PICK k \in Role : k \notin DOMAIN uid /\ roles' = roles \cup {k} /\ parent' = [parent EXCEPT ![k] = p]
    BY CreateRoleEffect
<1>2. parent \in Hierarchy /\ roles \in SUBSET Role BY ParentIsHierarchy
<1>3. parent' \in Hierarchy /\ parent'[k] = p /\ \A j \in Role : j # k => parent'[j] = parent[j]
    BY <1>1, <1>2 DEF Hierarchy
<1>4. k \notin roles /\ (\A j \in Role : parent[j] \in roles \cup {0}) /\ parent'[k] \in roles \cup {0}
    BY <1>1, <1>3, ParentIsHierarchy
<1>5. /\ k \notin Above(k, parent')
      /\ \A i \in Role : i # k => Above(i, parent') \subseteq Above(i, parent)
    BY <1>2, <1>3, <1>4, NewRole
<1>6. QED BY <1>1, <1>2, <1>5 DEF Acyclic

LEMMA DeleteRoleAcyclic ==
    ASSUME Typed, Acyclic(parent, roles), NEW k \in Role, DeleteRole(k)
    PROVE  Acyclic(parent', roles')
<1>1. parent \in Hierarchy /\ roles \in SUBSET Role BY ParentIsHierarchy
<1>2. parent' \in Hierarchy /\ \A j \in Role : parent'[j] \in {parent[j], 0} BY DeleteRoleTables
<1>3. roles' \subseteq roles BY DEF DeleteRole
<1>4. \A i \in Role : Above(i, parent') \subseteq Above(i, parent) BY <1>1, <1>2, FewerParents
<1>5. QED BY <1>1, <1>3, <1>4 DEF Acyclic

LEMMA UpdateParentAcyclic ==
    ASSUME Typed, Guarded, Acyclic(parent, roles), NEW m \in Movers, UpdateParent(m)
    PROVE  Acyclic(parent', roles') \/ Raced
<1> DEFINE c == move[m].child
           p == move[m].parent
<1>1. parent \in Hierarchy /\ roles \in SUBSET Role BY ParentIsHierarchy
<1>2. ~move'[m].busy /\ roles' = roles BY UpdateParentEffect
<1>3. CASE move[m].raced BY <1>2, <1>3 DEF Raced
<1>4. CASE ~Updates(m)
    <2>1. parent' = parent BY <1>4, UpdateParentEffect
    <2>2. QED BY <1>2, <2>1
<1>5. CASE ~move[m].raced /\ Updates(m)
    <2>1. c \in roles /\ p \in roles \cup {0} /\ parent' = [parent EXCEPT ![c] = p] /\ move[m].busy
        BY <1>5 DEF UpdateParent, Updates
    <2>2. p # 0 => c # p /\ c \notin Above(p, parent) BY <1>5, <2>1, ClosureNow DEF Guarded
    <2> HIDE DEF c, p
    <2>3. c \in Role /\ p \in Role \cup {0} BY <1>1, <1>5, <2>1
    <2>4. parent' \in Hierarchy BY <1>1, <2>1, <2>3 DEF Hierarchy
    <2>5. ASSUME NEW i \in roles PROVE i \notin Above(i, parent')
        <3>1. i \in Role /\ i \notin Above(i, parent) BY <1>1 DEF Acyclic
        <3>2. QED BY <1>1, <2>1, <2>2, <2>3, <2>4, <3>1, NewParent
    <2>6. QED BY <1>2, <2>5 DEF Acyclic
<1>6. QED BY <1>3, <1>4, <1>5

LEMMA StepAcyclic ==
    ASSUME Inv, AccessNext, Acyclic(parent, roles)
    PROVE  Acyclic(parent', roles') \/ Raced
<1>1. Typed /\ Guarded BY DEF Inv
<1>2. ASSUME UNCHANGED <<roles, parent>> PROVE Acyclic(parent', roles') BY <1>2
<1>3. CASE AdminStep
    <2>1. CASE OtherWrite BY <1>2, <2>1, OtherWriteFrame
    <2>2. QED BY <1>1, <1>3, <2>1, CreateRoleAcyclic, DeleteRoleAcyclic, AdminStepWrites
<1>4. CASE MoveStep
    <2>1. ASSUME NEW m \in Movers, NEW c, NEW p, ValidateParent(m, c, p) PROVE Acyclic(parent', roles')
        <3>1. UNCHANGED <<roles, parent>> BY <2>1 DEF ValidateParent, Walked, db
        <3>2. QED BY <1>2, <3>1
    <2>2. QED BY <1>1, <1>4, <2>1, UpdateParentAcyclic DEF MoveStep
<1>5. CASE CheckStep
    <2>1. UNCHANGED <<roles, parent>> BY <1>1, <1>5, CheckStepFrame DEF db
    <2>2. QED BY <1>2, <2>1
<1>6. QED BY <1>3, <1>4, <1>5 DEF AccessNext

\* The step of AcyclicUnlessRaced.
AcyclicStep ==
    (\A i \in roles : ~OnCycle(i)) =>
        (\A i \in roles' : ~OnCycle(i)') \/ \E m \in Movers : move[m].raced /\ ~move'[m].busy

\* set_parent's "returns BadRequest if setting the parent would create a cycle" holds of every
\* hierarchy and every number of admins, but for an UPDATE that another set_parent overtook after
\* its walk: no creation, deletion or other move ever closes a cycle.
THEOREM OnlyRacedMovesCycle == AccessSpec => AcyclicUnlessRaced
<1>1. ASSUME Inv, AccessNext PROVE AcyclicStep BY <1>1, NoCycles, StepAcyclic DEF AcyclicStep, Raced
<1>2. Inv /\ [AccessNext]_accessVars => [AcyclicStep]_accessVars BY <1>1
<1>3. [][AcyclicStep]_accessVars => AcyclicUnlessRaced BY DEF AcyclicUnlessRaced, AcyclicStep
<1>4. QED BY <1>2, <1>3, AccessInvariance, PTL DEF AccessSpec

-----------------------------------------------------------------------------
(***************************************************************************)
(* Decisions.                                                              *)
(***************************************************************************)
AllowStep ==
    check.pc = "decide" /\ check'.pc = "idle" /\ Allowed =>
        \E i \in Role, d \in Doc :
            /\ d.effect = "allow" /\ <<"doc", <<i, d>>>> \in window.some
            /\ HeldIn(i, window.some) /\ AppliesIn(d, window.some)

\* However many admin writes fall between the five reads of a check, an allow rests on a document,
\* a role it was attached to and a role uid that the user had during the check.
THEOREM AllowsExplained == AccessSpec => AllowExplained
<1>1. Inv => AllowStep
    <2> SUFFICES ASSUME Inv, check.pc = "decide", Allowed
                 PROVE  \E i \in Role, d \in Doc :
                            /\ d.effect = "allow" /\ <<"doc", <<i, d>>>> \in window.some
                            /\ HeldIn(i, window.some) /\ AppliesIn(d, window.some)
        BY DEF AllowStep
    <2>1. PICK d \in check.docs : d.effect = "allow" /\ Applies(d, check.names) BY DEF Allowed, authorize
    <2>2. Witnessed BY DEF Inv
    <2>3. d \in Doc /\ \E i \in Role : HeldIn(i, window.some) /\ <<"doc", <<i, d>>>> \in window.some
        BY <2>2 DEF Witnessed
    <2>4. AppliesIn(d, window.some) BY <2>1, <2>2 DEF Applies, AppliesIn, Witnessed
    <2>5. QED BY <2>1, <2>3, <2>4
<1>2. [][AllowStep]_accessVars => AllowExplained BY DEF AllowExplained, AllowStep
<1>3. QED BY <1>1, <1>2, AccessInvariance, PTL DEF AccessSpec

DenyStep ==
    check.pc = "decide" /\ check'.pc = "idle" =>
        \A i \in Role, d \in Doc :
            /\ d.effect = "deny" /\ <<"doc", <<i, d>>>> \in window.every
            /\ HeldIn(i, window.every) /\ AppliesIn(d, window.every)
            => ~Allowed

\* Deny wins over every allow and every interleaving: a deny that stayed attached and applied all
\* through the check, by roles held in the same way all through it, is read and refuses.
THEOREM DeniesHonoured == AccessSpec => DenyHonoured
<1>1. Inv => DenyStep
    <2> SUFFICES ASSUME Inv, check.pc = "decide", NEW i \in Role, NEW d \in Doc, d.effect = "deny",
                        <<"doc", <<i, d>>>> \in window.every, HeldIn(i, window.every), AppliesIn(d, window.every)
                 PROVE  ~Allowed
        BY DEF DenyStep
    <2>1. Noticed BY DEF Inv
    <2>2. i \in check.ids BY <2>1 DEF Noticed, HeldIn
    <2>3. d \in check.docs BY <2>1, <2>2 DEF Noticed
    <2>4. Applies(d, check.names) BY <2>1 DEF Noticed, HeldIn, AppliesIn, Applies
    <2>5. QED BY <2>3, <2>4 DEF Allowed, authorize
<1>2. [][DenyStep]_accessVars => DenyHonoured BY DEF DenyHonoured, DenyStep
<1>3. QED BY <1>1, <1>2, AccessInvariance, PTL DEF AccessSpec

-----------------------------------------------------------------------------
(***************************************************************************)
(* Caches.                                                                 *)
(***************************************************************************)
Below(a, b) == \A p \in Packages : a[p] <= b[p]

\* The schema and the syncs hold versions that were written.
SchemaTyped ==
    /\ registry \in Registry /\ sync \in [Handlers -> Sync] /\ excuse \in {"none", "raced", "failed"}
    /\ schema \in [tables : Registry, actions : Registry]
    /\ Below(schema.tables, registry) /\ Below(schema.actions, registry)
    /\ \A h \in Handlers : Below(sync[h].tables, registry) /\ Below(sync[h].actions, registry)

\* A sync that was not overtaken has read the registry as it is, and the last to store the schema,
\* if it was not overtaken and none failed, stored it as it is.
SchemaInv ==
    /\ \A h \in Handlers :
          ~sync[h].old =>
              /\ sync[h].pc \in {"actions", "set"} => sync[h].tables = registry
              /\ sync[h].pc = "set" => sync[h].actions = registry
    /\ SchemaCurrentWhenQuiet

\* A read in flight began at most Latency ago, and its value was the stored one then.
ReadOk(g) ==
    g.pc = "read" => /\ g.at <= clock /\ clock <= g.at + Latency
                     /\ g.value <= kv.top /\ g.at <= kv.last[g.value]

ConfigTyped ==
    /\ clock \in Time
    /\ kv \in [now : Version, top : Version, last : [Version -> 0..Never]]
    /\ kv.now \in {0, kv.top} /\ kv.last[kv.now] = Never
    /\ config \in [value : Version, expires : Nat] /\ config.value <= kv.top
    /\ get \in [Handlers -> ConfigRead]
    /\ \A h \in Handlers : ReadOk(get[h])

\* The cache outlives its value's last moment by at most TTL and one read.
ConfigInv ==
    /\ config.expires <= clock + TTL /\ (config.value = 0 => config.expires = 0)
    /\ config.value # 0 => config.expires <= kv.last[config.value] + TTL + Latency
    /\ answer.who = "config" =>
          answer.value \in Version /\ answer.began \in Nat /\ answer.began <= clock
    /\ ConfigStaleBound

\* A fetch in flight was answered at most Latency ago, with the keys published then.
LookOk(f) ==
    f.pc = "fetched" =>
        /\ f.at <= clock /\ clock <= f.at + Latency
        /\ \A k \in f.keys : keys[k].from <= f.at /\ f.at <= keys[k].until
        /\ \A k \in Key \ f.keys : f.at <= keys[k].from \/ keys[k].until <= f.at

JwksTyped ==
    /\ clock \in Time
    /\ keys \in [Key -> [from : 0..Never, until : 0..Never]]
    /\ jwks \in [present : BOOLEAN, keys : SUBSET Key, at : Time]
    /\ jwks.at <= clock /\ (~jwks.present => jwks.keys = {})
    /\ find \in [Handlers -> Look]
    /\ \A h \in Handlers : LookOk(find[h])
    /\ \A k \in jwks.keys : keys[k].from <= clock

JwksInv ==
    /\ jwks.present =>
          /\ \A k \in jwks.keys : jwks.at <= keys[k].until + Latency
          /\ \A k \in Key \ jwks.keys : jwks.at <= keys[k].from + Latency \/ keys[k].until <= clock
    /\ answer.who = "jwks" => answer.value \in Key
    /\ KeyAnswerBounds

-----------------------------------------------------------------------------
LEMMA CachesConstants ==
    /\ MaxVersions \in Nat /\ MaxRotations \in Nat /\ MaxClock \in Nat /\ TTL \in Nat
    /\ MinRefresh \in Nat /\ Latency \in Nat /\ TTL > 0 /\ MinRefresh <= TTL
BY CachesAssumption

(***************************************************************************)
(* The schema.                                                             *)
(***************************************************************************)
LEMMA NoSyncType ==
    /\ Empty \in Registry /\ NoSync \in Sync
    /\ NoSync.pc = "idle" /\ NoSync.tables = Empty /\ NoSync.actions = Empty /\ NoSync.old = FALSE
<1>1. Empty \in Registry BY CachesConstants DEF Empty, Registry, Version
<1>2. QED BY <1>1 DEF NoSync, Sync, Empty

\* Every version is at least 0, and at least itself.
LEMMA BelowFacts ==
    ASSUME NEW a \in Registry
    PROVE  Below(Empty, a) /\ Below(a, a)
BY CachesConstants DEF Below, Empty, Registry, Version

\* What the schema's part of a step does to the other syncs: one handler's record changes.
SyncMoved(h, g) ==
    /\ sync' = [sync EXCEPT ![h] = g] /\ g \in Sync
    /\ Below(g.tables, registry) /\ Below(g.actions, registry)

LEMMA SchemaKept ==
    ASSUME SchemaTyped, registry' = registry, NEW h \in Handlers, NEW g, SyncMoved(h, g),
           excuse' \in {"none", "raced", "failed"},
           schema' = schema \/ schema' = [tables |-> sync[h].tables, actions |-> sync[h].actions]
    PROVE  SchemaTyped'
<1>1. sync' \in [Handlers -> Sync] BY DEF SyncMoved, SchemaTyped
<1>2. \A i \in Handlers : Below(sync'[i].tables, registry') /\ Below(sync'[i].actions, registry')
    <2> SUFFICES ASSUME NEW i \in Handlers
                 PROVE  Below(sync'[i].tables, registry) /\ Below(sync'[i].actions, registry)
        OBVIOUS
    <2>1. CASE i = h
        <3>1. sync'[i] = g BY <2>1 DEF SyncMoved, SchemaTyped
        <3>2. QED BY <3>1 DEF SyncMoved
    <2>2. CASE i # h
        <3>1. sync'[i] = sync[i] BY <2>2 DEF SyncMoved, SchemaTyped
        <3>2. QED BY <3>1 DEF SchemaTyped
    <2>3. QED BY <2>1, <2>2
<1>3. /\ schema' \in [tables : Registry, actions : Registry]
      /\ Below(schema'.tables, registry) /\ Below(schema'.actions, registry)
    <2>1. CASE schema' = schema BY <2>1 DEF SchemaTyped
    <2>2. CASE schema' = [tables |-> sync[h].tables, actions |-> sync[h].actions]
        <3>1. sync[h].tables \in Registry /\ sync[h].actions \in Registry
            BY DEF SchemaTyped, Sync
        <3>2. schema'.tables = sync[h].tables /\ schema'.actions = sync[h].actions BY <2>2
        <3>3. QED BY <2>2, <3>1, <3>2 DEF SchemaTyped
    <2>3. QED BY <2>1, <2>2
<1>4. QED BY <1>1, <1>2, <1>3 DEF SchemaTyped, Below

\* The record each step leaves.
LEMMA ListTablesEffect ==
    ASSUME SchemaTyped, NEW h \in Handlers, ListTables(h)
    PROVE  \E g : /\ SyncMoved(h, g) /\ g.pc = "actions" /\ g.tables = registry
                  /\ registry' = registry /\ schema' = schema /\ excuse' = excuse
<1> DEFINE g == [sync[h] EXCEPT !.pc = "actions", !.tables = registry]
<1>1. sync[h] \in Sync /\ registry \in Registry BY DEF SchemaTyped
<1>2. sync' = [sync EXCEPT ![h] = g] BY <1>1 DEF ListTables, SchemaTyped
<1>3. g \in Sync /\ g.pc = "actions" /\ g.tables = registry /\ g.actions = sync[h].actions BY <1>1 DEF Sync
<1> HIDE DEF g
<1>4. Below(g.tables, registry) /\ Below(g.actions, registry) BY <1>1, <1>3, BelowFacts DEF SchemaTyped
<1>5. QED BY <1>2, <1>3, <1>4 DEF SyncMoved, ListTables

LEMMA ListCustomActionsEffect ==
    ASSUME SchemaTyped, NEW h \in Handlers, ListCustomActions(h)
    PROVE  \E g : /\ SyncMoved(h, g) /\ g.pc = "set" /\ g.tables = sync[h].tables /\ g.actions = registry
                  /\ g.old = sync[h].old /\ sync[h].pc = "actions"
                  /\ registry' = registry /\ schema' = schema /\ excuse' = excuse
<1> DEFINE g == [sync[h] EXCEPT !.pc = "set", !.actions = registry]
<1>1. sync[h] \in Sync /\ registry \in Registry BY DEF SchemaTyped
<1>2. sync' = [sync EXCEPT ![h] = g] BY <1>1 DEF ListCustomActions, SchemaTyped
<1>3. /\ g \in Sync /\ g.pc = "set" /\ g.actions = registry /\ g.tables = sync[h].tables
      /\ g.old = sync[h].old
    BY <1>1 DEF Sync
<1> HIDE DEF g
<1>4. Below(g.tables, registry) /\ Below(g.actions, registry) BY <1>1, <1>3, BelowFacts DEF SchemaTyped
<1>5. QED BY <1>2, <1>3, <1>4 DEF SyncMoved, ListCustomActions

LEMMA SyncEndEffect ==
    ASSUME SchemaTyped, NEW h \in Handlers, SetSchema(h) \/ SyncFails(h)
    PROVE  SyncMoved(h, NoSync) /\ registry' = registry
BY NoSyncType, BelowFacts DEF SyncMoved, SetSchema, SyncFails, SchemaTyped

\* A commit begins its handler's rebuild and overtakes those that have begun to read.
LEMMA SyncPackageEffect ==
    ASSUME SchemaTyped, NEW h \in Handlers, NEW p \in Packages, SyncPackage(h, p)
    PROVE  /\ registry' \in Registry /\ Below(registry, registry') /\ schema' = schema /\ excuse' = excuse
           /\ sync' \in [Handlers -> Sync] /\ sync'[h].pc = "tables"
           /\ sync'[h].tables = Empty /\ sync'[h].actions = Empty
           /\ \A i \in Handlers : i # h =>
                /\ sync'[i].pc = sync[i].pc /\ sync'[i].tables = sync[i].tables
                /\ sync'[i].actions = sync[i].actions
                /\ ~sync'[i].old => sync[i].pc \notin {"actions", "set"}
<1>1. registry \in Registry /\ sync \in [Handlers -> Sync] BY DEF SchemaTyped
<1>2. registry' = [registry EXCEPT ![p] = @ + 1] /\ registry[p] < MaxVersions BY DEF SyncPackage
<1>3. registry' \in Registry /\ Below(registry, registry')
    BY <1>1, <1>2, CachesConstants DEF Registry, Version, Below
<1> DEFINE new == [NoSync EXCEPT !.pc = "tables"]
           old(i) == [sync[i] EXCEPT !.old = @ \/ sync[i].pc \in {"actions", "set"}]
<1>4. new \in Sync /\ new.pc = "tables" /\ new.tables = Empty /\ new.actions = Empty
    BY NoSyncType DEF Sync
<1>5. ASSUME NEW i \in Handlers
      PROVE  /\ old(i) \in Sync /\ old(i).pc = sync[i].pc /\ old(i).tables = sync[i].tables
             /\ old(i).actions = sync[i].actions
             /\ ~old(i).old => sync[i].pc \notin {"actions", "set"}
    <2>1. sync[i] \in Sync BY <1>1
    <2>2. (sync[i].old \/ sync[i].pc \in {"actions", "set"}) \in BOOLEAN OBVIOUS
    <2>3. old(i) \in Sync /\ old(i).old = (sync[i].old \/ sync[i].pc \in {"actions", "set"})
        BY <2>1, <2>2 DEF Sync
    <2>4. old(i).pc = sync[i].pc /\ old(i).tables = sync[i].tables /\ old(i).actions = sync[i].actions
        BY <2>1 DEF Sync
    <2>5. QED BY <2>3, <2>4
<1>6. sync' = [i \in Handlers |-> IF i = h THEN new ELSE old(i)] BY DEF SyncPackage
<1> HIDE DEF new, old
<1>7. sync' \in [Handlers -> Sync] /\ sync'[h] = new /\ \A i \in Handlers : i # h => sync'[i] = old(i)
    BY <1>4, <1>5, <1>6
<1>8. schema' = schema /\ excuse' = excuse BY DEF SyncPackage
<1>9. QED BY <1>3, <1>4, <1>5, <1>7, <1>8

LEMMA BelowTransitive ==
    ASSUME NEW a \in Registry, NEW b \in Registry, NEW c \in Registry, Below(a, b), Below(b, c)
    PROVE  Below(a, c)
BY CachesConstants DEF Below, Registry, Version

LEMMA SchemaTypedStep ==
    ASSUME SchemaTyped, SchemaNext
    PROVE  SchemaTyped'
<1>1. ASSUME NEW h \in Handlers, NEW p \in Packages, SyncPackage(h, p) PROVE SchemaTyped'
    <2>1. /\ registry' \in Registry /\ Below(registry, registry') /\ schema' = schema /\ excuse' = excuse
          /\ sync' \in [Handlers -> Sync] /\ sync'[h].tables = Empty /\ sync'[h].actions = Empty
          /\ \A i \in Handlers : i # h =>
                sync'[i].tables = sync[i].tables /\ sync'[i].actions = sync[i].actions
        BY <1>1, SyncPackageEffect
    <2>2. ASSUME NEW i \in Handlers
          PROVE  Below(sync'[i].tables, registry') /\ Below(sync'[i].actions, registry')
        <3>1. CASE i = h BY <2>1, <3>1, BelowFacts
        <3>2. CASE i # h
            <4>1. /\ sync[i].tables \in Registry /\ sync[i].actions \in Registry /\ registry \in Registry
                  /\ Below(sync[i].tables, registry) /\ Below(sync[i].actions, registry)
                BY DEF SchemaTyped, Sync
            <4>2. QED BY <2>1, <3>2, <4>1, BelowTransitive
        <3>3. QED BY <3>1, <3>2
    <2>3. Below(schema'.tables, registry') /\ Below(schema'.actions, registry')
        <3>1. /\ schema.tables \in Registry /\ schema.actions \in Registry /\ registry \in Registry
              /\ Below(schema.tables, registry) /\ Below(schema.actions, registry)
            BY DEF SchemaTyped
        <3>2. QED BY <2>1, <3>1, BelowTransitive
    <2>4. QED BY <2>1, <2>2, <2>3 DEF SchemaTyped, Below
<1>2. ASSUME NEW h \in Handlers, ListTables(h) PROVE SchemaTyped'
    BY <1>2, ListTablesEffect, SchemaKept DEF SchemaTyped
<1>3. ASSUME NEW h \in Handlers, ListCustomActions(h) PROVE SchemaTyped'
    BY <1>3, ListCustomActionsEffect, SchemaKept DEF SchemaTyped
<1>4. ASSUME NEW h \in Handlers, SetSchema(h) \/ SyncFails(h) PROVE SchemaTyped'
    <2>1. SyncMoved(h, NoSync) /\ registry' = registry BY <1>4, SyncEndEffect
    <2>2. /\ excuse' \in {"none", "raced", "failed"}
          /\ schema' = schema \/ schema' = [tables |-> sync[h].tables, actions |-> sync[h].actions]
        BY <1>4 DEF SetSchema, SyncFails
    <2>3. QED BY <2>1, <2>2, SchemaKept
<1>5. CASE Boot
    <2>1. registry' = registry /\ registry \in Registry /\ excuse' = "none" BY <1>5 DEF Boot, SchemaTyped
    <2>2. schema' \in [tables : Registry, actions : Registry] /\ schema'.tables = registry /\ schema'.actions = registry
        BY <1>5, <2>1 DEF Boot
    <2>3. sync' \in [Handlers -> Sync] /\ \A h \in Handlers : sync'[h].tables = Empty /\ sync'[h].actions = Empty
        BY <1>5, NoSyncType DEF Boot
    <2>4. QED BY <2>1, <2>2, <2>3, BelowFacts DEF SchemaTyped, Below
<1>6. QED BY <1>1, <1>2, <1>3, <1>4, <1>5 DEF SchemaNext

LEMMA SchemaInvStep ==
    ASSUME SchemaTyped, SchemaInv, SchemaNext
    PROVE  SchemaInv'
<1>1. sync \in [Handlers -> Sync] BY DEF SchemaTyped
<1>2. ASSUME NEW h \in Handlers, NEW p \in Packages, SyncPackage(h, p) PROVE SchemaInv'
    <2>1. /\ sync'[h].pc = "tables"
          /\ \A i \in Handlers : i # h =>
                sync'[i].pc = sync[i].pc /\ (~sync'[i].old => sync[i].pc \notin {"actions", "set"})
        BY <1>2, SyncPackageEffect
    <2>2. SchemaCurrentWhenQuiet' BY <2>1 DEF SchemaCurrentWhenQuiet
    <2>3. QED BY <2>1, <2>2 DEF SchemaInv
<1>3. ASSUME NEW h \in Handlers, NEW g, SyncMoved(h, g), g.pc # "idle", registry' = registry,
             ~g.old => /\ g.pc \in {"actions", "set"} => g.tables = registry
                       /\ g.pc = "set" => g.actions = registry
      PROVE  SchemaInv'
    <2>1. sync'[h] = g /\ \A i \in Handlers : i # h => sync'[i] = sync[i] BY <1>1, <1>3 DEF SyncMoved
    <2>2. SchemaCurrentWhenQuiet' BY <1>3, <2>1 DEF SchemaCurrentWhenQuiet
    <2>3. QED BY <1>3, <2>1, <2>2 DEF SchemaInv
<1>4. ASSUME NEW h \in Handlers, ListTables(h) PROVE SchemaInv'
    <2>1. PICK g : SyncMoved(h, g) /\ g.pc = "actions" /\ g.tables = registry /\ registry' = registry
        BY <1>4, ListTablesEffect
    <2>2. QED BY <1>3, <2>1
<1>5. ASSUME NEW h \in Handlers, ListCustomActions(h) PROVE SchemaInv'
    <2>1. PICK g : /\ SyncMoved(h, g) /\ g.pc = "set" /\ g.tables = sync[h].tables /\ g.actions = registry
                   /\ g.old = sync[h].old /\ sync[h].pc = "actions" /\ registry' = registry
        BY <1>5, ListCustomActionsEffect
    <2>2. ~g.old => g.tables = registry BY <2>1 DEF SchemaInv
    <2>3. QED BY <1>3, <2>1, <2>2
<1>6. ASSUME NEW h \in Handlers, SetSchema(h) \/ SyncFails(h) PROVE SchemaInv'
    <2>1. SyncMoved(h, NoSync) /\ registry' = registry BY <1>6, SyncEndEffect
    <2>2. sync'[h] = NoSync /\ \A i \in Handlers : i # h => sync'[i] = sync[i] BY <1>1, <2>1 DEF SyncMoved
    <2>3. SchemaCurrentWhenQuiet'
        <3>1. CASE SetSchema(h)
            <4>1. ~sync[h].old => sync[h].tables = registry /\ sync[h].actions = registry
                BY <3>1 DEF SchemaInv, SetSchema
            <4>2. excuse' = "none" => ~sync[h].old BY <3>1 DEF SetSchema
            <4>3. schema' = [tables |-> sync[h].tables, actions |-> sync[h].actions] BY <3>1 DEF SetSchema
            <4>4. QED BY <2>1, <4>1, <4>2, <4>3 DEF SchemaCurrentWhenQuiet
        <3>2. CASE SyncFails(h) BY <3>2 DEF SyncFails, SchemaCurrentWhenQuiet
        <3>3. QED BY <1>6, <3>1, <3>2
    <2>4. QED BY <2>1, <2>2, <2>3, NoSyncType DEF SchemaInv
<1>7. CASE Boot
    <2>1. schema' = [tables |-> registry, actions |-> registry] /\ registry' = registry BY <1>7 DEF Boot
    <2>2. \A h \in Handlers : sync'[h].pc = "idle" BY <1>7, NoSyncType DEF Boot
    <2>3. QED BY <2>1, <2>2 DEF SchemaInv, SchemaCurrentWhenQuiet
<1>8. QED BY <1>2, <1>4, <1>5, <1>6, <1>7 DEF SchemaNext

\* The other caches and the clock leave the schema alone.
LEMMA SchemaAlone == ConfigNext \/ JwksNext \/ Tick => UNCHANGED schemaVars
BY DEF ConfigNext, Store, GetCached, GetStored, GetReturns, JwksNext, Rotate, FindCached, Fetch,
       FetchReturns, FetchFails, Tick

LEMMA SchemaStep == SchemaTyped /\ SchemaInv /\ [CachesNext]_cachesVars => SchemaTyped' /\ SchemaInv'
<1> SUFFICES ASSUME SchemaTyped, SchemaInv, [CachesNext]_cachesVars PROVE SchemaTyped' /\ SchemaInv' OBVIOUS
<1>1. CASE SchemaNext BY <1>1, SchemaTypedStep, SchemaInvStep
<1>2. CASE UNCHANGED schemaVars
    BY <1>2 DEF schemaVars, SchemaTyped, SchemaInv, SchemaCurrentWhenQuiet, Below
<1>3. QED BY <1>1, <1>2, SchemaAlone DEF CachesNext, cachesVars

LEMMA SchemaStart == CachesInit => SchemaTyped /\ SchemaInv
<1> SUFFICES ASSUME CachesInit PROVE SchemaTyped /\ SchemaInv OBVIOUS
<1>1. /\ registry = Empty /\ schema = [tables |-> Empty, actions |-> Empty]
      /\ sync = [h \in Handlers |-> NoSync] /\ excuse = "none"
    BY DEF CachesInit, SchemaInit
<1>2. SchemaTyped BY <1>1, NoSyncType, BelowFacts DEF SchemaTyped
<1>3. SchemaInv BY <1>1, NoSyncType DEF SchemaInv, SchemaCurrentWhenQuiet
<1>4. QED BY <1>2, <1>3

\* Once no sync is in flight the Cedar schema is that of the registry, unless the last to store it was
\* overtaken by another commit or one failed after its commit (sync, rebuild_schema).
THEOREM SchemaAlwaysCurrent == CachesSpec => []SchemaCurrentWhenQuiet
<1>1. SchemaInv => SchemaCurrentWhenQuiet BY DEF SchemaInv
<1>2. QED BY <1>1, SchemaStart, SchemaStep, PTL DEF CachesSpec

-----------------------------------------------------------------------------
(***************************************************************************)
(* The tenant configuration.                                               *)
(***************************************************************************)

\* A write closes the old value's time and opens the new one's.
LEMMA StoreEffect ==
    ASSUME ConfigTyped, NEW v \in Version, Store(v)
    PROVE  /\ kv' \in [now : Version, top : Version, last : [Version -> 0..Never]]
           /\ kv'.now \in {0, kv'.top} /\ kv'.last[kv'.now] = Never /\ kv.top <= kv'.top
           /\ \A w \in Version : kv'.last[w] >= kv.last[w] \/ kv'.last[w] = clock
<1> DEFINE last == [kv.last EXCEPT ![kv.now] = clock, ![v] = Never]
           top == IF v = 0 THEN kv.top ELSE v
<1>1. /\ kv.now \in Version /\ kv.top \in Version /\ kv.last \in [Version -> 0..Never]
      /\ clock \in 0..Never /\ Never \in 0..Never /\ kv.now \in {0, kv.top}
    BY CachesConstants DEF ConfigTyped, Time, Never
<1>2. v # kv.now /\ v \in {0, kv.top + 1} /\ kv' = [now |-> v, top |-> top, last |-> last] BY DEF Store
<1>3. last \in [Version -> 0..Never] BY <1>1
<1>4. top \in Version /\ v \in {0, top} /\ kv.top <= top BY <1>1, <1>2, CachesConstants DEF Version
<1>5. last[v] = Never BY <1>1
<1>6. \A w \in Version : last[w] >= kv.last[w] \/ last[w] = clock BY <1>1, CachesConstants DEF Never
<1> HIDE DEF last, top
<1>7. kv'.now = v /\ kv'.top = top /\ kv'.last = last BY <1>2
<1>8. QED BY <1>2, <1>3, <1>4, <1>5, <1>6, <1>7

LEMMA ConfigTypedKept ==
    ASSUME ConfigTyped, UNCHANGED <<kv, clock>>, NEW h \in Handlers, NEW g \in ConfigRead, ReadOk(g),
           get' = [get EXCEPT ![h] = g], config' \in [value : Version, expires : Nat], config'.value <= kv.top
    PROVE  ConfigTyped'
<1>1. get' \in [Handlers -> ConfigRead] /\ get'[h] = g /\ \A i \in Handlers : i # h => get'[i] = get[i]
    BY DEF ConfigTyped
<1>2. \A i \in Handlers : ReadOk(get'[i]) BY <1>1 DEF ConfigTyped
<1>3. \A i \in Handlers : ReadOk(get[i])' BY <1>2 DEF ReadOk
<1>4. QED BY <1>1, <1>3 DEF ConfigTyped

LEMMA NoReadOk == NoRead \in ConfigRead /\ ReadOk(NoRead)
BY CachesConstants DEF NoRead, ConfigRead, ReadOk, Version, Time

LEMMA ConfigTypedStep ==
    ASSUME ConfigTyped, ConfigNext
    PROVE  ConfigTyped'
<1>1. ASSUME NEW v \in Version, Store(v) PROVE ConfigTyped'
    <2>1. /\ kv' \in [now : Version, top : Version, last : [Version -> 0..Never]]
          /\ kv'.now \in {0, kv'.top} /\ kv'.last[kv'.now] = Never /\ kv.top <= kv'.top
          /\ \A w \in Version : kv'.last[w] >= kv.last[w] \/ kv'.last[w] = clock
        BY <1>1, StoreEffect
    <2>2. UNCHANGED <<config, get, clock>> BY <1>1 DEF Store
    <2>3. kv.top \in Nat /\ kv'.top \in Nat /\ config.value \in Nat
        BY <2>1, CachesConstants DEF ConfigTyped, Version
    <2>4. ASSUME NEW h \in Handlers, get[h].pc = "read"
          PROVE  /\ get[h].at <= clock /\ clock <= get[h].at + Latency
                 /\ get[h].value <= kv'.top /\ get[h].at <= kv'.last[get[h].value]
        <3>1. /\ get[h].at <= clock /\ clock <= get[h].at + Latency
              /\ get[h].value <= kv.top /\ get[h].at <= kv.last[get[h].value]
            BY <2>4 DEF ConfigTyped, ReadOk
        <3>2. get[h].at \in Nat /\ get[h].value \in Version /\ get[h].value \in Nat
            BY CachesConstants DEF ConfigTyped, ConfigRead, Time, Version
        <3>3. kv.last[get[h].value] \in Nat /\ kv'.last[get[h].value] \in Nat /\ clock \in Nat
            BY <2>1, <3>2, CachesConstants DEF ConfigTyped, Never, Time
        <3>4. kv'.last[get[h].value] >= kv.last[get[h].value] \/ kv'.last[get[h].value] = clock
            BY <2>1, <3>2
        <3>5. QED BY <2>1, <2>3, <3>1, <3>2, <3>3, <3>4
    <2>5. \A h \in Handlers : ReadOk(get[h])' BY <2>2, <2>4 DEF ReadOk
    <2>6. config'.value <= kv'.top BY <2>1, <2>2, <2>3 DEF ConfigTyped
    <2>7. QED BY <2>1, <2>2, <2>5, <2>6 DEF ConfigTyped
<1>2. ASSUME NEW h \in Handlers, GetCached(h) PROVE ConfigTyped'
    BY <1>2 DEF GetCached, configVars, ConfigTyped, ReadOk
<1>3. ASSUME NEW h \in Handlers, GetStored(h) PROVE ConfigTyped'
    <2> DEFINE g == [pc |-> "read", value |-> kv.now, at |-> clock]
    <2>1. g \in ConfigRead BY DEF ConfigTyped, ConfigRead
    <2>2. ReadOk(g)
        <3>1. clock \in Nat /\ clock <= Never /\ kv.now <= kv.top
            BY CachesConstants DEF ConfigTyped, Time, Never, Version
        <3>2. QED BY <3>1, CachesConstants DEF ReadOk, ConfigTyped
    <2>3. get' = [get EXCEPT ![h] = g] /\ UNCHANGED <<kv, clock, config>> BY <1>3 DEF GetStored
    <2> HIDE DEF g
    <2>4. QED BY <2>1, <2>2, <2>3, ConfigTypedKept DEF ConfigTyped
<1>4. ASSUME NEW h \in Handlers, GetReturns(h) PROVE ConfigTyped'
    <2> DEFINE v == get[h].value
    <2>1. get[h].pc = "read" /\ Keep(v) /\ get' = [get EXCEPT ![h] = NoRead] /\ UNCHANGED <<kv, clock>>
        BY <1>4 DEF GetReturns
    <2>2. v \in Version /\ v <= kv.top /\ clock + TTL \in Nat
        BY <2>1, CachesConstants DEF ConfigTyped, ConfigRead, ReadOk, Time
    <2> HIDE DEF v
    <2>3. config' \in [value : Version, expires : Nat] /\ config'.value <= kv.top
        BY <2>1, <2>2 DEF Keep, ConfigTyped
    <2>4. QED BY <2>1, <2>3, NoReadOk, ConfigTypedKept
<1>5. QED BY <1>1, <1>2, <1>3, <1>4 DEF ConfigNext

LEMMA ConfigInvStep ==
    ASSUME ConfigTyped, ConfigInv, ConfigNext
    PROVE  ConfigInv'
<1>1. clock \in Nat /\ config.expires \in Nat /\ config.value \in Version /\ TTL \in Nat /\ Latency \in Nat
    BY CachesConstants DEF ConfigTyped, Time
<1>2. \A w \in Version : kv.last[w] \in Nat BY CachesConstants DEF ConfigTyped, Never
<1>3. ASSUME NEW v \in Version, Store(v) PROVE ConfigInv'
    <2>1. \A w \in Version : kv'.last[w] >= kv.last[w] \/ kv'.last[w] = clock BY <1>3, StoreEffect
    <2>2. \A w \in Version : kv'.last[w] \in Nat BY <1>3, StoreEffect, CachesConstants DEF Never
    <2>3. UNCHANGED <<config, clock, answer>> BY <1>3 DEF Store
    <2>4. config.value # 0 => config.expires <= kv'.last[config.value] + TTL + Latency
        <3>1. CASE kv'.last[config.value] = clock BY <1>1, <3>1 DEF ConfigInv
        <3>2. CASE kv'.last[config.value] >= kv.last[config.value]
            BY <1>1, <1>2, <2>2, <3>2 DEF ConfigInv
        <3>3. QED BY <1>1, <2>1, <3>1, <3>2
    <2>5. ConfigStaleBound'
        <3> SUFFICES ASSUME answer.who = "config"
                     PROVE  IF answer.value = 0 THEN kv'.last[0] >= answer.began
                            ELSE \/ kv'.last[answer.value] + TTL + Latency > clock
                                 \/ kv'.last[answer.value] >= answer.began
            BY <2>3 DEF ConfigStaleBound
        <3>1. answer.value \in Version /\ answer.began \in Nat /\ answer.began <= clock BY DEF ConfigInv
        <3>2. CASE kv'.last[answer.value] = clock BY <1>1, <3>1, <3>2
        <3>3. CASE kv'.last[answer.value] >= kv.last[answer.value]
            BY <1>1, <1>2, <2>2, <3>1, <3>3 DEF ConfigInv, ConfigStaleBound
        <3>4. QED BY <2>1, <3>1, <3>2, <3>3
    <2>6. QED BY <2>3, <2>4, <2>5 DEF ConfigInv
<1>4. ASSUME NEW h \in Handlers, GetCached(h) PROVE ConfigInv'
    <2>1. UNCHANGED <<kv, config, clock>> /\ config.expires > clock BY <1>4 DEF GetCached, configVars, Cached
    <2>2. answer' = [who |-> "config", value |-> config.value, ok |-> TRUE, began |-> clock] BY <1>4 DEF GetCached
    <2>3. config.value # 0 BY <1>1, <2>1 DEF ConfigInv
    <2>4. kv.last[config.value] + TTL + Latency > clock BY <1>1, <1>2, <2>1, <2>3 DEF ConfigInv
    <2>5. answer'.value = config.value /\ answer'.began = clock BY <2>2
    <2>6. QED BY <1>1, <2>1, <2>3, <2>4, <2>5 DEF ConfigInv, ConfigStaleBound
<1>5. ASSUME NEW h \in Handlers, GetStored(h) PROVE ConfigInv'
    BY <1>5 DEF GetStored, ConfigInv, ConfigStaleBound
<1>6. ASSUME NEW h \in Handlers, GetReturns(h) PROVE ConfigInv'
    <2> DEFINE v == get[h].value
               at == get[h].at
    <2>1. get[h].pc = "read" /\ Keep(v) /\ UNCHANGED <<kv, clock>> BY <1>6 DEF GetReturns
    <2>2. answer' = [who |-> "config", value |-> v, ok |-> TRUE, began |-> at] BY <1>6 DEF GetReturns
    <2>3. v \in Version /\ at \in Nat /\ at <= clock /\ clock <= at + Latency /\ at <= kv.last[v]
        BY <2>1, CachesConstants DEF ConfigTyped, ConfigRead, ReadOk, Time
    <2> HIDE DEF v, at
    <2>4. answer'.who = "config" /\ answer'.value = v /\ answer'.began = at BY <2>2
    <2>5. ConfigStaleBound' BY <1>2, <2>1, <2>3, <2>4 DEF ConfigStaleBound
    <2>6. /\ config'.expires <= clock + TTL /\ (config'.value = 0 => config'.expires = 0)
          /\ config'.value # 0 => config'.expires <= kv.last[config'.value] + TTL + Latency
        <3>1. CASE v = 0 BY <2>1, <3>1 DEF Keep, ConfigInv
        <3>2. CASE v # 0
            <4>1. config'.value = v /\ config'.expires = clock + TTL BY <2>1, <3>2 DEF Keep
            <4>2. QED BY <1>1, <1>2, <2>3, <3>2, <4>1
        <3>3. QED BY <3>1, <3>2
    <2>7. QED BY <2>1, <2>3, <2>4, <2>5, <2>6 DEF ConfigInv
<1>7. QED BY <1>3, <1>4, <1>5, <1>6 DEF ConfigNext

\* Time passes, and the answers are forgotten.
LEMMA ConfigTick ==
    ASSUME ConfigTyped, ConfigInv, Tick
    PROVE  ConfigTyped' /\ ConfigInv'
<1>1. UNCHANGED <<kv, config, get>> /\ clock' = clock + 1 /\ answer' = NoAnswer /\ clock < MaxClock
    BY DEF Tick, configVars
<1>2. clock \in Nat /\ clock' \in Time BY <1>1, CachesConstants DEF ConfigTyped, Time
<1>3. ASSUME NEW h \in Handlers PROVE ReadOk(get[h])'
    <2>1. get[h].at \in Nat BY CachesConstants DEF ConfigTyped, ConfigRead, Time
    <2>2. get[h].pc = "read" => clock < get[h].at + Latency BY DEF Tick
    <2>3. QED BY <1>1, <1>2, <2>1, <2>2, CachesConstants DEF ConfigTyped, ReadOk
<1>4. ConfigTyped' BY <1>1, <1>2, <1>3 DEF ConfigTyped
<1>5. answer'.who # "config" BY <1>1 DEF NoAnswer
<1>6. config.expires <= clock' + TTL
    <2>1. config.expires \in Nat BY DEF ConfigTyped
    <2>2. QED BY <1>1, <1>2, <2>1, CachesConstants DEF ConfigInv
<1>7. ConfigInv' BY <1>1, <1>5, <1>6 DEF ConfigInv, ConfigStaleBound
<1>8. QED BY <1>4, <1>7

\* The other caches leave the configuration alone; an answer of theirs is none of its.
LEMMA ConfigAlone ==
    SchemaNext \/ JwksNext => UNCHANGED <<kv, config, get, clock>> /\ (answer' = answer \/ answer'.who = "jwks")
<1>1. SchemaNext => UNCHANGED <<kv, config, get, clock, answer>>
    BY DEF SchemaNext, SyncPackage, ListTables, ListCustomActions, SetSchema, SyncFails, Boot, configVars
<1>2. JwksNext => UNCHANGED <<kv, config, get, clock>>
    BY DEF configVars, JwksNext, Rotate, FindCached, Fetch, FetchReturns, FetchFails
<1>3. ASSUME NEW h \in Handlers, NEW k \in Key, FindCached(h, k) PROVE answer'.who = "jwks"
    <2>1. \E ok \in BOOLEAN : answer' = [who |-> "jwks", value |-> k, ok |-> ok, began |-> clock]
        BY <1>3 DEF FindCached, Answer
    <2>2. QED BY <2>1
<1>4. ASSUME NEW h \in Handlers, FetchReturns(h) PROVE answer'.who = "jwks"
    <2>1. PICK k, ok, at : answer' = [who |-> "jwks", value |-> k, ok |-> ok, began |-> at]
        BY <1>4 DEF FetchReturns, Answer
    <2>2. QED BY <2>1
<1>5. ASSUME NEW h \in Handlers, NEW k \in Key, Rotate \/ Fetch(h, k) \/ FetchFails(h) PROVE answer' = answer
    BY <1>5 DEF Rotate, Fetch, FetchFails
<1>6. Rotate => answer' = answer BY DEF Rotate
<1>7. \A h \in Handlers : FetchFails(h) => answer' = answer BY DEF FetchFails
<1>8. JwksNext => answer' = answer \/ answer'.who = "jwks" BY <1>3, <1>4, <1>5, <1>6, <1>7 DEF JwksNext
<1>9. QED BY <1>1, <1>2, <1>8

LEMMA ConfigStep == ConfigTyped /\ ConfigInv /\ [CachesNext]_cachesVars => ConfigTyped' /\ ConfigInv'
<1> SUFFICES ASSUME ConfigTyped, ConfigInv, [CachesNext]_cachesVars PROVE ConfigTyped' /\ ConfigInv' OBVIOUS
<1>1. CASE ConfigNext BY <1>1, ConfigTypedStep, ConfigInvStep
<1>2. CASE Tick BY <1>2, ConfigTick
<1>3. CASE UNCHANGED <<kv, config, get, clock>> /\ (answer' = answer \/ answer'.who = "jwks")
    <2>1. ConfigTyped' BY <1>3 DEF ConfigTyped, ReadOk
    <2>2. ConfigInv' BY <1>3 DEF ConfigInv, ConfigStaleBound
    <2>3. QED BY <2>1, <2>2
<1>4. QED BY <1>1, <1>2, <1>3, ConfigAlone DEF CachesNext, cachesVars, configVars

LEMMA ConfigStart == CachesInit => ConfigTyped /\ ConfigInv
<1> SUFFICES ASSUME CachesInit PROVE ConfigTyped /\ ConfigInv OBVIOUS
<1> DEFINE last == [v \in Version |-> IF v = 0 THEN Never ELSE 0]
<1>1. /\ kv = [now |-> 0, top |-> 0, last |-> last] /\ config = [value |-> 0, expires |-> 0]
      /\ get = [h \in Handlers |-> NoRead] /\ clock = 0 /\ answer = NoAnswer
    BY DEF CachesInit, ConfigInit
<1>2. 0 \in Version /\ 0 \in Time /\ last \in [Version -> 0..Never] /\ last[0] = Never
    BY CachesConstants DEF Version, Time, Never
<1> HIDE DEF last
<1>3. \A h \in Handlers : get[h] = NoRead BY <1>1
<1>4. \A h \in Handlers : ReadOk(get[h]) BY <1>3, NoReadOk
<1>5. ConfigTyped BY <1>1, <1>2, <1>4, NoReadOk DEF ConfigTyped
<1>6. answer.who # "config" BY <1>1 DEF NoAnswer
<1>7. ConfigInv BY <1>1, <1>6, CachesConstants DEF ConfigInv, ConfigStaleBound
<1>8. QED BY <1>5, <1>7

\* A configuration answer is at most TTL and one read old, and "absent" was the truth at some moment
\* since the get began (TenantConfigLoader::get).
THEOREM ConfigBounded == CachesSpec => []ConfigStaleBound
<1>1. ConfigInv => ConfigStaleBound BY DEF ConfigInv
<1>2. QED BY <1>1, ConfigStart, ConfigStep, PTL DEF CachesSpec

-----------------------------------------------------------------------------
(***************************************************************************)
(* The signing keys.                                                       *)
(***************************************************************************)
LEMMA NoLookOk == NoLook \in Look /\ LookOk(NoLook)
BY CachesConstants DEF NoLook, Look, LookOk, Key, Time

LEMMA Numbers ==
    ASSUME JwksTyped
    PROVE  /\ clock \in Nat /\ clock < Never /\ jwks.at \in Nat
           /\ \A k \in Key : keys[k].from \in Nat /\ keys[k].until \in Nat
           /\ \A h \in Handlers : find[h] \in Look /\ find[h].at \in Nat /\ find[h].keys \subseteq Key
BY CachesConstants DEF JwksTyped, Time, Never, Look

\* The provider's keys only get their times now: one is published, or one that is published withdrawn.
LEMMA RotateEffect ==
    ASSUME JwksTyped, Rotate
    PROVE  \E k \in Key :
             /\ keys' \in [Key -> [from : 0..Never, until : 0..Never]]
             /\ \A j \in Key : j # k => keys'[j] = keys[j]
             /\ \/ keys[k].from = Never /\ keys'[k].from = clock /\ keys'[k].until = keys[k].until
                \/ /\ keys[k].from <= clock /\ clock < keys[k].until
                   /\ keys'[k].from = keys[k].from /\ keys'[k].until = clock
<1>1. keys \in [Key -> [from : 0..Never, until : 0..Never]] /\ clock \in 0..Never
    BY CachesConstants DEF JwksTyped, Time, Never
<1>2. CASE \E k \in Key : keys[k].from = Never /\ keys' = [keys EXCEPT ![k].from = clock]
    <2>1. PICK k \in Key : keys[k].from = Never /\ keys' = [keys EXCEPT ![k].from = clock] BY <1>2
    <2>2. /\ keys' \in [Key -> [from : 0..Never, until : 0..Never]]
          /\ \A j \in Key : j # k => keys'[j] = keys[j]
          /\ keys'[k].from = clock /\ keys'[k].until = keys[k].until
        BY <1>1, <2>1
    <2>3. QED BY <2>1, <2>2
<1>3. CASE \E k \in Published(clock) : keys' = [keys EXCEPT ![k].until = clock]
    <2>1. PICK k \in Key : /\ keys[k].from <= clock /\ clock < keys[k].until
                           /\ keys' = [keys EXCEPT ![k].until = clock]
        BY <1>3 DEF Published
    <2>2. /\ keys' \in [Key -> [from : 0..Never, until : 0..Never]]
          /\ \A j \in Key : j # k => keys'[j] = keys[j]
          /\ keys'[k].from = keys[k].from /\ keys'[k].until = clock
        BY <1>1, <2>1
    <2>3. QED BY <2>1, <2>2
<1>4. QED BY <1>2, <1>3 DEF Rotate

\* So a look-up in flight stays right about the moment it is from, and the cache and the last answer
\* stay within their bounds.
LEMMA RotateKeeps ==
    ASSUME JwksTyped, JwksInv, Rotate
    PROVE  JwksTyped' /\ JwksInv'
<1>1. UNCHANGED <<jwks, find, clock, answer>> BY DEF Rotate
<1>2. PICK k \in Key :
             /\ keys' \in [Key -> [from : 0..Never, until : 0..Never]]
             /\ \A j \in Key : j # k => keys'[j] = keys[j]
             /\ \/ keys[k].from = Never /\ keys'[k].from = clock /\ keys'[k].until = keys[k].until
                \/ /\ keys[k].from <= clock /\ clock < keys[k].until
                   /\ keys'[k].from = keys[k].from /\ keys'[k].until = clock
    BY RotateEffect
<1>3. /\ clock \in Nat /\ clock < Never /\ jwks.at \in Nat
      /\ \A j \in Key : keys[j].from \in Nat /\ keys[j].until \in Nat
      /\ \A h \in Handlers : find[h] \in Look /\ find[h].at \in Nat /\ find[h].keys \subseteq Key
    BY Numbers
<1>4. \A j \in Key : keys'[j].from \in Nat /\ keys'[j].until \in Nat BY <1>2, CachesConstants DEF Never
<1>5. Never \in Nat BY CachesConstants DEF Never
<1>6. ASSUME NEW h \in Handlers PROVE LookOk(find[h])'
    <2> SUFFICES ASSUME find[h].pc = "fetched"
                 PROVE  /\ find[h].at <= clock /\ clock <= find[h].at + Latency
                        /\ \A j \in find[h].keys : keys'[j].from <= find[h].at /\ find[h].at <= keys'[j].until
                        /\ \A j \in Key \ find[h].keys : find[h].at <= keys'[j].from \/ keys'[j].until <= find[h].at
        BY <1>1 DEF LookOk
    <2>1. /\ find[h].at <= clock /\ clock <= find[h].at + Latency
          /\ \A j \in find[h].keys : keys[j].from <= find[h].at /\ find[h].at <= keys[j].until
          /\ \A j \in Key \ find[h].keys : find[h].at <= keys[j].from \/ keys[j].until <= find[h].at
        BY DEF JwksTyped, LookOk
    <2>2. ASSUME NEW j \in find[h].keys PROVE keys'[j].from <= find[h].at /\ find[h].at <= keys'[j].until
        <3>1. j \in Key BY <1>3
        <3>2. QED BY <1>2, <1>3, <1>4, <1>5, <2>1, <3>1
    <2>3. ASSUME NEW j \in Key \ find[h].keys
          PROVE  find[h].at <= keys'[j].from \/ keys'[j].until <= find[h].at
        BY <1>2, <1>3, <1>4, <1>5, <2>1
    <2>4. QED BY <2>1, <2>2, <2>3
<1>7. jwks.keys \subseteq Key BY DEF JwksTyped
<1>8. \A j \in jwks.keys : keys'[j].from <= clock BY <1>2, <1>3, <1>4, <1>5, <1>7 DEF JwksTyped
<1>9. JwksTyped' BY <1>1, <1>2, <1>6, <1>8 DEF JwksTyped
<1>10. ASSUME jwks.present
       PROVE  /\ \A j \in jwks.keys : jwks.at <= keys'[j].until + Latency
              /\ \A j \in Key \ jwks.keys : jwks.at <= keys'[j].from + Latency \/ keys'[j].until <= clock
    <2>1. jwks.at <= clock BY DEF JwksTyped
    <2>2. ASSUME NEW j \in jwks.keys PROVE jwks.at <= keys'[j].until + Latency
        BY <1>2, <1>3, <1>4, <1>7, <1>10, <2>1, CachesConstants DEF JwksInv
    <2>3. ASSUME NEW j \in Key \ jwks.keys PROVE jwks.at <= keys'[j].from + Latency \/ keys'[j].until <= clock
        BY <1>2, <1>3, <1>4, <1>10, <2>1, CachesConstants DEF JwksInv
    <2>4. QED BY <2>2, <2>3
<1>11. KeyAnswerBounds'
    <2> SUFFICES ASSUME answer.who = "jwks"
                 PROVE  /\ answer.ok => keys'[answer.value].until + TTL + Latency > clock
                        /\ ~answer.ok => \/ keys'[answer.value].from + MinRefresh + Latency >= clock
                                         \/ keys'[answer.value].until <= clock
        BY <1>1 DEF KeyAnswerBounds
    <2>1. answer.value \in Key BY DEF JwksInv
    <2>2. answer.ok => keys[answer.value].until + TTL + Latency > clock BY DEF JwksInv, KeyAnswerBounds
    <2>3. ~answer.ok => \/ keys[answer.value].from + MinRefresh + Latency >= clock
                        \/ keys[answer.value].until <= clock
        BY DEF JwksInv, KeyAnswerBounds
    <2>4. \/ keys'[answer.value].until = keys[answer.value].until
          \/ keys'[answer.value].until = clock
        BY <1>2, <2>1
    <2>5. \/ keys'[answer.value].from = keys[answer.value].from /\ keys'[answer.value].until = keys[answer.value].until
          \/ keys'[answer.value].from = clock
          \/ keys'[answer.value].until = clock
        <3>1. CASE answer.value = k BY <1>2, <3>1
        <3>2. CASE answer.value # k BY <1>2, <2>1, <3>2
        <3>3. QED BY <3>1, <3>2
    <2>6. answer.ok => keys'[answer.value].until + TTL + Latency > clock
        <3>1. clock + TTL + Latency > clock BY <1>3, CachesConstants
        <3>2. QED BY <2>2, <2>4, <3>1
    <2>7. ~answer.ok => \/ keys'[answer.value].from + MinRefresh + Latency >= clock
                        \/ keys'[answer.value].until <= clock
        <3>1. clock + MinRefresh + Latency >= clock /\ clock <= clock BY <1>3, CachesConstants
        <3>2. QED BY <2>3, <2>5, <3>1
    <2>8. QED BY <2>6, <2>7
<1>12. QED BY <1>1, <1>9, <1>10, <1>11 DEF JwksInv

\* What the cache answers: a key it holds was published within TTL and one fetch; a key it refuses is
\* not one it holds, since an entry younger than MinRefresh is younger than TTL.
LEMMA FindCachedKeeps ==
    ASSUME JwksTyped, JwksInv, NEW h \in Handlers, NEW k \in Key, FindCached(h, k)
    PROVE  JwksTyped' /\ JwksInv'
<1>1. UNCHANGED <<keys, jwks, find, clock>> BY DEF FindCached, jwksVars
<1>2. /\ clock \in Nat /\ jwks.at \in Nat /\ jwks.at <= clock
      /\ keys[k].from \in Nat /\ keys[k].until \in Nat
    BY Numbers DEF JwksTyped
<1>3. JwksTyped' BY <1>1 DEF JwksTyped, LookOk
<1>4. CASE Young(TTL) /\ k \in jwks.keys /\ Answer(k, TRUE, clock)
    <2>1. answer'.who = "jwks" /\ answer'.value = k /\ answer'.ok = TRUE BY <1>4 DEF Answer
    <2>2. jwks.at <= keys[k].until + Latency /\ clock - jwks.at < TTL BY <1>4 DEF JwksInv, Young
    <2>3. keys[k].until + TTL + Latency > clock BY <1>2, <2>2, CachesConstants
    <2>4. QED BY <1>1, <1>3, <2>1, <2>3 DEF JwksInv, KeyAnswerBounds
<1>5. CASE ~(Young(TTL) /\ k \in jwks.keys) /\ Young(MinRefresh) /\ Answer(k, FALSE, clock)
    <2>1. answer'.who = "jwks" /\ answer'.value = k /\ answer'.ok = FALSE BY <1>5 DEF Answer
    <2>2. jwks.present /\ clock - jwks.at < MinRefresh BY <1>5 DEF Young
    <2>3. Young(TTL) BY <1>2, <2>2, CachesConstants DEF Young
    <2>4. k \in Key \ jwks.keys BY <1>5, <2>3
    <2>5. jwks.at <= keys[k].from + Latency \/ keys[k].until <= clock BY <2>2, <2>4 DEF JwksInv
    <2>6. keys[k].from + MinRefresh + Latency >= clock \/ keys[k].until <= clock
        BY <1>2, <2>2, <2>5, CachesConstants
    <2>7. QED BY <1>1, <1>3, <2>1, <2>6 DEF JwksInv, KeyAnswerBounds
<1>6. QED BY <1>4, <1>5 DEF FindCached

LEMMA LookMoves ==
    ASSUME JwksTyped, UNCHANGED <<keys, clock>>, NEW h \in Handlers, NEW f \in Look, LookOk(f),
           find' = [find EXCEPT ![h] = f],
           jwks' \in [present : BOOLEAN, keys : SUBSET Key, at : Time], jwks'.at <= clock,
           ~jwks'.present => jwks'.keys = {}, \A k \in jwks'.keys : keys[k].from <= clock
    PROVE  JwksTyped'
<1>1. find' \in [Handlers -> Look] /\ find'[h] = f /\ \A i \in Handlers : i # h => find'[i] = find[i]
    BY DEF JwksTyped
<1>2. \A i \in Handlers : LookOk(find'[i]) BY <1>1 DEF JwksTyped
<1>3. \A i \in Handlers : LookOk(find[i])' BY <1>2 DEF LookOk
<1>4. QED BY <1>1, <1>3 DEF JwksTyped

LEMMA FetchKeeps ==
    ASSUME JwksTyped, JwksInv, NEW h \in Handlers, NEW k \in Key, Fetch(h, k)
    PROVE  JwksTyped' /\ JwksInv'
<1> DEFINE f == [pc |-> "fetched", key |-> k, keys |-> Published(clock), at |-> clock]
<1>1. find' = [find EXCEPT ![h] = f] /\ UNCHANGED <<keys, jwks, clock, answer>> BY DEF Fetch
<1>2. clock \in Nat /\ \A j \in Key : keys[j].from \in Nat /\ keys[j].until \in Nat BY Numbers
<1>3. Published(clock) \subseteq Key BY DEF Published
<1>4. f \in Look BY <1>3 DEF Look, JwksTyped
<1>5. f.pc = "fetched" /\ f.keys = Published(clock) /\ f.at = clock OBVIOUS
<1> HIDE DEF f
<1>6. LookOk(f)
    <2>1. \A j \in Published(clock) : keys[j].from <= clock /\ clock <= keys[j].until BY <1>2 DEF Published
    <2>2. \A j \in Key \ Published(clock) : clock <= keys[j].from \/ keys[j].until <= clock
        BY <1>2 DEF Published
    <2>3. clock <= clock /\ clock <= clock + Latency BY <1>2, CachesConstants
    <2>4. QED BY <1>5, <2>1, <2>2, <2>3 DEF LookOk
<1>7. JwksTyped' BY <1>1, <1>4, <1>6, LookMoves DEF JwksTyped
<1>8. QED BY <1>1, <1>7 DEF JwksInv, KeyAnswerBounds

LEMMA FetchFailsKeeps ==
    ASSUME JwksTyped, JwksInv, NEW h \in Handlers, FetchFails(h)
    PROVE  JwksTyped' /\ JwksInv'
<1>1. find' = [find EXCEPT ![h] = NoLook] /\ UNCHANGED <<keys, jwks, clock, answer>> BY DEF FetchFails
<1>2. JwksTyped' BY <1>1, NoLookOk, LookMoves DEF JwksTyped
<1>3. QED BY <1>1, <1>2 DEF JwksInv, KeyAnswerBounds

\* The answer of the provider is at most Latency old when it is stored and used.
LEMMA FetchReturnsKeeps ==
    ASSUME JwksTyped, JwksInv, NEW h \in Handlers, FetchReturns(h)
    PROVE  JwksTyped' /\ JwksInv'
<1> DEFINE f == find[h]
<1>1. /\ f.pc = "fetched" /\ jwks' = [present |-> TRUE, keys |-> f.keys, at |-> clock]
      /\ Answer(f.key, f.key \in f.keys, f.at) /\ find' = [find EXCEPT ![h] = NoLook]
      /\ UNCHANGED <<keys, clock>>
    BY DEF FetchReturns
<1>2. clock \in Nat /\ \A j \in Key : keys[j].from \in Nat /\ keys[j].until \in Nat BY Numbers
<1>3. f.at \in Nat /\ f.keys \subseteq Key /\ f.key \in Key BY Numbers DEF JwksTyped, Look
<1>4. /\ f.at <= clock /\ clock <= f.at + Latency
      /\ \A j \in f.keys : keys[j].from <= f.at /\ f.at <= keys[j].until
      /\ \A j \in Key \ f.keys : f.at <= keys[j].from \/ keys[j].until <= f.at
    BY <1>1 DEF JwksTyped, LookOk
<1> HIDE DEF f
<1>5. jwks'.present = TRUE /\ jwks'.keys = f.keys /\ jwks'.at = clock BY <1>1
<1>6. clock \in Time BY DEF JwksTyped
<1>7. jwks' \in [present : BOOLEAN, keys : SUBSET Key, at : Time] BY <1>1, <1>3, <1>6
<1>8. \A j \in f.keys : keys[j].from <= clock BY <1>2, <1>3, <1>4
<1>9. clock <= clock BY <1>2
<1>10. JwksTyped' BY <1>1, <1>5, <1>7, <1>8, <1>9, NoLookOk, LookMoves
<1>11. /\ \A j \in f.keys : clock <= keys[j].until + Latency
       /\ \A j \in Key \ f.keys : clock <= keys[j].from + Latency \/ keys[j].until <= clock
    <2>1. ASSUME NEW j \in f.keys PROVE clock <= keys[j].until + Latency BY <1>2, <1>3, <1>4, CachesConstants
    <2>2. ASSUME NEW j \in Key \ f.keys PROVE clock <= keys[j].from + Latency \/ keys[j].until <= clock
        BY <1>2, <1>3, <1>4, CachesConstants
    <2>3. QED BY <2>1, <2>2
<1>12. answer'.who = "jwks" /\ answer'.value = f.key /\ answer'.ok = (f.key \in f.keys) BY <1>1 DEF Answer
<1>13. f.key \in f.keys => keys[f.key].until + TTL + Latency > clock BY <1>2, <1>3, <1>11, CachesConstants
<1>14. f.key \notin f.keys => keys[f.key].from + MinRefresh + Latency >= clock \/ keys[f.key].until <= clock
    BY <1>2, <1>3, <1>11, CachesConstants
<1>15. KeyAnswerBounds' BY <1>1, <1>12, <1>13, <1>14 DEF KeyAnswerBounds
<1>16. QED BY <1>1, <1>3, <1>5, <1>10, <1>11, <1>12, <1>15 DEF JwksInv

\* Time passes, and the answers are forgotten.
LEMMA JwksTick ==
    ASSUME JwksTyped, JwksInv, Tick
    PROVE  JwksTyped' /\ JwksInv'
<1>1. UNCHANGED <<keys, jwks, find>> /\ clock' = clock + 1 /\ answer' = NoAnswer /\ clock < MaxClock
    BY DEF Tick, jwksVars
<1>2. clock \in Nat /\ clock' \in Time BY <1>1, CachesConstants DEF JwksTyped, Time
<1>3. ASSUME NEW h \in Handlers PROVE LookOk(find[h])'
    <2>1. find[h].at \in Nat BY Numbers
    <2>2. find[h].pc = "fetched" => clock < find[h].at + Latency BY DEF Tick
    <2>3. find[h].pc = "fetched" => find[h].at <= clock' /\ clock' <= find[h].at + Latency
        BY <1>1, <1>2, <2>1, <2>2, CachesConstants DEF JwksTyped, LookOk
    <2>4. QED BY <1>1, <2>3 DEF JwksTyped, LookOk
<1>4. jwks.at <= clock' /\ \A k \in jwks.keys : keys[k].from <= clock'
    <2>1. jwks.keys \subseteq Key BY DEF JwksTyped
    <2>2. QED BY <1>1, <2>1, Numbers DEF JwksTyped
<1>5. JwksTyped' BY <1>1, <1>2, <1>3, <1>4 DEF JwksTyped
<1>6. answer'.who # "jwks" BY <1>1 DEF NoAnswer
<1>7. \A k \in Key : keys[k].until <= clock => keys[k].until <= clock' BY <1>1, Numbers
<1>8. jwks.present =>
          /\ \A k \in jwks.keys : jwks.at <= keys[k].until + Latency
          /\ \A k \in Key \ jwks.keys : jwks.at <= keys[k].from + Latency \/ keys[k].until <= clock'
    BY <1>7 DEF JwksInv
<1>9. JwksInv' BY <1>1, <1>6, <1>8 DEF JwksInv, KeyAnswerBounds
<1>10. QED BY <1>5, <1>9

\* The other caches leave the keys alone; an answer of theirs is none of its.
LEMMA JwksAlone ==
    SchemaNext \/ ConfigNext => UNCHANGED <<keys, jwks, find, clock>> /\ (answer' = answer \/ answer'.who = "config")
<1>1. SchemaNext => UNCHANGED <<keys, jwks, find, clock, answer>>
    BY DEF SchemaNext, SyncPackage, ListTables, ListCustomActions, SetSchema, SyncFails, Boot, jwksVars
<1>2. ConfigNext => UNCHANGED <<keys, jwks, find, clock>>
    BY DEF jwksVars, ConfigNext, Store, GetCached, GetStored, GetReturns
<1>3. ASSUME NEW h \in Handlers, GetCached(h) \/ GetReturns(h) PROVE answer'.who = "config"
    <2>1. PICK v, at : answer' = [who |-> "config", value |-> v, ok |-> TRUE, began |-> at]
        BY <1>3 DEF GetCached, GetReturns
    <2>2. QED BY <2>1
<1>4. \A h \in Handlers : GetStored(h) => answer' = answer BY DEF GetStored
<1>5. \A v \in Version : Store(v) => answer' = answer BY DEF Store
<1>6. ConfigNext => answer' = answer \/ answer'.who = "config" BY <1>3, <1>4, <1>5 DEF ConfigNext
<1>7. QED BY <1>1, <1>2, <1>6

LEMMA JwksStep == JwksTyped /\ JwksInv /\ [CachesNext]_cachesVars => JwksTyped' /\ JwksInv'
<1> SUFFICES ASSUME JwksTyped, JwksInv, [CachesNext]_cachesVars PROVE JwksTyped' /\ JwksInv' OBVIOUS
<1>1. CASE JwksNext
    BY <1>1, RotateKeeps, FindCachedKeeps, FetchKeeps, FetchReturnsKeeps, FetchFailsKeeps DEF JwksNext
<1>2. CASE Tick BY <1>2, JwksTick
<1>3. CASE UNCHANGED <<keys, jwks, find, clock>> /\ (answer' = answer \/ answer'.who = "config")
    <2>1. JwksTyped' BY <1>3 DEF JwksTyped, LookOk
    <2>2. JwksInv' BY <1>3 DEF JwksInv, KeyAnswerBounds
    <2>3. QED BY <2>1, <2>2
<1>4. QED BY <1>1, <1>2, <1>3, JwksAlone DEF CachesNext, cachesVars, jwksVars

LEMMA JwksStart == CachesInit => JwksTyped /\ JwksInv
<1> SUFFICES ASSUME CachesInit PROVE JwksTyped /\ JwksInv OBVIOUS
<1>1. /\ keys = [k \in Key |-> [from |-> IF k = 0 THEN 0 ELSE Never, until |-> Never]]
      /\ jwks = [present |-> FALSE, keys |-> {}, at |-> 0]
      /\ find = [h \in Handlers |-> NoLook] /\ clock = 0 /\ answer = NoAnswer
    BY DEF CachesInit, JwksInit
<1>2. 0 \in Time /\ keys \in [Key -> [from : 0..Never, until : 0..Never]]
    BY <1>1, CachesConstants DEF Time, Never
<1>3. \A h \in Handlers : find[h] = NoLook BY <1>1
<1>4. \A h \in Handlers : LookOk(find[h]) BY <1>3, NoLookOk
<1>5. jwks \in [present : BOOLEAN, keys : SUBSET Key, at : Time] BY <1>1, <1>2
<1>6. JwksTyped BY <1>1, <1>2, <1>4, <1>5, NoLookOk DEF JwksTyped
<1>7. answer.who # "jwks" BY <1>1 DEF NoAnswer
<1>8. JwksInv BY <1>1, <1>7 DEF JwksInv, KeyAnswerBounds
<1>9. QED BY <1>6, <1>8

\* A rotation shuts nobody out for longer than MinRefresh and one fetch, and a withdrawn key is accepted
\* for less than TTL and one fetch (find_jwk).
THEOREM KeyAnswersBounded == CachesSpec => []KeyAnswerBounds
<1>1. JwksInv => KeyAnswerBounds BY DEF JwksInv
<1>2. QED BY <1>1, JwksStart, JwksStep, PTL DEF CachesSpec

-----------------------------------------------------------------------------
\* No cache holds a version that was not written or a key that was not published, whatever was read
\* before an await and stored after it.
THEOREM CachesTypeCorrect == CachesSpec => []CachesTypeOK
<1>1. SchemaTyped /\ ConfigTyped /\ JwksTyped => CachesTypeOK
    <2> SUFFICES ASSUME SchemaTyped, ConfigTyped, JwksTyped PROVE CachesTypeOK OBVIOUS
    <2>1. /\ registry \in Registry /\ sync \in [Handlers -> Sync] /\ excuse \in {"none", "raced", "failed"}
          /\ \A p \in Packages : schema.tables[p] <= registry[p] /\ schema.actions[p] <= registry[p]
        BY DEF SchemaTyped, Below
    <2>2. config.value \in 0..kv.top BY CachesConstants DEF ConfigTyped, Version
    <2>3. QED BY <2>1, <2>2 DEF ConfigTyped, JwksTyped, CachesTypeOK
<1>2. QED BY <1>1, SchemaStart, SchemaStep, ConfigStart, ConfigStep, JwksStart, JwksStep, PTL DEF CachesSpec
=============================================================================
