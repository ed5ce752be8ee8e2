------------------------------- MODULE Access -------------------------------
(***************************************************************************)
(* What a user of one tenant may do: roles and their hierarchy, groups,    *)
(* permission documents and their attachment to roles (repo/roles.rs,      *)
(* repo/groups.rs, repo/permissions.rs), changed by the admin routes while *)
(* admin_check_permission reads them in five statements.  A write whose    *)
(* checks a constraint repeats at the INSERT is one step; set_parent, whose*)
(* cycle check nothing repeats, is two.  CreatePermission is one step      *)
(* although nothing repeats its check either: see there.  The user and the *)
(* group are those the checks are about; a document is its effect and its  *)
(* principal.                                                              *)
(***************************************************************************)
EXTENDS Naturals, FiniteSets

CONSTANTS
    Movers,        \* set_parent handlers that may be in flight at the same time
    Uids,          \* role uids
    Permissions,   \* permission names
    MaxRoles,      \* bound: roles ever created
    MaxOps         \* bound: admin writes, and handlers of several steps ever started

ASSUME AccessAssumption ==
    /\ MaxRoles \in Nat /\ MaxOps \in Nat /\ IsFiniteSet(Movers)
    /\ IsFiniteSet(Uids) /\ Uids # {} /\ Cardinality(Uids) <= MaxRoles /\ "*" \notin Uids

VARIABLES
    uid,       \* roles ever created, by number: their uid
    roles,     \* the roles that exist
    parent,    \* roles.parent_role_id, 0 when NULL
    direct,    \* user_roles of the user
    group,     \* the group: exists, the user is in it, its group_roles
    perm,      \* permissions.document by name
    attached,  \* role_permissions
    check,     \* the admin_check_permission in flight
    move,      \* the set_parent handlers in flight
    ops,       \* admin writes and handlers started so far
    window     \* history: what held at some, and at every, moment of the check

db == <<uid, roles, parent, direct, group, perm, attached>>
accessVars == <<uid, roles, parent, direct, group, perm, attached, check, move, ops, window>>

-----------------------------------------------------------------------------
Role == 1..MaxRoles
Doc == [effect : {"allow", "deny"}, principal : {"*"} \cup Uids]
NoDoc == [effect |-> "none", principal |-> "*"]
Group == [exists : BOOLEAN, member : BOOLEAN, roles : SUBSET Role]
NoGroup == [exists |-> FALSE, member |-> FALSE, roles |-> {}]

Check == [pc : {"idle", "ids", "group names", "group ids", "policies", "decide"},
          names : SUBSET Uids, ids : SUBSET Role, docs : SUBSET Doc]
NoCheck == [pc |-> "idle", names |-> {}, ids |-> {}, docs |-> {}]
\* raced is history: another handler moved a role between this one's walk and its UPDATE.
Moving == [busy : BOOLEAN, child : 0..MaxRoles, parent : 0..MaxRoles, raced : BOOLEAN]
NoMove == [busy |-> FALSE, child |-> 0, parent |-> 0, raced |-> FALSE]

\* A tenant in use: a role for each uid, the last perhaps below the first, held by the user through the
\* group, the first perhaps directly; an allowing and otherwise denying permissions, each on one role.
AccessInit ==
    /\ uid = CHOOSE f \in [1..Cardinality(Uids) -> Uids] : \A u \in Uids : \E i \in DOMAIN f : f[i] = u
    /\ roles = DOMAIN uid
    /\ \E p \in {0, 1} : parent = [i \in Role |-> IF i = Cardinality(Uids) THEN p ELSE 0]
    /\ direct \in {{}, {1}}
    /\ group = [exists |-> TRUE, member |-> TRUE, roles |-> roles \ direct]
    /\ \E a \in Permissions : perm \in [Permissions -> Doc] /\ \A p \in Permissions :
          IF p = a THEN perm[p].effect = "allow" /\ perm[p].principal \in {"*", uid[1]}
                   ELSE perm[p] = [effect |-> "deny", principal |-> "*"]
    /\ \E on \in [Permissions -> roles] : attached = {<<on[p], p>> : p \in Permissions}
    /\ check = NoCheck /\ move = [m \in Movers |-> NoMove] /\ ops = 0
    /\ window = [some |-> {}, every |-> {}]

-----------------------------------------------------------------------------
\* The walks of the user queries are UNIONs: they end, on any hierarchy, with the least set that has
\* the roles they begin with and the parents of its own.
Upward(C) == \A i \in C : parent[i] \in C \cup {0}
Closure(S) == {j \in Role : \A C \in SUBSET Role : S \subseteq C /\ Upward(C) => j \in C}
Ancestors(i) == Closure({parent[i]} \ {0})
OnCycle(i) == i \in Ancestors(i)

get_user_role_ids == Closure(direct)
get_user_roles == {uid[i] : i \in Closure(direct)}

GroupRoleIds == IF group.member THEN Closure(group.roles) ELSE {}
GroupRoleUids == {uid[i] : i \in GroupRoleIds}

get_for_roles_WholeTenant(ids) == {perm[p] : p \in Permissions} \ {NoDoc}
get_for_roles(ids) == {perm[p] : p \in {q \in Permissions : \E i \in ids : <<i, q>> \in attached}} \ {NoDoc}

\* A document applies to everyone, or to the users in a role of that uid.
Applies(doc, names) == doc.principal = "*" \/ doc.principal \in names
authorize(docs, names) ==
    /\ \E d \in docs : d.effect = "allow" /\ Applies(d, names)
    /\ \A d \in docs : d.effect = "deny" => ~Applies(d, names)

-----------------------------------------------------------------------------
Spend == ops < MaxOps /\ ops' = ops + 1
Write == Spend /\ UNCHANGED <<check, move>>

(***************************************************************************)
(* Roles.  create: the uid must be free and the parent exist.              *)
(***************************************************************************)
CreateRole(u, p) ==
    /\ Write /\ Cardinality(DOMAIN uid) < MaxRoles
    /\ \A i \in roles : uid[i] # u
    /\ p \in roles \cup {0}
    /\ LET i == Cardinality(DOMAIN uid) + 1 IN
        /\ uid' = [j \in 1..i |-> IF j = i THEN u ELSE uid[j]]
        /\ roles' = roles \cup {i}
        /\ parent' = [parent EXCEPT ![i] = p]
    /\ UNCHANGED <<direct, group, perm, attached>>

\* The links of the role go with it, and its children lose their parent.
DeleteRole_LinksStay(i) ==
    /\ Write /\ i \in roles
    /\ roles' = roles \ {i}
    /\ parent' = [j \in Role |-> IF i \in {j, parent[j]} THEN 0 ELSE parent[j]]
    /\ UNCHANGED <<uid, direct, group, perm, attached>>

DeleteRole(i) ==
    /\ Write /\ i \in roles
    /\ roles' = roles \ {i}
    /\ parent' = [j \in Role |-> IF i \in {j, parent[j]} THEN 0 ELSE parent[j]]
    /\ direct' = direct \ {i}
    /\ group' = [group EXCEPT !.roles = @ \ {i}]
    /\ attached' = {a \in attached : a[1] # i}
    /\ UNCHANGED <<uid, perm>>

AssignRole(i) ==
    /\ Write /\ i \in roles /\ i \notin direct
    /\ direct' = direct \cup {i}
    /\ UNCHANGED <<uid, roles, parent, group, perm, attached>>

RemoveRole(i) ==
    /\ Write /\ i \in direct
    /\ direct' = direct \ {i}
    /\ UNCHANGED <<uid, roles, parent, group, perm, attached>>

(***************************************************************************)
(* set_parent: the role exists, the parent exists, is another role and has *)
(* not the role among its ancestors (a UNION ALL walk: above a cycle it    *)
(* does not end); then the UPDATE.                                         *)
(***************************************************************************)
Walked(m, c, p) ==
    /\ Spend /\ ~move[m].busy
    /\ move' = [move EXCEPT ![m] = [busy |-> TRUE, child |-> c, parent |-> p, raced |-> FALSE]]
    /\ UNCHANGED <<db, check>>

ValidateParent_NoWalk(m, c, p) ==
    /\ c \in roles /\ p \in (roles \cup {0}) \ {c}
    /\ Walked(m, c, p)

ValidateParent(m, c, p) ==
    /\ c \in roles /\ p \in (roles \cup {0}) \ {c}
    /\ p # 0 => c \notin Ancestors(p) /\ \A i \in {p} \cup Ancestors(p) : ~OnCycle(i)
    /\ Walked(m, c, p)

\* The UPDATE finds no row when the role is gone, and fails on the foreign key when the parent is.
Updates(m) == move[m].busy /\ move[m].child \in roles /\ move[m].parent \in roles \cup {0}

UpdateParent(m) ==
    /\ move[m].busy
    /\ parent' = IF Updates(m) THEN [parent EXCEPT ![move[m].child] = move[m].parent] ELSE parent
    /\ move' = [n \in Movers |-> IF n = m THEN NoMove
                                 ELSE [move[n] EXCEPT !.raced = @ \/ (move[n].busy /\ Updates(m))]]
    /\ UNCHANGED <<uid, roles, direct, group, perm, attached, check, ops>>

-----------------------------------------------------------------------------
(***************************************************************************)
(* Groups.  Deleting one takes its members and roles with it; adding twice *)
(* is no error.                                                            *)
(***************************************************************************)
CreateGroup ==
    /\ Write /\ ~group.exists
    /\ group' = [NoGroup EXCEPT !.exists = TRUE]
    /\ UNCHANGED <<uid, roles, parent, direct, perm, attached>>

DeleteGroup ==
    /\ Write /\ group.exists
    /\ group' = NoGroup
    /\ UNCHANGED <<uid, roles, parent, direct, perm, attached>>

AddUser ==
    /\ Write /\ group.exists
    /\ group' = [group EXCEPT !.member = TRUE]
    /\ UNCHANGED <<uid, roles, parent, direct, perm, attached>>

RemoveUser ==
    /\ Write /\ group.member
    /\ group' = [group EXCEPT !.member = FALSE]
    /\ UNCHANGED <<uid, roles, parent, direct, perm, attached>>

\* A role that does not exist is skipped without an error.
AssignGroupRole(i) ==
    /\ Write /\ group.exists
    /\ group' = [group EXCEPT !.roles = @ \cup ({i} \cap roles)]
    /\ UNCHANGED <<uid, roles, parent, direct, perm, attached>>

RemoveGroupRole(i) ==
    /\ Write /\ i \in group.roles
    /\ group' = [group EXCEPT !.roles = @ \ {i}]
    /\ UNCHANGED <<uid, roles, parent, direct, perm, attached>>

-----------------------------------------------------------------------------
(***************************************************************************)
(* Permissions.  A role principal must resolve to a role that exists; with *)
(* overwrite an existing document is replaced and stays attached.  The     *)
(* principal is resolved by a SELECT of its own and is no foreign key: a   *)
(* role deleted before the INSERT leaves the rows that DeleteRole leaves   *)
(* after it, a document whose principal names a role that is gone, so one  *)
(* step reaches every state that two do.                                   *)
(***************************************************************************)
resolve_one_principal(x) == x = "*" \/ \E i \in roles : uid[i] = x

CreatePermission(p, doc, overwrite) ==
    /\ Write /\ resolve_one_principal(doc.principal)
    /\ perm[p] # NoDoc => overwrite
    /\ perm' = [perm EXCEPT ![p] = doc]
    /\ UNCHANGED <<uid, roles, parent, direct, group, attached>>

DeletePermission(p) ==
    /\ Write /\ perm[p] # NoDoc
    /\ perm' = [perm EXCEPT ![p] = NoDoc]
    /\ attached' = {a \in attached : a[2] # p}
    /\ UNCHANGED <<uid, roles, parent, direct, group>>

AttachToRole(i, p) ==
    /\ Write /\ i \in roles /\ perm[p] # NoDoc
    /\ attached' = attached \cup {<<i, p>>}
    /\ UNCHANGED <<uid, roles, parent, direct, group, perm>>

DetachFromRole(i, p) ==
    /\ Write /\ <<i, p>> \in attached
    /\ attached' = attached \ {<<i, p>>}
    /\ UNCHANGED <<uid, roles, parent, direct, group, perm>>

-----------------------------------------------------------------------------
(***************************************************************************)
(* admin_check_permission: role uids, role ids, group role uids, group     *)
(* role ids, the documents attached to those ids, the decision.            *)
(***************************************************************************)
ReadNames ==
    /\ Spend /\ check.pc = "idle"
    /\ check' = [NoCheck EXCEPT !.pc = "ids", !.names = get_user_roles]
    /\ UNCHANGED <<db, move>>

ReadStep(l, h) == check.pc = l /\ check' = h /\ UNCHANGED <<db, move, ops>>

ReadIds == ReadStep("ids", [check EXCEPT !.pc = "group names", !.ids = get_user_role_ids])
ReadGroupNames == ReadStep("group names", [check EXCEPT !.pc = "group ids", !.names = @ \cup GroupRoleUids])
ReadGroupIds_Dropped == ReadStep("group ids", [check EXCEPT !.pc = "policies"])
ReadGroupIds == ReadStep("group ids", [check EXCEPT !.pc = "policies", !.ids = @ \cup GroupRoleIds])
ReadPolicies == ReadStep("policies", [check EXCEPT !.pc = "decide", !.docs = get_for_roles(check.ids)])
Decide == ReadStep("decide", NoCheck)
Allowed == authorize(check.docs, check.names)

-----------------------------------------------------------------------------
(***************************************************************************)
(* The handlers of routes/admin.rs, over the ids a request may name.       *)
(***************************************************************************)
AdminCreateRole == \E u \in Uids, p \in roles \cup {0} : CreateRole(u, p)
AdminDeleteRole == \E i \in Role : DeleteRole(i)
AdminAssignRoleToUser == \E i \in Role : AssignRole(i)
AdminRemoveRoleFromUser == \E i \in Role : RemoveRole(i)
AdminAssignRoleToGroup == \E i \in Role : AssignGroupRole(i)
AdminRemoveRoleFromGroup == \E i \in Role : RemoveGroupRole(i)
AdminCreatePermission == \E p \in Permissions, doc \in Doc, overwrite \in BOOLEAN : CreatePermission(p, doc, overwrite)
AdminDeletePermission == \E p \in Permissions : DeletePermission(p)
AdminAttachPermission == \E i \in Role, p \in Permissions : AttachToRole(i, p)
AdminDetachPermission == \E i \in Role, p \in Permissions : DetachFromRole(i, p)

AdminStep ==
    \/ AdminCreateRole \/ AdminDeleteRole \/ AdminAssignRoleToUser \/ AdminRemoveRoleFromUser
    \/ CreateGroup \/ DeleteGroup \/ AddUser \/ RemoveUser \/ AdminAssignRoleToGroup \/ AdminRemoveRoleFromGroup
    \/ AdminCreatePermission \/ AdminDeletePermission \/ AdminAttachPermission \/ AdminDetachPermission

MoveStep == \E m \in Movers : UpdateParent(m) \/ \E c, p \in roles \cup {0} : ValidateParent(m, c, p)
CheckStep == ReadNames \/ ReadIds \/ ReadGroupNames \/ ReadGroupIds \/ ReadPolicies \/ Decide

\* The facts a decision may rest on: roles the user holds directly or by the group, documents on roles.
Facts == ({"direct"} \X get_user_role_ids) \cup ({"group"} \X GroupRoleIds)
         \cup ({"doc"} \X {<<a[1], perm[a[2]]>> : a \in attached})

Watch ==
    window' = IF check'.pc = "idle" THEN [some |-> {}, every |-> {}]
              ELSE IF check.pc = "idle" THEN [some |-> Facts', every |-> Facts']
              ELSE [some |-> window.some \cup Facts', every |-> window.every \cap Facts']

AccessNext == (AdminStep \/ MoveStep \/ CheckStep) /\ Watch

AccessSpec == AccessInit /\ [][AccessNext]_accessVars

-----------------------------------------------------------------------------
(***************************************************************************)
(* AccessTypeOK: the types, and every link is between rows that exist.     *)
(***************************************************************************)
AccessTypeOK ==
    /\ roles \subseteq DOMAIN uid /\ DOMAIN uid \subseteq Role
    /\ parent \in [Role -> roles \cup {0}]
    /\ direct \subseteq roles /\ group \in Group /\ group.roles \subseteq roles
    /\ perm \in [Permissions -> Doc \cup {NoDoc}]
    /\ \A a \in attached : a[1] \in roles /\ perm[a[2]] # NoDoc
    /\ check \in Check /\ move \in [Movers -> Moving]

(***************************************************************************)
(* set_parent "returns BadRequest if setting the parent would create a     *)
(* cycle": the role hierarchy has no cycle, unless one set_parent moved a  *)
(* role between another's walk and its UPDATE.                             *)
(***************************************************************************)
AcyclicUnlessRaced ==
    [][(\A i \in roles : ~OnCycle(i)) =>
         (\A i \in roles' : ~OnCycle(i)') \/ \E m \in Movers : move[m].raced /\ ~move'[m].busy]_accessVars

(***************************************************************************)
(* However admin writes fall between its five reads, a check allows only   *)
(* on a document that allows, was attached during the check to a role the  *)
(* user held during the check, and applies to a role uid the user had.     *)
(***************************************************************************)
HeldIn(i, facts) == <<"direct", i>> \in facts \/ <<"group", i>> \in facts
AppliesIn(d, facts) == d.principal # "*" => \E j \in DOMAIN uid : uid[j] = d.principal /\ HeldIn(j, facts)

AllowExplained ==
    [][check.pc = "decide" /\ check'.pc = "idle" /\ Allowed =>
         \E i \in Role, d \in Doc :
            /\ d.effect = "allow" /\ <<"doc", <<i, d>>>> \in window.some
            /\ HeldIn(i, window.some) /\ AppliesIn(d, window.some)]_accessVars

(***************************************************************************)
(* A deny is lost in no race but one: a denying document that stayed       *)
(* attached to a role, applies to the user and whose roles the user held   *)
(* in the same way all through the check makes the answer a denial.  (A    *)
(* role that moves from the group to the user while the check is between   *)
(* the two reads is seen by neither.)                                      *)
(***************************************************************************)
DenyHonoured ==
    [][check.pc = "decide" /\ check'.pc = "idle" =>
         \A i \in Role, d \in Doc :
            /\ d.effect = "deny" /\ <<"doc", <<i, d>>>> \in window.every
            /\ HeldIn(i, window.every) /\ AppliesIn(d, window.every)
            => ~Allowed]_accessVars
=============================================================================
