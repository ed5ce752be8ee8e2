------------------------------ MODULE Policies ------------------------------
(***************************************************************************)
(* What a permission document means.  A document is compiled into Cedar    *)
(* policies (policy/compiler.rs, policy/resource.rs), a request builds an  *)
(* entity graph and is decided against them and the schema made of the     *)
(* package registry (policy/engine.rs, policy/schema.rs), and a check      *)
(* without an action asks for every action of a scope                      *)
(* (services/packages.rs).  Reference definitions follow.                  *)
(*                                                                         *)
(* A resource is a sequence of segments "prefix:id"; an id is a sequence   *)
(* of letters, in a document also '*'.  An action is a verb and a table's  *)
(* name, or one word.  One CRUD verb and one extensible-fields verb stand  *)
(* for the seven and the three; no table's name completes a verb to        *)
(* another.                                                                *)
(***************************************************************************)
EXTENDS Naturals, Sequences, FiniteSets, SequencesExt

CONSTANTS
    PackageId,       \* the packages, in the order of the registry's primary key
    TableName,       \* the names of tables, in that order
    ExtensibleTable, \* the tables a sync may flag extensible
    CustomAction,    \* the custom actions of a sync
    Statements,      \* the statements of documents
    FurtherStatements, \* bound: the statements written after the first
    RequestUser, RequestRoles, RequestAction, RequestPath,  \* the requests
    MaxStatements    \* bound: statements written

\* The names a path is made of.
Seg(pre, id) == [pre |-> pre, id |-> id]
Segment == [pre : STRING, id : Seq(STRING)]
Path == Seq(Segment) \ {<<>>}
Star == <<Seg("", <<"*">>)>>

Principal == {[pre |-> "*", id |-> "*"]} \cup [pre : {"role", "user"}, id : STRING]
Name == Seq(STRING) \ {<<>>}
Word(action) == <<action, <<>>>>
Action == STRING \X Seq(STRING)
Statement ==
    [sid : STRING, effect : {"Allow", "Deny"}, principals : Seq(Principal), actions : Seq(Action), resources : Seq(Path)]

ASSUME PoliciesAssumption ==
    /\ PackageId \in Seq(Name) /\ IsInjective(PackageId)
    /\ TableName \in Seq(Name) /\ IsInjective(TableName)
    /\ ExtensibleTable \subseteq Range(TableName)
    /\ CustomAction \subseteq Action
    /\ FurtherStatements \subseteq Statements /\ Statements \subseteq Statement
    /\ RequestPath \subseteq Path
    /\ MaxStatements \in Nat

VARIABLES
    registry,  \* per package: the tables and the actions registered
    doc,       \* the document being written: a sequence of statements
    stored     \* the documents saved

policyVars == <<registry, doc, stored>>

-----------------------------------------------------------------------------
\* The text of a path, a token for each prefix, letter, ':' and '/'.
PathText(path) == FlattenSeq([i \in DOMAIN path |->
    (IF i = 1 THEN <<>> ELSE <<"/">>) \o (IF path[i].pre = "" THEN <<>> ELSE <<path[i].pre, ":">>) \o path[i].id])

(***************************************************************************)
(* policy/resource.rs.                                                     *)
(***************************************************************************)
segment_entity_type(seg) ==
    CASE seg.pre = "package" -> "Package" [] seg.pre = "table" -> "Table" [] seg.pre = "column" -> "Column"
      [] seg.pre = "query" -> "Query" [] seg.pre = "view" -> "View" [] OTHER -> "Service"

allows_parent_Any(child, par) == TRUE
allows_parent(child, par) ==
    <<child, par>> \in {<<"Package", "Service">>, <<"Table", "Package">>, <<"Column", "Table">>,
                        <<"Query", "Package">>, <<"View", "Package">>}

entity_type(path) == segment_entity_type(path[Len(path)])
entity_id(path) == [i \in DOMAIN path |-> path[i].id]
resource_uid(path) == <<entity_type(path), entity_id(path)>>

is_wildcard(path) == \E i \in DOMAIN path : Contains(path[i].id, "*")
Wildcard == [kind |-> "Wildcard"]
Literal(text) == [kind |-> "Literal", text |-> text]
like_pattern(path) == LET t == PathText(path) IN [i \in DOMAIN t |-> IF t[i] = "*" THEN Wildcard ELSE Literal(t[i])]

(***************************************************************************)
(* policy/compiler.rs: one policy for each statement, principal, action    *)
(* and resource; its id leaves the principal out.                          *)
(***************************************************************************)
NoUid == <<"none", <<>>>>
parse_principal(pr) ==
    IF pr.pre = "*" THEN [op |-> "All", uid |-> NoUid]
    ELSE IF pr.pre = "role" THEN [op |-> "in", uid |-> <<"Role", pr.id>>]
    ELSE [op |-> "==", uid |-> <<"User", pr.id>>]

parse_resource(path) ==
    IF is_wildcard(path) THEN [op |-> "All", uid |-> NoUid] ELSE [op |-> "==", uid |-> resource_uid(path)]

resource_like_condition(path) == IF is_wildcard(path) /\ path # Star THEN {like_pattern(path)} ELSE {}

build_cedar_json(stmt, pr, action, path) ==
    [effect |-> IF stmt.effect = "Allow" THEN "permit" ELSE "forbid", principal |-> parse_principal(pr),
     action |-> action, resource |-> parse_resource(path), conditions |-> resource_like_condition(path)]

Cells(d) == UNION {{<<i, j, k, l>> : j \in DOMAIN d[i].principals, k \in DOMAIN d[i].actions, l \in DOMAIN d[i].resources} :
                   i \in DOMAIN d}
PolicyId(d, c) == <<d[c[1]].sid, d[c[1]].actions[c[3]], d[c[1]].resources[c[4]]>>

compile(d) ==
    [ok |-> \A b, c \in Cells(d) : PolicyId(d, b) = PolicyId(d, c) => b = c,
     policies |-> {build_cedar_json(d[c[1]], d[c[1]].principals[c[2]], d[c[1]].actions[c[3]], d[c[1]].resources[c[4]]) :
                   c \in Cells(d)}]

(***************************************************************************)
(* policy/schema.rs: the actions a table gives, and the types of resource  *)
(* an action is declared for.                                              *)
(***************************************************************************)
\* Of the letters, s and t have another case.
UpperCase(letter) == CASE letter = "s" -> "S" [] letter = "t" -> "T" [] OTHER -> letter
to_pascal_case(table) == [i \in DOMAIN table |-> IF i = 1 THEN UpperCase(table[i]) ELSE table[i]]
crud_action_names(table) == <<"get", to_pascal_case(table)>>
extensible_action_names(table) == <<"getExtensibleFields", to_pascal_case(table)>>
QUERY_ACTIONS == {Word("run")}
VIEW_ACTIONS == {Word("get"), Word("refresh")}

build_schema_str(action) ==
    IF action \in QUERY_ACTIONS THEN {"Query"}
    ELSE IF action \in VIEW_ACTIONS THEN {"View"}
    ELSE IF \E p \in DOMAIN registry : \/ action \in registry[p].actions
                                       \/ \E t \in registry[p].tables : action = crud_action_names(t)
    THEN {"Service", "Package", "Table", "Column", "Query", "View"}
    ELSE {}

\* entity Package in [Service], and so on: the types an entity of a type may be in.
SchemaParents(type) ==
    CASE type = "User" -> {"Role"} [] type = "Package" -> {"Service"} [] type \in {"Table", "Query", "View"} -> {"Package"}
      [] type = "Column" -> {"Table"} [] OTHER -> {}

(***************************************************************************)
(* policy/engine.rs.  An entity that does not fit the schema leaves the    *)
(* request with no entities at all.                                        *)
(***************************************************************************)
build_user_entity(user, roles) == [uid |-> <<"User", user>>, path |-> <<>>, parents |-> {<<"Role", r>> : r \in roles}]

build_resource_chain(path) ==
    LET upto(i) == SubSeq(path, 1, i) IN
    {[uid |-> resource_uid(upto(i)), path |-> PathText(upto(i)),
      parents |-> IF i > 1 /\ allows_parent(entity_type(upto(i)), entity_type(upto(i - 1)))
                  THEN {resource_uid(upto(i - 1))} ELSE {}] : i \in DOMAIN path}

from_entities(es) == IF \A e \in es : \A par \in e.parents : par[1] \in SchemaParents(e.uid[1]) THEN es ELSE {}

\* Cedar: like, by the places of the text where the first i elements may end,
\* and a policy satisfied by a request.
Reached(element, before, text) ==
    IF element.kind = "Wildcard" THEN {k \in 0..Len(text) : \E m \in before : m <= k}
    ELSE {k \in 1..Len(text) : k - 1 \in before /\ text[k] = element.text}
CedarLike(pattern, text) ==
    LET ends[i \in 0..Len(pattern)] == IF i = 0 THEN {0} ELSE Reached(pattern[i], ends[i - 1], text) IN
    Len(text) \in ends[Len(pattern)]

Satisfied(policy, user, action, uid, entities) ==
    /\ policy.action = action
    /\ \/ policy.principal.op = "All"
       \/ policy.principal.op = "==" /\ policy.principal.uid = <<"User", user>>
       \/ policy.principal.op = "in" /\ \E e \in entities : e.uid = <<"User", user>> /\ policy.principal.uid \in e.parents
    /\ policy.resource.op = "All" \/ policy.resource.uid = uid
    /\ \A pattern \in policy.conditions : \E e \in entities : e.uid = uid /\ CedarLike(pattern, e.path)

authorize(user, roles, action, path, policies) ==
    LET entities == from_entities(build_resource_chain(path) \cup {build_user_entity(user, roles)})
        satisfied == {p \in policies : Satisfied(p, user, action, resource_uid(path), entities)} IN
    /\ entity_type(path) \in build_schema_str(action)
    /\ \E p \in satisfied : p.effect = "permit"
    /\ \A p \in satisfied : p.effect # "forbid"

(***************************************************************************)
(* services/packages.rs.                                                   *)
(***************************************************************************)
sync(pkg, tables, extensible, custom) ==
    /\ registry' = [registry EXCEPT ![pkg] =
           [tables |-> tables,
            actions |-> {crud_action_names(t) : t \in tables} \cup {extensible_action_names(t) : t \in extensible} \cup custom]]
    /\ UNCHANGED <<doc, stored>>

\* The last segment with a prefix, or none; the first with "service:".
parse_resource_scope(path, pre) ==
    {path[i].id : i \in {i \in DOMAIN path : path[i].pre = pre /\ \A j \in (i + 1)..Len(path) : path[j].pre # pre}}
service_prefix(path) ==
    LET found == SelectInSeq(path, LAMBDA seg : seg.pre = "service") IN IF found = 0 THEN <<>> ELSE <<path[found]>>

\* The rows of the two tables, each with its place in the order of the primary key.
list_tables == {row \in (DOMAIN PackageId) \X (DOMAIN TableName) : TableName[row[2]] \in registry[PackageId[row[1]]].tables}
list_custom_actions == UNION {{i} \X registry[PackageId[i]].actions : i \in DOMAIN PackageId}

\* What the two loops push, with the place in the vector.
Includes(scope, id) == scope = {} \/ id \in scope
Push(loop, i, j, action, resource) == [loop |-> loop, i |-> i, j |-> j, action |-> action, resource |-> resource]
TableActions(path) ==
    LET scope == parse_resource_scope(path, "package")
        included == {row \in list_tables :
            /\ Includes(scope, PackageId[row[1]])
            /\ scope = {} \/ Includes(parse_resource_scope(path, "table"), TableName[row[2]])}
        at(row) == service_prefix(path) \o <<Seg("package", PackageId[row[1]]), Seg("table", TableName[row[2]])>>
        ext_actions(row) == {extensible_action_names(TableName[row[2]])} \cap registry[PackageId[row[1]]].actions IN
    UNION {{Push(1, row[1], row[2], action, at(row)) : action \in {crud_action_names(TableName[row[2]])} \cup ext_actions(row)} :
           row \in included}
PackageActions(path) ==
    {Push(2, row[1], 0, row[2], service_prefix(path) \o <<Seg("package", PackageId[row[1]])>>) :
     row \in {row \in list_custom_actions : Includes(parse_resource_scope(path, "package"), PackageId[row[1]])}}

\* A stable sort by name and dedup: the first pushed of a name stays.
PushedBefore(x, y) ==
    \/ x.loop < y.loop
    \/ x.loop = y.loop /\ x.i < y.i
    \/ x.loop = y.loop /\ x.i = y.i /\ x.j < y.j
SortedDeduped_LastStays(pushed) ==
    {<<x.action, x.resource>> : x \in {x \in pushed : \A y \in pushed : y.action = x.action => ~PushedBefore(x, y)}}
SortedDeduped(pushed) ==
    {<<x.action, x.resource>> : x \in {x \in pushed : \A y \in pushed : y.action = x.action => ~PushedBefore(y, x)}}

get_actions_for_resource(path) ==
    IF path[Len(path)].pre = "query" THEN QUERY_ACTIONS \X {path}
    ELSE IF path[Len(path)].pre = "view" THEN VIEW_ACTIONS \X {path}
    ELSE SortedDeduped(TableActions(path) \cup PackageActions(path))

-----------------------------------------------------------------------------
Written == Len(doc) + Len(FlattenSeq(stored))
Write(stmt) ==
    /\ Written < MaxStatements
    /\ Written > 0 => stmt \in FurtherStatements
    /\ doc' = Append(doc, stmt)
    /\ UNCHANGED <<registry, stored>>

\* A document that does not compile is refused.
CreatePermissionDocument ==
    /\ doc # <<>>
    /\ doc' = <<>>
    /\ stored' = IF compile(doc).ok THEN Append(stored, doc) ELSE stored
    /\ UNCHANGED registry

get_policy_set_for_roles == UNION {compile(stored[i]).policies : i \in DOMAIN stored}

PoliciesInit ==
    /\ registry = [p \in Range(PackageId) |-> [tables |-> {}, actions |-> {}]]
    /\ doc = <<>>
    /\ stored = <<>>

RegistryNext ==
    \E p \in Range(PackageId), tables \in SUBSET Range(TableName), ext \in SUBSET ExtensibleTable, custom \in SUBSET CustomAction :
        sync(p, tables, ext, custom)
DocumentsNext == (\E stmt \in Statements : Write(stmt)) \/ CreatePermissionDocument

PoliciesSpec == PoliciesInit /\ [][RegistryNext \/ DocumentsNext]_policyVars

-----------------------------------------------------------------------------
(***************************************************************************)
(* Reference: a pattern covers a text when each of its stars can be given  *)
(* a stretch of the text so that every other token stands right after what *)
(* comes before it and the last ends the text.                             *)
(***************************************************************************)
StarsUpTo(stars, i) == {s \in stars : s <= i}
Place(stars, end, i) ==
    LET last == Max(StarsUpTo(stars, i)) IN IF StarsUpTo(stars, i) = {} THEN i ELSE end[last] + (i - last)
Covers(pattern, text) ==
    LET stars == {i \in DOMAIN pattern : pattern[i] = "*"} IN
    \E end \in [stars -> 0..Len(text)] :
        /\ Place(stars, end, Len(pattern)) = Len(text)
        /\ \A i \in DOMAIN pattern :
               LET place == Place(stars, end, i) IN
               IF i \in stars THEN Place(stars, end, i - 1) <= end[i] ELSE place \in DOMAIN text /\ text[place] = pattern[i]

\* The documented paths: service, package in it, table, query or view in that, column in a table.
Under(pre) ==
    CASE pre = "package" -> "service" [] pre \in {"table", "query", "view"} -> "package" [] pre = "column" -> "table" [] OTHER -> ""
Canonical(path) ==
    /\ path[1].pre = "service"
    /\ \A i \in 2..Len(path) : path[i].pre # "service" /\ path[i - 1].pre = Under(path[i].pre)

\* A resource names the paths its stars cover, or the one path it is; outside the
\* documented paths, those of its kind with the same ids.
Names(resource, path) ==
    IF is_wildcard(resource) THEN Covers(PathText(resource), PathText(path))
    ELSE IF Canonical(resource) /\ Canonical(path) THEN resource = path
    ELSE resource_uid(resource) = resource_uid(path)

Speaks(stmt, user, roles, action, path) ==
    /\ \E pr \in Range(stmt.principals) :
          pr.pre = "*" \/ (pr.pre = "user" /\ pr.id = user) \/ (pr.pre = "role" /\ pr.id \in roles)
    /\ action \in Range(stmt.actions)
    /\ \E r \in Range(stmt.resources) : Names(r, path)

Known(action, path) ==
    CASE action = Word("run") -> path[Len(path)].pre = "query"
      [] action \in {Word("get"), Word("refresh")} -> path[Len(path)].pre = "view"
      [] OTHER -> \E p \in DOMAIN registry : action \in registry[p].actions

(***************************************************************************)
(* DecisionFaithful: the policies compiled from the saved documents allow  *)
(* a request exactly when some statement allows it, none denies it and the *)
(* action exists for that kind of resource - however the paths nest, and   *)
(* whatever else the documents say.                                        *)
(***************************************************************************)
Saved == UNION {Range(stored[n]) : n \in DOMAIN stored}
DecisionFaithful ==
    LET policies == get_policy_set_for_roles
        saved == Saved IN
    \A user \in RequestUser, roles \in RequestRoles, action \in RequestAction, path \in RequestPath :
        authorize(user, roles, action, path, policies) <=>
            /\ Known(action, path)
            /\ \E s \in saved : s.effect = "Allow" /\ Speaks(s, user, roles, action, path)
            /\ \A s \in saved : s.effect = "Deny" => ~Speaks(s, user, roles, action, path)

\* The scope of a path: its innermost package, if any, and in it its innermost table.
Innermost(path, pre) == {i \in DOMAIN path : path[i].pre = pre /\ ~\E j \in DOMAIN path : j > i /\ path[j].pre = pre}
PackagesInScope(path) == {p \in Range(PackageId) : \A i \in Innermost(path, "package") : path[i].id = p}
TableInScope(path, t) == Innermost(path, "package") # {} => \A i \in Innermost(path, "table") : path[i].id = t
Gives(path, p, t, action) ==
    /\ p \in PackagesInScope(path) /\ action \in registry[p].actions
    /\ t \in registry[p].tables /\ TableInScope(path, t)
    /\ action \in {crud_action_names(t), extensible_action_names(t)}

(***************************************************************************)
(* ActionsFaithful: a check without an action asks, once each, for the     *)
(* registered actions of the packages in scope; one that a table in scope  *)
(* gives is asked at such a table's path, where the policies name it, any  *)
(* other at the path of a package that registered it - the sibling tables' *)
(* actions included, which the function's comment rules out: see           *)
(* CrudAtTableLevel.  A query and a view have their own actions.           *)
(***************************************************************************)
ActionsFaithful ==
    \A path \in RequestPath :
        LET asked == get_actions_for_resource(path)
            last == path[Len(path)]
            under(segments) == service_prefix(path) \o segments IN
        IF last.pre = "query" THEN asked = {<<Word("run"), path>>}
        ELSE IF last.pre = "view" THEN asked = {<<Word("get"), path>>, <<Word("refresh"), path>>}
        ELSE /\ \A x, y \in asked : x[1] = y[1] => x = y
             /\ {x[1] : x \in asked} = UNION {registry[p].actions : p \in PackagesInScope(path)}
             /\ \A x \in asked :
                  IF \E p \in Range(PackageId), t \in Range(TableName) : Gives(path, p, t, x[1])
                  THEN \E p \in Range(PackageId), t \in Range(TableName) :
                           Gives(path, p, t, x[1]) /\ x[2] = under(<<Seg("package", p), Seg("table", t)>>)
                  ELSE \E p \in PackagesInScope(path) : x[1] \in registry[p].actions /\ x[2] = under(<<Seg("package", p)>>)

(***************************************************************************)
(* The comment of get_actions_for_resource: "For CRUD actions this is      *)
(* always the table-level path", and a table's path is about the "CRUD +   *)
(* custom actions for table z" alone.                                      *)
(***************************************************************************)
CrudAtTableLevel ==
    \A path \in RequestPath : \A x \in get_actions_for_resource(path) :
        (\E p \in Range(PackageId) : \E t \in registry[p].tables : x[1] = crud_action_names(t))
        => x[2][Len(x[2])].pre = "table"
=============================================================================
