--------------------------- MODULE MCTranslations ---------------------------
(***************************************************************************)
(* TLC instance of Filters and Policies.  They have no state in common;    *)
(* part says which of the three input spaces a behaviour explores.         *)
(***************************************************************************)
EXTENDS Filters, Policies

VARIABLE part

\* Two tables differ only in the case of a letter.
MCPackageId == <<<<"p">>, <<"p", "q">>>>
MCTableName == <<<<"T">>, <<"s">>, <<"t">>>>
MCExtensibleTable == {<<"t">>}
GetT == <<"get", <<"T">>>>
Approve == Word("approve")
MCCustomAction == {Approve, Word("get")}

\* The resources documents name and the paths requests are about, some of them
\* outside the documented forms.
Core == <<Seg("service", <<"core">>)>>
InCore(pre, id) == Append(Core, Seg(pre, id))
InPackage(pkg, pre, id) == Append(InCore("package", pkg), Seg(pre, id))
Resource == {Star, Core, InCore("package", <<"p">>), InCore("", <<"*">>), InCore("package", <<"p", "*">>),
             InPackage(<<"p">>, "table", <<"t">>), InPackage(<<"p">>, "table", <<"*">>), InPackage(<<"p">>, "query", <<"t">>),
             InPackage(<<"*">>, "table", <<"t">>), Append(Star, Seg("view", <<"*">>)), InCore("table", <<"t">>)}
MCRequestPath == {Core, InCore("package", <<"p">>), InCore("table", <<"t">>), Tail(InPackage(<<"p">>, "table", <<"t">>)),
                  InPackage(<<"p">>, "table", <<"t">>), InPackage(<<"p", "q">>, "table", <<"t">>),
                  InPackage(<<"p">>, "query", <<"t">>), InPackage(<<"p">>, "view", <<"t">>), InPackage(<<"p">>, "report", <<"t">>),
                  Append(InPackage(<<"p">>, "table", <<"t">>), Seg("column", <<"c">>))}
MCRequestUser == {"me"}
MCRequestRoles == {{}, {"me"}}
MCRequestAction == {GetT, Approve, Word("run"), Word("get"), Word("unheard")}

Everyone == [pre |-> "*", id |-> "*"]
Someone == {Everyone} \cup [pre : {"role", "user"}, id : {"me", "other"}]
Says(sid, e, prs, as, rs) == [sid |-> sid, effect |-> e, principals |-> prs, actions |-> as, resources |-> rs]
Effects == {"Allow", "Deny"}
One == {Says("s", e, <<pr>>, <<a1>>, <<r>>) :
           e \in Effects, pr \in Someone, a1 \in {GetT, Approve, Word("run"), Word("get")}, r \in Resource}
Several == {Says("s", e, <<pr>>, <<GetT, Word("run")>>, <<Core, r>>) : e \in Effects, pr \in Someone, r \in Resource \ {Core}}
           \cup {Says("s", "Allow", <<Everyone, [pre |-> "user", id |-> "me"]>>, <<GetT>>, <<r>>) : r \in Resource}
MCFurtherStatements ==
    {Says(sid, e, <<[pre |-> pre, id |-> "me"]>>, <<GetT>>, <<r>>) :
        sid \in {"s", "u"}, e \in Effects, pre \in {"role", "user"}, r \in {Star, InPackage(<<"p">>, "table", <<"t">>)}}
MCStatements == One \cup Several \cup MCFurtherStatements

\* Documents are explored in one registry, once every package is synced.
Empty(p) == registry[p].actions = {}
SyncAll == \E p \in Range(PackageId) : Empty(p) /\ sync(p, {<<"t">>}, {}, {Approve})

MCVars == <<filterVars, policyVars, part>>
MCInit ==
    /\ part \in {"filters", "registry", "documents"}
    /\ FiltersInit /\ (part # "filters" => endpoint = "users")
    /\ PoliciesInit
MCNext ==
    /\ UNCHANGED part
    /\ \/ part = "filters" /\ FiltersNext /\ UNCHANGED policyVars
       \/ part = "registry" /\ RegistryNext /\ UNCHANGED filterVars
       \/ part = "documents" /\ SyncAll /\ UNCHANGED filterVars
       \/ part = "documents" /\ (\A p \in Range(PackageId) : ~Empty(p)) /\ DocumentsNext /\ UNCHANGED filterVars
MCSpec == MCInit /\ [][MCNext]_MCVars
=============================================================================
