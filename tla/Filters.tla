------------------------------ MODULE Filters ------------------------------
(***************************************************************************)
(* The list endpoints of routes/admin.rs: the RSQL filter of a request is  *)
(* parsed (query/rsql.rs), turned into a parameterised WHERE fragment      *)
(* (query/filter.rs) and set behind the fixed condition of the endpoint    *)
(* (list, list_by_group, list_roles of the repositories).  The text is a   *)
(* sequence of tokens; a comparison, with its field, operator and values,  *)
(* is one token.  Reference definitions follow, and the two are compared.  *)
(***************************************************************************)
EXTENDS Naturals, Sequences, FiniteSets

CONSTANTS
    MaxSize        \* bound: the size of a filter, a comparison other than the plain two counting Exotic
Exotic == 5

ASSUME FiltersAssumption == MaxSize \in Nat

VARIABLES
    endpoint,  \* the list called
    q,         \* the filter: a sequence of tokens
    sort       \* the sort parameter: its parts between commas

filterVars == <<endpoint, q, sort>>

-----------------------------------------------------------------------------
\* Fields of an endpoint, by type; values of a text are sequences of letters.
Fields == [text |-> [ty |-> "Text", sensitive |-> FALSE], num |-> [ty |-> "Timestamp", sensitive |-> FALSE],
           flag |-> [ty |-> "Bool", sensitive |-> FALSE], secret |-> [ty |-> "Text", sensitive |-> TRUE]]

L(f, op, vals) == [field |-> f, op |-> op, vals |-> vals]
a == <<"a">>
Leaves == <<
    L("text", "==", <<a>>), L("num", "gt", <<1>>),
    L("text", "!=", <<a>>), L("num", "ge", <<2>>), L("num", "lt", <<2>>), L("num", "le", <<1>>),
    L("text", "in", <<a, <<"A", "b">>>>), L("num", "out", <<1, 3>>), L("num", "between", <<2, 3>>),
    L("text", "like", <<<<"A", "%">>>>), L("text", "ilike", <<<<"%", "B">>>>),
    L("text", "contains", <<<<"b">>>>), L("text", "starts", <<a>>), L("text", "ends", <<a>>),
    L("text", "null", <<"true">>), L("num", "null", <<"false">>), L("flag", "==", <<TRUE>>),
    L("num", "null", <<"maybe">>), L("num", "between", <<1>>), L("text", "starts", <<<<"%", "b">>>>), L("text", "gt", <<a>>),
    L("secret", "==", <<a>>), L("other", "==", <<a>>), L("text", "near", <<a>>) >>

\* ',' is "or", ';' is "and"; n is the comparison a "leaf" stands for.
Sym(t) == [t |-> t, n |-> 0]
Token == {Sym(t) : t \in {"or", "and", "(", ")"}} \cup {[t |-> "leaf", n |-> n] : n \in DOMAIN Leaves}
Size(token) == IF token.n > 2 THEN Exotic ELSE 1
SizeOf(s) == LET sum[i \in 0..Len(s)] == IF i = 0 THEN 0 ELSE sum[i - 1] + Size(s[i]) IN sum[Len(s)]

-----------------------------------------------------------------------------
(***************************************************************************)
(* parse_rsql: recursive descent, one token of look-ahead.  A FilterNode   *)
(* is written as a sequence: a comparison, or between brackets the parts   *)
(* of And or Or with the connective between them.  many says that there    *)
(* are several parts, not yet made one node.                               *)
(***************************************************************************)
Peek(s, i) == IF i <= Len(s) THEN s[i].t ELSE "end"
Good(node, many, i) == [ok |-> TRUE, many |-> many, node |-> node, pos |-> i]
Bad(i) == [ok |-> FALSE, many |-> FALSE, node |-> <<>>, pos |-> i]

Named == {"==", "!=", "gt", "ge", "lt", "le", "in", "out", "like", "ilike", "contains", "starts", "ends", "between", "null"}

\* =null= takes true or false and becomes an operator without values.
Taken(l) == l.op \in Named /\ (l.op = "null" => l.vals[1] \in {"true", "false"})
Parsed(l) == IF l.op # "null" THEN l ELSE L(l.field, IF l.vals[1] = "true" THEN "is null" ELSE "is not null", <<>>)
parse_leaf(s, i) == IF Peek(s, i) = "leaf" /\ Taken(Leaves[s[i].n]) THEN Good(<<s[i]>>, FALSE, i + 1) ELSE Bad(i)

FilterNode(e) == IF e.many THEN Good(<<Sym("(")>> \o e.node \o <<Sym(")")>>, FALSE, e.pos) ELSE e

\* inner: the expression behind the parenthesis.
parse_atom(s, i, inner) ==
    IF Peek(s, i) # "(" THEN parse_leaf(s, i)
    ELSE IF ~inner.ok THEN inner
    ELSE IF Peek(s, inner.pos) # ")" THEN Bad(inner.pos)
    ELSE Good(inner.node, FALSE, inner.pos + 1)

\* first, and behind a separator the parts that follow.
Parts(s, k, first, rest) ==
    IF ~first.ok \/ Peek(s, first.pos) # k THEN first
    ELSE IF rest.ok THEN Good(first.node \o <<Sym(k)>> \o rest.node, TRUE, rest.pos) ELSE rest

\* What begins at token i, given what begins behind it.
parse_and(s, p, i) ==
    LET atom == parse_atom(s, i, FilterNode(p[i + 1].disj)) IN Parts(s, "and", atom, p[atom.pos + 1].conj)
parse_or(s, p, i) ==
    LET first == FilterNode(parse_and(s, p, i)) IN Parts(s, "or", first, p[first.pos + 1].disj)

parse_rsql(s) ==
    LET p[i \in 1..(Len(s) + 1)] == [conj |-> parse_and(s, p, i), disj |-> parse_or(s, p, i)]
        e == FilterNode(p[1].disj)
    IN  IF e.ok /\ e.pos <= Len(s) THEN Bad(e.pos) ELSE e

\* Empty parts and a lone '-' are skipped.
parse_sort(parts) == SelectSeq(parts, LAMBDA p : p.field # "")

-----------------------------------------------------------------------------
(***************************************************************************)
(* Builder: SQL is a sequence of tokens too, "leaf" n standing for the     *)
(* n-th atom.  A state of the builder is the atoms, the parameters and the *)
(* fragment built so far; next is the number of the next placeholder.      *)
(***************************************************************************)
Text == {"==", "!=", "in", "out", "like", "ilike", "contains", "starts", "ends", "is null", "is not null"}
Ordered == {"==", "!=", "gt", "ge", "lt", "le", "between", "in", "out", "is null", "is not null"}
op_valid_for_type(op, ty) ==
    CASE ty = "Text" -> op \in Text
      [] ty \in {"Int", "Float", "Date", "Timestamp", "Time"} -> op \in Ordered
      [] ty = "Bool" -> op \in {"==", "!=", "is null", "is not null"}
      [] ty = "Uuid" -> op \in {"==", "!=", "in", "out", "is null", "is not null"}

lookup(f) == f \in DOMAIN Fields /\ ~Fields[f].sensitive

LikeOps == {"like", "ilike", "contains", "starts", "ends"}
cast(op, ty) == IF ty = "Text" \/ op \in LikeOps THEN "none" ELSE ty

\* What is bound: the values as given, but for the patterns made of them.
Bound(l) ==
    CASE l.op = "contains" -> <<<<"%">> \o l.vals[1] \o <<"%">>>>
      [] l.op = "starts" -> <<l.vals[1] \o <<"%">>>>
      [] l.op = "ends" -> <<<<"%">> \o l.vals[1]>>
      [] OTHER -> l.vals

Compare == [op \in Text \cup Ordered |->
    CASE op = "==" -> "=" [] op = "gt" -> ">" [] op = "ge" -> ">=" [] op = "lt" -> "<" [] op = "le" -> "<="
      [] op = "in" -> "IN" [] op = "out" -> "NOT IN" [] op = "like" -> "LIKE"
      [] op \in LikeOps \ {"like"} -> "ILIKE" [] OTHER -> op]

\* ph: one placeholder for each value bound.
ph(b, l) == [i \in DOMAIN Bound(l) |-> b.next + i - 1]

build_leaf(b, l) ==
    IF ~b.ok \/ ~lookup(l.field) THEN [b EXCEPT !.ok = FALSE]
    ELSE IF ~op_valid_for_type(l.op, Fields[l.field].ty) \/ (l.op = "between" /\ Len(l.vals) # 2)
    THEN [b EXCEPT !.ok = FALSE]
    ELSE [b EXCEPT !.atoms = Append(@, [col |-> l.field, cmp |-> Compare[l.op], phs |-> ph(b, l),
                                        cast |-> cast(l.op, Fields[l.field].ty)]),
                   !.params = @ \o Bound(l), !.next = @ + Len(Bound(l)),
                   !.sql = Append(@, [t |-> "leaf", n |-> Len(b.atoms) + 1])]

Put(b, t) == [b EXCEPT !.sql = Append(@, Sym(t))]

\* And and Or are joined between parentheses.
build_token_NoParens(b, token) ==
    IF token.t = "leaf" THEN build_leaf(b, Parsed(Leaves[token.n])) ELSE IF token.t \in {"(", ")"} THEN b ELSE Put(b, token.t)
build_token(b, token) == IF token.t = "leaf" THEN build_leaf(b, Parsed(Leaves[token.n])) ELSE Put(b, token.t)
build_node(b, node) ==
    LET built[i \in 0..Len(node)] == IF i = 0 THEN b ELSE build_token(built[i - 1], node[i]) IN built[Len(node)]

Start(next, fixed, ok) == [ok |-> ok, atoms |-> fixed, params |-> <<>>, next |-> next, sql |->
    [i \in 1..(2 * Len(fixed) - 1) |-> IF i % 2 = 0 THEN Sym("and") ELSE [t |-> "leaf", n |-> (i + 1) \div 2]]]

\* parse_list_params: no filter, or one that parses; then build, behind the fixed condition.
build(b, s, parts) ==
    LET e == parse_rsql(s)
        w == IF s = <<>> THEN b ELSE IF e.ok THEN build_node(Put(b, "and"), e.node) ELSE [b EXCEPT !.ok = FALSE]
    IN  [w EXCEPT !.ok = @ /\ \A i \in DOMAIN parts : lookup(parts[i].field)]

-----------------------------------------------------------------------------
\* The fixed condition of each list, and the first placeholder left to the filter.
Fixed(c, phs) == [col |-> c, cmp |-> "fixed", phs |-> phs, cast |-> "none"]
Tenant == Fixed("tenant", <<1>>)

ListUsers(archived) == Start(2, IF archived THEN <<Tenant>> ELSE <<Tenant, Fixed("live", <<>>)>>, TRUE)
list_by_group == Start(3, <<Tenant, Fixed("group", <<2>>)>>, TRUE)
list_roles == Start(2, <<Tenant>>, TRUE)
ListGroups == Start(2, <<Tenant>>, TRUE)
ListPermissions == Start(2, <<Tenant, Fixed("document", <<>>)>>, TRUE)

Query(e) ==
    CASE e = "users" -> ListUsers(FALSE)
      [] e = "all users" -> ListUsers(TRUE)
      [] e = "group members" -> list_by_group
      [] e = "roles" -> list_roles
      [] e = "groups" -> ListGroups
      [] e = "permissions" -> ListPermissions

Endpoint == {"users", "all users", "group members", "roles", "groups", "permissions"}
\* What the handler binds before the parameters of the filter.
FixedBinds(e) == IF e = "group members" THEN <<"mine", "the group">> ELSE <<"mine">>

(***************************************************************************)
(* The requests: a filter grows by a token as long as the parser has not   *)
(* failed before its end, where no continuation can mend it; a sort grows  *)
(* by a part, whose direction is left out.                                 *)
(***************************************************************************)
SortPart == {[field |-> f] : f \in {"", "num", "text", "secret", "other"}}

FiltersInit == endpoint \in Endpoint /\ q = <<>> /\ sort = <<>>

Extend(token) ==
    /\ sort = <<>> /\ SizeOf(q) + Size(token) <= MaxSize
    /\ q = <<>> \/ parse_rsql(q).ok \/ parse_rsql(q).pos > Len(q)
    /\ q' = Append(q, token)
    /\ UNCHANGED <<endpoint, sort>>

ExtendSort(part) ==
    /\ Len(sort) < 2 /\ Len(q) <= 1
    /\ sort' = Append(sort, part)
    /\ UNCHANGED <<endpoint, q>>

FiltersNext == (\E token \in Token : Extend(token)) \/ (\E part \in SortPart : ExtendSort(part))
FiltersSpec == FiltersInit /\ [][FiltersNext]_filterVars

-----------------------------------------------------------------------------
\* Rows; a column is the set of its value, empty when NULL.
Row == [mine : BOOLEAN, live : BOOLEAN, group : BOOLEAN, text : {{}, {a}, {<<"A", "b">>}}, num : {{}, {1}, {2}}, flag : {{TRUE}}]

(***************************************************************************)
(* Reference: an expression is cut at its outermost ',' first, then at its *)
(* outermost ';'; what is left is a comparison or stands in parentheses.   *)
(* The same rule is SQL's, with OR and AND.  Reading(s) holds the rows     *)
(* that a sentence is true for, given those of its comparisons, and is     *)
(* empty if s is no sentence.                                              *)
(***************************************************************************)
Count(s, t, i) == Cardinality({j \in 1..i : s[j].t = t})
Outermost(s, t) == {i \in DOMAIN s : s[i].t = t /\ Count(s, "(", i) = Count(s, ")", i)}
First(S) == CHOOSE i \in S : \A j \in S : i <= j
Before(s, i) == SubSeq(s, 1, i - 1)
After(s, i) == SubSeq(s, i + 1, Len(s))
Inside(s) == SubSeq(s, 2, Len(s) - 1)
Enclosed(s) ==
    /\ Len(s) > 2 /\ s[1].t = "(" /\ s[Len(s)].t = ")"
    /\ \A i \in 1..(Len(s) - 1) : Count(s, "(", i) > Count(s, ")", i)

Item == [t : {"or", "and", "(", ")", "leaf"}, rows : SUBSET Row]
Read(s, read) ==
    LET part(x) == read[Len(x)][x]
        ors == Outermost(s, "or")
        ands == Outermost(s, "and") IN
    IF ors # {} THEN {x \cup y : x \in part(Before(s, First(ors))), y \in part(After(s, First(ors)))}
    ELSE IF ands # {} THEN {x \cap y : x \in part(Before(s, First(ands))), y \in part(After(s, First(ands)))}
    ELSE IF Len(s) = 1 THEN {s[1].rows : i \in {i \in {1} : s[1].t = "leaf"}}
    ELSE IF Enclosed(s) THEN part(Inside(s))
    ELSE {}
Reading(s) ==
    LET read[n \in 0..Len(s)] == [x \in [1..n -> Item] |-> Read(x, read)] IN read[Len(s)][s]

\* The tokens with the rows of the comparisons they stand for.
Valued(s, rows) == [i \in DOMAIN s |-> [t |-> s[i].t, rows |-> IF s[i].t = "leaf" THEN rows[s[i].n] ELSE {}]]

Lower(t) == [i \in DOMAIN t |-> CASE t[i] = "A" -> "a" [] t[i] = "B" -> "b" [] OTHER -> t[i]]
FoundIn(v, x) == \E i \in DOMAIN v, j \in DOMAIN v : SubSeq(Lower(v), i, j) = x
\* A '%' in the value of =starts= is not escaped: it stands for any text, and what follows it is looked for anywhere.
Holds(l, row) ==
    CASE l.op = "null" -> (row[l.field] = {}) = (l.vals[1] = "true")
      [] l.op = "==" -> \E v \in row[l.field] : v = l.vals[1]
      [] l.op = "!=" -> \E v \in row[l.field] : v # l.vals[1]
      [] l.op = "gt" -> \E v \in row[l.field] : v > l.vals[1]
      [] l.op = "ge" -> \E v \in row[l.field] : v >= l.vals[1]
      [] l.op = "lt" -> \E v \in row[l.field] : v < l.vals[1]
      [] l.op = "le" -> \E v \in row[l.field] : v <= l.vals[1]
      [] l.op = "in" -> \E v \in row[l.field] : \E i \in DOMAIN l.vals : v = l.vals[i]
      [] l.op = "out" -> \E v \in row[l.field] : \A i \in DOMAIN l.vals : v # l.vals[i]
      [] l.op = "between" -> \E v \in row[l.field] : l.vals[1] <= v /\ v <= l.vals[2]
      [] l.op = "like" -> \E v \in row[l.field] : v[1] = "A"                           \* A%
      [] l.op = "ilike" -> \E v \in row[l.field] : v[Len(v)] \in {"b", "B"}            \* %B
      [] l.op = "contains" -> \E v \in row[l.field] : FoundIn(v, l.vals[1])
      [] l.op = "starts" -> \E v \in row[l.field] :
            IF l.vals[1][1] = "%" THEN FoundIn(v, Tail(l.vals[1])) ELSE SubSeq(Lower(v), 1, 1) = l.vals[1]
      [] l.op = "ends" -> \E v \in row[l.field] : SubSeq(Lower(v), Len(v), Len(v)) = l.vals[1]

\* The comparisons that make sense: a field one may filter on, an operator of its type.
Sensible == (1..17) \cup {20}

Visible(e, row) ==
    /\ row.mine
    /\ e = "users" => row.live
    /\ e = "group members" => row.group

-----------------------------------------------------------------------------
(***************************************************************************)
(* PostgreSQL: an atom on a row, with the values bound.                    *)
(***************************************************************************)
\* LIKE, by the places of the text where the first i letters of the pattern may end.
Like(pattern, text) ==
    LET ends[i \in 0..Len(pattern)] ==
            IF i = 0 THEN {0}
            ELSE IF pattern[i] = "%" THEN {k \in 0..Len(text) : \E m \in ends[i - 1] : m <= k}
            ELSE {k \in 1..Len(text) : k - 1 \in ends[i - 1] /\ text[k] = pattern[i]}
    IN  Len(text) \in ends[Len(pattern)]

Atom(x, binds, row) ==
    LET b(i) == binds[x.phs[i]] IN
    CASE x.col = "tenant" -> row.mine /\ b(1) = "mine"
      [] x.col = "live" -> row.live
      [] x.col = "group" -> row.group /\ b(1) = "the group"
      [] x.col = "document" -> TRUE
      [] x.cmp = "is null" -> row[x.col] = {}
      [] x.cmp = "is not null" -> row[x.col] # {}
      [] x.cmp = "=" -> \E v \in row[x.col] : v = b(1)
      [] x.cmp = "!=" -> \E v \in row[x.col] : v # b(1)
      [] x.cmp = ">" -> \E v \in row[x.col] : v > b(1)
      [] x.cmp = ">=" -> \E v \in row[x.col] : v >= b(1)
      [] x.cmp = "<" -> \E v \in row[x.col] : v < b(1)
      [] x.cmp = "<=" -> \E v \in row[x.col] : v <= b(1)
      [] x.cmp = "IN" -> \E v \in row[x.col] : \E i \in DOMAIN x.phs : v = b(i)
      [] x.cmp = "NOT IN" -> \E v \in row[x.col] : \A i \in DOMAIN x.phs : v # b(i)
      [] x.cmp = "between" -> \E v \in row[x.col] : b(1) <= v /\ v <= b(2)
      [] x.cmp = "LIKE" -> \E v \in row[x.col] : Like(b(1), v)
      [] x.cmp = "ILIKE" -> \E v \in row[x.col] : Like(Lower(b(1)), Lower(v))

\* The rows a query returns.
Returns(w, binds) ==
    Reading(Valued(w.sql, [n \in DOMAIN w.atoms |-> {row \in Row : Atom(w.atoms[n], binds, row)}]))

(***************************************************************************)
(* Placeholders and parameters fit: every number up to the last bound is   *)
(* used by exactly one place, and a value of another type than text is     *)
(* cast to it.                                                             *)
(***************************************************************************)
Uses(w) == UNION {{<<n, i>> : i \in DOMAIN w.atoms[n].phs} : n \in DOMAIN w.atoms}
Used(w, u) == w.atoms[u[1]].phs[u[2]]
BindsFit(w, binds) ==
    /\ {Used(w, u) : u \in Uses(w)} = DOMAIN binds
    /\ \A u, v \in Uses(w) : Used(w, u) = Used(w, v) => u = v
    /\ \A u \in Uses(w) : w.atoms[u[1]].col \in {"num", "flag"} => w.atoms[u[1]].cast # "none"

\* The rows a comparison is about, and the ones a filter asks for.
Meant == [n \in DOMAIN Leaves |-> {row \in Row : n \in Sensible /\ Holds(Leaves[n], row)}]
Asked(s) == IF s = <<>> THEN {Row} ELSE Reading(Valued(s, Meant))

(***************************************************************************)
(* ListFaithful: a filter and a sort are refused exactly when they are no  *)
(* sentence over fields the caller may use; otherwise the query returns    *)
(* the rows of the endpoint (the caller's tenant, whatever the filter      *)
(* says; live users; the group's members) for which the filter is true.    *)
(***************************************************************************)
ListFaithful ==
    LET parts == parse_sort(sort)
        w == build(Query(endpoint), q, parts)
        binds == FixedBinds(endpoint) \o w.params IN
    /\ w.ok <=> /\ Asked(q) # {}
                /\ \A i \in DOMAIN q : q[i].t = "leaf" => q[i].n \in Sensible
                /\ \A i \in DOMAIN parts : parts[i].field \in {"text", "num", "flag"}
    /\ w.ok => /\ BindsFit(w, binds)
               /\ Returns(w, binds) = {{row \in rows : Visible(endpoint, row)} : rows \in Asked(q)}
=============================================================================
