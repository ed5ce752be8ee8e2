--------------------------- MODULE SessionsProofs ---------------------------
(***************************************************************************)
(* Proofs about Sessions for every number of handlers, memberships and     *)
(* tokens: type correctness, the audit trail, the index of the Redis       *)
(* store, and that the stores and the logout routes implement              *)
(* SessionContract.                                                        *)
(***************************************************************************)
EXTENDS Sessions, TLAPS

LoginLabel == {"index", "extend", "audit"}

\* A handler's label, kind, membership and token fit together.
ControlOf(h) ==
    /\ h.pc = "idle" => h.before = {}
    /\ h.pc \in LoginLabel => h.user \in Users /\ h.tok \in Tokens /\ h.before = {}
    /\ h.pc \in {"revoke", "done"} => h.todo = {}
    /\ h.pc = "revoke" => h.tok \in Tokens
    /\ h.pc = "members" => h.scope = {}
    /\ h.pc \in {"sweep", "auditAll"} => h.user \in Users

\* Tokens in use have an owner, and a login's token the login's membership.
Owners ==
    /\ \A t \in returned : owner[t] # "none"
    /\ \A r \in Requests : req[r].pc \in LoginLabel => owner[req[r].tok] = req[r].user

Typed == Shapes /\ (\A r \in Requests : ControlOf(req[r])) /\ Owners

\* A login or a sweep in flight is on Redis, and a login's token is nobody else's.
LoginsFresh ==
    /\ \A r \in Requests : req[r].pc = "sweep" => backend = "redis"
    /\ \A r \in Requests : req[r].pc \in LoginLabel => backend = "redis" /\ req[r].tok \notin returned
    /\ \A q, r \in Requests :
          req[q].pc \in LoginLabel /\ req[r].pc \in LoginLabel /\ req[q].tok = req[r].tok => q = r

\* Reachable, already from the moment a login has put its token into the index.
Indexed ==
    backend = "redis" => \A t \in keys \ lost :
        (t \in returned \/ \E r \in Requests : req[r].pc \in {"extend", "audit"} /\ req[r].tok = t)
            => t \in index[owner[t]]

\* The sessions the contract speaks of, and the debts of a logout: what is left of them is of a
\* membership still to do, or listed by the sweep that is running.
Live == Held \ lost
Pays(r) ==
    /\ req[r].before \subseteq returned
    /\ \A t \in Owes(r) \cap Live :
          owner[t] \in req[r].todo \/ (req[r].pc = "sweep" /\ t \in req[r].list)
Owing == \A r \in Requests : Pays(r)

Inv == Typed /\ LoginsFresh /\ Indexed /\ Owing /\ AuditTrail

-----------------------------------------------------------------------------
(***************************************************************************)
(* Typing.                                                                 *)
(***************************************************************************)

\* The record of an idle handler is well typed and consistent.
LEMMA IdleHandler == NoHandler \in Handler /\ ControlOf(NoHandler)
BY DEF NoHandler, Handler, ControlOf, Label, Kind, LoginLabel

\* A handler's step writes one record of req.
LEMMA MoveKeeps ==
    ASSUME req \in [Requests -> Handler], NEW r \in Requests, NEW h \in Handler, Move(r, h)
    PROVE  /\ req' \in [Requests -> Handler] /\ req'[r] = h
           /\ \A q \in Requests : q # r => req'[q] = req[q]
BY DEF Move

\* A row revoked is still a row, and no row comes to be.
LEMMA RowsRevokedType ==
    ASSUME Shapes, NEW S
    PROVE  /\ RowsRevoked(S) \in [Tokens -> {"none", "active", "expired", "revoked"}]
           /\ \A t \in Tokens : RowsRevoked(S)[t] = "none" <=> row[t] = "none"
           /\ \A t \in Tokens : RowsRevoked(S)[t] = "active" <=> row[t] = "active" /\ t \notin S
BY DEF Shapes, RowsRevoked

\* The handler record each step leaves: well typed, and its label fits the rest.
Moved(r) == /\ req' \in [Requests -> Handler] /\ ControlOf(req'[r])
            /\ \A q \in Requests : q # r => req'[q] = req[q]

\* A step that ends its handler.
LEMMA MovedIdle ==
    ASSUME Typed, NEW r \in Requests, Move(r, NoHandler)
    PROVE  Moved(r) /\ req'[r] = NoHandler
BY IdleHandler, MoveKeeps DEF Moved, Typed, Shapes

\* A step that moves its handler to another record.
LEMMA MovedTo ==
    ASSUME Typed, NEW r \in Requests, NEW h \in Handler, ControlOf(h), Move(r, h)
    PROVE  Moved(r) /\ req'[r] = h
BY MoveKeeps DEF Moved, Typed, Shapes

\* The fields a change of label leaves alone.
LEMMA SamePc ==
    ASSUME NEW h \in Handler, NEW l \in Label
    PROVE  LET g == [h EXCEPT !.pc = l] IN
           /\ g \in Handler /\ g.pc = l /\ g.kind = h.kind /\ g.user = h.user /\ g.tok = h.tok
           /\ g.list = h.list /\ g.todo = h.todo /\ g.scope = h.scope /\ g.before = h.before
BY DEF Handler

\* A handler's own record and control.
LEMMA HandlerParts ==
    ASSUME Typed, NEW r \in Requests
    PROVE  req[r] \in Handler /\ ControlOf(req[r])
BY DEF Typed, Shapes

\* The steps of a login in flight only change its label.
LEMMA LoginMoves ==
    ASSUME Typed, NEW r \in Requests, NEW l \in {"extend", "audit"}, req[r].pc \in LoginLabel,
           Move(r, [req[r] EXCEPT !.pc = l])
    PROVE  /\ Moved(r) /\ req'[r].pc = l /\ req'[r].user = req[r].user /\ req'[r].tok = req[r].tok
           /\ req'[r].before = {} /\ req'[r].scope = req[r].scope /\ req'[r].todo = req[r].todo
<1> DEFINE h == [req[r] EXCEPT !.pc = l]
<1>1. req[r] \in Handler /\ ControlOf(req[r]) BY HandlerParts
<1>2. l \in Label BY DEF Label
<1>3. /\ h \in Handler /\ h.pc = l /\ h.user = req[r].user /\ h.tok = req[r].tok
      /\ h.before = req[r].before /\ h.scope = req[r].scope /\ h.todo = req[r].todo
    BY <1>1, <1>2, SamePc
<1>4. ControlOf(h) BY <1>1, <1>3 DEF ControlOf, LoginLabel
<1> HIDE DEF h
<1>5. Moved(r) /\ req'[r] = h BY <1>3, <1>4, MovedTo DEF h
<1>6. QED BY <1>1, <1>3, <1>5 DEF ControlOf

\* SetRedis begins a login.
LEMMA SetRedisEffect ==
    ASSUME Typed, NEW r \in Requests, NEW t \in Tokens, NEW u \in Users, SetRedis(r, t, u)
    PROVE  /\ Moved(r) /\ req'[r].pc = "index" /\ req'[r].user = u /\ req'[r].tok = t
           /\ req'[r].before = {}
<1> DEFINE h == [NoHandler EXCEPT !.pc = "index", !.kind = "login", !.user = u, !.tok = t]
<1>1. /\ h \in Handler /\ h.pc = "index" /\ h.user = u /\ h.tok = t /\ h.before = {}
    BY DEF NoHandler, Handler, Label, Kind
<1>2. ControlOf(h) BY <1>1 DEF ControlOf, LoginLabel
<1>3. Move(r, h) BY DEF SetRedis
<1> HIDE DEF h
<1>4. QED BY <1>1, <1>2, <1>3, MovedTo

\* Logout takes one session to end.
LEMMA LogoutEffect ==
    ASSUME Typed, NEW r \in Requests, NEW t \in Tokens, Logout(r, t)
    PROVE  /\ Moved(r) /\ req'[r].pc = "revoke" /\ req'[r].todo = {}
           /\ req'[r].before = Held \cap {t} /\ req'[r].scope = {owner[t]}
<1> DEFINE h == [NoHandler EXCEPT !.pc = "revoke", !.kind = "one", !.tok = t,
                                  !.scope = {owner[t]}, !.before = Held \cap {t}]
<1>1. owner[t] \in Users BY DEF Typed, Shapes, Owners, Logout
<1>2. Held \cap {t} \in SUBSET Tokens OBVIOUS
<1>3. /\ h \in Handler /\ h.pc = "revoke" /\ h.tok = t /\ h.todo = {}
      /\ h.before = Held \cap {t} /\ h.scope = {owner[t]}
    BY <1>1, <1>2 DEF NoHandler, Handler, Label, Kind
<1>4. ControlOf(h) BY <1>3 DEF ControlOf, LoginLabel
<1>5. Move(r, h) BY DEF Logout
<1> HIDE DEF h
<1>6. QED BY <1>3, <1>4, <1>5, MovedTo

\* LogoutAll takes a membership, or none when the header names another tenant.
LEMMA LogoutAllEffect ==
    ASSUME Typed, NEW r \in Requests, NEW t \in Tokens, NEW u \in Users, LogoutAll(r, t, u)
    PROVE  /\ Moved(r) /\ req'[r].pc = NextOrDone(req'[r].todo) /\ req'[r].todo = req'[r].scope
           /\ req'[r].before = Held \cap Owned(u)
<1> DEFINE scope == {owner[t]} \cap {u}
           h == [NoHandler EXCEPT !.pc = NextOrDone(scope), !.kind = "all", !.todo = scope,
                                  !.scope = scope, !.before = Held \cap Owned(u)]
<1>1. scope \in SUBSET Users /\ NextOrDone(scope) \in Label /\ Held \cap Owned(u) \in SUBSET Tokens
    BY DEF NextOrDone, Label, Owned
<1>2. Move(r, h) BY DEF LogoutAll
<1>3. /\ h \in Handler /\ h.pc = NextOrDone(scope) /\ h.todo = scope /\ h.scope = scope
      /\ h.before = Held \cap Owned(u)
    <2> HIDE DEF scope
    <2> QED BY <1>1 DEF NoHandler, Handler, Kind
<1> HIDE DEF h, scope
<1>4. ControlOf(h) BY <1>3 DEF ControlOf, LoginLabel, NextOrDone
<1>5. QED BY <1>2, <1>3, <1>4, MovedTo

\* LogoutGlobal takes its inventory of sessions; its memberships come next.
LEMMA LogoutGlobalEffect ==
    ASSUME Typed, NEW r \in Requests, NEW t \in Tokens, LogoutGlobal(r, t)
    PROVE  Moved(r) /\ req'[r].pc = "members" /\ req'[r].before = Held /\ req'[r].scope = {}
<1> DEFINE h == [NoHandler EXCEPT !.pc = "members", !.kind = "global", !.before = Held]
<1>1. Held \in SUBSET Tokens BY DEF Held, Typed, Shapes
<1>2. h \in Handler /\ h.pc = "members" /\ h.before = Held /\ h.scope = {}
    BY <1>1 DEF NoHandler, Handler, Label, Kind
<1>3. ControlOf(h) BY <1>2 DEF ControlOf, LoginLabel
<1>4. Move(r, h) BY DEF LogoutGlobal
<1> HIDE DEF h
<1>5. QED BY <1>2, <1>3, <1>4, MovedTo

\* ListMemberships fixes what a global logout covers.
LEMMA ListMembershipsEffect ==
    ASSUME Typed, NEW r \in Requests, ListMemberships(r)
    PROVE  /\ Moved(r) /\ req'[r].pc = NextOrDone(req'[r].todo) /\ req'[r].todo = req'[r].scope
           /\ req'[r].before = req[r].before
<1> DEFINE members == Users \ archived
           h == [req[r] EXCEPT !.pc = NextOrDone(members), !.todo = members, !.scope = members]
<1>1. members \in SUBSET Users /\ NextOrDone(members) \in Label BY DEF NextOrDone, Label
<1>2. Move(r, h) BY DEF ListMemberships
<1>3. req[r] \in Handler BY HandlerParts
<1>4. /\ h \in Handler /\ h.pc = NextOrDone(members) /\ h.todo = members /\ h.scope = members
      /\ h.before = req[r].before /\ h.user = req[r].user
    <2> HIDE DEF members
    <2> QED BY <1>1, <1>3 DEF Handler
<1> HIDE DEF h, members
<1>5. ControlOf(h) BY <1>4 DEF ControlOf, LoginLabel, NextOrDone
<1>6. QED BY <1>2, <1>4, <1>5, MovedTo

\* The steps of a logout keep its inventory and its scope.
Keeps(r) == req'[r].before = req[r].before /\ req'[r].scope = req[r].scope

\* RevokeAudit ends a logout of one session.
LEMMA RevokeAuditEffect ==
    ASSUME Typed, NEW r \in Requests, RevokeAudit(r)
    PROVE  Moved(r) /\ Keeps(r) /\ req'[r].pc = "done" /\ req'[r].todo = req[r].todo
<1> DEFINE h == [req[r] EXCEPT !.pc = "done"]
<1>1. req[r] \in Handler /\ ControlOf(req[r]) BY HandlerParts
<1>2. "done" \in Label BY DEF Label
<1>3. /\ h \in Handler /\ h.pc = "done" /\ h.todo = req[r].todo
      /\ h.before = req[r].before /\ h.scope = req[r].scope
    BY <1>1, <1>2, SamePc
<1>4. Move(r, h) BY DEF RevokeAudit
<1> HIDE DEF h
<1>5. ControlOf(h) BY <1>1, <1>3 DEF ControlOf, LoginLabel, RevokeAudit, At
<1>6. QED BY <1>3, <1>4, <1>5, MovedTo DEF Keeps

\* RevokeAllPostgres does one membership.
LEMMA RevokeAllPostgresEffect ==
    ASSUME Typed, NEW r \in Requests, NEW u \in Users, RevokeAllPostgres(r, u)
    PROVE  Moved(r) /\ Keeps(r) /\ req'[r].pc = "auditAll" /\ req'[r].todo = req[r].todo \ {u}
<1> DEFINE h == [req[r] EXCEPT !.pc = "auditAll", !.user = u, !.todo = @ \ {u}]
<1>1. req[r] \in Handler BY HandlerParts
<1>2. /\ h \in Handler /\ h.pc = "auditAll" /\ h.user = u /\ h.todo = req[r].todo \ {u}
      /\ h.before = req[r].before /\ h.scope = req[r].scope
    BY <1>1 DEF Handler, Label
<1>3. Move(r, h) BY DEF RevokeAllPostgres
<1> HIDE DEF h
<1>4. ControlOf(h) BY <1>2 DEF ControlOf, LoginLabel
<1>5. QED BY <1>2, <1>3, <1>4, MovedTo DEF Keeps

\* ListIndexed begins the sweep of one membership.
LEMMA ListIndexedEffect ==
    ASSUME Typed, NEW r \in Requests, NEW u \in Users, ListIndexed(r, u)
    PROVE  /\ Moved(r) /\ Keeps(r) /\ req'[r].pc = "sweep" /\ req'[r].todo = req[r].todo \ {u}
           /\ req'[r].list = index[u]
<1> DEFINE h == [req[r] EXCEPT !.pc = "sweep", !.user = u, !.list = index[u], !.todo = @ \ {u}]
<1>1. req[r] \in Handler /\ index[u] \in SUBSET Tokens BY HandlerParts DEF Typed, Shapes
<1>2. /\ h \in Handler /\ h.pc = "sweep" /\ h.user = u /\ h.todo = req[r].todo \ {u}
      /\ h.list = index[u] /\ h.before = req[r].before /\ h.scope = req[r].scope
    BY <1>1 DEF Handler, Label
<1>3. Move(r, h) BY DEF ListIndexed
<1> HIDE DEF h
<1>4. ControlOf(h) BY <1>2 DEF ControlOf, LoginLabel
<1>5. QED BY <1>2, <1>3, <1>4, MovedTo DEF Keeps

\* DeleteKey strikes one token off the listing.
LEMMA DeleteKeyEffect ==
    ASSUME Typed, NEW r \in Requests, NEW t \in Tokens, DeleteKey(r, t)
    PROVE  /\ Moved(r) /\ Keeps(r) /\ req'[r].pc = "sweep" /\ req'[r].todo = req[r].todo
           /\ req'[r].list = req[r].list \ {t}
<1> DEFINE h == [req[r] EXCEPT !.list = @ \ {t}]
<1>1. req[r] \in Handler /\ ControlOf(req[r]) /\ req[r].pc = "sweep"
    BY HandlerParts DEF DeleteKey, At
<1>2. /\ h \in Handler /\ h.pc = "sweep" /\ h.user = req[r].user /\ h.todo = req[r].todo
      /\ h.list = req[r].list \ {t} /\ h.before = req[r].before /\ h.scope = req[r].scope
    BY <1>1 DEF Handler
<1>3. Move(r, h) BY DEF DeleteKey
<1> HIDE DEF h
<1>4. ControlOf(h) BY <1>1, <1>2 DEF ControlOf, LoginLabel
<1>5. QED BY <1>2, <1>3, <1>4, MovedTo DEF Keeps

\* DropIndex ends the sweep of one membership.
LEMMA DropIndexEffect ==
    ASSUME Typed, NEW r \in Requests, DropIndex(r)
    PROVE  Moved(r) /\ Keeps(r) /\ req'[r].pc = "auditAll" /\ req'[r].todo = req[r].todo
<1> DEFINE h == [req[r] EXCEPT !.pc = "auditAll"]
<1>1. req[r] \in Handler /\ ControlOf(req[r]) /\ req[r].pc = "sweep"
    BY HandlerParts DEF DropIndex, At
<1>2. "auditAll" \in Label BY DEF Label
<1>3. /\ h \in Handler /\ h.pc = "auditAll" /\ h.user = req[r].user /\ h.todo = req[r].todo
      /\ h.before = req[r].before /\ h.scope = req[r].scope
    BY <1>1, <1>2, SamePc
<1>4. Move(r, h) BY DEF DropIndex
<1> HIDE DEF h
<1>5. ControlOf(h) BY <1>1, <1>3 DEF ControlOf, LoginLabel
<1>6. QED BY <1>3, <1>4, <1>5, MovedTo DEF Keeps

\* RevokeAllAudit goes on to the next membership, or answers.
LEMMA RevokeAllAuditEffect ==
    ASSUME Typed, NEW r \in Requests, RevokeAllAudit(r)
    PROVE  /\ Moved(r) /\ Keeps(r) /\ req'[r].pc = NextOrDone(req[r].todo)
           /\ req'[r].todo = req[r].todo
<1> DEFINE h == [req[r] EXCEPT !.pc = NextOrDone(req[r].todo), !.user = "none"]
<1>1. req[r] \in Handler BY HandlerParts
<1>2. NextOrDone(req[r].todo) \in Label BY DEF NextOrDone, Label
<1>3. /\ h \in Handler /\ h.pc = NextOrDone(req[r].todo) /\ h.todo = req[r].todo
      /\ h.before = req[r].before /\ h.scope = req[r].scope
    BY <1>1, <1>2 DEF Handler
<1>4. Move(r, h) BY DEF RevokeAllAudit
<1> HIDE DEF h
<1>5. ControlOf(h) BY <1>3 DEF ControlOf, LoginLabel, NextOrDone
<1>6. QED BY <1>3, <1>4, <1>5, MovedTo DEF Keeps

-----------------------------------------------------------------------------
(***************************************************************************)
(* Typed is inductive.  Rows: the variables other than req.                *)
(***************************************************************************)
Rows ==
    /\ backend \in Backends
    /\ keys \in SUBSET Tokens
    /\ index \in [Users -> SUBSET Tokens]
    /\ expiry \in [Users -> Tokens \cup {"none"}]
    /\ row \in [Tokens -> {"none", "active", "expired", "revoked"}]
    /\ owner \in [Tokens -> Users \cup {"none"}]
    /\ archived \in SUBSET Users
    /\ returned \in SUBSET Tokens
    /\ lost \in SUBSET Tokens

\* A step of handler r that keeps the rows, the owners and what it returns keeps Typed.
LEMMA TypedKept ==
    ASSUME Typed, NEW r \in Requests, Moved(r), Rows',
           \A t \in returned : owner'[t] = owner[t],
           \A q \in Requests : req[q].pc \in LoginLabel => owner'[req[q].tok] = owner[req[q].tok],
           \A t \in returned' \ returned : owner'[t] # "none",
           req'[r].pc \in LoginLabel => owner'[req'[r].tok] = req'[r].user
    PROVE  Typed'
<1>1. \A q \in Requests : ControlOf(req[q])'
    BY DEF Moved, Typed, ControlOf
<1>2. Shapes' BY DEF Moved, Rows, Shapes
<1>3. Owners'
    <2>1. \A t \in returned' : owner'[t] # "none" BY DEF Typed, Owners
    <2>2. ASSUME NEW q \in Requests, req'[q].pc \in LoginLabel PROVE owner'[req'[q].tok] = req'[q].user
        <3>1. CASE q = r BY <2>2, <3>1
        <3>2. CASE q # r BY <2>2, <3>2 DEF Moved, Typed, Owners
        <3>3. QED BY <3>1, <3>2
    <2>3. QED BY <2>1, <2>2 DEF Owners
<1>4. QED BY <1>1, <1>2, <1>3 DEF Typed

\* The rows of a well-typed state.
LEMMA TypedRows == ASSUME Typed PROVE Rows
BY DEF Typed, Shapes, Rows

\* Beginning a handler keeps Typed.
LEMMA StartTyped ==
    ASSUME Typed, NEW r \in Requests, Start(r)
    PROVE  Typed'
<1>1. PICK t \in Tokens : \/ \E u \in Users : SetRedis(r, t, u) \/ LogoutAll(r, t, u)
                          \/ Logout(r, t) \/ LogoutGlobal(r, t)
    BY DEF Start
<1>2. Rows BY TypedRows
<1>3. CASE \E u \in Users : SetRedis(r, t, u)
    <2>1. PICK u \in Users : SetRedis(r, t, u) BY <1>3
    <2>2. Moved(r) /\ req'[r].pc = "index" /\ req'[r].user = u /\ req'[r].tok = t
        BY <2>1, SetRedisEffect
    <2>3. Rows' /\ returned' = returned /\ owner[t] = "none" /\ owner' = [owner EXCEPT ![t] = u]
        BY <1>2, <2>1 DEF SetRedis, Rows
    <2>4. \A x \in returned : owner'[x] = owner[x] BY <1>2, <2>3 DEF Typed, Owners, Rows
    <2>5. ASSUME NEW q \in Requests, req[q].pc \in LoginLabel PROVE owner'[req[q].tok] = owner[req[q].tok]
        <3>1. req[q].tok \in Tokens /\ req[q].user \in Users /\ owner[req[q].tok] = req[q].user
            BY <2>5, HandlerParts DEF Typed, Owners, ControlOf
        <3>2. QED BY <1>2, <2>3, <3>1, SessionsAssumption DEF Rows
    <2>6. owner'[t] = u BY <1>2, <2>3 DEF Rows
    <2>7. QED BY <2>2, <2>3, <2>4, <2>5, <2>6, TypedKept
<1>4. CASE \E u \in Users : LogoutAll(r, t, u)
    <2>1. PICK u \in Users : LogoutAll(r, t, u) BY <1>4
    <2>2. Moved(r) /\ req'[r].pc \notin LoginLabel
        BY <2>1, LogoutAllEffect DEF NextOrDone, LoginLabel
    <2>3. Rows' /\ returned' = returned /\ owner' = owner BY <1>2, <2>1 DEF LogoutAll, Rows
    <2>4. QED BY <2>2, <2>3, TypedKept
<1>5. CASE Logout(r, t)
    <2>1. Moved(r) /\ req'[r].pc \notin LoginLabel BY <1>5, LogoutEffect DEF LoginLabel
    <2>2. returned' = returned /\ owner' = owner BY <1>5 DEF Logout
    <2>3. row' \in [Tokens -> {"none", "active", "expired", "revoked"}] /\ keys' \in SUBSET Tokens
        BY <1>2, <1>5, RowsRevokedType DEF Logout, Rows, Typed
    <2>4. Rows' BY <1>2, <1>5, <2>3 DEF Logout, Rows
    <2>5. QED BY <2>1, <2>2, <2>4, TypedKept
<1>6. CASE LogoutGlobal(r, t)
    <2>1. Moved(r) /\ req'[r].pc \notin LoginLabel BY <1>6, LogoutGlobalEffect DEF LoginLabel
    <2>2. Rows' /\ returned' = returned /\ owner' = owner BY <1>2, <1>6 DEF LogoutGlobal, Rows
    <2>3. QED BY <2>1, <2>2, TypedKept
<1>7. QED BY <1>1, <1>3, <1>4, <1>5, <1>6

\* The steps of a login keep Typed.
LEMMA LoginTyped ==
    ASSUME Typed, NEW r \in Requests, IndexSession(r) \/ ExtendIndex(r) \/ CreateAudit(r)
    PROVE  Typed'
<1>1. Rows BY TypedRows
<1>2. req[r].pc \in LoginLabel BY DEF IndexSession, ExtendIndex, CreateAudit, At, LoginLabel
<1>3. req[r].user \in Users /\ req[r].tok \in Tokens /\ owner[req[r].tok] = req[r].user
    BY <1>2, HandlerParts DEF Typed, Owners, ControlOf
<1>4. CASE IndexSession(r)
    <2>1. Moved(r) /\ req'[r].user = req[r].user /\ req'[r].tok = req[r].tok
        BY <1>2, <1>4, LoginMoves DEF IndexSession
    <2>2. Rows' /\ returned' = returned /\ owner' = owner BY <1>1, <1>3, <1>4 DEF IndexSession, Rows
    <2>3. QED BY <1>3, <2>1, <2>2, TypedKept
<1>5. CASE ExtendIndex(r)
    <2>1. Moved(r) /\ req'[r].user = req[r].user /\ req'[r].tok = req[r].tok
        BY <1>2, <1>5, LoginMoves DEF ExtendIndex
    <2>2. Rows' /\ returned' = returned /\ owner' = owner BY <1>1, <1>3, <1>5 DEF ExtendIndex, Rows
    <2>3. QED BY <1>3, <2>1, <2>2, TypedKept
<1>6. CASE CreateAudit(r)
    <2>1. Moved(r) /\ req'[r] = NoHandler BY <1>6, MovedIdle DEF CreateAudit
    <2>2. req'[r].pc \notin LoginLabel BY <2>1 DEF NoHandler, LoginLabel
    <2>3. Rows' /\ returned' = returned \cup {req[r].tok} /\ owner' = owner
        BY <1>1, <1>3, <1>6 DEF CreateAudit, Rows
    <2>4. owner'[req[r].tok] # "none" BY <1>3, <2>3, SessionsAssumption
    <2>5. QED BY <2>1, <2>2, <2>3, <2>4, TypedKept
<1>7. QED BY <1>4, <1>5, <1>6

\* The steps of a logout keep Typed.
LEMMA LogoutTyped ==
    ASSUME Typed, NEW r \in Requests,
           \/ RevokeAudit(r) \/ ListMemberships(r) \/ DropIndex(r) \/ RevokeAllAudit(r)
           \/ \E u \in Users : RevokeAllPostgres(r, u) \/ ListIndexed(r, u)
           \/ \E t \in Tokens : DeleteKey(r, t)
           \/ Respond(r) \/ Abandon(r)
    PROVE  Typed'
<1>1. Rows BY TypedRows
<1>2. returned' = returned /\ owner' = owner
    BY DEF RevokeAudit, ListMemberships, DropIndex, RevokeAllAudit, RevokeAllPostgres, ListIndexed,
           DeleteKey, Respond, Abandon
<1> SUFFICES Moved(r) /\ req'[r].pc \notin LoginLabel /\ Rows'
    BY <1>2, TypedKept
<1>3. CASE RevokeAudit(r)
    <2>1. row' \in [Tokens -> {"none", "active", "expired", "revoked"}]
        BY <1>1, <1>3, RowsRevokedType DEF RevokeAudit, Rows, Typed
    <2>2. QED BY <1>1, <1>3, <2>1, RevokeAuditEffect DEF RevokeAudit, Rows, LoginLabel
<1>4. CASE ListMemberships(r)
    BY <1>1, <1>4, ListMembershipsEffect DEF ListMemberships, Rows, NextOrDone, LoginLabel
<1>5. CASE DropIndex(r)
    <2>1. index' \in [Users -> SUBSET Tokens] /\ expiry' \in [Users -> Tokens \cup {"none"}]
          /\ lost' \in SUBSET Tokens
        BY <1>1, <1>5 DEF DropIndex, ForgetIndex, Rows
    <2>2. QED BY <1>1, <1>5, <2>1, DropIndexEffect DEF DropIndex, Rows, LoginLabel
<1>6. CASE RevokeAllAudit(r)
    <2>1. row' \in [Tokens -> {"none", "active", "expired", "revoked"}]
        BY <1>1, <1>6, RowsRevokedType DEF RevokeAllAudit, Rows, Typed
    <2>2. QED BY <1>1, <1>6, <2>1, RevokeAllAuditEffect DEF RevokeAllAudit, Rows, NextOrDone, LoginLabel
<1>7. ASSUME NEW u \in Users, RevokeAllPostgres(r, u) PROVE Moved(r) /\ req'[r].pc \notin LoginLabel /\ Rows'
    <2>1. row' \in [Tokens -> {"none", "active", "expired", "revoked"}]
        BY <1>1, <1>7, RowsRevokedType DEF RevokeAllPostgres, Rows, Typed
    <2>2. QED BY <1>1, <1>7, <2>1, RevokeAllPostgresEffect DEF RevokeAllPostgres, Rows, LoginLabel
<1>8. ASSUME NEW u \in Users, ListIndexed(r, u) PROVE Moved(r) /\ req'[r].pc \notin LoginLabel /\ Rows'
    BY <1>1, <1>8, ListIndexedEffect DEF ListIndexed, Rows, LoginLabel
<1>9. ASSUME NEW t \in Tokens, DeleteKey(r, t) PROVE Moved(r) /\ req'[r].pc \notin LoginLabel /\ Rows'
    BY <1>1, <1>9, DeleteKeyEffect DEF DeleteKey, Rows, LoginLabel
<1>10. CASE Respond(r)
    BY <1>1, <1>10, MovedIdle DEF Respond, Rows, LoginLabel, NoHandler
<1>11. CASE Abandon(r)
    BY <1>1, <1>11, MovedIdle DEF Abandon, Rows, LoginLabel, NoHandler
<1>12. QED BY <1>3, <1>4, <1>5, <1>6, <1>7, <1>8, <1>9, <1>10, <1>11

\* What happens outside the handlers keeps Typed.
LEMMA OutsideTyped ==
    ASSUME Typed,
           \/ \E t \in Tokens, u \in Users : SetPostgres(t, u)
           \/ \E t \in Tokens : Expire(t)
           \/ \E u \in Users : IndexLapses(u) \/ ArchiveUser(u)
           \/ UNCHANGED vars
    PROVE  Typed'
<1>1. Rows BY TypedRows
<1>2. req' = req BY DEF SetPostgres, Expire, IndexLapses, ArchiveUser, vars
<1>3. (\A r \in Requests : ControlOf(req[r]))' BY <1>2 DEF Typed, ControlOf
<1>4. CASE \E t \in Tokens, u \in Users : SetPostgres(t, u)
    <2>1. PICK t \in Tokens, u \in Users : SetPostgres(t, u) BY <1>4
    <2>2. /\ owner[t] = "none" /\ owner' = [owner EXCEPT ![t] = u] /\ returned' = returned \cup {t}
          /\ Rows'
        BY <1>1, <2>1 DEF SetPostgres, Rows
    <2>3. \A x \in returned' : owner'[x] # "none"
        BY <1>1, <2>2, SessionsAssumption DEF Rows, Typed, Owners
    <2>4. ASSUME NEW q \in Requests, req[q].pc \in LoginLabel PROVE owner'[req[q].tok] = req[q].user
        <3>1. req[q].tok \in Tokens /\ req[q].user \in Users /\ owner[req[q].tok] = req[q].user
            BY <2>4, HandlerParts DEF Typed, Owners, ControlOf
        <3>2. QED BY <1>1, <2>2, <3>1, SessionsAssumption DEF Rows
    <2>5. Owners' BY <1>2, <2>3, <2>4 DEF Owners
    <2>6. Shapes' BY <1>2, <2>2 DEF Rows, Typed, Shapes
    <2>7. QED BY <1>3, <2>5, <2>6 DEF Typed
<1>5. CASE ~\E t \in Tokens, u \in Users : SetPostgres(t, u)
    <2>1. returned' = returned /\ owner' = owner
        BY <1>5 DEF Expire, IndexLapses, ArchiveUser, vars
    <2>2. Owners' BY <1>2, <2>1 DEF Typed, Owners
    <2>3. Rows'
        BY <1>1, <1>5 DEF Expire, IndexLapses, ForgetIndex, ArchiveUser, vars, Rows
    <2>4. Shapes' BY <1>2, <2>3 DEF Rows, Typed, Shapes
    <2>5. QED BY <1>3, <2>2, <2>4 DEF Typed
<1>6. QED BY <1>4, <1>5

\* Every step keeps Typed.
LEMMA TypedInductive == ASSUME Typed, [Next]_vars PROVE Typed'
BY StartTyped, LoginTyped, LogoutTyped, OutsideTyped DEF Next, Continue

\* Initially Typed holds.
LEMMA TypedInit == ASSUME Init PROVE Typed
<1>1. Shapes BY IdleHandler DEF Init, Shapes
<1>2. \A r \in Requests : req[r] = NoHandler BY DEF Init
<1>3. \A r \in Requests : ControlOf(req[r]) BY <1>2, IdleHandler
<1>4. Owners BY <1>2 DEF Init, Owners, NoHandler, LoginLabel
<1>5. QED BY <1>1, <1>3, <1>4 DEF Typed

\* A step that creates no session writes rows and keys of sessions that exist, and leaves the sets
\* and their time to live, or empties them.
LEMMA EntriesKept ==
    ASSUME Shapes, Entries, owner' = owner, keys' \subseteq keys,
           \A t \in Tokens : row[t] = "none" => row'[t] = "none",
           \A u \in Users : index'[u] \in {index[u], {}} /\ expiry'[u] \in {expiry[u], "none"}
    PROVE  Entries'
BY DEF Entries, Owned

\* A session is created with its owner; the entries of the others stay theirs.
LEMMA EntriesNew ==
    ASSUME Shapes, Entries, NEW t \in Tokens, NEW u \in Users, owner[t] = "none",
           owner' = [owner EXCEPT ![t] = u], keys' \subseteq keys \cup {t},
           \A x \in Tokens : x # t /\ row[x] = "none" => row'[x] = "none", UNCHANGED <<index, expiry>>
    PROVE  Entries'
<1>1. owner'[t] = u /\ \A x \in Tokens : x # t => owner'[x] = owner[x] BY DEF Shapes
<1>2. \A v \in Users : t \notin Owned(v) BY SessionsAssumption DEF Owned
<1>3. \A v \in Users : Owned(v) \subseteq Owned(v)' BY <1>1, <1>2 DEF Owned
<1>4. \A x \in Tokens : x \in keys' \/ row'[x] # "none" => owner'[x] # "none"
    BY <1>1, SessionsAssumption DEF Entries
<1>5. QED BY <1>3, <1>4 DEF Entries

\* Nothing is stored at first.
LEMMA EntriesInit == ASSUME Init PROVE Entries
BY DEF Init, Entries

\* What the stores hold stays of a session that was created, and in its own membership's set.
LEMMA EntriesInductive == ASSUME Typed, Entries, [Next]_vars PROVE Entries'
<1>1. Shapes BY DEF Typed
<1>2. ASSUME NEW t \in Tokens, NEW u \in Users, SetPostgres(t, u) PROVE Entries'
    BY <1>1, <1>2, EntriesNew DEF SetPostgres, Shapes
<1>3. ASSUME NEW r \in Requests, NEW t \in Tokens, NEW u \in Users, SetRedis(r, t, u) PROVE Entries'
    BY <1>1, <1>3, EntriesNew DEF SetRedis
<1>4. ASSUME NEW r \in Requests, IndexSession(r) PROVE Entries'
    <2>1. req[r].user \in Users /\ req[r].tok \in Owned(req[r].user)
        BY <1>4, HandlerParts DEF IndexSession, At, LoginLabel, Typed, Owners, ControlOf, Owned
    <2>2. \A u \in Users : index'[u] \subseteq Owned(u) BY <1>1, <1>4, <2>1 DEF IndexSession, Shapes, Entries
    <2>3. QED BY <1>4, <2>2 DEF IndexSession, Entries, Owned
<1>5. ASSUME NEW r \in Requests, ExtendIndex(r) PROVE Entries'
    <2>1. req[r].user \in Users /\ req[r].tok \in Owned(req[r].user)
        BY <1>5, HandlerParts DEF ExtendIndex, At, LoginLabel, Typed, Owners, ControlOf, Owned
    <2>2. \A u \in Users : expiry'[u] \in Owned(u) \cup {"none"}
        BY <1>1, <1>5, <2>1 DEF ExtendIndex, Shapes, Entries
    <2>3. QED BY <1>5, <2>2 DEF ExtendIndex, Entries, Owned
<1>6. ASSUME NEW r \in Requests, CreateAudit(r) PROVE Entries'
    <2>1. owner[req[r].tok] # "none"
        BY <1>6, HandlerParts, SessionsAssumption DEF CreateAudit, At, LoginLabel, Typed, Owners, ControlOf
    <2>2. \A t \in Tokens : row'[t] # "none" => owner[t] # "none"
        BY <1>1, <1>6, <2>1 DEF CreateAudit, Shapes, Entries
    <2>3. QED BY <1>6, <2>2 DEF CreateAudit, Entries, Owned
<1>7. CASE \/ \E r \in Requests :
                \/ RevokeAudit(r) \/ ListMemberships(r) \/ DropIndex(r) \/ RevokeAllAudit(r) \/ Respond(r) \/ Abandon(r)
                \/ \E t \in Tokens, u \in Users : LogoutAll(r, t, u)
                \/ \E t \in Tokens : Logout(r, t) \/ LogoutGlobal(r, t) \/ DeleteKey(r, t)
                \/ \E u \in Users : RevokeAllPostgres(r, u) \/ ListIndexed(r, u)
           \/ \E t \in Tokens : Expire(t)
           \/ \E u \in Users : IndexLapses(u) \/ ArchiveUser(u)
           \/ UNCHANGED vars
    <2>1. owner' = owner /\ keys' \subseteq keys
        BY <1>7 DEF RevokeAudit, ListMemberships, DropIndex, RevokeAllAudit, Respond, Abandon, LogoutAll, Logout,
                    LogoutGlobal, DeleteKey, RevokeAllPostgres, ListIndexed, Expire, IndexLapses, ArchiveUser, vars
    <2>2. \/ row' = row \/ \E S : row' = RowsRevoked(S)
          \/ \E t \in Tokens : Validates(t) /\ backend # "redis" /\ row' = [row EXCEPT ![t] = "expired"]
        BY <1>7 DEF RevokeAudit, ListMemberships, DropIndex, RevokeAllAudit, Respond, Abandon, LogoutAll, Logout,
                    LogoutGlobal, DeleteKey, RevokeAllPostgres, ListIndexed, Expire, IndexLapses, ArchiveUser, vars
    <2>3. \A t \in Tokens : row[t] = "none" => row'[t] = "none"
        BY <1>1, <2>2, RowsRevokedType DEF Validates, Shapes
    <2>4. (index' = index /\ expiry' = expiry) \/ \E u : ForgetIndex(u)
        BY <1>7 DEF RevokeAudit, ListMemberships, DropIndex, RevokeAllAudit, Respond, Abandon, LogoutAll, Logout,
                    LogoutGlobal, DeleteKey, RevokeAllPostgres, ListIndexed, Expire, IndexLapses, ArchiveUser, vars
    <2>5. \A u \in Users : index'[u] \in {index[u], {}} /\ expiry'[u] \in {expiry[u], "none"}
        BY <1>1, <2>4 DEF ForgetIndex, Shapes
    <2>6. QED BY <1>1, <2>1, <2>3, <2>5, EntriesKept
<1>8. QED BY <1>2, <1>3, <1>4, <1>5, <1>6, <1>7 DEF Next, Start, Continue

(***************************************************************************)
(* Every reachable state of the session stores and logout handlers is well *)
(* typed, and every key, row and index entry is of a session that was      *)
(* created, the entry in the set of its own membership.                    *)
(***************************************************************************)
THEOREM TypeCorrect == Spec => []TypeOK
<1>1. Init => Typed /\ Entries BY TypedInit, EntriesInit
<1>2. (Typed /\ Entries) /\ [Next]_vars => (Typed /\ Entries)' BY TypedInductive, EntriesInductive
<1>3. Typed /\ Entries => TypeOK BY DEF Typed, TypeOK
<1>4. QED BY <1>1, <1>2, <1>3, PTL DEF Spec

-----------------------------------------------------------------------------
(***************************************************************************)
(* What no step undoes: an issued token keeps its owner, a session that    *)
(* stopped validating stays ended, a row in the table stays there.         *)
(***************************************************************************)
Advance ==
    /\ backend' = backend /\ returned \subseteq returned' /\ lost \subseteq lost'
    /\ \A t \in returned : owner'[t] = owner[t] /\ (Validates(t)' => Validates(t))
    /\ \A t \in Tokens : row[t] # "none" => row'[t] # "none"

\* Steps that write neither sessions nor owners.
LEMMA QuietAdvance ==
    ASSUME UNCHANGED <<backend, keys, row, owner, returned>>, lost \subseteq lost'
    PROVE  Advance
BY DEF Advance, Validates

\* Steps that end sessions: keys go, rows are revoked.
LEMMA EndingAdvance ==
    ASSUME Typed, UNCHANGED <<backend, owner, returned, lost>>, keys' \subseteq keys,
           row' = row \/ \E S : row' = RowsRevoked(S)
    PROVE  Advance
<1>1. \A t \in Tokens : /\ row[t] # "none" => row'[t] # "none"
                        /\ row'[t] = "active" => row[t] = "active"
    <2>1. CASE row' = row BY <2>1
    <2>2. CASE \E S : row' = RowsRevoked(S)
        <3>1. PICK S : row' = RowsRevoked(S) BY <2>2
        <3>2. QED BY <3>1, RowsRevokedType DEF Typed
    <2>3. QED BY <2>1, <2>2
<1>2. returned \subseteq Tokens BY DEF Typed, Shapes
<1>3. QED BY <1>1, <1>2 DEF Advance, Validates

\* Every step advances.
LEMMA StepAdvances ==
    ASSUME Typed, LoginsFresh, [Next]_vars
    PROVE  Advance
<1>1. Rows BY TypedRows
<1>2. ASSUME NEW r \in Requests, NEW t \in Tokens, NEW u \in Users, SetRedis(r, t, u) PROVE Advance
    <2>1. t \notin returned BY <1>2 DEF SetRedis, Typed, Owners
    <2>2. QED BY <1>1, <1>2, <2>1 DEF SetRedis, Advance, Validates, Rows
<1>3. ASSUME NEW t \in Tokens, NEW u \in Users, SetPostgres(t, u) PROVE Advance
    <2>1. t \notin returned BY <1>3 DEF SetPostgres, Typed, Owners
    <2>2. QED BY <1>1, <1>3, <2>1 DEF SetPostgres, Advance, Validates, Rows
<1>4. ASSUME NEW r \in Requests, CreateAudit(r) PROVE Advance
    <2>1. backend = "redis" BY <1>4 DEF CreateAudit, At, LoginsFresh, LoginLabel
    <2>2. QED BY <1>1, <1>4, <2>1 DEF CreateAudit, Advance, Validates, Rows
<1>5. ASSUME NEW r \in Requests, NEW t \in Tokens, Logout(r, t) PROVE Advance
    BY <1>5, EndingAdvance DEF Logout
<1>6. ASSUME NEW r \in Requests, RevokeAudit(r) \/ RevokeAllAudit(r) PROVE Advance
    BY <1>6, EndingAdvance DEF RevokeAudit, RevokeAllAudit
<1>7. ASSUME NEW r \in Requests, NEW u \in Users, RevokeAllPostgres(r, u) PROVE Advance
    BY <1>7, EndingAdvance DEF RevokeAllPostgres
<1>8. ASSUME NEW r \in Requests, NEW t \in Tokens, DeleteKey(r, t) PROVE Advance
    BY <1>8, EndingAdvance DEF DeleteKey
<1>9. ASSUME NEW t \in Tokens, Expire(t) PROVE Advance
    BY <1>1, <1>9 DEF Expire, Advance, Validates, Rows
<1>10. ASSUME NEW r \in Requests,
              \/ \E t \in Tokens : LogoutGlobal(r, t) \/ \E u \in Users : LogoutAll(r, t, u)
              \/ IndexSession(r) \/ ExtendIndex(r) \/ ListMemberships(r) \/ DropIndex(r)
              \/ \E u \in Users : ListIndexed(r, u)
              \/ Respond(r) \/ Abandon(r)
       PROVE Advance
    BY <1>10, QuietAdvance DEF LogoutGlobal, LogoutAll, IndexSession, ExtendIndex, ListMemberships,
       DropIndex, ForgetIndex, ListIndexed, Respond, Abandon
<1>11. ASSUME \E u \in Users : IndexLapses(u) \/ ArchiveUser(u) PROVE Advance
    BY <1>11, QuietAdvance DEF IndexLapses, ForgetIndex, ArchiveUser
<1>12. CASE UNCHANGED vars BY <1>12, QuietAdvance DEF vars
<1>13. QED BY <1>2, <1>3, <1>4, <1>5, <1>6, <1>7, <1>8, <1>9, <1>10, <1>11, <1>12
           DEF Next, Start, Continue

\* A session that was issued is live after a step only if it was before.
LEMMA LiveShrinks ==
    ASSUME Advance
    PROVE  \A t \in returned : t \in Live' => t \in Live
BY DEF Advance, Live, Held

\* A debt is kept by every step that leaves the handler alone.
LEMMA PaysKept ==
    ASSUME Typed, Advance, NEW q \in Requests, Pays(q), req'[q] = req[q]
    PROVE  Pays(q)'
<1>1. req[q].before \subseteq returned BY DEF Pays
<1>2. \A t \in Owes(q)' : t \in Owes(q) /\ owner'[t] = owner[t] BY <1>1 DEF Owes, Advance
<1>3. req'[q].before \subseteq returned' BY <1>1 DEF Advance
<1>4. \A t \in Owes(q)' : t \in returned BY <1>1 DEF Owes
<1>5. ASSUME NEW t \in Owes(q)' \cap Live'
      PROVE  owner'[t] \in req'[q].todo \/ (req'[q].pc = "sweep" /\ t \in req'[q].list)
    <2>1. t \in Owes(q) \cap Live BY <1>2, <1>4, LiveShrinks
    <2>2. QED BY <1>2, <2>1 DEF Pays
<1>6. QED BY <1>3, <1>5 DEF Pays

\* Logins in flight stay fresh when none begins and nothing is returned.
LEMMA FreshKept ==
    ASSUME LoginsFresh, backend' = backend, returned' = returned,
           \A q \in Requests : req'[q].pc = "sweep" => backend = "redis",
           \A q \in Requests : req'[q].pc \in LoginLabel => req[q].pc \in LoginLabel /\ req'[q].tok = req[q].tok
    PROVE  LoginsFresh'
BY DEF LoginsFresh

\* A token can be found again as long as its entry stays or it is lost.
LEMMA IndexedKept ==
    ASSUME Typed, Indexed, backend' = backend,
           backend = "redis" => \A t \in keys' \ lost' :
              /\ t \in keys \ lost
              /\ t \in returned' => \/ t \in returned
                                    \/ \E q \in Requests : req[q].pc \in {"extend", "audit"} /\ req[q].tok = t
              /\ \A r \in Requests : req'[r].pc \in {"extend", "audit"} /\ req'[r].tok = t =>
                    \/ \E q \in Requests : req[q].pc \in {"extend", "audit"} /\ req[q].tok = t
                    \/ t \in index'[owner'[t]]
              /\ owner'[t] = owner[t]
              /\ owner[t] \in Users /\ t \in index[owner[t]] => t \in index'[owner[t]]
    PROVE  Indexed'
<1> SUFFICES ASSUME backend = "redis", NEW t \in keys' \ lost',
                    t \in returned' \/ \E r \in Requests : req'[r].pc \in {"extend", "audit"} /\ req'[r].tok = t
             PROVE  t \in index'[owner'[t]]
    BY DEF Indexed
<1>1. /\ t \in keys \ lost /\ owner'[t] = owner[t]
      /\ owner[t] \in Users /\ t \in index[owner[t]] => t \in index'[owner[t]]
    OBVIOUS
<1>2. CASE t \in returned \/ \E q \in Requests : req[q].pc \in {"extend", "audit"} /\ req[q].tok = t
    <2>1. owner[t] \in Users
        <3>1. CASE t \in returned BY <3>1 DEF Typed, Shapes, Owners
        <3>2. ASSUME NEW q \in Requests, req[q].pc \in {"extend", "audit"}, req[q].tok = t
              PROVE  owner[t] \in Users
            BY <3>2, HandlerParts DEF Typed, Owners, ControlOf, LoginLabel
        <3>3. QED BY <1>2, <3>1, <3>2
    <2>2. t \in index[owner[t]] BY <1>1, <1>2 DEF Indexed
    <2>3. QED BY <1>1, <2>1, <2>2
<1>3. QED BY <1>2

\* The rest of the invariant, on top of Typed.
Rest == LoginsFresh /\ Indexed /\ Owing /\ AuditTrail

\* A handler's step keeps Rest if it keeps the logins fresh, the index and the handler's own debt.
LEMMA RestKept ==
    ASSUME Typed, Rest, Advance, NEW r \in Requests, Moved(r), returned' = returned,
           req'[r].pc = "sweep" => backend = "redis",
           req'[r].pc \in LoginLabel => req[r].pc \in LoginLabel /\ req'[r].tok = req[r].tok,
           Indexed', Pays(r)'
    PROVE  Rest'
<1>1. LoginsFresh'
    <2>1. \A q \in Requests : req'[q].pc \in LoginLabel => req[q].pc \in LoginLabel /\ req'[q].tok = req[q].tok
        BY DEF Moved
    <2>2. \A q \in Requests : req'[q].pc = "sweep" => backend = "redis" BY DEF Moved, Rest, LoginsFresh
    <2>3. QED BY <2>1, <2>2, FreshKept DEF Rest, Advance
<1>2. ASSUME NEW q \in Requests PROVE Pays(q)'
    BY PaysKept DEF Moved, Rest, Owing
<1>3. AuditTrail' BY DEF Rest, AuditTrail, Advance, Typed, Shapes
<1>4. QED BY <1>1, <1>2, <1>3 DEF Rest, Owing

\* A handler that goes on with its debt, no smaller a memberships-to-do and no shorter a listing.
LEMMA PaysOn ==
    ASSUME Typed, Advance, NEW r \in Requests, Pays(r), Keeps(r),
           \A t \in Owes(r) \cap Live :
               /\ t \in Live'
               /\ owner[t] \in req[r].todo \/ (req[r].pc = "sweep" /\ t \in req[r].list)
               => owner[t] \in req'[r].todo \/ (req'[r].pc = "sweep" /\ t \in req'[r].list)
    PROVE  Pays(r)'
<1>1. req[r].before \subseteq returned BY DEF Pays
<1>2. \A t \in Owes(r)' : t \in Owes(r) /\ owner'[t] = owner[t] /\ t \in returned
    BY <1>1 DEF Owes, Advance, Keeps
<1>3. req'[r].before \subseteq returned' BY <1>1 DEF Advance, Keeps
<1>4. ASSUME NEW t \in Owes(r)' \cap Live'
      PROVE  owner'[t] \in req'[r].todo \/ (req'[r].pc = "sweep" /\ t \in req'[r].list)
    <2>1. t \in Owes(r) \cap Live BY <1>2, LiveShrinks
    <2>2. QED BY <1>2, <2>1 DEF Pays
<1>5. QED BY <1>3, <1>4 DEF Pays

\* A handler without an inventory owes nothing.
LEMMA PaysNothing ==
    ASSUME NEW r \in Requests, req'[r].before = {}
    PROVE  Pays(r)'
BY DEF Pays, Owes

\* Steps that leave the index, the owners and the logins alone.
LEMMA IndexUntouched ==
    ASSUME Typed, Indexed, backend' = backend, keys' \subseteq keys, returned' = returned, owner' = owner,
           index' = index, lost' = lost, NEW r \in Requests, Moved(r),
           req'[r].pc \in {"extend", "audit"} => req[r].pc \in {"extend", "audit"} /\ req'[r].tok = req[r].tok
    PROVE  Indexed'
<1>1. \A q \in Requests : req'[q].pc \in {"extend", "audit"} =>
          req[q].pc \in {"extend", "audit"} /\ req'[q].tok = req[q].tok
    BY DEF Moved
<1>2. QED BY <1>1, IndexedKept

\* The index is forgotten: what it still named is lost.
LEMMA ForgetKeeps ==
    ASSUME Typed, Indexed, NEW u \in Users, ForgetIndex(u), UNCHANGED <<backend, keys, owner, returned>>,
           \A q \in Requests : req'[q].pc \in {"extend", "audit"} =>
               req[q].pc \in {"extend", "audit"} /\ req'[q].tok = req[q].tok
    PROVE  Indexed' /\ lost \subseteq lost'
<1>1. index \in [Users -> SUBSET Tokens] BY DEF Typed, Shapes
<1>2. index' = [index EXCEPT ![u] = {}] /\ lost' = lost \cup (index[u] \cap keys) BY DEF ForgetIndex
<1>3. \A t \in keys' \ lost', v \in Users : t \in index[v] => t \in index'[v] BY <1>1, <1>2
<1>4. QED BY <1>2, <1>3, IndexedKept

\* A login that begins keeps Rest.
LEMMA SetRedisRest ==
    ASSUME Typed, Rest, Advance, NEW r \in Requests, NEW t \in Tokens, NEW u \in Users, SetRedis(r, t, u)
    PROVE  Rest'
<1>1. /\ Moved(r) /\ req'[r].pc = "index" /\ req'[r].user = u /\ req'[r].tok = t /\ req'[r].before = {}
    BY SetRedisEffect
<1>2. /\ owner[t] = "none" /\ backend = "redis" /\ backend' = backend /\ returned' = returned
      /\ keys' = keys \cup {t} /\ index' = index /\ lost' = lost /\ req[r].pc = "idle"
      /\ owner' = [owner EXCEPT ![t] = u]
    BY DEF SetRedis, At
<1>3. t \notin returned BY <1>2 DEF Typed, Owners
<1>4. ASSUME NEW q \in Requests, req[q].pc \in LoginLabel PROVE req[q].tok # t /\ req[q].tok \in Tokens
    BY <1>2, <1>4, HandlerParts, SessionsAssumption DEF Typed, Owners, ControlOf
<1>5. LoginsFresh'
    <2>1. \A q \in Requests : req'[q].pc \in LoginLabel => backend' = "redis" /\ req'[q].tok \notin returned'
        BY <1>1, <1>2, <1>3 DEF Moved, Rest, LoginsFresh
    <2>2. ASSUME NEW p \in Requests, NEW q \in Requests, req'[p].pc \in LoginLabel,
                 req'[q].pc \in LoginLabel, req'[p].tok = req'[q].tok
          PROVE  p = q
        <3>1. CASE p # r /\ q # r BY <1>1, <2>2, <3>1 DEF Moved, Rest, LoginsFresh
        <3>2. CASE p = r /\ q # r BY <1>1, <1>4, <2>2, <3>2 DEF Moved
        <3>3. CASE p # r /\ q = r BY <1>1, <1>4, <2>2, <3>3 DEF Moved
        <3>4. QED BY <3>1, <3>2, <3>3
    <2>3. QED BY <1>1, <1>2, <2>1, <2>2 DEF LoginsFresh, Moved, Rest
<1>6. Indexed'
    <2> SUFFICES ASSUME NEW x \in keys' \ lost',
                        x \in returned' \/ \E q \in Requests : req'[q].pc \in {"extend", "audit"} /\ req'[q].tok = x
                 PROVE  x \in index'[owner'[x]]
        BY DEF Indexed
    <2>1. ASSUME NEW q \in Requests, req'[q].pc \in {"extend", "audit"}, req'[q].tok = x
          PROVE  q # r /\ req[q] = req'[q] /\ x # t
        BY <1>1, <1>4, <2>1 DEF Moved, LoginLabel
    <2>2. x # t BY <1>2, <1>3, <2>1
    <2>3. x \in keys \ lost BY <1>2, <2>2
    <2>4. x \in returned \/ \E q \in Requests : req[q].pc \in {"extend", "audit"} /\ req[q].tok = x
        BY <1>2, <2>1
    <2>5. x \in index[owner[x]] BY <1>2, <2>3, <2>4 DEF Rest, Indexed
    <2>6. owner'[x] = owner[x] BY <1>2, <2>2, <2>3 DEF Typed, Shapes
    <2>7. QED BY <1>2, <2>5, <2>6
<1>7. \A q \in Requests : Pays(q)'
    BY <1>1, PaysKept, PaysNothing DEF Moved, Rest, Owing
<1>8. AuditTrail' BY <1>2 DEF Rest, AuditTrail, Advance, Typed, Shapes
<1>9. QED BY <1>5, <1>6, <1>7, <1>8 DEF Rest, Owing

\* A login that puts its token into the index, or prolongs the index, keeps Rest.
LEMMA IndexRest ==
    ASSUME Typed, Rest, Advance, NEW r \in Requests, IndexSession(r) \/ ExtendIndex(r)
    PROVE  Rest'
<1>1. req[r].pc \in LoginLabel BY DEF IndexSession, ExtendIndex, At, LoginLabel
<1>2. /\ req[r].user \in Users /\ req[r].tok \in Tokens /\ owner[req[r].tok] = req[r].user
    BY <1>1, HandlerParts DEF Typed, Owners, ControlOf
<1>3. Moved(r) /\ req'[r].tok = req[r].tok /\ req'[r].before = {} /\ req'[r].pc # "sweep"
    BY <1>1, LoginMoves DEF IndexSession, ExtendIndex
<1>4. Pays(r)' BY <1>3, PaysNothing
<1>5. UNCHANGED <<backend, keys, owner, returned, lost>> BY DEF IndexSession, ExtendIndex
<1>6. CASE IndexSession(r)
    <2>1. index' = [index EXCEPT ![req[r].user] = @ \cup {req[r].tok}] BY <1>6 DEF IndexSession
    <2>2. index \in [Users -> SUBSET Tokens] BY DEF Typed, Shapes
    <2>3. \A v \in Users : index[v] \subseteq index'[v] BY <2>1, <2>2
    <2>4. req[r].tok \in index'[req[r].user] BY <1>2, <2>1, <2>2
    <2>5. Indexed' BY <1>2, <1>3, <1>5, <2>3, <2>4, IndexedKept DEF Moved, Rest
    <2>6. QED BY <1>1, <1>3, <1>4, <1>5, <2>5, RestKept
<1>7. CASE ExtendIndex(r)
    <2>1. index' = index /\ req[r].pc = "extend" BY <1>7 DEF ExtendIndex, At
    <2>2. Indexed' BY <1>3, <1>5, <2>1, IndexUntouched DEF Rest
    <2>3. QED BY <1>1, <1>3, <1>4, <1>5, <2>2, RestKept
<1>8. QED BY <1>6, <1>7

\* A login that returns its token keeps Rest.
LEMMA CreateAuditRest ==
    ASSUME Typed, Rest, Advance, NEW r \in Requests, CreateAudit(r)
    PROVE  Rest'
<1>1. Moved(r) /\ req'[r] = NoHandler BY MovedIdle DEF CreateAudit
<1>2. req'[r].pc = "idle" /\ req'[r].before = {} BY <1>1 DEF NoHandler
<1>3. /\ req[r].pc = "audit" /\ returned' = returned \cup {req[r].tok}
      /\ row' = [row EXCEPT ![req[r].tok] = "active"]
      /\ UNCHANGED <<backend, keys, index, owner, lost>>
    BY DEF CreateAudit, At
<1>4. LoginsFresh'
    <2>1. \A q \in Requests : req'[q].pc \in LoginLabel => q # r /\ req'[q] = req[q]
        BY <1>1, <1>2 DEF Moved, LoginLabel
    <2>2. \A q \in Requests : q # r /\ req[q].pc \in LoginLabel => req[q].tok # req[r].tok
        BY <1>3 DEF Rest, LoginsFresh, LoginLabel
    <2>3. QED BY <1>1, <1>2, <1>3, <2>1, <2>2 DEF Rest, LoginsFresh, Moved
<1>5. Indexed'
    <2>1. \A q \in Requests : req'[q].pc \in {"extend", "audit"} => req'[q] = req[q]
        BY <1>1, <1>2 DEF Moved
    <2>2. QED BY <1>3, <2>1, IndexedKept DEF Rest
<1>6. \A q \in Requests : Pays(q)' BY <1>1, <1>2, PaysKept, PaysNothing DEF Moved, Rest, Owing
<1>7. AuditTrail'
    <2>1. req[r].tok \in Tokens BY <1>3, HandlerParts DEF ControlOf, LoginLabel
    <2>2. QED BY <1>3, <2>1 DEF Rest, AuditTrail, Typed, Shapes
<1>8. QED BY <1>4, <1>5, <1>6, <1>7 DEF Rest, Owing

\* A logout that begins keeps Rest: it owes only sessions that clients hold.
LEMMA LogoutStartRest ==
    ASSUME Typed, Rest, Advance, NEW r \in Requests, NEW t \in Tokens,
           \/ Logout(r, t) \/ LogoutGlobal(r, t) \/ \E u \in Users : LogoutAll(r, t, u)
    PROVE  Rest'
<1>1. /\ UNCHANGED <<backend, index, owner, returned, lost>> /\ keys' \subseteq keys
    BY DEF Logout, LogoutGlobal, LogoutAll
<1>2. Held \subseteq returned BY DEF Held
<1>3. CASE Logout(r, t)
    <2>1. /\ Moved(r) /\ req'[r].pc = "revoke" /\ req'[r].before = Held \cap {t}
        BY <1>3, LogoutEffect
    <2>2. t \notin Held'
        <3>1. CASE backend = "redis" BY <1>1, <1>3, <3>1 DEF Logout, Held, Validates
        <3>2. CASE backend # "redis"
            <4>1. row' = RowsRevoked({t}) BY <1>3, <3>2 DEF Logout
            <4>2. row'[t] # "active" BY <4>1, RowsRevokedType DEF Typed
            <4>3. QED BY <1>1, <3>2, <4>2 DEF Held, Validates
        <3>3. QED BY <3>1, <3>2
    <2>3. Pays(r)' BY <1>1, <1>2, <2>1, <2>2 DEF Pays, Owes, Live
    <2>4. Indexed' BY <1>1, <2>1, IndexUntouched DEF Rest
    <2>5. QED BY <1>1, <2>1, <2>3, <2>4, RestKept DEF LoginLabel
<1>4. CASE LogoutGlobal(r, t)
    <2>1. /\ Moved(r) /\ req'[r].pc = "members" /\ req'[r].before = Held /\ req'[r].scope = {}
        BY <1>4, LogoutGlobalEffect
    <2>2. Pays(r)' BY <1>1, <1>2, <2>1 DEF Pays, Owes
    <2>3. Indexed' BY <1>1, <2>1, IndexUntouched DEF Rest
    <2>4. QED BY <1>1, <2>1, <2>2, <2>3, RestKept DEF LoginLabel
<1>5. ASSUME NEW u \in Users, LogoutAll(r, t, u) PROVE Rest'
    <2>1. /\ Moved(r) /\ req'[r].pc \in {"next", "done"} /\ req'[r].before = Held \cap Owned(u)
          /\ req'[r].todo = req'[r].scope
        BY <1>5, LogoutAllEffect DEF NextOrDone
    <2>2. Pays(r)' BY <1>1, <1>2, <2>1 DEF Pays, Owes
    <2>3. Indexed' BY <1>1, <2>1, IndexUntouched DEF Rest
    <2>4. QED BY <1>1, <2>1, <2>2, <2>3, RestKept DEF LoginLabel
<1>6. QED BY <1>3, <1>4, <1>5

\* The steps of a logout keep Rest; a sweep lists every live session of its membership.
LEMMA LogoutRest ==
    ASSUME Typed, Rest, Advance, NEW r \in Requests,
           \/ RevokeAudit(r) \/ ListMemberships(r) \/ DropIndex(r) \/ RevokeAllAudit(r)
           \/ \E u \in Users : RevokeAllPostgres(r, u) \/ ListIndexed(r, u)
           \/ \E t \in Tokens : DeleteKey(r, t)
           \/ Respond(r) \/ Abandon(r)
    PROVE  Rest'
<1>1. UNCHANGED <<backend, owner, returned>> /\ keys' \subseteq keys
    BY DEF RevokeAudit, ListMemberships, DropIndex, RevokeAllAudit, RevokeAllPostgres, ListIndexed,
           DeleteKey, Respond, Abandon
<1>2. Pays(r) /\ Indexed /\ req[r] \in Handler /\ ControlOf(req[r]) BY HandlerParts DEF Rest, Owing
<1>3. CASE RevokeAudit(r)
    <2>1. Moved(r) /\ Keeps(r) /\ req'[r].pc = "done" /\ req'[r].todo = req[r].todo
        BY <1>3, RevokeAuditEffect
    <2>2. req[r].pc = "revoke" /\ index' = index /\ lost' = lost BY <1>3 DEF RevokeAudit, At
    <2>3. Pays(r)' BY <1>2, <2>1, <2>2, PaysOn
    <2>4. Indexed' BY <1>1, <1>2, <2>1, <2>2, IndexUntouched
    <2>5. QED BY <1>1, <2>1, <2>3, <2>4, RestKept DEF LoginLabel
<1>4. CASE ListMemberships(r)
    <2>1. /\ Moved(r) /\ req'[r].pc \in {"next", "done"} /\ req'[r].todo = req'[r].scope
          /\ req'[r].before = req[r].before
        BY <1>4, ListMembershipsEffect DEF NextOrDone
    <2>2. index' = index /\ lost' = lost BY <1>4 DEF ListMemberships
    <2>3. Pays(r)' BY <1>1, <1>2, <2>1 DEF Pays, Owes
    <2>4. Indexed' BY <1>1, <1>2, <2>1, <2>2, IndexUntouched
    <2>5. QED BY <1>1, <2>1, <2>3, <2>4, RestKept DEF LoginLabel
<1>5. CASE DropIndex(r)
    <2>1. Moved(r) /\ Keeps(r) /\ req'[r].pc = "auditAll" /\ req'[r].todo = req[r].todo
        BY <1>5, DropIndexEffect
    <2>2. req[r].list = {} /\ req[r].pc = "sweep" /\ ForgetIndex(req[r].user) /\ keys' = keys
        BY <1>5 DEF DropIndex, At
    <2>3. Pays(r)' BY <1>2, <2>1, <2>2, PaysOn
    <2>4. req[r].user \in Users BY <1>2, <2>2 DEF ControlOf
    <2>5. Indexed' BY <1>1, <1>2, <2>1, <2>2, <2>4, ForgetKeeps DEF Moved
    <2>6. QED BY <1>1, <2>1, <2>3, <2>5, RestKept DEF LoginLabel
<1>6. CASE RevokeAllAudit(r)
    <2>1. /\ Moved(r) /\ Keeps(r) /\ req'[r].pc \in {"next", "done"} /\ req'[r].todo = req[r].todo
        BY <1>6, RevokeAllAuditEffect DEF NextOrDone
    <2>2. req[r].pc = "auditAll" /\ index' = index /\ lost' = lost BY <1>6 DEF RevokeAllAudit, At
    <2>3. Pays(r)' BY <1>2, <2>1, <2>2, PaysOn
    <2>4. Indexed' BY <1>1, <1>2, <2>1, <2>2, IndexUntouched
    <2>5. QED BY <1>1, <2>1, <2>3, <2>4, RestKept DEF LoginLabel
<1>7. ASSUME NEW u \in Users, RevokeAllPostgres(r, u) PROVE Rest'
    <2>1. Moved(r) /\ Keeps(r) /\ req'[r].pc = "auditAll" /\ req'[r].todo = req[r].todo \ {u}
        BY <1>7, RevokeAllPostgresEffect
    <2>2. /\ req[r].pc = "next" /\ index' = index /\ lost' = lost /\ backend = "postgres"
          /\ row' = RowsRevoked(Owned(u))
        BY <1>7 DEF RevokeAllPostgres, At
    <2>3. ASSUME NEW t \in Live' PROVE owner[t] # u
        <3>1. t \in Tokens BY <1>1 DEF Live, Held, Typed, Shapes
        <3>2. row'[t] = "active" BY <1>1, <2>2 DEF Live, Held, Validates
        <3>3. t \notin Owned(u) BY <2>2, <3>1, <3>2, RowsRevokedType DEF Typed
        <3>4. QED BY <3>1, <3>3 DEF Owned
    <2>4. Pays(r)' BY <1>2, <2>1, <2>2, <2>3, PaysOn
    <2>5. Indexed' BY <1>1, <1>2, <2>1, <2>2, IndexUntouched
    <2>6. QED BY <1>1, <2>1, <2>4, <2>5, RestKept DEF LoginLabel
<1>8. ASSUME NEW u \in Users, ListIndexed(r, u) PROVE Rest'
    <2>1. /\ Moved(r) /\ Keeps(r) /\ req'[r].pc = "sweep" /\ req'[r].todo = req[r].todo \ {u}
          /\ req'[r].list = index[u]
        BY <1>8, ListIndexedEffect
    <2>2. req[r].pc = "next" /\ index' = index /\ lost' = lost /\ backend = "redis"
        BY <1>8 DEF ListIndexed, At
    <2>3. \A t \in Live : t \in index[owner[t]]
        BY <1>2, <2>2 DEF Live, Held, Validates, Indexed
    <2>4. Pays(r)' BY <1>2, <2>1, <2>2, <2>3, PaysOn
    <2>5. Indexed' BY <1>1, <1>2, <2>1, <2>2, IndexUntouched
    <2>6. QED BY <1>1, <2>1, <2>2, <2>4, <2>5, RestKept DEF LoginLabel
<1>9. ASSUME NEW t \in Tokens, DeleteKey(r, t) PROVE Rest'
    <2>1. /\ Moved(r) /\ Keeps(r) /\ req'[r].pc = "sweep" /\ req'[r].todo = req[r].todo
          /\ req'[r].list = req[r].list \ {t}
        BY <1>9, DeleteKeyEffect
    <2>2. req[r].pc = "sweep" /\ index' = index /\ lost' = lost /\ keys' = keys \ {t}
        BY <1>9 DEF DeleteKey, At
    <2>3. backend = "redis" BY <2>2 DEF Rest, LoginsFresh
    <2>4. t \notin Live' BY <1>1, <2>2, <2>3 DEF Live, Held, Validates
    <2>5. Pays(r)' BY <1>2, <2>1, <2>2, <2>4, PaysOn
    <2>6. Indexed' BY <1>1, <1>2, <2>1, <2>2, IndexUntouched
    <2>7. QED BY <1>1, <2>1, <2>3, <2>5, <2>6, RestKept DEF LoginLabel
<1>10. CASE Respond(r) \/ Abandon(r)
    <2>1. Moved(r) /\ req'[r] = NoHandler BY <1>10, MovedIdle DEF Respond, Abandon
    <2>2. req'[r].pc = "idle" /\ req'[r].before = {} BY <2>1 DEF NoHandler
    <2>3. index' = index /\ lost' = lost BY <1>10 DEF Respond, Abandon
    <2>4. Indexed' BY <1>1, <1>2, <2>1, <2>2, <2>3, IndexUntouched
    <2>5. QED BY <1>1, <2>1, <2>2, <2>4, PaysNothing, RestKept DEF LoginLabel
<1>11. QED BY <1>3, <1>4, <1>5, <1>6, <1>7, <1>8, <1>9, <1>10

\* What happens outside the handlers keeps Rest.
LEMMA OutsideRest ==
    ASSUME Typed, Rest, Advance,
           \/ \E t \in Tokens, u \in Users : SetPostgres(t, u)
           \/ \E t \in Tokens : Expire(t)
           \/ \E u \in Users : IndexLapses(u) \/ ArchiveUser(u)
           \/ UNCHANGED vars
    PROVE  Rest'
<1>1. req' = req BY DEF SetPostgres, Expire, IndexLapses, ArchiveUser, vars
<1>2. \A q \in Requests : Pays(q)' BY <1>1, PaysKept DEF Rest, Owing
<1>3. ASSUME NEW t \in Tokens, NEW u \in Users, SetPostgres(t, u) PROVE Rest'
    <2>1. /\ backend = "postgres" /\ backend' = backend /\ returned' = returned \cup {t}
          /\ row' = [row EXCEPT ![t] = "active"]
        BY <1>3 DEF SetPostgres
    <2>2. LoginsFresh' BY <1>1, <2>1 DEF Rest, LoginsFresh
    <2>3. Indexed' BY <2>1 DEF Indexed
    <2>4. AuditTrail' BY <2>1 DEF Rest, AuditTrail, Typed, Shapes
    <2>5. QED BY <1>2, <2>2, <2>3, <2>4 DEF Rest, Owing
<1>4. CASE ~\E t \in Tokens, u \in Users : SetPostgres(t, u)
    <2>1. UNCHANGED <<backend, owner, returned>>
        BY <1>4 DEF Expire, IndexLapses, ArchiveUser, vars
    <2>2. LoginsFresh' BY <1>1, <2>1, FreshKept DEF Rest, LoginsFresh
    <2>3. AuditTrail' BY <2>1 DEF Rest, AuditTrail, Advance, Typed, Shapes
    <2>4. Indexed'
        <3>1. CASE \E u \in Users : IndexLapses(u)
            <4>1. PICK u \in Users : IndexLapses(u) BY <3>1
            <4>2. ForgetIndex(u) /\ keys' = keys BY <4>1 DEF IndexLapses
            <4>3. QED BY <1>1, <2>1, <4>2, ForgetKeeps DEF Rest
        <3>2. CASE ~\E u \in Users : IndexLapses(u)
            <4>1. keys' \subseteq keys /\ index' = index /\ lost' = lost
                BY <1>4, <3>2 DEF Expire, ArchiveUser, vars
            <4>2. QED BY <1>1, <2>1, <4>1, IndexedKept DEF Rest
        <3>3. QED BY <3>1, <3>2
    <2>5. QED BY <1>2, <2>2, <2>3, <2>4 DEF Rest, Owing
<1>5. QED BY <1>3, <1>4

\* The whole invariant is inductive.
LEMMA InvInductive == ASSUME Inv, [Next]_vars PROVE Inv'
<1>1. Typed /\ Rest BY DEF Inv, Rest
<1>2. Typed' BY <1>1, TypedInductive
<1>3. Advance BY <1>1, StepAdvances DEF Rest
<1>4. Rest'
    BY <1>1, <1>3, SetRedisRest, IndexRest, CreateAuditRest, LogoutStartRest, LogoutRest, OutsideRest
       DEF Next, Start, Continue
<1>5. QED BY <1>2, <1>4 DEF Inv, Rest

\* Initially there are no sessions.
LEMMA InvInit == ASSUME Init PROVE Inv
<1>1. Typed BY TypedInit
<1>2. \A r \in Requests : req[r] = NoHandler BY DEF Init
<1>3. LoginsFresh BY <1>2 DEF LoginsFresh, NoHandler, LoginLabel
<1>4. Indexed /\ AuditTrail BY DEF Init, Indexed, AuditTrail
<1>5. Owing BY <1>2 DEF Owing, Pays, Owes, NoHandler
<1>6. QED BY <1>1, <1>3, <1>4, <1>5 DEF Inv

(***************************************************************************)
(* The invariant above holds in every reachable state.                     *)
(***************************************************************************)
THEOREM Invariance == Spec => []Inv
<1>1. Init => Inv BY InvInit
<1>2. Inv /\ [Next]_vars => Inv' BY InvInductive
<1>3. QED BY <1>1, <1>2, PTL DEF Spec

(***************************************************************************)
(* Every session a client was given has its row in the sessions table:     *)
(* create_audit runs before a Redis login returns its token.               *)
(***************************************************************************)
THEOREM AuditTrailKept == Spec => []AuditTrail
<1>1. Inv => AuditTrail BY DEF Inv
<1>2. QED BY <1>1, Invariance, PTL

(***************************************************************************)
(* On Redis, a session that validates in a client's hands is in its user's *)
(* index, so that delete_all_for_user finds it, unless a sweep dropped an  *)
(* entry it had not listed or the index lapsed.                            *)
(***************************************************************************)
THEOREM ReachableAlways == Spec => []Reachable
<1>1. Inv => Reachable BY DEF Inv, Indexed, Reachable, Held, Validates
<1>2. QED BY <1>1, Invariance, PTL

-----------------------------------------------------------------------------
(***************************************************************************)
(* Sessions implements SessionContract: each step is a step of the         *)
(* contract, or leaves what the contract speaks of unchanged.              *)
(***************************************************************************)
Owed == [r \in Requests |-> Owes(r)]
Answers == [r \in Requests |-> IF At(r, "done") THEN "ok" ELSE "none"]

\* The contract's actions, in the terms of Sessions.
LEMMA ContractActions ==
    /\ Contract!End <=> Live' \in SUBSET Live /\ returned' = returned /\ Owed' = Owed /\ Answers' = Answers
    /\ \A t : Contract!Issue(t) <=>
          /\ t \notin returned /\ returned' = returned \cup {t}
          /\ Live' \in {Live, Live \cup {t}}
          /\ Owed' = Owed /\ Answers' = Answers
    /\ \A r : Contract!Promise(r) <=>
          /\ Answers[r] = "none"
          /\ \E S \in SUBSET returned : Owed' = [Owed EXCEPT ![r] = S]
          /\ Live' \in SUBSET Live
          /\ Answers' \in {Answers, [Answers EXCEPT ![r] = "ok"]}
          /\ Answers'[r] = "ok" => Owed'[r] \cap Live' = {}
          /\ returned' = returned
    /\ \A r : Contract!Answer(r) <=>
          /\ Answers[r] = "none" /\ Owed[r] \cap Live' = {} /\ Live' \in SUBSET Live
          /\ Answers' = [Answers EXCEPT ![r] = "ok"]
          /\ returned' = returned /\ Owed' = Owed
    /\ \A r : Contract!Close(r) <=>
          /\ Owed' = [Owed EXCEPT ![r] = {}] /\ Answers' = [Answers EXCEPT ![r] = "none"]
          /\ returned' = returned /\ Live' = Live
BY DEF Contract!End, Contract!Issue, Contract!Promise, Contract!Answer, Contract!Close, Live, Owed, Answers

\* Handlers that a step leaves alone owe and answer as before.
LEMMA OthersOwe ==
    ASSUME Inv, Advance, NEW q \in Requests, req'[q] = req[q]
    PROVE  Owes(q)' = Owes(q) /\ (At(q, "done")' <=> At(q, "done"))
<1>1. req[q].before \subseteq returned BY DEF Inv, Owing, Pays
<1>2. QED BY <1>1 DEF Owes, At, Advance

\* No step but an issue adds to the live sessions.
LEMMA LiveSubset ==
    ASSUME Advance, returned' = returned
    PROVE  Live' \in SUBSET Live
BY LiveShrinks DEF Live, Held

\* A step after which the handler owes and answers as before ends sessions at most.
LEMMA EndStep ==
    ASSUME Inv, Advance, returned' = returned, NEW r \in Requests, Moved(r),
           Owes(r)' = Owes(r), At(r, "done")' <=> At(r, "done")
    PROVE  Contract!End
<1>1. \A q \in Requests : Owes(q)' = Owes(q) /\ (At(q, "done")' <=> At(q, "done"))
    BY OthersOwe DEF Moved
<1>2. Owed' = Owed /\ Answers' = Answers BY <1>1 DEF Owed, Answers
<1>3. QED BY <1>2, LiveSubset, ContractActions

\* A step in which the handler takes its inventory.
LEMMA PromiseStep ==
    ASSUME Inv, Advance, returned' = returned, NEW r \in Requests, Moved(r), ~At(r, "done"),
           Owes(r)' \subseteq returned, At(r, "done")' => Owes(r)' \cap Live' = {}
    PROVE  Contract!Promise(r)
<1>1. \A q \in Requests : q # r => Owes(q)' = Owes(q) /\ (At(q, "done")' <=> At(q, "done"))
    BY OthersOwe DEF Moved
<1>2. Owed' = [Owed EXCEPT ![r] = Owes(r)'] BY <1>1 DEF Owed
<1>3. Answers' \in {Answers, [Answers EXCEPT ![r] = "ok"]} /\ Answers[r] = "none"
    BY <1>1 DEF Answers
<1>4. Answers'[r] = "ok" => At(r, "done")' BY DEF Answers
<1>5. Owed'[r] = Owes(r)' BY DEF Owed
<1>6. QED BY <1>2, <1>3, <1>4, <1>5, LiveSubset, ContractActions

\* A step in which the handler answers.
LEMMA AnswerStep ==
    ASSUME Inv, Advance, returned' = returned, NEW r \in Requests, Moved(r), ~At(r, "done"),
           Owes(r)' = Owes(r), At(r, "done")', Owes(r) \cap Live' = {}
    PROVE  Contract!Answer(r)
<1>1. \A q \in Requests : Owes(q)' = Owes(q) /\ (q # r => (At(q, "done")' <=> At(q, "done")))
    BY OthersOwe DEF Moved
<1>2. Owed' = Owed /\ Owed[r] = Owes(r) BY <1>1 DEF Owed
<1>3. Answers' = [Answers EXCEPT ![r] = "ok"] /\ Answers[r] = "none" BY <1>1 DEF Answers
<1>4. QED BY <1>2, <1>3, LiveSubset, ContractActions

\* A step in which the handler ends.
LEMMA CloseStep ==
    ASSUME Inv, Advance, returned' = returned, NEW r \in Requests, Moved(r), req'[r] = NoHandler, Live' = Live
    PROVE  Contract!Close(r)
<1>1. \A q \in Requests : q # r => Owes(q)' = Owes(q) /\ (At(q, "done")' <=> At(q, "done"))
    BY OthersOwe DEF Moved
<1>2. Owes(r)' = {} /\ ~At(r, "done")' BY DEF Owes, At, NoHandler
<1>3. Owed' = [Owed EXCEPT ![r] = {}] BY <1>1, <1>2 DEF Owed
<1>4. Answers' = [Answers EXCEPT ![r] = "none"] BY <1>1, <1>2 DEF Answers
<1>5. QED BY <1>3, <1>4, ContractActions

\* What a handler owes depends on its inventory, which is of issued sessions.
LEMMA OwesKept ==
    ASSUME Inv, Advance, NEW r \in Requests, Keeps(r)
    PROVE  Owes(r)' = Owes(r)
<1>1. req[r].before \subseteq returned BY DEF Inv, Owing, Pays
<1>2. QED BY <1>1 DEF Owes, Keeps, Advance

\* A logout that has answered owes nothing that is live.
LEMMA AnsweredOwesNothing ==
    ASSUME Inv', NEW r \in Requests, At(r, "done")'
    PROVE  Owes(r)' \cap Live' = {}
<1>1. req'[r].todo = {} /\ req'[r].pc = "done" BY DEF Inv, Typed, ControlOf, At
<1>2. QED BY <1>1 DEF Inv, Owing, Pays

\* Begin a handler: a login changes nothing of the contract, a logout promises.
LEMMA StartStep ==
    ASSUME Inv, Inv', Advance, NEW r \in Requests, Start(r)
    PROVE  Contract!ContractNext
<1> SUFFICES Contract!End \/ Contract!Promise(r) BY DEF Contract!ContractNext
<1>1. Typed BY DEF Inv
<1>2. PICK t \in Tokens : \/ \E u \in Users : SetRedis(r, t, u) \/ LogoutAll(r, t, u)
                          \/ Logout(r, t) \/ LogoutGlobal(r, t)
    BY DEF Start
<1>3. req[r].pc = "idle" /\ returned' = returned
    BY <1>2 DEF SetRedis, LogoutAll, Logout, LogoutGlobal, At
<1>4. CASE \E u \in Users : SetRedis(r, t, u)
    <2>1. Moved(r) /\ req'[r].pc = "index" /\ req'[r].before = {} BY <1>1, <1>4, SetRedisEffect
    <2>2. req[r].before = {} BY <1>1, <1>3, HandlerParts DEF ControlOf
    <2>3. Owes(r)' = Owes(r) /\ (At(r, "done")' <=> At(r, "done"))
        BY <1>3, <2>1, <2>2 DEF Owes, At
    <2>4. QED BY <1>3, <2>1, <2>3, EndStep
<1>5. CASE Logout(r, t) \/ LogoutGlobal(r, t) \/ \E u \in Users : LogoutAll(r, t, u)
    <2>1. Moved(r) BY <1>1, <1>5, LogoutEffect, LogoutGlobalEffect, LogoutAllEffect
    <2>2. Owes(r)' \subseteq returned BY <1>3 DEF Inv, Owing, Pays, Owes
    <2>3. ~At(r, "done") BY <1>3 DEF At
    <2>4. QED BY <1>3, <2>1, <2>2, <2>3, AnsweredOwesNothing, PromiseStep
<1>6. QED BY <1>2, <1>4, <1>5

\* A login in flight, seen from the contract: a token is issued at its last step.
LEMMA LoginStep ==
    ASSUME Inv, Inv', Advance, NEW r \in Requests, IndexSession(r) \/ ExtendIndex(r) \/ CreateAudit(r)
    PROVE  Contract!ContractNext
<1>1. Typed BY DEF Inv
<1>2. req[r].pc \in LoginLabel /\ req[r].tok \in Tokens /\ req[r].before = {}
    BY <1>1, HandlerParts DEF IndexSession, ExtendIndex, CreateAudit, At, LoginLabel, ControlOf
<1>3. ~At(r, "done") BY <1>2 DEF At, LoginLabel
<1>4. CASE IndexSession(r) \/ ExtendIndex(r)
    <2>1. Moved(r) /\ req'[r].pc \in {"extend", "audit"} /\ req'[r].before = {} /\ returned' = returned
        BY <1>1, <1>2, <1>4, LoginMoves DEF IndexSession, ExtendIndex
    <2>2. Owes(r)' = Owes(r) /\ ~At(r, "done")' BY <1>2, <2>1 DEF Owes, At
    <2>3. QED BY <1>3, <2>1, <2>2, EndStep DEF Contract!ContractNext
<1>5. CASE CreateAudit(r)
    <2>1. Moved(r) /\ req'[r] = NoHandler BY <1>1, <1>5, MovedIdle DEF CreateAudit
    <2>2. /\ returned' = returned \cup {req[r].tok} /\ UNCHANGED <<backend, keys, lost>>
          /\ backend = "redis" /\ req[r].tok \notin returned
        BY <1>2, <1>5 DEF CreateAudit, Inv, LoginsFresh
    <2>3. Owes(r)' = Owes(r) /\ ~At(r, "done")' BY <1>2, <2>1 DEF Owes, At, NoHandler
    <2>4. \A q \in Requests : Owes(q)' = Owes(q) /\ (At(q, "done")' <=> At(q, "done"))
        BY <1>3, <2>1, <2>3, OthersOwe DEF Moved
    <2>5. Owed' = Owed /\ Answers' = Answers BY <2>4 DEF Owed, Answers
    <2>6. Live' = Live \/ Live' = Live \cup {req[r].tok} BY <2>2 DEF Live, Held, Validates
    <2>7. Contract!Issue(req[r].tok) BY <2>2, <2>5, <2>6, ContractActions
    <2>8. QED BY <1>2, <2>7 DEF Contract!ContractNext
<1>6. QED BY <1>4, <1>5

\* A logout in flight, seen from the contract.
LEMMA LogoutStep ==
    ASSUME Inv, Inv', Advance, NEW r \in Requests,
           \/ RevokeAudit(r) \/ ListMemberships(r) \/ DropIndex(r) \/ RevokeAllAudit(r)
           \/ \E u \in Users : RevokeAllPostgres(r, u) \/ ListIndexed(r, u)
           \/ \E t \in Tokens : DeleteKey(r, t)
           \/ Respond(r) \/ Abandon(r)
    PROVE  Contract!ContractNext
<1> SUFFICES Contract!End \/ Contract!Promise(r) \/ Contract!Answer(r) \/ Contract!Close(r)
    BY DEF Contract!ContractNext
<1>1. Typed BY DEF Inv
<1>2. returned' = returned
    BY DEF RevokeAudit, ListMemberships, DropIndex, RevokeAllAudit, RevokeAllPostgres, ListIndexed,
           DeleteKey, Respond, Abandon
<1>3. CASE Respond(r) \/ Abandon(r)
    <2>1. Moved(r) /\ req'[r] = NoHandler BY <1>1, <1>3, MovedIdle DEF Respond, Abandon
    <2>2. Live' = Live BY <1>3 DEF Respond, Abandon, Live, Held, Validates
    <2>3. QED BY <1>2, <2>1, <2>2, CloseStep
<1>4. CASE ListMemberships(r)
    <2>1. Moved(r) BY <1>1, <1>4, ListMembershipsEffect
    <2>2. Owes(r)' \subseteq returned BY <1>2 DEF Inv, Owing, Pays, Owes
    <2>3. ~At(r, "done") BY <1>4 DEF ListMemberships, At
    <2>4. QED BY <1>2, <2>1, <2>2, <2>3, AnsweredOwesNothing, PromiseStep
<1>5. CASE RevokeAudit(r) \/ RevokeAllAudit(r)
    <2>1. Moved(r) /\ Keeps(r) BY <1>1, <1>5, RevokeAuditEffect, RevokeAllAuditEffect
    <2>2. ~At(r, "done") BY <1>5 DEF RevokeAudit, RevokeAllAudit, At
    <2>3. Owes(r)' = Owes(r) BY <2>1, OwesKept
    <2>4. CASE At(r, "done")'
        <3>1. Owes(r) \cap Live' = {} BY <2>3, <2>4, AnsweredOwesNothing
        <3>2. QED BY <1>2, <2>1, <2>2, <2>3, <2>4, <3>1, AnswerStep
    <2>5. CASE ~At(r, "done")' BY <1>2, <2>1, <2>2, <2>3, <2>5, EndStep
    <2>6. QED BY <2>4, <2>5
<1>6. CASE \/ DropIndex(r) \/ \E u \in Users : RevokeAllPostgres(r, u) \/ ListIndexed(r, u)
           \/ \E t \in Tokens : DeleteKey(r, t)
    <2>1. Moved(r) /\ Keeps(r) /\ req'[r].pc # "done"
        BY <1>1, <1>6, DropIndexEffect, RevokeAllPostgresEffect, ListIndexedEffect, DeleteKeyEffect
    <2>2. ~At(r, "done") /\ ~At(r, "done")'
        BY <1>6, <2>1 DEF DropIndex, RevokeAllPostgres, ListIndexed, DeleteKey, At
    <2>3. QED BY <1>2, <2>1, <2>2, OwesKept, EndStep
<1>7. QED BY <1>3, <1>4, <1>5, <1>6

\* What happens outside the handlers issues a session, ends some, or changes nothing.
LEMMA OutsideStep ==
    ASSUME Inv, Inv', Advance,
           \/ \E t \in Tokens, u \in Users : SetPostgres(t, u)
           \/ \E t \in Tokens : Expire(t)
           \/ \E u \in Users : IndexLapses(u) \/ ArchiveUser(u)
           \/ UNCHANGED vars
    PROVE  Contract!ContractNext
<1>1. req' = req BY DEF SetPostgres, Expire, IndexLapses, ArchiveUser, vars
<1>2. \A q \in Requests : Owes(q)' = Owes(q) /\ (At(q, "done")' <=> At(q, "done"))
    BY <1>1, OthersOwe
<1>3. Owed' = Owed /\ Answers' = Answers BY <1>2 DEF Owed, Answers
<1>4. ASSUME NEW t \in Tokens, NEW u \in Users, SetPostgres(t, u) PROVE Contract!Issue(t)
    <2>1. t \notin returned /\ returned' = returned \cup {t} /\ lost' = lost /\ backend' = backend
        BY <1>4 DEF SetPostgres, Inv, Typed, Owners
    <2>2. \A x \in returned : Validates(x)' <=> Validates(x)
        BY <1>4, <2>1 DEF SetPostgres, Validates, Inv, Typed, Shapes
    <2>3. Live' = Live \/ Live' = Live \cup {t} BY <2>1, <2>2 DEF Live, Held
    <2>4. QED BY <1>3, <2>1, <2>3, ContractActions
<1>5. CASE ~\E t \in Tokens, u \in Users : SetPostgres(t, u)
    <2>1. returned' = returned BY <1>5 DEF Expire, IndexLapses, ArchiveUser, vars
    <2>2. Contract!End BY <1>3, <2>1, LiveSubset, ContractActions
    <2>3. QED BY <2>2 DEF Contract!ContractNext
<1>6. QED BY <1>4, <1>5 DEF Contract!ContractNext

(***************************************************************************)
(* Both session stores and the three logout routes implement               *)
(* SessionContract: a token is issued once and never validates again after *)
(* it stopped, and a logout that answers has ended every covered session   *)
(* that clients held when it began, but for Redis sessions whose index     *)
(* entry was lost.                                                         *)
(***************************************************************************)
THEOREM SessionsImplementContract == Spec => ImplementsContract
<1>1. Init => Contract!ContractInit
    <2> SUFFICES ASSUME Init PROVE Contract!ContractInit OBVIOUS
    <2>1. \A r \in Requests : req[r] = NoHandler BY DEF Init
    <2>2. \A r \in Requests : Owes(r) = {} /\ ~At(r, "done") BY <2>1 DEF Owes, At, NoHandler
    <2>3. returned = {} /\ Held \ lost = {} BY DEF Init, Held
    <2>4. QED BY <2>2, <2>3 DEF Contract!ContractInit
<1>2. Inv /\ Inv' /\ [Next]_vars => [Contract!ContractNext]_Contract!contractVars
    <2> SUFFICES ASSUME Inv, Inv', [Next]_vars PROVE Contract!ContractNext OBVIOUS
    <2>1. Advance BY StepAdvances DEF Inv
    <2>2. QED BY <2>1, StartStep, LoginStep, LogoutStep, OutsideStep DEF Next, Continue
<1>3. QED BY <1>1, <1>2, Invariance, PTL DEF Spec, ImplementsContract, Contract!ContractSpec
=============================================================================
