------------------------------ MODULE Sessions ------------------------------
(***************************************************************************)
(* Sessions of one identity: the two session stores (repo/sessions.rs,     *)
(* repo/sessions_redis.rs), the tail of do_create_session and the logout   *)
(* routes (routes/session.rs).  Every SQL statement and every Redis        *)
(* command is a step of its own; handlers interleave between them.         *)
(***************************************************************************)
EXTENDS Naturals, FiniteSets

CONSTANTS
    Requests,   \* handlers that may be in flight at the same time
    Users,      \* memberships of the identity, one per tenant
    Tokens,     \* session tokens that can ever be generated
    Backends    \* the session stores a deployment may choose

ASSUME SessionsAssumption == Backends \subseteq {"postgres", "redis"} /\ "none" \notin Users \cup Tokens

VARIABLES
    backend,    \* the store chosen at startup
    keys,       \* Redis: tokens t with a key session:t
    index,      \* Redis: the set user_sessions:<tenant>:<user>
    expiry,     \* Redis: the token whose EXPIRE set the index's time to live last
    row,        \* the sessions table, and whether expires_at has passed
    owner,      \* the membership a token was generated for
    archived,   \* archived memberships
    req,        \* the handlers in flight
    returned,   \* history: tokens a client has been given
    lost        \* history: tokens whose index entry went before their key did

vars == <<backend, keys, index, expiry, row, owner, archived, req, returned, lost>>

-----------------------------------------------------------------------------
Label == {"idle", "index", "extend", "audit", "revoke", "members", "next", "sweep", "auditAll", "done"}

Kind == {"none", "login", "one", "all", "global"}

\* before is history: what validated in a client's hands when the logout began.
Handler == [pc : Label, kind : Kind, user : Users \cup {"none"}, tok : Tokens \cup {"none"},
            list : SUBSET Tokens, todo : SUBSET Users, scope : SUBSET Users, before : SUBSET Tokens]

NoHandler == [pc |-> "idle", kind |-> "none", user |-> "none", tok |-> "none",
              list |-> {}, todo |-> {}, scope |-> {}, before |-> {}]

Init ==
    /\ backend \in Backends
    /\ keys = {}
    /\ index = [u \in Users |-> {}]
    /\ expiry = [u \in Users |-> "none"]
    /\ row = [t \in Tokens |-> "none"]
    /\ owner = [t \in Tokens |-> "none"]
    /\ archived = {}
    /\ req = [r \in Requests |-> NoHandler]
    /\ returned = {}
    /\ lost = {}

\* SessionStore::get finds the session.
Validates(t) == IF backend = "redis" THEN t \in keys ELSE row[t] = "active"

Held == {t \in returned : Validates(t)}

At(r, l) == req[r].pc = l

Move(r, h) == req' = [req EXCEPT ![r] = h]

\* UPDATE sessions SET revoked = true, for the tokens in S.
RowsRevoked(S) == [t \in Tokens |-> IF t \in S /\ row[t] = "active" THEN "revoked" ELSE row[t]]

Owned(u) == {t \in Tokens : owner[t] = u}

-----------------------------------------------------------------------------
(***************************************************************************)
(* do_create_session from session_store.set on.  Postgres: one INSERT.     *)
(* Redis: SETEX, SADD, EXPIRE of the index to a day after this session's   *)
(* end, then the audit row.                                                *)
(***************************************************************************)
SetPostgres(t, u) ==
    /\ backend = "postgres"
    /\ owner[t] = "none"
    /\ owner' = [owner EXCEPT ![t] = u]
    /\ row' = [row EXCEPT ![t] = "active"]
    /\ returned' = returned \cup {t}
    /\ UNCHANGED <<backend, keys, index, expiry, archived, req, lost>>

SetRedis(r, t, u) ==
    /\ backend = "redis"
    /\ At(r, "idle")
    /\ owner[t] = "none"
    /\ owner' = [owner EXCEPT ![t] = u]
    /\ keys' = keys \cup {t}
    /\ Move(r, [NoHandler EXCEPT !.pc = "index", !.kind = "login", !.user = u, !.tok = t])
    /\ UNCHANGED <<backend, index, expiry, row, archived, returned, lost>>

\* The key of the set names the identity, not the membership.
IndexSession_OneSet(r) ==
    /\ At(r, "index")
    /\ index' = [u \in Users |-> index[u] \cup {req[r].tok}]
    /\ Move(r, [req[r] EXCEPT !.pc = "extend"])
    /\ UNCHANGED <<backend, keys, expiry, row, owner, archived, returned, lost>>

IndexSession_NotAdded(r) ==
    /\ At(r, "index")
    /\ Move(r, [req[r] EXCEPT !.pc = "extend"])
    /\ UNCHANGED <<backend, keys, index, expiry, row, owner, archived, returned, lost>>

IndexSession(r) ==
    /\ At(r, "index")
    /\ index' = [index EXCEPT ![req[r].user] = @ \cup {req[r].tok}]
    /\ Move(r, [req[r] EXCEPT !.pc = "extend"])
    /\ UNCHANGED <<backend, keys, expiry, row, owner, archived, returned, lost>>

\* EXPIRE replaces the time to live, even by a shorter one; no set, no effect.
ExtendIndex(r) ==
    /\ At(r, "extend")
    /\ expiry' = [expiry EXCEPT ![req[r].user] = IF index[req[r].user] = {} THEN @ ELSE req[r].tok]
    /\ Move(r, [req[r] EXCEPT !.pc = "audit"])
    /\ UNCHANGED <<backend, keys, index, row, owner, archived, returned, lost>>

CreateAudit_Skipped(r) ==
    /\ At(r, "audit")
    /\ returned' = returned \cup {req[r].tok}
    /\ Move(r, NoHandler)
    /\ UNCHANGED <<backend, keys, index, expiry, row, owner, archived, lost>>

CreateAudit(r) ==
    /\ At(r, "audit")
    /\ row' = [row EXCEPT ![req[r].tok] = "active"]
    /\ returned' = returned \cup {req[r].tok}
    /\ Move(r, NoHandler)
    /\ UNCHANGED <<backend, keys, index, expiry, owner, archived, lost>>

-----------------------------------------------------------------------------
(***************************************************************************)
(* logout: the session is deleted, its audit row revoked; a failure of the *)
(* second statement is ignored.                                            *)
(***************************************************************************)
Logout(r, t) ==
    /\ At(r, "idle")
    /\ t \in returned
    /\ IF backend = "redis" THEN keys' = keys \ {t} /\ UNCHANGED row
                            ELSE row' = RowsRevoked({t}) /\ UNCHANGED keys
    /\ Move(r, [NoHandler EXCEPT !.pc = "revoke", !.kind = "one", !.tok = t,
                                 !.scope = {owner[t]}, !.before = Held \cap {t}])
    /\ UNCHANGED <<backend, index, expiry, owner, archived, returned, lost>>

RevokeAudit(r) ==
    /\ At(r, "revoke")
    /\ row' \in {row, RowsRevoked({req[r].tok})}
    /\ Move(r, [req[r] EXCEPT !.pc = "done"])
    /\ UNCHANGED <<backend, keys, index, expiry, owner, archived, returned, lost>>

-----------------------------------------------------------------------------
(***************************************************************************)
(* logout_all takes the tenant from the request and the user from the      *)
(* session: another tenant's header names no sessions.  logout_global      *)
(* covers the memberships that are not archived.                           *)
(***************************************************************************)
NextOrDone(todo) == IF todo = {} THEN "done" ELSE "next"

LogoutAll(r, t, h) ==
    /\ At(r, "idle")
    /\ t \in Held
    /\ LET scope == {owner[t]} \cap {h} IN
       Move(r, [NoHandler EXCEPT !.pc = NextOrDone(scope), !.kind = "all", !.todo = scope,
                                 !.scope = scope, !.before = Held \cap Owned(h)])
    /\ UNCHANGED <<backend, keys, index, expiry, row, owner, archived, returned, lost>>

LogoutGlobal(r, t) ==
    /\ At(r, "idle")
    /\ t \in Held
    /\ Move(r, [NoHandler EXCEPT !.pc = "members", !.kind = "global", !.before = Held])
    /\ UNCHANGED <<backend, keys, index, expiry, row, owner, archived, returned, lost>>

ListMemberships_FirstOnly(r) ==
    /\ At(r, "members")
    /\ \E u \in Users \ archived :
         Move(r, [req[r] EXCEPT !.pc = "next", !.todo = {u}, !.scope = Users \ archived])
    /\ UNCHANGED <<backend, keys, index, expiry, row, owner, archived, returned, lost>>

ListMemberships(r) ==
    /\ At(r, "members")
    /\ LET members == Users \ archived IN
       Move(r, [req[r] EXCEPT !.pc = NextOrDone(members), !.todo = members, !.scope = members])
    /\ UNCHANGED <<backend, keys, index, expiry, row, owner, archived, returned, lost>>

\* PostgresSessionStore::delete_all_for_user.
RevokeAllPostgres(r, u) ==
    /\ backend = "postgres"
    /\ At(r, "next") /\ u \in req[r].todo
    /\ row' = RowsRevoked(Owned(u))
    /\ Move(r, [req[r] EXCEPT !.pc = "auditAll", !.user = u, !.todo = @ \ {u}])
    /\ UNCHANGED <<backend, keys, index, expiry, owner, archived, returned, lost>>

\* RedisSessionStore::delete_all_for_user: SMEMBERS, a DEL per member, DEL of
\* the index with whatever has joined it since.
ListIndexed(r, u) ==
    /\ backend = "redis"
    /\ At(r, "next") /\ u \in req[r].todo
    /\ Move(r, [req[r] EXCEPT !.pc = "sweep", !.user = u, !.list = index[u], !.todo = @ \ {u}])
    /\ UNCHANGED <<backend, keys, index, expiry, row, owner, archived, returned, lost>>

DeleteKey(r, t) ==
    /\ At(r, "sweep") /\ t \in req[r].list
    /\ keys' = keys \ {t}
    /\ Move(r, [req[r] EXCEPT !.list = @ \ {t}])
    /\ UNCHANGED <<backend, index, expiry, row, owner, archived, returned, lost>>

\* The set goes from Redis; the keys it still named are left unindexed.
ForgetIndex(u) ==
    /\ index' = [index EXCEPT ![u] = {}]
    /\ expiry' = [expiry EXCEPT ![u] = "none"]
    /\ lost' = lost \cup (index[u] \cap keys)

DropIndex(r) ==
    /\ At(r, "sweep") /\ req[r].list = {}
    /\ ForgetIndex(req[r].user)
    /\ Move(r, [req[r] EXCEPT !.pc = "auditAll"])
    /\ UNCHANGED <<backend, keys, row, owner, archived, returned>>

\* sessions_repo.revoke_all_for_user; its failure is ignored.
RevokeAllAudit(r) ==
    /\ At(r, "auditAll")
    /\ row' \in {row, RowsRevoked(Owned(req[r].user))}
    /\ Move(r, [req[r] EXCEPT !.pc = NextOrDone(req[r].todo), !.user = "none"])
    /\ UNCHANGED <<backend, keys, index, expiry, owner, archived, returned, lost>>

Respond(r) ==
    /\ At(r, "done")
    /\ Move(r, NoHandler)
    /\ UNCHANGED <<backend, keys, index, expiry, row, owner, archived, returned, lost>>

\* A statement fails or the client goes away: what was written stays.
Abandon(r) ==
    /\ ~At(r, "idle") /\ ~At(r, "done")
    /\ Move(r, NoHandler)
    /\ UNCHANGED <<backend, keys, index, expiry, row, owner, archived, returned, lost>>

-----------------------------------------------------------------------------
\* The session's time to live is over: Redis drops the key, get no longer
\* selects the row.  The audit row of a Redis session is never read.
Expire(t) ==
    /\ Validates(t)
    /\ IF backend = "redis" THEN keys' = keys \ {t} /\ UNCHANGED row
                            ELSE row' = [row EXCEPT ![t] = "expired"] /\ UNCHANGED keys
    /\ UNCHANGED <<backend, index, expiry, owner, archived, req, returned, lost>>

\* The index lives a day longer than the session that set its time to live
\* last, not than every session in it: the tenant's timeout may have shrunk.
IndexLapses(u) ==
    /\ index[u] # {}
    /\ expiry[u] # "none" /\ expiry[u] \notin keys
    /\ ForgetIndex(u)
    /\ UNCHANGED <<backend, keys, row, owner, archived, req, returned>>

ArchiveUser(u) ==
    /\ u \notin archived
    /\ archived' = archived \cup {u}
    /\ UNCHANGED <<backend, keys, index, expiry, row, owner, req, returned, lost>>

-----------------------------------------------------------------------------
\* The rest of a handler once it has begun.
Continue(r) ==
    \/ IndexSession(r) \/ ExtendIndex(r) \/ CreateAudit(r)
    \/ RevokeAudit(r)
    \/ ListMemberships(r)
    \/ \E u \in Users : RevokeAllPostgres(r, u) \/ ListIndexed(r, u)
    \/ \E t \in Tokens : DeleteKey(r, t)
    \/ DropIndex(r)
    \/ RevokeAllAudit(r)
    \/ Respond(r)

Start(r) ==
    \E t \in Tokens :
        \/ \E u \in Users : SetRedis(r, t, u) \/ LogoutAll(r, t, u)
        \/ Logout(r, t)
        \/ LogoutGlobal(r, t)

Next ==
    \/ \E r \in Requests : Start(r) \/ Continue(r) \/ Abandon(r)
    \/ \E t \in Tokens, u \in Users : SetPostgres(t, u)
    \/ \E t \in Tokens : Expire(t)
    \/ \E u \in Users : IndexLapses(u) \/ ArchiveUser(u)

Spec == Init /\ [][Next]_vars

-----------------------------------------------------------------------------
(***************************************************************************)
(* TypeOK: the types of rows, keys and handlers; and whatever the stores   *)
(* hold is of a session that was created, the set of a membership only     *)
(* that membership's, so that a sweep of one tenant ends no other's.       *)
(***************************************************************************)
Shapes ==
    /\ backend \in Backends
    /\ keys \in SUBSET Tokens
    /\ index \in [Users -> SUBSET Tokens]
    /\ expiry \in [Users -> Tokens \cup {"none"}]
    /\ row \in [Tokens -> {"none", "active", "expired", "revoked"}]
    /\ owner \in [Tokens -> Users \cup {"none"}]
    /\ archived \in SUBSET Users
    /\ req \in [Requests -> Handler]
    /\ returned \in SUBSET Tokens
    /\ lost \in SUBSET Tokens

Entries ==
    /\ \A t \in Tokens : t \in keys \/ row[t] # "none" => owner[t] # "none"
    /\ \A u \in Users : index[u] \subseteq Owned(u) /\ expiry[u] \in Owned(u) \cup {"none"}

TypeOK == Shapes /\ Entries

\* What handler r has to end: the covered sessions it found in clients' hands.
Owes(r) == {t \in req[r].before : owner[t] \in req[r].scope}

(***************************************************************************)
(* The contract of SessionContract.  A Redis session whose index entry     *)
(* went first (delete_all_for_user racing a login, or the index's own      *)
(* expiry) is outside it.                                                  *)
(***************************************************************************)
Contract == INSTANCE SessionContract WITH
    issued <- returned,
    live <- Held \ lost,
    owed <- [r \in Requests |-> Owes(r)],
    answer <- [r \in Requests |-> IF At(r, "done") THEN "ok" ELSE "none"]

ImplementsContract == Contract!ContractSpec

(***************************************************************************)
(* Every session a client was given has its row in the sessions table,     *)
(* whichever backend serves it (create_audit after set).                   *)
(***************************************************************************)
AuditTrail == \A t \in returned : row[t] # "none"

(***************************************************************************)
(* delete_all_for_user on Redis: a session that validates in a client's    *)
(* hands can be found again through its user's index, unless a concurrent  *)
(* sweep dropped the entry it had not listed or the index expired.         *)
(***************************************************************************)
Reachable == backend = "redis" => \A t \in Held \ lost : t \in index[owner[t]]

(***************************************************************************)
(* logout_global: "revoke every session of this identity across all its    *)
(* tenants".  When it answers, none of the sessions that clients held when *)
(* it began validates.                                                     *)
(***************************************************************************)
GlobalLogoutEverywhere ==
    \A r \in Requests : At(r, "done") /\ req[r].kind = "global" => req[r].before \cap Held = {}
=============================================================================
