---------------------------- MODULE Provisioning ----------------------------
(***************************************************************************)
(* How identities, memberships, invites and provider links come to be:     *)
(* signup, verify_membership_invite, admin_create_user and login_oauth     *)
(* (services/auth.rs) with the OAuth states of services/oauth.rs.  Every   *)
(* SQL statement is a step; handlers interleave between them and may fail  *)
(* at any of them.  An e-mail address is an address with the letter case   *)
(* it was written in.                                                      *)
(***************************************************************************)
EXTENDS Naturals, Sequences, FiniteSets, TLC

CONSTANTS
    Requests,      \* handlers that may be in flight at the same time
    Tenants,
    Addresses,     \* e-mail addresses, up to letter case
    Mobiles,       \* (country code, number) pairs
    Usernames,
    Accounts,      \* accounts at the OAuth providers
    MaxStarts,     \* bound: handlers ever started
    MaxStates,     \* bound: OAuth states ever created
    MaxCost        \* bound: the two together, a handler costing two and a state one

None == "none"

ASSUME ProvisioningAssumption ==
    /\ MaxStarts \in Nat /\ MaxStates \in Nat /\ MaxCost \in Nat /\ IsFiniteSet(Requests)
    /\ None \notin Tenants \cup Mobiles \cup Usernames \cup Accounts \cup Addresses

VARIABLES
    idents,    \* identities, in order of creation
    members,   \* users
    links,     \* identity_oauth_accounts
    invites,   \* membership_invites
    states,    \* oauth_states ever created; live until taken or expired
    req,       \* the handlers in flight
    starts,    \* handlers started so far
    mails,     \* history: invite mails sent
    logins,    \* history: OAuth sign-ins completed, per state and tenant
    lost       \* history: identities whose creating handler ended in an error

vars == <<idents, members, links, invites, states, req, starts, mails, logins, lost>>

-----------------------------------------------------------------------------
Case == {"lower", "mixed"}
Email == [addr : Addresses, case : Case]
NoEmail == [addr |-> None, case |-> "lower"]
EmailOpt == Email \cup {NoEmail}
Lowered(e) == [e EXCEPT !.case = "lower"]
Id == 1..(MaxStarts + MaxStates)
IdOpt == {0} \cup Id

\* by is history: the operation that created the row; acct: the account it was created for.
Identity == [email : EmailOpt, mobile : Mobiles \cup {None}, by : {"signup", "admin", "oauth"},
             acct : Accounts \cup {None}]
\* via is history: the operation that created the row; fresh: whether it created the identity too.
Member == [tenant : Tenants, ident : Id, username : Usernames \cup {None},
           via : {"signup", "admin", "oauth", "invite"}, fresh : BOOLEAN]
Link == [acct : Accounts, ident : Id]
Invite == [num : Id, ident : Id, tenant : Tenants]
Mail == [to : EmailOpt, invite : Invite]
\* acct, email and verified are history: the profile of the ID token that answered this state.
Flow == [tenant : Tenants, acct : Accounts \cup {None}, email : EmailOpt, verified : BOOLEAN, live : BOOLEAN]

Label == {"idle", "username", "email", "mobile", "create", "sweep", "insert", "linked", "exists",
          "link", "mship", "member", "drop"}
Handler == [pc : Label, op : {None, "signup", "admin", "oauth", "invite"}, tenant : Tenants \cup {None},
            email : EmailOpt, mobile : Mobiles \cup {None}, username : Usernames \cup {None},
            acct : Accounts \cup {None}, verified : BOOLEAN, allow : BOOLEAN,
            ident : IdOpt, num : IdOpt, fresh : BOOLEAN]
NoHandler == [pc |-> "idle", op |-> None, tenant |-> None, email |-> NoEmail, mobile |-> None,
              username |-> None, acct |-> None, verified |-> FALSE, allow |-> FALSE,
              ident |-> 0, num |-> 0, fresh |-> FALSE]

Init ==
    /\ idents = <<>> /\ members = {} /\ links = {} /\ invites = {} /\ states = <<>>
    /\ req = [r \in Requests |-> NoHandler]
    /\ starts = 0 /\ mails = {} /\ lost = {}
    /\ logins = [n \in Id |-> [t \in Tenants |-> 0]]

At(r, l) == req[r].pc = l
Move(r, h) == req' = [req EXCEPT ![r] = h]
Affordable(c) == 2 * starts + Len(states) + c <= MaxCost
Start(r, h) == At(r, "idle") /\ starts < MaxStarts /\ Affordable(2) /\ starts' = starts + 1 /\ Move(r, h)

-----------------------------------------------------------------------------
\* identities.get_by_email and exists_by_email ignore letter case; users.get_by_email does not.
WithEmail(e) == {i \in DOMAIN idents : e # NoEmail /\ idents[i].email.addr = e.addr}
WithMobile(m) == {i \in DOMAIN idents : m # None /\ idents[i].mobile = m}
Membership(i, t) == {u \in members : u.ident = i /\ u.tenant = t}
MemberWithEmail(t, e) == {u \in members : u.tenant = t /\ e # NoEmail /\ idents[u.ident].email = e}

UsernameAvailable(t, n) == \A u \in members : u.tenant = t => u.username # n

-----------------------------------------------------------------------------
(***************************************************************************)
(* signup and admin_create_user: the input is checked, then whether the    *)
(* tenant has a member with that e-mail.                                   *)
(***************************************************************************)
Signup(r, t, e, m) ==
    /\ MemberWithEmail(t, e) = {}
    /\ Start(r, [NoHandler EXCEPT !.pc = "email", !.op = "signup", !.tenant = t, !.email = e, !.mobile = m])
    /\ UNCHANGED <<idents, members, links, invites, states, mails, logins, lost>>

AdminCreateUser(r, t, e, m, n) ==
    /\ e # NoEmail \/ m # None \/ n # None
    /\ MemberWithEmail(t, e) = {}
    /\ Start(r, [NoHandler EXCEPT !.pc = "username", !.op = "admin", !.tenant = t, !.email = e,
                                  !.mobile = m, !.username = n])
    /\ UNCHANGED <<idents, members, links, invites, states, mails, logins, lost>>

CheckUsername(r) ==
    /\ At(r, "username")
    /\ req[r].username # None => UsernameAvailable(req[r].tenant, req[r].username)
    /\ Move(r, [req[r] EXCEPT !.pc = "email"])
    /\ UNCHANGED <<idents, members, links, invites, states, starts, mails, logins, lost>>

\* Where an existing identity takes each operation: signup mails an invite, admin attaches, oauth links.
Collision == [signup |-> "sweep", admin |-> "member", oauth |-> "link"]
Collide(h, i) == [h EXCEPT !.pc = Collision[h.op], !.ident = i, !.mobile = None,
                           !.email = IF h.op = "signup" THEN @ ELSE NoEmail]

LookupEmail(r) ==
    /\ At(r, "email")
    /\ LET found == WithEmail(req[r].email) IN
        \/ \E i \in found : Move(r, Collide(req[r], i))
        \/ found = {} /\ Move(r, [req[r] EXCEPT !.pc = IF req[r].op = "oauth" THEN "exists" ELSE "mobile"])
    /\ UNCHANGED <<idents, members, links, invites, states, starts, mails, logins, lost>>

LookupMobile(r) ==
    /\ At(r, "mobile")
    /\ LET found == WithMobile(req[r].mobile) IN
        \/ \E i \in found : Move(r, Collide(req[r], i))
        \/ found = {} /\ Move(r, [req[r] EXCEPT !.pc = "create"])
    /\ UNCHANGED <<idents, members, links, invites, states, starts, mails, logins, lost>>

(***************************************************************************)
(* identities.create under the unique indexes on lower(email) and on       *)
(* (country_code, mobile).  An OAuth identity takes a verified e-mail only.*)
(***************************************************************************)
NewIdentity(h) ==
    [email |-> IF h.op = "oauth" /\ ~h.verified THEN NoEmail ELSE h.email,
     mobile |-> h.mobile, by |-> h.op, acct |-> h.acct]

CreateIdentity(r) ==
    /\ At(r, "create")
    /\ LET row == NewIdentity(req[r]) IN
        /\ WithEmail(row.email) = {} /\ WithMobile(row.mobile) = {}
        /\ idents' = Append(idents, row)
    /\ Move(r, [req[r] EXCEPT !.pc = IF req[r].op = "oauth" THEN "link" ELSE "member",
                              !.ident = Len(idents) + 1,
                              !.fresh = TRUE, !.email = NoEmail, !.mobile = None])
    /\ UNCHANGED <<members, links, invites, states, starts, mails, logins, lost>>

(***************************************************************************)
(* users.create under the unique constraints on (tenant, identity) and     *)
(* (tenant, username); the last statement of every operation but invite.   *)
(***************************************************************************)
CreateMembership_NotWritten(r) ==
    /\ At(r, "member")
    /\ Move(r, NoHandler)
    /\ UNCHANGED <<idents, members, links, invites, states, starts, mails, logins, lost>>

CreateMembership(r) ==
    /\ At(r, "member")
    /\ LET h == req[r] IN
        /\ Membership(h.ident, h.tenant) = {}
        /\ h.username # None => UsernameAvailable(h.tenant, h.username)
        /\ members' = members \cup {[tenant |-> h.tenant, ident |-> h.ident, username |-> h.username,
                                     via |-> h.op, fresh |-> h.fresh]}
        /\ Move(r, IF h.op = "invite" THEN [h EXCEPT !.pc = "drop"] ELSE NoHandler)
        /\ logins' = IF h.op = "oauth" THEN [logins EXCEPT ![h.num][h.tenant] = @ + 1] ELSE logins
    /\ UNCHANGED <<idents, links, invites, states, starts, mails, lost>>

-----------------------------------------------------------------------------
(***************************************************************************)
(* Signup met an existing identity: the older invites for (identity,       *)
(* tenant) are deleted, a new one inserted, and its token mailed to the    *)
(* identity's e-mail, or to the caller's when the identity has none.       *)
(***************************************************************************)
SweepInvites(r) ==
    /\ At(r, "sweep")
    /\ invites' = {v \in invites : v.ident # req[r].ident \/ v.tenant # req[r].tenant}
    /\ Move(r, [req[r] EXCEPT !.pc = "insert"])
    /\ UNCHANGED <<idents, members, links, states, starts, mails, logins, lost>>

NextInvite == Cardinality(mails) + 1

InsertInvite_MailsCaller(r) ==
    /\ At(r, "insert")
    /\ LET v == [num |-> NextInvite, ident |-> req[r].ident, tenant |-> req[r].tenant] IN
        /\ invites' = invites \cup {v}
        /\ mails' = mails \cup {[to |-> req[r].email, invite |-> v]}
    /\ Move(r, NoHandler)
    /\ UNCHANGED <<idents, members, links, states, starts, logins, lost>>

InsertInvite(r) ==
    /\ At(r, "insert")
    /\ LET v == [num |-> NextInvite, ident |-> req[r].ident, tenant |-> req[r].tenant]
           own == idents[req[r].ident].email IN
        /\ invites' = invites \cup {v}
        /\ mails' = mails \cup {[to |-> IF own = NoEmail THEN req[r].email ELSE own, invite |-> v]}
    /\ Move(r, NoHandler)
    /\ UNCHANGED <<idents, members, links, states, starts, logins, lost>>

\* verify_membership_invite: get_valid, get_membership, users.create, delete_by_token.
AcceptInvite(r, v) ==
    /\ Start(r, [NoHandler EXCEPT !.pc = "mship", !.op = "invite", !.tenant = v.tenant,
                                  !.ident = v.ident, !.num = v.num])
    /\ UNCHANGED <<idents, members, links, invites, states, mails, logins, lost>>

DropInvite(r) ==
    /\ At(r, "drop")
    /\ invites' = {v \in invites : v.num # req[r].num}
    /\ Move(r, NoHandler)
    /\ UNCHANGED <<idents, members, links, states, starts, mails, logins, lost>>

-----------------------------------------------------------------------------
(***************************************************************************)
(* OAuth: authorization_url stores a state for the tenant; complete takes  *)
(* it (DELETE ... RETURNING) before it exchanges the code for the ID token *)
(* whose claims are the profile, and loads the tenant's allow_signup.      *)
(***************************************************************************)
AuthorizationUrl(t) ==
    /\ Len(states) < MaxStates /\ Affordable(1)
    /\ states' = Append(states, [tenant |-> t, acct |-> None, email |-> NoEmail, verified |-> FALSE, live |-> TRUE])
    /\ UNCHANGED <<idents, members, links, invites, req, starts, mails, logins, lost>>

Profile == {p \in [acct : Accounts, email : {Lowered(e) : e \in EmailOpt}, verified : BOOLEAN] : p.verified => p.email # NoEmail}
SignedIn(n, p, allow) ==
    [NoHandler EXCEPT !.pc = "linked", !.op = "oauth", !.tenant = states[n].tenant, !.email = p.email,
                      !.acct = p.acct, !.verified = p.verified, !.allow = allow, !.num = n]

TakeState_Kept(r, n, p, allow) ==
    /\ states[n].live
    /\ states' = [states EXCEPT ![n].acct = p.acct, ![n].email = p.email, ![n].verified = p.verified]
    /\ Start(r, SignedIn(n, p, allow))
    /\ UNCHANGED <<idents, members, links, invites, mails, logins, lost>>

TakeState(r, n, p, allow) ==
    /\ states[n].live
    /\ states' = [states EXCEPT ![n].acct = p.acct, ![n].email = p.email, ![n].verified = p.verified, ![n].live = FALSE]
    /\ Start(r, SignedIn(n, p, allow))
    /\ UNCHANGED <<idents, members, links, invites, mails, logins, lost>>

\* The route names another provider, or the ID token another nonce: the state is gone all the same.
RefuseState(n) ==
    /\ states[n].live
    /\ states' = [states EXCEPT ![n].live = FALSE]
    /\ UNCHANGED <<idents, members, links, invites, req, starts, mails, logins, lost>>

(***************************************************************************)
(* login_oauth: the linked identity; else the identity with the verified   *)
(* e-mail; else a new one, when the tenant allows it and an unverified     *)
(* e-mail shadows no account.  A new link, then the membership.            *)
(***************************************************************************)
GetLinkedIdentity_TrustsEmail(r) ==
    /\ At(r, "linked")
    /\ LET found == {k \in links : k.acct = req[r].acct} IN
        \/ \E k \in found : Move(r, [req[r] EXCEPT !.pc = "mship", !.ident = k.ident, !.email = NoEmail])
        \/ found = {} /\ Move(r, [req[r] EXCEPT !.pc = "email"])
    /\ UNCHANGED <<idents, members, links, invites, states, starts, mails, logins, lost>>

GetLinkedIdentity(r) ==
    /\ At(r, "linked")
    /\ LET found == {k \in links : k.acct = req[r].acct} IN
        \/ \E k \in found : Move(r, [req[r] EXCEPT !.pc = "mship", !.ident = k.ident, !.email = NoEmail])
        \/ found = {} /\ Move(r, [req[r] EXCEPT !.pc = IF req[r].verified THEN "email" ELSE "exists"])
    /\ UNCHANGED <<idents, members, links, invites, states, starts, mails, logins, lost>>

ExistsByEmail_SkipsCreate(r) ==
    /\ At(r, "exists")
    /\ req[r].verified \/ WithEmail(req[r].email) = {}
    /\ Move(r, [req[r] EXCEPT !.pc = "link"])
    /\ UNCHANGED <<idents, members, links, invites, states, starts, mails, logins, lost>>

ExistsByEmail(r) ==
    /\ At(r, "exists")
    /\ req[r].verified \/ WithEmail(req[r].email) = {}
    /\ req[r].allow
    /\ Move(r, [req[r] EXCEPT !.pc = "create"])
    /\ UNCHANGED <<idents, members, links, invites, states, starts, mails, logins, lost>>

LinkAccount(r) ==
    /\ At(r, "link")
    /\ \A k \in links : k.acct # req[r].acct
    /\ links' = links \cup {[acct |-> req[r].acct, ident |-> req[r].ident]}
    /\ Move(r, [req[r] EXCEPT !.pc = "mship"])
    /\ UNCHANGED <<idents, members, invites, states, starts, mails, logins, lost>>

GetMembership(r) ==
    /\ At(r, "mship")
    /\ LET h == req[r]
           found == Membership(h.ident, h.tenant) IN
        /\ \/ found # {} /\ h.op = "invite" /\ Move(r, [h EXCEPT !.pc = "drop"])
           \/ found # {} /\ h.op = "oauth" /\ Move(r, NoHandler)
           \/ found = {} /\ (h.op = "oauth" => h.allow) /\ Move(r, [h EXCEPT !.pc = "member"])
        /\ logins' = IF found # {} /\ h.op = "oauth" THEN [logins EXCEPT ![h.num][h.tenant] = @ + 1] ELSE logins
    /\ UNCHANGED <<idents, members, links, invites, states, starts, mails, lost>>

-----------------------------------------------------------------------------
\* An error path, or a request cut off between two statements: the rows written so far stay.
Fail(r) ==
    /\ ~At(r, "idle")
    /\ Move(r, NoHandler)
    /\ lost' = IF req[r].fresh THEN lost \cup {req[r].ident} ELSE lost
    /\ UNCHANGED <<idents, members, links, invites, states, starts, mails, logins>>

\* expires_at passes; for a state that is as good as RefuseState.
ExpireInvite ==
    /\ \E v \in invites : invites' = invites \ {v}
    /\ UNCHANGED <<idents, members, links, states, req, starts, mails, logins, lost>>

-----------------------------------------------------------------------------
(***************************************************************************)
(* The handlers of routes/auth.rs and routes/admin.rs, each its own steps. *)
(***************************************************************************)
In(r, op) == req[r].op = op

SignupRoute(r) ==
    \/ \E t \in Tenants, m \in Mobiles \cup {None}, e \in Email : Signup(r, t, e, m)
    \/ /\ In(r, "signup")
       /\ \/ LookupEmail(r) \/ LookupMobile(r) \/ SweepInvites(r) \/ InsertInvite(r)
          \/ CreateIdentity(r) \/ CreateMembership(r)

ResolveOrCreateIdentity(r) == In(r, "admin") /\ (LookupEmail(r) \/ LookupMobile(r) \/ CreateIdentity(r))

AdminCreateUserRoute(r) ==
    \/ \E t \in Tenants, m \in Mobiles \cup {None}, e \in EmailOpt, n \in Usernames \cup {None} :
          AdminCreateUser(r, t, e, m, n)
    \/ CheckUsername(r) \/ ResolveOrCreateIdentity(r) \/ (In(r, "admin") /\ CreateMembership(r))

VerifyMembership(r) ==
    \/ \E v \in invites : AcceptInvite(r, v)
    \/ In(r, "invite") /\ (GetMembership(r) \/ CreateMembership(r) \/ DropInvite(r))

OauthRedirect == \E t \in Tenants : AuthorizationUrl(t)

OauthCallback(r) ==
    \/ \E n \in DOMAIN states, p \in Profile, allow \in BOOLEAN : TakeState(r, n, p, allow)
    \/ /\ In(r, "oauth")
       /\ \/ GetLinkedIdentity(r) \/ LookupEmail(r) \/ ExistsByEmail(r) \/ CreateIdentity(r)
          \/ LinkAccount(r) \/ GetMembership(r) \/ CreateMembership(r)

Next ==
    \/ \E r \in Requests : SignupRoute(r) \/ AdminCreateUserRoute(r) \/ VerifyMembership(r) \/ OauthCallback(r) \/ Fail(r)
    \/ OauthRedirect
    \/ \E n \in DOMAIN states : RefuseState(n)
    \/ ExpireInvite

Spec == Init /\ [][Next]_vars

-----------------------------------------------------------------------------
(***************************************************************************)
(* TypeOK: the types, and every row refers to an identity that exists.     *)
(***************************************************************************)
TypeOK ==
    /\ \A i \in DOMAIN idents : idents[i] \in Identity
    /\ members \subseteq Member /\ links \subseteq Link /\ invites \subseteq Invite /\ mails \subseteq Mail
    /\ \A x \in members \cup links \cup invites : x.ident \in DOMAIN idents
    /\ \A n \in DOMAIN states : states[n] \in Flow
    /\ req \in [Requests -> Handler] /\ \A r \in Requests : req[r].ident \in 0..Len(idents)
    /\ starts \in 0..MaxStarts /\ lost \subseteq DOMAIN idents /\ Len(idents) <= starts
    /\ logins \in [Id -> [Tenants -> Nat]]

(***************************************************************************)
(* "An unverified email must never attach to (or shadow) an existing       *)
(* account": a provider account is linked to the identity created for it,  *)
(* or to one whose e-mail the provider verified for that account.          *)
(***************************************************************************)
OauthLinkProven ==
    \A k \in links :
        \/ idents[k.ident].acct = k.acct
        \/ \E n \in DOMAIN states : /\ states[n].acct = k.acct /\ states[n].verified
                                   /\ states[n].email.addr = idents[k.ident].email.addr

(***************************************************************************)
(* "do not silently attach": a membership is made by a signup for the      *)
(* identity that signup created; by an OAuth sign-in to that tenant for    *)
(* the identity its account is linked to; by an invite for that identity   *)
(* and tenant, mailed to the identity's own address if it has one.         *)
(***************************************************************************)
MembershipEarned ==
    \A u \in members : LET own == idents[u.ident].email IN
        /\ u.via = "signup" => u.fresh /\ idents[u.ident].by = "signup"
        /\ u.via = "oauth" => \E k \in links, n \in DOMAIN states :
              k.ident = u.ident /\ states[n].acct = k.acct /\ states[n].tenant = u.tenant
        /\ u.via = "invite" => \E x \in mails :
              x.invite.ident = u.ident /\ x.invite.tenant = u.tenant /\ (own # NoEmail => x.to = own)

(***************************************************************************)
(* An identity and its first membership are two statements: an identity    *)
(* nobody is a member through, and no handler still holds, was left by a   *)
(* creator that ended in an error (a lost race for the link or username    *)
(* included), and by nothing else.                                         *)
(***************************************************************************)
Held(i) == \E r \in Requests : req[r].fresh /\ req[r].ident = i
Orphans == {i \in DOMAIN idents : ~Held(i) /\ \A u \in members : u.ident # i}
OrphansExplained == Orphans \subseteq lost

(***************************************************************************)
(* "A state can be redeemed once": however callbacks interleave, a state   *)
(* leads to one OAuth sign-in at most, and to the tenant it was made for.  *)
(***************************************************************************)
StateRedeemedOnce ==
    \A n \in Id, t \in Tenants : logins[n][t] > 0 => logins[n][t] = 1 /\ states[n].tenant = t
=============================================================================
