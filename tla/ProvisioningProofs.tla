------------------------- MODULE ProvisioningProofs -------------------------
(***************************************************************************)
(* Proofs about Provisioning for every number of handlers, tenants,        *)
(* addresses, mobiles, usernames and accounts, and every bound: type       *)
(* correctness, how a provider account is linked, how a membership is      *)
(* earned, which identities are orphans, and that a state is redeemed      *)
(* once.                                                                   *)
(***************************************************************************)
EXTENDS Provisioning, TLAPS, FiniteSetTheorems

\* The labels of a handler that may still create an identity or mail an invite.
Pending == {"username", "email", "mobile", "create", "linked", "exists", "sweep", "insert"}

\* The labels of each operation, and what a handler's record says by itself.
ShapeOf(h) ==
    /\ h.pc = "idle" => h.op = None
    /\ h.op = "signup" => h.pc \in {"email", "mobile", "create", "sweep", "insert", "member"}
    /\ h.op = "admin" => h.pc \in {"username", "email", "mobile", "create", "member"}
    /\ h.op = "oauth" => h.pc \in {"linked", "email", "exists", "create", "link", "mship", "member"}
    /\ h.op = "invite" => h.pc \in {"mship", "member", "drop"}
    /\ h.op = None => h.pc = "idle"
    /\ h.pc # "idle" => h.tenant \in Tenants
    /\ h.fresh => h.pc \in {"link", "mship", "member"} /\ h.op # "invite"
    /\ h.op = "signup" /\ h.pc = "member" => h.fresh
    /\ h.op = "oauth" => h.acct \in Accounts
    /\ h.op = "oauth" /\ h.pc = "email" => h.verified

\* A provider account may be linked to an identity; an identity was invited to a tenant; an account
\* is linked to an identity.
Proven(a, i, ids, sts) ==
    \/ ids[i].acct = a
    \/ \E n \in DOMAIN sts : /\ sts[n].acct = a /\ sts[n].verified
                             /\ sts[n].email.addr = ids[i].email.addr
Invited(i, t, ids, mls) ==
    \E x \in mls : /\ x.invite.ident = i /\ x.invite.tenant = t
                   /\ ids[i].email # NoEmail => x.to = ids[i].email
Linked(a, i, lks) == \E k \in lks : k.acct = a /\ k.ident = i

\* What a handler holds is true of the identities, the states, the links and the mails.
FactsOf(h, ids, sts, lks, mls) ==
    /\ h.ident \in 0..Len(ids)
    /\ h.pc \in {"sweep", "insert", "link", "mship", "member", "drop"} => h.ident # 0
    /\ h.fresh => h.ident # 0 /\ ids[h.ident].by = h.op
    /\ h.op = "invite" => Invited(h.ident, h.tenant, ids, mls)
    /\ h.op = "oauth" =>
          /\ h.num \in DOMAIN sts /\ ~sts[h.num].live
          /\ sts[h.num].tenant = h.tenant /\ sts[h.num].acct = h.acct
          /\ h.verified => sts[h.num].verified
          /\ h.pc \in {"linked", "email"} => h.email = sts[h.num].email
    /\ h.op = "oauth" /\ h.pc = "link" => Proven(h.acct, h.ident, ids, sts)
    /\ h.op = "oauth" /\ h.pc \in {"mship", "member"} => Linked(h.acct, h.ident, lks)

\* The tables: every row refers to an identity that exists, and a live state was not answered yet.
Tables ==
    /\ idents \in Seq(Identity) /\ states \in Seq(Flow) /\ Len(states) <= MaxStates
    /\ members \subseteq Member /\ links \subseteq Link /\ invites \subseteq Invite /\ mails \subseteq Mail
    /\ \A x \in members \cup links \cup invites : x.ident \in DOMAIN idents
    /\ lost \subseteq DOMAIN idents
    /\ \A n \in DOMAIN states : states[n].live => states[n].acct = None
    /\ logins \in [Id -> [Tenants -> Nat]]

\* A handler creates one identity or mails one invite at most.
Unfinished == {r \in Requests : req[r].pc \in Pending}
Counted ==
    /\ starts \in 0..MaxStarts /\ IsFiniteSet(mails)
    /\ Len(idents) + Cardinality(mails) + Cardinality(Unfinished) <= starts

Typed ==
    /\ Tables /\ Counted
    /\ req \in [Requests -> Handler]
    /\ \A r \in Requests : ShapeOf(req[r]) /\ FactsOf(req[r], idents, states, links, mails)

\* Every row was earned, the invites that may become memberships included.
Earned ==
    /\ OauthLinkProven /\ MembershipEarned
    /\ \A v \in invites : Invited(v.ident, v.tenant, idents, mails)

\* A state is redeemed by the one handler that took it, and that handler has not signed in yet.
Redeemed ==
    /\ \A n \in Id, t \in Tenants :
          logins[n][t] > 0 => /\ logins[n][t] = 1 /\ n \in DOMAIN states
                              /\ ~states[n].live /\ states[n].tenant = t
    /\ \A r \in Requests :
          req[r].op = "oauth" => /\ logins[req[r].num][req[r].tenant] = 0
                                 /\ \A q \in Requests : req[q].op = "oauth" /\ q # r => req[q].num # req[r].num

Inv == Typed /\ Earned /\ OrphansExplained /\ Redeemed

-----------------------------------------------------------------------------
(***************************************************************************)
(* Tables that only grow.                                                  *)
(***************************************************************************)
LEMMA Constants ==
    /\ MaxStarts \in Nat /\ MaxStates \in Nat /\ IsFiniteSet(Requests)
    /\ None \notin Tenants \cup Mobiles \cup Usernames \cup Accounts \cup Addresses
BY ProvisioningAssumption

\* Identities are appended; a state that is no longer live stays as it is.
Longer(ids, ids2) == Len(ids) <= Len(ids2) /\ \A i \in DOMAIN ids : ids2[i] = ids[i]
Settled(sts, sts2) == Len(sts) <= Len(sts2) /\ \A n \in DOMAIN sts : ~sts[n].live => sts2[n] = sts[n]
Answered(sts) == \A n \in DOMAIN sts : sts[n].live => sts[n].acct = None

Grown ==
    /\ Longer(idents, idents') /\ Settled(states, states') /\ links \subseteq links' /\ mails \subseteq mails'

LEMMA SequenceFacts ==
    ASSUME NEW S, NEW s \in Seq(S)
    PROVE  Len(s) \in Nat /\ DOMAIN s = 1..Len(s) /\ \A i \in DOMAIN s : s[i] \in S
OBVIOUS

LEMMA AppendFacts ==
    ASSUME NEW S, NEW s \in Seq(S), NEW x \in S
    PROVE  /\ Append(s, x) \in Seq(S) /\ Len(Append(s, x)) = Len(s) + 1
           /\ \A i \in DOMAIN s : Append(s, x)[i] = s[i]
           /\ Append(s, x)[Len(s) + 1] = x
           /\ DOMAIN Append(s, x) = DOMAIN s \cup {Len(s) + 1}
<1>1. Len(s) \in Nat /\ DOMAIN s = 1..Len(s) OBVIOUS
<1>2. Append(s, x) \in Seq(S) /\ Len(Append(s, x)) = Len(s) + 1 OBVIOUS
<1>3. DOMAIN Append(s, x) = 1..(Len(s) + 1) BY <1>2
<1>4. DOMAIN Append(s, x) = DOMAIN s \cup {Len(s) + 1} BY <1>1, <1>3
<1>5. QED BY <1>1, <1>2, <1>4

\* What was proven, and who was invited, stays so.
LEMMA ProvenGrows ==
    ASSUME NEW a \in Accounts, NEW ids \in Seq(Identity), NEW ids2 \in Seq(Identity), NEW i \in DOMAIN ids,
           NEW sts \in Seq(Flow), NEW sts2 \in Seq(Flow), Longer(ids, ids2), Settled(sts, sts2), Answered(sts),
           Proven(a, i, ids, sts)
    PROVE  Proven(a, i, ids2, sts2)
<1>1. ids2[i] = ids[i] BY DEF Longer
<1>2. CASE ids[i].acct = a BY <1>1, <1>2 DEF Proven
<1>3. ASSUME NEW n \in DOMAIN sts, sts[n].acct = a, sts[n].verified, sts[n].email.addr = ids[i].email.addr
      PROVE  Proven(a, i, ids2, sts2)
    <2>1. ~sts[n].live BY <1>3, Constants DEF Answered
    <2>2. sts2[n] = sts[n] BY <2>1 DEF Settled
    <2>3. n \in DOMAIN sts2 BY DEF Settled
    <2>4. QED BY <1>1, <1>3, <2>2, <2>3 DEF Proven
<1>4. QED BY <1>2, <1>3 DEF Proven

LEMMA InvitedGrows ==
    ASSUME NEW ids \in Seq(Identity), NEW ids2 \in Seq(Identity), NEW i \in DOMAIN ids, NEW t, NEW mls, NEW mls2,
           Longer(ids, ids2), mls \subseteq mls2, Invited(i, t, ids, mls)
    PROVE  Invited(i, t, ids2, mls2)
<1>1. ids2[i] = ids[i] BY DEF Longer
<1>2. QED BY <1>1 DEF Invited

LEMMA FactsGrow ==
    ASSUME NEW h \in Handler, ShapeOf(h),
           NEW ids \in Seq(Identity), NEW ids2 \in Seq(Identity), NEW sts \in Seq(Flow), NEW sts2 \in Seq(Flow),
           NEW lks, NEW lks2, NEW mls, NEW mls2,
           Longer(ids, ids2), Settled(sts, sts2), Answered(sts), lks \subseteq lks2, mls \subseteq mls2,
           FactsOf(h, ids, sts, lks, mls)
    PROVE  FactsOf(h, ids2, sts2, lks2, mls2)
<1>1. Len(ids) \in Nat /\ DOMAIN ids = 1..Len(ids) /\ Len(ids2) \in Nat /\ Len(ids) <= Len(ids2) BY DEF Longer
<1>2. h.ident \in 0..Len(ids) BY DEF FactsOf
<1>3. h.ident \in 0..Len(ids2) BY <1>1, <1>2
<1>4. h.ident # 0 => h.ident \in DOMAIN ids BY <1>1, <1>2
<1>5. h.fresh => h.ident # 0 /\ ids2[h.ident].by = h.op BY <1>4 DEF FactsOf, Longer
<1>6. h.op = "invite" => Invited(h.ident, h.tenant, ids2, mls2)
    <2>1. h.op = "invite" => h.ident # 0 BY DEF FactsOf, ShapeOf
    <2>2. QED BY <1>4, <2>1, InvitedGrows DEF FactsOf
<1>7. ASSUME h.op = "oauth"
      PROVE  /\ h.num \in DOMAIN sts2 /\ ~sts2[h.num].live
             /\ sts2[h.num].tenant = h.tenant /\ sts2[h.num].acct = h.acct
             /\ h.verified => sts2[h.num].verified
             /\ h.pc \in {"linked", "email"} => h.email = sts2[h.num].email
    <2>1. h.num \in DOMAIN sts /\ ~sts[h.num].live BY <1>7 DEF FactsOf
    <2>2. sts2[h.num] = sts[h.num] BY <2>1 DEF Settled
    <2>3. h.num \in DOMAIN sts2 BY <2>1 DEF Settled
    <2>4. QED BY <1>7, <2>2, <2>3 DEF FactsOf
<1>8. ASSUME h.op = "oauth", h.pc = "link" PROVE Proven(h.acct, h.ident, ids2, sts2)
    <2>1. h.acct \in Accounts /\ h.ident # 0 /\ Proven(h.acct, h.ident, ids, sts) BY <1>8 DEF FactsOf, ShapeOf
    <2>2. QED BY <1>4, <2>1, ProvenGrows
<1>9. h.op = "oauth" /\ h.pc \in {"mship", "member"} => Linked(h.acct, h.ident, lks2) BY DEF FactsOf, Linked
<1>10. QED BY <1>3, <1>5, <1>6, <1>7, <1>8, <1>9 DEF FactsOf

LEMMA LongerItself == ASSUME NEW ids \in Seq(Identity) PROVE Longer(ids, ids)
BY DEF Longer

LEMMA SettledItself == ASSUME NEW sts \in Seq(Flow) PROVE Settled(sts, sts)
BY DEF Settled

-----------------------------------------------------------------------------
(***************************************************************************)
(* One handler's record changes.                                           *)
(***************************************************************************)
Moved(r, h) ==
    /\ req' = [req EXCEPT ![r] = h] /\ h \in Handler
    /\ ShapeOf(h) /\ FactsOf(h, idents', states', links', mails')

LEMMA MovedRecords ==
    ASSUME Typed, NEW r \in Requests, NEW h, Moved(r, h)
    PROVE  req' \in [Requests -> Handler] /\ req'[r] = h /\ \A q \in Requests : q # r => req'[q] = req[q]
BY DEF Moved, Typed

LEMMA TablesSequences ==
    ASSUME Tables
    PROVE  /\ idents \in Seq(Identity) /\ states \in Seq(Flow) /\ Answered(states)
           /\ Len(idents) \in Nat /\ DOMAIN idents = 1..Len(idents)
           /\ Len(states) \in Nat /\ DOMAIN states = 1..Len(states)
BY DEF Tables, Answered

LEMMA GrownFacts ==
    ASSUME Typed, Tables', Grown, NEW q \in Requests
    PROVE  FactsOf(req[q], idents', states', links', mails')
<1>1. /\ req[q] \in Handler /\ ShapeOf(req[q]) /\ FactsOf(req[q], idents, states, links, mails)
      /\ idents \in Seq(Identity) /\ states \in Seq(Flow) /\ Answered(states)
    BY TablesSequences DEF Typed
<1>2. idents' \in Seq(Identity) /\ states' \in Seq(Flow) BY DEF Tables
<1>3. QED BY <1>1, <1>2, FactsGrow DEF Grown

LEMMA TypedKept ==
    ASSUME Typed, NEW r \in Requests, NEW h, Moved(r, h), Tables', Counted', Grown
    PROVE  Typed'
<1>1. req' \in [Requests -> Handler] /\ req'[r] = h /\ \A q \in Requests : q # r => req'[q] = req[q]
    BY MovedRecords
<1>2. ASSUME NEW q \in Requests PROVE ShapeOf(req'[q]) /\ FactsOf(req'[q], idents', states', links', mails')
    <2>1. CASE q = r BY <1>1, <2>1 DEF Moved
    <2>2. CASE q # r BY <1>1, <2>2, GrownFacts DEF Typed
    <2>3. QED BY <2>1, <2>2
<1>3. QED BY <1>1, <1>2 DEF Typed

\* A record with the same labels and fields but a new label.
LEMMA HandlerParts ==
    ASSUME Typed, NEW r \in Requests
    PROVE  /\ req[r] \in Handler /\ ShapeOf(req[r]) /\ FactsOf(req[r], idents, states, links, mails)
BY DEF Typed

LEMMA IdleHandler ==
    /\ NoHandler \in Handler /\ ShapeOf(NoHandler)
    /\ NoHandler.pc = "idle" /\ NoHandler.op = None /\ NoHandler.fresh = FALSE /\ NoHandler.ident = 0
    /\ NoHandler.verified = FALSE
<1>1. /\ NoHandler.pc = "idle" /\ NoHandler.op = None /\ NoHandler.fresh = FALSE /\ NoHandler.ident = 0
      /\ NoHandler.verified = FALSE
    BY DEF NoHandler
<1>2. NoHandler \in Handler BY DEF NoHandler, Handler, Label, EmailOpt, IdOpt
<1>3. QED BY <1>1, <1>2 DEF ShapeOf, None

LEMMA IdleFacts ==
    ASSUME NEW ids \in Seq(Identity), NEW sts, NEW lks, NEW mls
    PROVE  FactsOf(NoHandler, ids, sts, lks, mls)
BY IdleHandler DEF FactsOf, None

LEMMA MovedIdle ==
    ASSUME Typed, Tables', NEW r \in Requests, Move(r, NoHandler)
    PROVE  Moved(r, NoHandler)
<1>1. idents' \in Seq(Identity) BY DEF Tables
<1>2. QED BY <1>1, IdleHandler, IdleFacts DEF Moved, Move

-----------------------------------------------------------------------------
(***************************************************************************)
(* Counting: a handler creates one identity or mails one invite at most.   *)
(***************************************************************************)
LEMMA UnfinishedSize ==
    ASSUME NEW S, S \subseteq Requests
    PROVE  IsFiniteSet(S) /\ Cardinality(S) \in Nat
BY Constants, FS_Subset, FS_CardinalityType

LEMMA UnfinishedKept ==
    ASSUME Typed, NEW r \in Requests, NEW h, Moved(r, h)
    PROVE  /\ h.pc \in Pending => Unfinished' = Unfinished \cup {r}
           /\ h.pc \notin Pending => Unfinished' = Unfinished \ {r}
BY MovedRecords DEF Unfinished

LEMMA CountedNumbers ==
    ASSUME Typed
    PROVE  /\ starts \in Nat /\ Len(idents) \in Nat /\ Cardinality(mails) \in Nat /\ Cardinality(Unfinished) \in Nat
           /\ starts <= MaxStarts /\ Len(idents) + Cardinality(mails) + Cardinality(Unfinished) <= starts
           /\ IsFiniteSet(mails) /\ IsFiniteSet(Unfinished)
<1>1. Len(idents) \in Nat BY TablesSequences DEF Typed
<1>2. starts \in Nat /\ starts <= MaxStarts BY Constants DEF Typed, Counted
<1>3. IsFiniteSet(mails) /\ Cardinality(mails) \in Nat BY FS_CardinalityType DEF Typed, Counted
<1>4. IsFiniteSet(Unfinished) /\ Cardinality(Unfinished) \in Nat BY UnfinishedSize DEF Unfinished
<1>5. QED BY <1>1, <1>2, <1>3, <1>4 DEF Typed, Counted

\* A step that creates and mails nothing.
LEMMA CountedQuiet ==
    ASSUME Typed, NEW r \in Requests, NEW h, Moved(r, h), UNCHANGED <<idents, mails, starts>>,
           h.pc \in Pending => req[r].pc \in Pending
    PROVE  Counted'
<1>1. Unfinished' \subseteq Unfinished BY UnfinishedKept DEF Unfinished
<1>2. Cardinality(Unfinished') <= Cardinality(Unfinished) BY <1>1, CountedNumbers, FS_Subset
<1>3. Cardinality(Unfinished') \in Nat BY <1>1, UnfinishedSize DEF Unfinished
<1>4. Len(idents) + Cardinality(mails) + Cardinality(Unfinished') <= starts BY <1>2, <1>3, CountedNumbers
<1>5. QED BY <1>4 DEF Typed, Counted

\* A handler starts.
LEMMA CountedStart ==
    ASSUME Typed, NEW r \in Requests, NEW h, Moved(r, h), UNCHANGED <<idents, mails>>,
           starts < MaxStarts, starts' = starts + 1
    PROVE  Counted'
<1>1. Unfinished' \subseteq Unfinished \cup {r} BY UnfinishedKept DEF Unfinished
<1>2. IsFiniteSet(Unfinished \cup {r}) /\ Cardinality(Unfinished \cup {r}) <= Cardinality(Unfinished) + 1
    <2>1. IsFiniteSet(Unfinished) /\ Cardinality(Unfinished) \in Nat BY CountedNumbers
    <2>2. /\ IsFiniteSet(Unfinished \cup {r})
          /\ \/ Cardinality(Unfinished \cup {r}) = Cardinality(Unfinished)
             \/ Cardinality(Unfinished \cup {r}) = Cardinality(Unfinished) + 1
        BY <2>1, FS_AddElement
    <2>3. QED BY <2>1, <2>2
<1>3. Cardinality(Unfinished') <= Cardinality(Unfinished \cup {r}) BY <1>1, <1>2, FS_Subset
<1>4. Cardinality(Unfinished') \in Nat /\ Cardinality(Unfinished \cup {r}) \in Nat
    BY <1>1, UnfinishedSize DEF Unfinished
<1>5. Len(idents) + Cardinality(mails) + Cardinality(Unfinished') <= starts + 1
    BY <1>2, <1>3, <1>4, CountedNumbers
<1>6. starts' \in 0..MaxStarts BY CountedNumbers, Constants
<1>7. QED BY <1>5, <1>6 DEF Typed, Counted

\* A handler creates its identity, or mails its invite.
LEMMA CountedDone ==
    ASSUME Typed, NEW r \in Requests, NEW h, Moved(r, h), starts' = starts,
           req[r].pc \in Pending, h.pc \notin Pending, IsFiniteSet(mails'), Len(idents') \in Nat,
           Len(idents') + Cardinality(mails') <= Len(idents) + Cardinality(mails) + 1
    PROVE  Counted'
<1>1. Unfinished' = Unfinished \ {r} /\ r \in Unfinished BY UnfinishedKept DEF Unfinished
<1>2. Cardinality(Unfinished') = Cardinality(Unfinished) - 1 BY <1>1, CountedNumbers, FS_RemoveElement
<1>3. Cardinality(mails') \in Nat BY FS_CardinalityType
<1>4. Len(idents') + Cardinality(mails') + Cardinality(Unfinished') <= starts BY <1>2, <1>3, CountedNumbers
<1>5. QED BY <1>4 DEF Typed, Counted

-----------------------------------------------------------------------------
(***************************************************************************)
(* What a step leaves of each invariant.                                   *)
(***************************************************************************)

\* A row that was earned stays earned when the tables grow.
LinkEarned(k, ids, sts) == Proven(k.acct, k.ident, ids, sts)
MemberEarned(u, ids, sts, lks, mls) ==
    /\ u.via = "signup" => u.fresh /\ ids[u.ident].by = "signup"
    /\ u.via = "oauth" => \E k \in lks, n \in DOMAIN sts :
          k.ident = u.ident /\ sts[n].acct = k.acct /\ sts[n].tenant = u.tenant
    /\ u.via = "invite" => Invited(u.ident, u.tenant, ids, mls)

LEMMA EarnedRows ==
    Earned <=> /\ \A k \in links : LinkEarned(k, idents, states)
               /\ \A u \in members : MemberEarned(u, idents, states, links, mails)
               /\ \A v \in invites : Invited(v.ident, v.tenant, idents, mails)
<1>1. OauthLinkProven <=> \A k \in links : LinkEarned(k, idents, states)
    BY DEF OauthLinkProven, LinkEarned, Proven
<1>2. MembershipEarned <=> \A u \in members : MemberEarned(u, idents, states, links, mails)
    BY DEF MembershipEarned, MemberEarned, Invited
<1>3. QED BY <1>1, <1>2 DEF Earned

LEMMA EarnedRowsNext ==
    Earned' <=> /\ \A k \in links' : LinkEarned(k, idents', states')
                /\ \A u \in members' : MemberEarned(u, idents', states', links', mails')
                /\ \A v \in invites' : Invited(v.ident, v.tenant, idents', mails')
<1>1. OauthLinkProven' <=> \A k \in links' : LinkEarned(k, idents', states')
    BY DEF OauthLinkProven, LinkEarned, Proven
<1>2. MembershipEarned' <=> \A u \in members' : MemberEarned(u, idents', states', links', mails')
    BY DEF MembershipEarned, MemberEarned, Invited
<1>3. QED BY <1>1, <1>2 DEF Earned

LEMMA EarnedGrows ==
    ASSUME Typed, Earned, Tables', Grown
    PROVE  /\ \A k \in links : LinkEarned(k, idents', states')
           /\ \A u \in members : MemberEarned(u, idents', states', links', mails')
           /\ \A v \in invites : Invited(v.ident, v.tenant, idents', mails')
<1>1. /\ idents \in Seq(Identity) /\ states \in Seq(Flow) /\ Answered(states)
      /\ idents' \in Seq(Identity) /\ states' \in Seq(Flow)
      /\ Longer(idents, idents') /\ Settled(states, states') /\ links \subseteq links' /\ mails \subseteq mails'
    BY TablesSequences DEF Typed, Tables, Grown
<1>2. ASSUME NEW k \in links PROVE LinkEarned(k, idents', states')
    <2>1. k.acct \in Accounts /\ k.ident \in DOMAIN idents BY DEF Typed, Tables, Link
    <2>2. Proven(k.acct, k.ident, idents, states) BY EarnedRows DEF LinkEarned
    <2>3. QED BY <1>1, <2>1, <2>2, ProvenGrows DEF LinkEarned
<1>3. ASSUME NEW u \in members PROVE MemberEarned(u, idents', states', links', mails')
    <2>1. u.ident \in DOMAIN idents /\ MemberEarned(u, idents, states, links, mails)
        BY EarnedRows DEF Typed, Tables
    <2>2. u.via = "signup" => u.fresh /\ idents'[u.ident].by = "signup" BY <1>1, <2>1 DEF MemberEarned, Longer
    <2>3. ASSUME u.via = "oauth"
          PROVE  \E k \in links', n \in DOMAIN states' :
                    k.ident = u.ident /\ states'[n].acct = k.acct /\ states'[n].tenant = u.tenant
        <3>1. PICK k \in links, n \in DOMAIN states :
                    k.ident = u.ident /\ states[n].acct = k.acct /\ states[n].tenant = u.tenant
            BY <2>1, <2>3 DEF MemberEarned
        <3>2. k.acct \in Accounts BY DEF Typed, Tables, Link
        <3>3. ~states[n].live BY <1>1, <3>1, <3>2, Constants DEF Answered
        <3>4. states'[n] = states[n] /\ n \in DOMAIN states' BY <1>1, <3>3 DEF Settled
        <3>5. QED BY <1>1, <3>1, <3>4
    <2>4. u.via = "invite" => Invited(u.ident, u.tenant, idents', mails')
        BY <1>1, <2>1, InvitedGrows DEF MemberEarned
    <2>5. QED BY <2>2, <2>3, <2>4 DEF MemberEarned
<1>4. ASSUME NEW v \in invites PROVE Invited(v.ident, v.tenant, idents', mails')
    <2>1. v.ident \in DOMAIN idents /\ Invited(v.ident, v.tenant, idents, mails) BY DEF Earned, Typed, Tables
    <2>2. QED BY <1>1, <2>1, InvitedGrows
<1>5. QED BY <1>2, <1>3, <1>4

LEMMA EarnedKept ==
    ASSUME Typed, Earned, Tables', Grown, links' = links, members' = members, invites' \subseteq invites
    PROVE  Earned'
BY EarnedGrows, EarnedRowsNext

\* No identity is abandoned unless it has a member, or is known to be lost.
LEMMA OrphansKept ==
    ASSUME Typed, OrphansExplained, NEW r \in Requests, NEW h, Moved(r, h), idents' = idents,
           members \subseteq members', lost \subseteq lost',
           req[r].fresh => \/ h.fresh /\ h.ident = req[r].ident
                           \/ req[r].ident \in lost'
                           \/ \E u \in members' : u.ident = req[r].ident
    PROVE  OrphansExplained'
<1> SUFFICES ASSUME NEW i \in DOMAIN idents, \A q \in Requests : ~(req'[q].fresh /\ req'[q].ident = i),
                    \A u \in members' : u.ident # i
             PROVE  i \in lost'
    BY DEF OrphansExplained, Orphans, Held
<1>1. req'[r] = h /\ \A q \in Requests : q # r => req'[q] = req[q] BY MovedRecords
<1>2. CASE req[r].fresh /\ req[r].ident = i BY <1>1, <1>2
<1>3. CASE ~(req[r].fresh /\ req[r].ident = i)
    <2>1. \A q \in Requests : ~(req[q].fresh /\ req[q].ident = i) BY <1>1, <1>3
    <2>2. \A u \in members : u.ident # i OBVIOUS
    <2>3. i \in lost BY <2>1, <2>2 DEF OrphansExplained, Orphans, Held
    <2>4. QED BY <2>3
<1>4. QED BY <1>2, <1>3

LEMMA RedeemedKept ==
    ASSUME Typed, Redeemed, NEW r \in Requests, NEW h, Moved(r, h), logins' = logins, Grown, Tables',
           h.op = "oauth" => req[r].op = "oauth" /\ h.num = req[r].num /\ h.tenant = req[r].tenant
    PROVE  Redeemed'
<1>1. req'[r] = h /\ \A q \in Requests : q # r => req'[q] = req[q] BY MovedRecords
<1>2. \A q \in Requests : req'[q].op = "oauth" =>
          req[q].op = "oauth" /\ req'[q].num = req[q].num /\ req'[q].tenant = req[q].tenant
    BY <1>1
<1>3. ASSUME NEW n \in Id, NEW t \in Tenants, logins[n][t] > 0
      PROVE  logins[n][t] = 1 /\ n \in DOMAIN states' /\ ~states'[n].live /\ states'[n].tenant = t
    <2>1. logins[n][t] = 1 /\ n \in DOMAIN states /\ ~states[n].live /\ states[n].tenant = t
        BY <1>3 DEF Redeemed
    <2>2. states'[n] = states[n] BY <2>1 DEF Grown, Settled
    <2>3. n \in DOMAIN states'
        <3>1. states \in Seq(Flow) /\ states' \in Seq(Flow) BY DEF Typed, Tables
        <3>2. QED BY <2>1, <3>1 DEF Grown, Settled
    <2>4. QED BY <2>1, <2>2, <2>3
<1>4. QED BY <1>2, <1>3 DEF Redeemed

\* A step that changes its handler, and of the tables only drops invites.
LEMMA InvQuiet ==
    ASSUME Inv, NEW r \in Requests, NEW h, Moved(r, h),
           UNCHANGED <<idents, members, links, states, mails, logins, lost>>, invites' \subseteq invites,
           \/ starts' = starts /\ (h.pc \in Pending => req[r].pc \in Pending)
           \/ starts < MaxStarts /\ starts' = starts + 1,
           h.op = "oauth" => req[r].op = "oauth" /\ h.num = req[r].num /\ h.tenant = req[r].tenant,
           req[r].fresh => \/ h.fresh /\ h.ident = req[r].ident
                           \/ \E u \in members : u.ident = req[r].ident
    PROVE  Inv'
<1>1. Tables' BY DEF Inv, Typed, Tables
<1>2. Grown BY LongerItself, SettledItself DEF Grown, Inv, Typed, Tables
<1>3. Counted' BY CountedQuiet, CountedStart DEF Inv
<1>4. Typed' BY <1>1, <1>2, <1>3, TypedKept DEF Inv
<1>5. Earned' BY <1>1, <1>2, EarnedKept DEF Inv
<1>6. OrphansExplained' BY OrphansKept DEF Inv
<1>7. Redeemed' BY <1>1, <1>2, RedeemedKept DEF Inv
<1>8. QED BY <1>4, <1>5, <1>6, <1>7 DEF Inv

-----------------------------------------------------------------------------
(***************************************************************************)
(* The steps that change nothing but their handler, and drop invites.      *)
(***************************************************************************)
LEMMA IdleRequest ==
    ASSUME Inv, NEW r \in Requests, At(r, "idle")
    PROVE  req[r].pc = "idle" /\ req[r].op = None /\ ~req[r].fresh
BY HandlerParts DEF Inv, At, ShapeOf

LEMMA SignupKeeps ==
    ASSUME Inv, NEW r \in Requests, NEW t \in Tenants, NEW e \in Email, NEW m \in Mobiles \cup {None},
           Signup(r, t, e, m)
    PROVE  Inv'
<1> DEFINE h == [NoHandler EXCEPT !.pc = "email", !.op = "signup", !.tenant = t, !.email = e, !.mobile = m]
<1>1. /\ h \in Handler /\ h.pc = "email" /\ h.op = "signup" /\ h.tenant = t /\ h.fresh = FALSE /\ h.ident = 0
    BY DEF NoHandler, Handler, Label, EmailOpt, IdOpt
<1>2. /\ At(r, "idle") /\ starts < MaxStarts /\ starts' = starts + 1 /\ req' = [req EXCEPT ![r] = h]
      /\ UNCHANGED <<idents, members, links, invites, states, mails, logins, lost>>
    BY DEF Signup, Start, Move
<1> HIDE DEF h
<1>3. idents \in Seq(Identity) BY DEF Inv, Typed, Tables
<1>4. ShapeOf(h) BY <1>1 DEF ShapeOf, None
<1>5. FactsOf(h, idents', states', links', mails') BY <1>1, <1>2, <1>3 DEF FactsOf
<1>6. Moved(r, h) BY <1>1, <1>2, <1>4, <1>5 DEF Moved
<1>7. QED BY <1>1, <1>2, <1>6, IdleRequest, InvQuiet

LEMMA AdminCreateUserKeeps ==
    ASSUME Inv, NEW r \in Requests, NEW t \in Tenants, NEW e \in EmailOpt, NEW m \in Mobiles \cup {None},
           NEW n \in Usernames \cup {None}, AdminCreateUser(r, t, e, m, n)
    PROVE  Inv'
<1> DEFINE h == [NoHandler EXCEPT !.pc = "username", !.op = "admin", !.tenant = t, !.email = e,
                                  !.mobile = m, !.username = n]
<1>1. /\ h \in Handler /\ h.pc = "username" /\ h.op = "admin" /\ h.tenant = t /\ h.fresh = FALSE /\ h.ident = 0
    BY DEF NoHandler, Handler, Label, IdOpt
<1>2. /\ At(r, "idle") /\ starts < MaxStarts /\ starts' = starts + 1 /\ req' = [req EXCEPT ![r] = h]
      /\ UNCHANGED <<idents, members, links, invites, states, mails, logins, lost>>
    BY DEF AdminCreateUser, Start, Move
<1> HIDE DEF h
<1>3. idents \in Seq(Identity) BY DEF Inv, Typed, Tables
<1>4. ShapeOf(h) BY <1>1 DEF ShapeOf, None
<1>5. FactsOf(h, idents', states', links', mails') BY <1>1, <1>2, <1>3 DEF FactsOf
<1>6. Moved(r, h) BY <1>1, <1>2, <1>4, <1>5 DEF Moved
<1>7. QED BY <1>1, <1>2, <1>6, IdleRequest, InvQuiet

LEMMA AcceptInviteKeeps ==
    ASSUME Inv, NEW r \in Requests, NEW v \in invites, AcceptInvite(r, v)
    PROVE  Inv'
<1> DEFINE h == [NoHandler EXCEPT !.pc = "mship", !.op = "invite", !.tenant = v.tenant,
                                  !.ident = v.ident, !.num = v.num]
<1>1. v \in Invite /\ v.ident \in DOMAIN idents /\ Invited(v.ident, v.tenant, idents, mails)
    BY DEF Inv, Typed, Tables, Earned
<1>2. v.tenant \in Tenants /\ v.ident \in Id /\ v.num \in Id BY <1>1 DEF Invite
<1>3. /\ h \in Handler /\ h.pc = "mship" /\ h.op = "invite" /\ h.tenant = v.tenant /\ h.fresh = FALSE
      /\ h.ident = v.ident
    BY <1>2 DEF NoHandler, Handler, Label, EmailOpt, IdOpt
<1>4. /\ At(r, "idle") /\ starts < MaxStarts /\ starts' = starts + 1 /\ req' = [req EXCEPT ![r] = h]
      /\ UNCHANGED <<idents, members, links, invites, states, mails, logins, lost>>
    BY DEF AcceptInvite, Start, Move
<1> HIDE DEF h
<1>5. Len(idents) \in Nat /\ DOMAIN idents = 1..Len(idents) BY TablesSequences DEF Inv, Typed
<1>6. ShapeOf(h) BY <1>2, <1>3 DEF ShapeOf, None
<1>7. FactsOf(h, idents', states', links', mails') BY <1>1, <1>3, <1>4, <1>5 DEF FactsOf
<1>8. Moved(r, h) BY <1>3, <1>4, <1>6, <1>7 DEF Moved
<1>9. QED BY <1>3, <1>4, <1>8, IdleRequest, InvQuiet

\* A handler goes on to another label; what it holds it keeps.
LEMMA GoesOn ==
    ASSUME Inv, NEW r \in Requests, NEW l \in Label, l # "idle", req[r].pc # "idle",
           req' = [req EXCEPT ![r] = [req[r] EXCEPT !.pc = l]],
           UNCHANGED <<idents, members, links, states, starts, mails, logins, lost>>, invites' \subseteq invites,
           ShapeOf([req[r] EXCEPT !.pc = l]), FactsOf([req[r] EXCEPT !.pc = l], idents, states, links, mails),
           l \in Pending => req[r].pc \in Pending
    PROVE  Inv'
<1> DEFINE h == [req[r] EXCEPT !.pc = l]
<1>1. req[r] \in Handler BY HandlerParts DEF Inv
<1>2. /\ h \in Handler /\ h.pc = l /\ h.op = req[r].op /\ h.num = req[r].num /\ h.tenant = req[r].tenant
      /\ h.fresh = req[r].fresh /\ h.ident = req[r].ident
    BY <1>1 DEF Handler
<1>3. Moved(r, h) BY <1>2 DEF Moved
<1> HIDE DEF h
<1>4. QED BY <1>2, <1>3, InvQuiet

\* The fields of a handler that only changed its label.
LEMMA LabelFields ==
    ASSUME NEW g \in Handler, NEW l \in Label, NEW h, h = [g EXCEPT !.pc = l]
    PROVE  /\ h.pc = l /\ h.op = g.op /\ h.tenant = g.tenant /\ h.email = g.email /\ h.acct = g.acct
           /\ h.verified = g.verified /\ h.ident = g.ident /\ h.num = g.num /\ h.fresh = g.fresh
BY DEF Handler

LEMMA CheckUsernameKeeps ==
    ASSUME Inv, NEW r \in Requests, CheckUsername(r)
    PROVE  Inv'
<1> DEFINE g == req[r]
           h == [g EXCEPT !.pc = "email"]
<1>1. g \in Handler /\ ShapeOf(g) /\ FactsOf(g, idents, states, links, mails) /\ g.pc = "username"
    BY HandlerParts DEF Inv, CheckUsername, At
<1>2. "email" \in Label BY DEF Label
<1> HIDE DEF g
<1>3. /\ h.pc = "email" /\ h.op = g.op /\ h.tenant = g.tenant /\ h.email = g.email /\ h.acct = g.acct
      /\ h.verified = g.verified /\ h.ident = g.ident /\ h.num = g.num /\ h.fresh = g.fresh
    BY <1>1, <1>2, LabelFields
<1> HIDE DEF h
<1>4. g.op = "admin" BY <1>1 DEF ShapeOf, Handler, None
<1>5. ShapeOf(h) BY <1>1, <1>3, <1>4 DEF ShapeOf, None
<1>6. FactsOf(h, idents, states, links, mails) BY <1>1, <1>3, <1>4 DEF FactsOf
<1>7. QED BY <1>1, <1>2, <1>5, <1>6, GoesOn DEF g, h, CheckUsername, Move, Pending

LEMMA SweepInvitesKeeps ==
    ASSUME Inv, NEW r \in Requests, SweepInvites(r)
    PROVE  Inv'
<1> DEFINE g == req[r]
           h == [g EXCEPT !.pc = "insert"]
<1>1. g \in Handler /\ ShapeOf(g) /\ FactsOf(g, idents, states, links, mails) /\ g.pc = "sweep"
    BY HandlerParts DEF Inv, SweepInvites, At
<1>2. "insert" \in Label BY DEF Label
<1> HIDE DEF g
<1>3. /\ h.pc = "insert" /\ h.op = g.op /\ h.tenant = g.tenant /\ h.email = g.email /\ h.acct = g.acct
      /\ h.verified = g.verified /\ h.ident = g.ident /\ h.num = g.num /\ h.fresh = g.fresh
    BY <1>1, <1>2, LabelFields
<1> HIDE DEF h
<1>4. g.op = "signup" BY <1>1 DEF ShapeOf, Handler, None
<1>5. ShapeOf(h) BY <1>1, <1>3, <1>4 DEF ShapeOf, None
<1>6. FactsOf(h, idents, states, links, mails) BY <1>1, <1>3, <1>4 DEF FactsOf
<1>7. invites' \subseteq invites /\ UNCHANGED <<idents, members, links, states, starts, mails, logins, lost>>
    BY DEF SweepInvites
<1>8. req' = [req EXCEPT ![r] = h] BY DEF SweepInvites, Move, g, h
<1>9. QED BY <1>1, <1>2, <1>5, <1>6, <1>7, <1>8, GoesOn DEF g, h, Pending

LEMMA ExistsByEmailKeeps ==
    ASSUME Inv, NEW r \in Requests, ExistsByEmail(r)
    PROVE  Inv'
<1> DEFINE g == req[r]
           h == [g EXCEPT !.pc = "create"]
<1>1. g \in Handler /\ ShapeOf(g) /\ FactsOf(g, idents, states, links, mails) /\ g.pc = "exists"
    BY HandlerParts DEF Inv, ExistsByEmail, At
<1>2. "create" \in Label BY DEF Label
<1> HIDE DEF g
<1>3. /\ h.pc = "create" /\ h.op = g.op /\ h.tenant = g.tenant /\ h.email = g.email /\ h.acct = g.acct
      /\ h.verified = g.verified /\ h.ident = g.ident /\ h.num = g.num /\ h.fresh = g.fresh
    BY <1>1, <1>2, LabelFields
<1> HIDE DEF h
<1>4. g.op = "oauth" BY <1>1 DEF ShapeOf, Handler, None
<1>5. ShapeOf(h) BY <1>1, <1>3, <1>4 DEF ShapeOf, None
<1>6. FactsOf(h, idents, states, links, mails) BY <1>1, <1>3, <1>4 DEF FactsOf
<1>7. QED BY <1>1, <1>2, <1>5, <1>6, GoesOn DEF g, h, ExistsByEmail, Move, Pending

\* DropInvite ends its handler; so does whatever finds the membership there already.
LEMMA DropInviteKeeps ==
    ASSUME Inv, NEW r \in Requests, DropInvite(r)
    PROVE  Inv'
<1>1. invites' \subseteq invites /\ UNCHANGED <<idents, members, links, states, starts, mails, logins, lost>>
    BY DEF DropInvite
<1>2. Tables' BY <1>1 DEF Inv, Typed, Tables
<1>3. Moved(r, NoHandler) BY <1>2, MovedIdle DEF DropInvite, Inv
<1>4. ~req[r].fresh BY HandlerParts DEF Inv, ShapeOf, DropInvite, At
<1>5. QED BY <1>1, <1>3, <1>4, IdleHandler, InvQuiet DEF Pending, None

\* An existing identity takes the handler to its own continuation; an OAuth sign-in has proven it.
LEMMA CollideKeeps ==
    ASSUME Inv, NEW r \in Requests, NEW i \in DOMAIN idents, req[r].pc \in {"email", "mobile"},
           Move(r, Collide(req[r], i)), req[r].op = "oauth" => Proven(req[r].acct, i, idents, states),
           UNCHANGED <<idents, members, links, invites, states, starts, mails, logins, lost>>
    PROVE  Inv'
<1> DEFINE g == req[r]
           h == Collide(g, i)
           l == Collision[g.op]
           e == IF g.op = "signup" THEN g.email ELSE NoEmail
<1>1. g \in Handler /\ ShapeOf(g) /\ FactsOf(g, idents, states, links, mails) /\ ~g.fresh
    BY HandlerParts DEF Inv, ShapeOf
<1>2. g.op \in {"signup", "admin", "oauth"} /\ g.tenant \in Tenants
    BY <1>1 DEF ShapeOf, Handler, None
<1>3. /\ g.op = "signup" => l = "sweep"
      /\ g.op = "admin" => l = "member"
      /\ g.op = "oauth" => l = "link"
    BY DEF Collision
<1>4. l \in Label BY <1>2, <1>3 DEF Label
<1>5. i \in 1..Len(idents) /\ Len(idents) \in Nat BY TablesSequences DEF Inv, Typed
<1>6. i \in IdOpt
    <2>1. Len(idents) <= MaxStarts BY CountedNumbers, Constants DEF Inv
    <2>2. QED BY <1>5, <2>1, Constants DEF IdOpt, Id
<1>7. e \in EmailOpt BY <1>1 DEF Handler, EmailOpt
<1>8. h = [g EXCEPT !.pc = l, !.ident = i, !.mobile = None, !.email = e] BY <1>1 DEF Collide, Handler
<1>9. req' = [req EXCEPT ![r] = h] BY DEF Move
<1> HIDE DEF g, h, l, e
<1>10. /\ h.pc = l /\ h.op = g.op /\ h.tenant = g.tenant /\ h.acct = g.acct
       /\ h.verified = g.verified /\ h.ident = i /\ h.num = g.num /\ h.fresh = g.fresh
    BY <1>1, <1>8 DEF Handler
<1>11. h \in Handler BY <1>1, <1>4, <1>6, <1>7, <1>8 DEF Handler
<1>12. ShapeOf(h) BY <1>1, <1>2, <1>3, <1>10 DEF ShapeOf, None
<1>13. FactsOf(h, idents, states, links, mails)
    <2>1. i \in 0..Len(idents) /\ i # 0 BY <1>5
    <2>2. CASE g.op = "oauth" BY <1>1, <1>3, <1>10, <2>1, <2>2 DEF FactsOf, g
    <2>3. CASE g.op \in {"signup", "admin"} BY <1>1, <1>3, <1>10, <2>1, <2>3 DEF FactsOf
    <2>4. QED BY <1>2, <2>2, <2>3
<1>14. Moved(r, h) BY <1>9, <1>11, <1>12, <1>13 DEF Moved
<1>15. h.pc \in Pending => g.pc \in Pending BY DEF g, Pending
<1>16. h.op = "oauth" => g.op = "oauth" /\ h.num = g.num /\ h.tenant = g.tenant BY <1>10
<1>17. QED BY <1>1, <1>14, <1>15, <1>16, InvQuiet DEF g

LEMMA LookupEmailKeeps ==
    ASSUME Inv, NEW r \in Requests, req[r].op \in {"signup", "admin", "oauth"}, LookupEmail(r)
    PROVE  Inv'
<1> DEFINE g == req[r]
           l == IF g.op = "oauth" THEN "exists" ELSE "mobile"
           h == [g EXCEPT !.pc = l]
<1>1. /\ g \in Handler /\ ShapeOf(g) /\ FactsOf(g, idents, states, links, mails) /\ g.pc = "email"
      /\ UNCHANGED <<idents, members, links, invites, states, starts, mails, logins, lost>>
    BY HandlerParts DEF Inv, LookupEmail, At
<1>2. ASSUME NEW i \in WithEmail(g.email), Move(r, Collide(g, i)) PROVE Inv'
    <2>1. i \in DOMAIN idents /\ idents[i].email.addr = g.email.addr BY DEF WithEmail
    <2>2. ASSUME g.op = "oauth" PROVE Proven(g.acct, i, idents, states)
        <3>1. /\ g.num \in DOMAIN states /\ states[g.num].acct = g.acct /\ states[g.num].verified
              /\ g.email = states[g.num].email
            BY <1>1, <2>2 DEF ShapeOf, FactsOf
        <3>2. QED BY <2>1, <3>1 DEF Proven
    <2>3. QED BY <1>1, <1>2, <2>1, <2>2, CollideKeeps
<1>3. ASSUME Move(r, h) PROVE Inv'
    <2>1. l \in Label /\ l # "idle" /\ l \in Pending BY DEF Label, Pending
    <2>2. req' = [req EXCEPT ![r] = h] BY <1>3 DEF Move
    <2> HIDE DEF g, l
    <2>3. /\ h.pc = l /\ h.op = g.op /\ h.tenant = g.tenant /\ h.email = g.email /\ h.acct = g.acct
          /\ h.verified = g.verified /\ h.ident = g.ident /\ h.num = g.num /\ h.fresh = g.fresh
        BY <1>1, <2>1, LabelFields
    <2> HIDE DEF h
    <2>4. ShapeOf(h) BY <1>1, <2>3 DEF ShapeOf, None, l, g
    <2>5. FactsOf(h, idents, states, links, mails) BY <1>1, <2>3 DEF FactsOf, l
    <2>6. QED BY <1>1, <2>1, <2>2, <2>4, <2>5, GoesOn DEF g, h, Pending
<1>4. QED BY <1>2, <1>3 DEF LookupEmail

LEMMA LookupMobileKeeps ==
    ASSUME Inv, NEW r \in Requests, LookupMobile(r)
    PROVE  Inv'
<1> DEFINE g == req[r]
           h == [g EXCEPT !.pc = "create"]
<1>1. /\ g \in Handler /\ ShapeOf(g) /\ FactsOf(g, idents, states, links, mails) /\ g.pc = "mobile"
      /\ UNCHANGED <<idents, members, links, invites, states, starts, mails, logins, lost>>
    BY HandlerParts DEF Inv, LookupMobile, At
<1>2. g.op \in {"signup", "admin"} BY <1>1 DEF ShapeOf, Handler, None
<1>3. ASSUME NEW i \in WithMobile(g.mobile), Move(r, Collide(g, i)) PROVE Inv'
    <2>1. i \in DOMAIN idents BY DEF WithMobile
    <2>2. QED BY <1>1, <1>2, <1>3, <2>1, CollideKeeps
<1>4. ASSUME Move(r, h) PROVE Inv'
    <2>1. "create" \in Label BY DEF Label
    <2>2. req' = [req EXCEPT ![r] = h] BY <1>4 DEF Move
    <2> HIDE DEF g
    <2>3. /\ h.pc = "create" /\ h.op = g.op /\ h.tenant = g.tenant /\ h.email = g.email /\ h.acct = g.acct
          /\ h.verified = g.verified /\ h.ident = g.ident /\ h.num = g.num /\ h.fresh = g.fresh
        BY <1>1, <2>1, LabelFields
    <2> HIDE DEF h
    <2>4. ShapeOf(h) BY <1>1, <1>2, <2>3 DEF ShapeOf, None
    <2>5. FactsOf(h, idents, states, links, mails) BY <1>1, <1>2, <2>3 DEF FactsOf
    <2>6. QED BY <1>1, <2>1, <2>2, <2>4, <2>5, GoesOn DEF g, h, Pending
<1>5. QED BY <1>3, <1>4 DEF LookupMobile

\* The account is linked: its identity is the handler's.  Else the search goes on.
LEMMA GetLinkedIdentityKeeps ==
    ASSUME Inv, NEW r \in Requests, GetLinkedIdentity(r)
    PROVE  Inv'
<1> DEFINE g == req[r]
           l == IF g.verified THEN "email" ELSE "exists"
           h == [g EXCEPT !.pc = l]
<1>1. /\ g \in Handler /\ ShapeOf(g) /\ FactsOf(g, idents, states, links, mails) /\ g.pc = "linked"
      /\ UNCHANGED <<idents, members, links, invites, states, starts, mails, logins, lost>>
    BY HandlerParts DEF Inv, GetLinkedIdentity, At
<1>2. g.op = "oauth" BY <1>1 DEF ShapeOf, Handler, None
<1>3. ASSUME NEW k \in links, k.acct = g.acct,
             Move(r, [g EXCEPT !.pc = "mship", !.ident = k.ident, !.email = NoEmail])
      PROVE  Inv'
    <2> DEFINE f == [g EXCEPT !.pc = "mship", !.ident = k.ident, !.email = NoEmail]
    <2>1. req' = [req EXCEPT ![r] = f] BY <1>3 DEF Move
    <2>2. k.ident \in Id /\ k.ident \in DOMAIN idents BY DEF Inv, Typed, Tables, Link
    <2> HIDE DEF g
    <2>3. /\ f \in Handler /\ f.pc = "mship" /\ f.op = g.op /\ f.tenant = g.tenant /\ f.acct = g.acct
          /\ f.verified = g.verified /\ f.ident = k.ident /\ f.num = g.num /\ f.fresh = g.fresh
        BY <1>1, <2>2 DEF Handler, Label, EmailOpt, IdOpt
    <2> HIDE DEF f
    <2>4. ShapeOf(f) BY <1>1, <1>2, <2>3 DEF ShapeOf, None
    <2>5. Linked(f.acct, f.ident, links) BY <1>3, <2>3 DEF Linked
    <2>6. k.ident \in 0..Len(idents) /\ k.ident # 0 BY <2>2, TablesSequences DEF Inv, Typed
    <2>7. ~g.fresh BY <1>1 DEF ShapeOf
    <2>8. FactsOf(f, idents, states, links, mails) BY <1>1, <1>2, <2>3, <2>5, <2>6, <2>7 DEF FactsOf
    <2>9. Moved(r, f) BY <1>1, <2>1, <2>3, <2>4, <2>8 DEF Moved
    <2>10. QED BY <1>1, <1>2, <2>3, <2>7, <2>9, InvQuiet DEF g, Pending
<1>4. ASSUME Move(r, h) PROVE Inv'
    <2>1. l \in Label /\ l # "idle" /\ l \in Pending BY DEF Label, Pending
    <2>2. req' = [req EXCEPT ![r] = h] BY <1>4 DEF Move
    <2> HIDE DEF g, l
    <2>3. /\ h.pc = l /\ h.op = g.op /\ h.tenant = g.tenant /\ h.email = g.email /\ h.acct = g.acct
          /\ h.verified = g.verified /\ h.ident = g.ident /\ h.num = g.num /\ h.fresh = g.fresh
        BY <1>1, <2>1, LabelFields
    <2> HIDE DEF h
    <2>4. l = "email" => g.verified BY DEF l
    <2>5. l \in {"email", "exists"} BY DEF l
    <2>6. ShapeOf(h) BY <1>1, <1>2, <2>3, <2>4, <2>5 DEF ShapeOf, None
    <2>7. FactsOf(h, idents, states, links, mails) BY <1>1, <1>2, <2>3, <2>5 DEF FactsOf
    <2>8. QED BY <1>1, <2>1, <2>2, <2>6, <2>7, GoesOn DEF g, h, Pending
<1>5. QED BY <1>3, <1>4 DEF GetLinkedIdentity

-----------------------------------------------------------------------------
(***************************************************************************)
(* The steps that complete an OAuth sign-in.                               *)
(***************************************************************************)
SignIn(r) == logins' = [logins EXCEPT ![req[r].num][req[r].tenant] = @ + 1]

LEMMA SignInFacts ==
    ASSUME Typed, NEW r \in Requests, req[r].op = "oauth", SignIn(r)
    PROVE  /\ req[r].num \in Id /\ req[r].num \in DOMAIN states /\ req[r].tenant \in Tenants
           /\ logins' \in [Id -> [Tenants -> Nat]]
           /\ logins'[req[r].num][req[r].tenant] = logins[req[r].num][req[r].tenant] + 1
           /\ \A n \in Id, t \in Tenants :
                 n # req[r].num \/ t # req[r].tenant => logins'[n][t] = logins[n][t]
<1> DEFINE m == req[r].num
           u == req[r].tenant
<1>1. m \in DOMAIN states /\ u \in Tenants
    BY HandlerParts DEF FactsOf, ShapeOf, None
<1>2. m \in Id
    <2>1. m \in 1..Len(states) /\ Len(states) \in Nat /\ Len(states) <= MaxStates
        BY <1>1, TablesSequences DEF Typed, Tables
    <2>2. QED BY <2>1, Constants DEF Id
<1>3. logins \in [Id -> [Tenants -> Nat]] BY DEF Typed, Tables
<1>4. logins' = [logins EXCEPT ![m] = [logins[m] EXCEPT ![u] = logins[m][u] + 1]] BY <1>1, <1>2, <1>3 DEF SignIn
<1> HIDE DEF m, u
<1>5. logins[m] \in [Tenants -> Nat] /\ logins[m][u] + 1 \in Nat BY <1>1, <1>2, <1>3
<1> DEFINE f == [logins[m] EXCEPT ![u] = logins[m][u] + 1]
<1>6. f \in [Tenants -> Nat] /\ f[u] = logins[m][u] + 1 /\ \A t \in Tenants : t # u => f[t] = logins[m][t]
    BY <1>1, <1>5
<1>7. logins' = [logins EXCEPT ![m] = f] BY <1>4
<1> HIDE DEF f
<1>8. logins' \in [Id -> [Tenants -> Nat]] /\ logins'[m] = f /\ \A n \in Id : n # m => logins'[n] = logins[n]
    BY <1>2, <1>3, <1>6, <1>7
<1>9. QED BY <1>1, <1>2, <1>6, <1>8 DEF m, u

\* The handler that took the state has not signed in before, and no other handler has that state.
LEMMA SignInRedeems ==
    ASSUME Inv, NEW r \in Requests, NEW h, Moved(r, h), req[r].op = "oauth", h.op # "oauth", SignIn(r),
           states' = states
    PROVE  Redeemed'
<1> DEFINE m == req[r].num
           u == req[r].tenant
<1>1. req'[r] = h /\ \A q \in Requests : q # r => req'[q] = req[q] BY MovedRecords DEF Inv
<1>2. /\ m \in Id /\ m \in DOMAIN states /\ u \in Tenants /\ logins'[m][u] = logins[m][u] + 1
      /\ \A n \in Id, t \in Tenants : n # m \/ t # u => logins'[n][t] = logins[n][t]
    BY SignInFacts DEF Inv
<1>3. ~states[m].live /\ states[m].tenant = u BY HandlerParts DEF Inv, FactsOf
<1>4. logins[m][u] = 0 BY DEF Inv, Redeemed
<1>5. \A q \in Requests : q # r /\ req[q].op = "oauth" => req[q].num # m BY DEF Inv, Redeemed
<1> HIDE DEF m, u
<1>6. ASSUME NEW n \in Id, NEW t \in Tenants, logins'[n][t] > 0
      PROVE  logins'[n][t] = 1 /\ n \in DOMAIN states /\ ~states[n].live /\ states[n].tenant = t
    <2>1. CASE n = m /\ t = u BY <1>2, <1>3, <1>4, <2>1
    <2>2. CASE n # m \/ t # u
        <3>1. logins'[n][t] = logins[n][t] BY <1>2, <2>2
        <3>2. QED BY <1>6, <3>1 DEF Inv, Redeemed
    <2>3. QED BY <2>1, <2>2
<1>7. ASSUME NEW q \in Requests, req'[q].op = "oauth"
      PROVE  /\ logins'[req'[q].num][req'[q].tenant] = 0
             /\ \A p \in Requests : req'[p].op = "oauth" /\ p # q => req'[p].num # req'[q].num
    <2>1. q # r /\ req'[q] = req[q] BY <1>1, <1>7
    <2>2. req[q].num # m BY <1>5, <1>7, <2>1
    <2>3. req[q].num \in Id /\ req[q].tenant \in Tenants
        <3>1. req[q].num \in DOMAIN states /\ req[q].tenant \in Tenants
            BY <1>7, <2>1, HandlerParts DEF Inv, FactsOf, ShapeOf, None
        <3>2. req[q].num \in 1..Len(states) /\ Len(states) \in Nat /\ Len(states) <= MaxStates
            BY <3>1, TablesSequences DEF Inv, Typed, Tables
        <3>3. QED BY <3>1, <3>2, Constants DEF Id
    <2>4. logins'[req[q].num][req[q].tenant] = 0 BY <1>2, <1>7, <2>1, <2>2, <2>3 DEF Inv, Redeemed
    <2>5. ASSUME NEW p \in Requests, req'[p].op = "oauth", p # q PROVE req'[p].num # req'[q].num
        <3>1. p # r /\ req'[p] = req[p] BY <1>1, <2>5
        <3>2. QED BY <1>7, <2>1, <2>5, <3>1 DEF Inv, Redeemed
    <2>6. QED BY <2>1, <2>4, <2>5
<1>8. QED BY <1>6, <1>7 DEF Redeemed

LEMMA GetMembershipKeeps ==
    ASSUME Inv, NEW r \in Requests, GetMembership(r)
    PROVE  Inv'
<1> DEFINE g == req[r]
           found == Membership(g.ident, g.tenant)
<1>1. /\ g \in Handler /\ ShapeOf(g) /\ FactsOf(g, idents, states, links, mails) /\ g.pc = "mship"
      /\ UNCHANGED <<idents, members, links, invites, states, starts, mails, lost>>
    BY HandlerParts DEF Inv, GetMembership, At
<1>2. g.op \in {"oauth", "invite"} BY <1>1 DEF ShapeOf, Handler, None
<1>3. logins' = IF found # {} /\ g.op = "oauth" THEN [logins EXCEPT ![g.num][g.tenant] = @ + 1] ELSE logins
    BY DEF GetMembership
<1>4. ASSUME NEW l \in {"drop", "member"}, l = "drop" => g.op = "invite", Move(r, [g EXCEPT !.pc = l]),
             logins' = logins
      PROVE  Inv'
    <2> DEFINE h == [g EXCEPT !.pc = l]
    <2>1. l \in Label /\ l # "idle" /\ l \notin Pending BY DEF Label, Pending
    <2>2. req' = [req EXCEPT ![r] = h] BY <1>4 DEF Move
    <2> HIDE DEF g
    <2>3. /\ h.pc = l /\ h.op = g.op /\ h.tenant = g.tenant /\ h.email = g.email /\ h.acct = g.acct
          /\ h.verified = g.verified /\ h.ident = g.ident /\ h.num = g.num /\ h.fresh = g.fresh
        BY <1>1, <2>1, LabelFields
    <2> HIDE DEF h
    <2>4. ShapeOf(h) BY <1>1, <1>2, <1>4, <2>3 DEF ShapeOf, None
    <2>5. FactsOf(h, idents, states, links, mails) BY <1>1, <1>2, <1>4, <2>3 DEF FactsOf
    <2>6. QED BY <1>1, <1>4, <2>1, <2>2, <2>4, <2>5, GoesOn DEF g, h
<1>5. CASE found # {} /\ g.op = "invite" /\ Move(r, [g EXCEPT !.pc = "drop"])
    BY <1>3, <1>4, <1>5
<1>6. CASE found = {} /\ Move(r, [g EXCEPT !.pc = "member"])
    BY <1>3, <1>4, <1>6
<1>7. CASE found # {} /\ g.op = "oauth" /\ Move(r, NoHandler)
    <2>1. SignIn(r) BY <1>3, <1>7 DEF SignIn
    <2>2. logins' \in [Id -> [Tenants -> Nat]] BY <1>7, <2>1, SignInFacts DEF Inv
    <2>3. Tables' BY <1>1, <2>2 DEF Inv, Typed, Tables
    <2>4. Moved(r, NoHandler) BY <1>7, <2>3, MovedIdle DEF Inv
    <2>5. Grown BY <1>1, LongerItself, SettledItself DEF Grown, Inv, Typed, Tables
    <2>6. Counted' BY <1>1, <2>4, IdleHandler, CountedQuiet DEF Inv, Pending
    <2>7. Typed' BY <2>3, <2>4, <2>5, <2>6, TypedKept DEF Inv
    <2>8. Earned' BY <1>1, <2>3, <2>5, EarnedKept DEF Inv
    <2>9. \E u \in members' : u.ident = g.ident BY <1>1, <1>7 DEF Membership
    <2>10. OrphansExplained' BY <1>1, <2>4, <2>9, OrphansKept DEF Inv
    <2>11. Redeemed' BY <1>1, <1>7, <2>1, <2>4, IdleHandler, SignInRedeems DEF None
    <2>12. QED BY <2>7, <2>8, <2>10, <2>11 DEF Inv
<1>8. QED BY <1>5, <1>6, <1>7 DEF GetMembership

\* users.create, the last statement of signup, admin_create_user and login_oauth.
LEMMA CreateMembershipKeeps ==
    ASSUME Inv, NEW r \in Requests, CreateMembership(r)
    PROVE  Inv'
<1> DEFINE g == req[r]
           u == [tenant |-> g.tenant, ident |-> g.ident, username |-> g.username, via |-> g.op, fresh |-> g.fresh]
           d == [g EXCEPT !.pc = "drop"]
           h == IF g.op = "invite" THEN d ELSE NoHandler
<1>1. /\ g \in Handler /\ ShapeOf(g) /\ FactsOf(g, idents, states, links, mails) /\ g.pc = "member"
      /\ UNCHANGED <<idents, links, invites, states, starts, mails, lost>>
      /\ members' = members \cup {u} /\ req' = [req EXCEPT ![r] = h]
    BY HandlerParts DEF Inv, CreateMembership, At, Move
<1>2. logins' = IF g.op = "oauth" THEN [logins EXCEPT ![g.num][g.tenant] = @ + 1] ELSE logins
    BY DEF CreateMembership
<1>3. g.op = "oauth" => SignIn(r) BY <1>2 DEF SignIn
<1>4. logins' \in [Id -> [Tenants -> Nat]]
    <2>1. CASE g.op = "oauth" BY <1>3, <2>1, SignInFacts DEF Inv
    <2>2. CASE g.op # "oauth" BY <1>2, <2>2 DEF Inv, Typed, Tables
    <2>3. QED BY <2>1, <2>2
<1>5. g.ident \in DOMAIN idents /\ g.ident # 0
    BY <1>1, TablesSequences DEF FactsOf, Inv, Typed
<1> HIDE DEF g
<1>6. g.op \in {"signup", "admin", "oauth", "invite"} /\ g.tenant \in Tenants BY <1>1 DEF ShapeOf, Handler, None
<1>7. g.ident \in Id BY <1>1, <1>5 DEF Handler, IdOpt
<1>8. u \in Member BY <1>1, <1>6, <1>7 DEF Member, Handler
<1>9. u.ident = g.ident /\ u.via = g.op /\ u.fresh = g.fresh /\ u.tenant = g.tenant OBVIOUS
<1>10. /\ d.pc = "drop" /\ d.op = g.op /\ d.tenant = g.tenant /\ d.email = g.email /\ d.acct = g.acct
       /\ d.verified = g.verified /\ d.ident = g.ident /\ d.num = g.num /\ d.fresh = g.fresh /\ d \in Handler
    BY <1>1 DEF Handler, Label
<1> HIDE DEF u, d
<1>11. Tables' BY <1>1, <1>4, <1>5, <1>8, <1>9 DEF Inv, Typed, Tables
<1>12. h \in Handler /\ h.pc \notin Pending /\ h.op # "oauth" /\ ShapeOf(h)
       /\ FactsOf(h, idents, states, links, mails)
    <2>1. CASE g.op = "invite"
        <3>1. h = d BY <2>1
        <3>2. ShapeOf(d) BY <1>1, <1>6, <1>10, <2>1 DEF ShapeOf, None
        <3>3. FactsOf(d, idents, states, links, mails) BY <1>1, <1>10, <2>1, <3>2 DEF FactsOf, ShapeOf
        <3>4. QED BY <1>10, <2>1, <3>1, <3>2, <3>3 DEF Pending
    <2>2. CASE g.op # "invite"
        <3>1. h = NoHandler BY <2>2
        <3>2. idents \in Seq(Identity) BY DEF Inv, Typed, Tables
        <3>3. QED BY <3>1, <3>2, IdleHandler, IdleFacts DEF Pending, None
    <2>3. QED BY <2>1, <2>2
<1> HIDE DEF h
<1>13. Moved(r, h) BY <1>1, <1>12 DEF Moved
<1>14. Grown BY <1>1, LongerItself, SettledItself DEF Grown, Inv, Typed, Tables
<1>15. Counted' BY <1>1, <1>12, <1>13, CountedQuiet DEF Inv
<1>16. Typed' BY <1>11, <1>13, <1>14, <1>15, TypedKept DEF Inv
<1>17. MemberEarned(u, idents, states, links, mails)
    <2>1. g.op = "signup" => g.fresh /\ idents[g.ident].by = "signup" BY <1>1 DEF ShapeOf, FactsOf
    <2>2. ASSUME g.op = "oauth"
          PROVE  \E k \in links, n \in DOMAIN states :
                    k.ident = g.ident /\ states[n].acct = k.acct /\ states[n].tenant = g.tenant
        <3>1. PICK k \in links : k.acct = g.acct /\ k.ident = g.ident BY <1>1, <2>2 DEF FactsOf, Linked
        <3>2. g.num \in DOMAIN states /\ states[g.num].acct = g.acct /\ states[g.num].tenant = g.tenant
            BY <1>1, <2>2 DEF FactsOf
        <3>3. QED BY <3>1, <3>2
    <2>3. g.op = "invite" => Invited(g.ident, g.tenant, idents, mails) BY <1>1 DEF FactsOf
    <2>4. QED BY <1>9, <2>1, <2>2, <2>3 DEF MemberEarned
<1>18. Earned'
    <2>1. /\ \A k \in links : LinkEarned(k, idents', states')
          /\ \A w \in members : MemberEarned(w, idents', states', links', mails')
          /\ \A v \in invites : Invited(v.ident, v.tenant, idents', mails')
        BY <1>11, <1>14, EarnedGrows DEF Inv
    <2>2. QED BY <1>1, <1>17, <2>1, EarnedRowsNext
<1>19. OrphansExplained'
    <2>1. \E w \in members' : w.ident = req[r].ident BY <1>1, <1>9 DEF g
    <2>2. QED BY <1>1, <1>13, <2>1, OrphansKept DEF Inv
<1>20. Redeemed'
    <2>1. CASE g.op = "oauth" BY <1>1, <1>3, <1>12, <1>13, <2>1, SignInRedeems DEF g
    <2>2. CASE g.op # "oauth"
        <3>1. logins' = logins BY <1>2, <2>2
        <3>2. QED BY <1>11, <1>12, <1>13, <1>14, <3>1, RedeemedKept DEF Inv
    <2>3. QED BY <2>1, <2>2
<1>21. QED BY <1>16, <1>18, <1>19, <1>20 DEF Inv

-----------------------------------------------------------------------------
(***************************************************************************)
(* The steps that write an identity, an invite or a link.                  *)
(***************************************************************************)

\* There is room for what an unfinished handler may still write.
LEMMA RoomLeft ==
    ASSUME Typed, NEW r \in Requests, req[r].pc \in Pending
    PROVE  Len(idents) + 1 \in Id /\ Cardinality(mails) + 1 \in Id
<1>1. r \in Unfinished BY DEF Unfinished
<1>2. Cardinality(Unfinished \ {r}) = Cardinality(Unfinished) - 1 BY <1>1, CountedNumbers, FS_RemoveElement
<1>3. Cardinality(Unfinished \ {r}) \in Nat BY UnfinishedSize DEF Unfinished
<1>4. Len(idents) + 1 <= MaxStarts /\ Cardinality(mails) + 1 <= MaxStarts BY <1>2, <1>3, CountedNumbers, Constants
<1>5. QED BY <1>4, CountedNumbers, Constants DEF Id

LEMMA CreateIdentityKeeps ==
    ASSUME Inv, NEW r \in Requests, CreateIdentity(r)
    PROVE  Inv'
<1> DEFINE g == req[r]
           row == NewIdentity(g)
           n == Len(idents) + 1
           l == IF g.op = "oauth" THEN "link" ELSE "member"
           h == [g EXCEPT !.pc = l, !.ident = n, !.fresh = TRUE, !.email = NoEmail, !.mobile = None]
<1>1. /\ g \in Handler /\ ShapeOf(g) /\ FactsOf(g, idents, states, links, mails) /\ g.pc = "create"
      /\ UNCHANGED <<members, links, invites, states, starts, mails, logins, lost>>
      /\ idents' = Append(idents, row) /\ req' = [req EXCEPT ![r] = h]
    BY HandlerParts DEF Inv, CreateIdentity, At, Move
<1>2. n \in Id BY <1>1, RoomLeft DEF Inv, Pending
<1>3. l \in Label BY DEF Label
<1> HIDE DEF g
<1>4. g.op \in {"signup", "admin", "oauth"} /\ g.tenant \in Tenants /\ ~g.fresh
    BY <1>1 DEF ShapeOf, Handler, None
<1>5. row \in Identity /\ row.by = g.op /\ row.acct = g.acct
    BY <1>1, <1>4 DEF NewIdentity, Identity, Handler, EmailOpt
<1> HIDE DEF row
<1>6. idents \in Seq(Identity) /\ Len(idents) \in Nat /\ DOMAIN idents = 1..Len(idents)
    BY TablesSequences DEF Inv, Typed
<1>7. /\ idents' \in Seq(Identity) /\ Len(idents') = n /\ \A i \in DOMAIN idents : idents'[i] = idents[i]
      /\ idents'[n] = row /\ DOMAIN idents' = DOMAIN idents \cup {n}
    BY <1>1, <1>5, <1>6, AppendFacts
<1>8. n \in Nat \ {0} /\ Len(idents) <= n BY <1>6
<1> HIDE DEF n, l
<1>9. /\ h \in Handler /\ h.pc = l /\ h.op = g.op /\ h.tenant = g.tenant /\ h.acct = g.acct
      /\ h.verified = g.verified /\ h.ident = n /\ h.num = g.num /\ h.fresh = TRUE
    BY <1>1, <1>2, <1>3 DEF Handler, EmailOpt, IdOpt
<1> HIDE DEF h
<1>10. Tables' BY <1>1, <1>7 DEF Inv, Typed, Tables
<1>11. Grown
    <2>1. Longer(idents, idents') BY <1>7, <1>8 DEF Longer
    <2>2. QED BY <1>1, <2>1, SettledItself DEF Grown, Inv, Typed, Tables
<1>12. (g.op = "oauth" => l = "link") /\ (g.op # "oauth" => l = "member") BY DEF l
<1>13. ShapeOf(h) BY <1>1, <1>4, <1>9, <1>12 DEF ShapeOf, None
<1>14. FactsOf(h, idents', states', links', mails')
    <2>1. h.ident \in 0..Len(idents') /\ h.ident # 0 BY <1>7, <1>8, <1>9
    <2>2. idents'[h.ident].by = h.op /\ idents'[h.ident].acct = h.acct BY <1>5, <1>7, <1>9
    <2>3. CASE g.op = "oauth"
        <3>1. Proven(h.acct, h.ident, idents', states') BY <2>2 DEF Proven
        <3>2. /\ g.num \in DOMAIN states /\ ~states[g.num].live
              /\ states[g.num].tenant = g.tenant /\ states[g.num].acct = g.acct
              /\ g.verified => states[g.num].verified
            BY <1>1, <2>3 DEF FactsOf
        <3>3. QED BY <1>1, <1>9, <1>12, <2>1, <2>2, <2>3, <3>1, <3>2 DEF FactsOf
    <2>4. CASE g.op \in {"signup", "admin"} BY <1>9, <1>12, <2>1, <2>2, <2>4 DEF FactsOf
    <2>5. QED BY <1>4, <2>3, <2>4
<1>15. Moved(r, h) BY <1>1, <1>9, <1>13, <1>14 DEF Moved
<1>16. Counted'
    <2>1. Len(idents') \in Nat /\ Len(idents') + Cardinality(mails') <= Len(idents) + Cardinality(mails) + 1
        BY <1>1, <1>7, <1>8, CountedNumbers DEF Inv, n
    <2>2. req[r].pc \in Pending /\ h.pc \notin Pending BY <1>1, <1>9 DEF g, l, Pending
    <2>3. IsFiniteSet(mails') BY <1>1, CountedNumbers DEF Inv
    <2>4. QED BY <1>1, <1>15, <2>1, <2>2, <2>3, CountedDone DEF Inv
<1>17. Typed' BY <1>10, <1>11, <1>15, <1>16, TypedKept DEF Inv
<1>18. Earned' BY <1>1, <1>10, <1>11, EarnedKept DEF Inv
<1>19. req'[r] = h /\ \A q \in Requests : q # r => req'[q] = req[q] BY <1>15, MovedRecords DEF Inv
<1>20. OrphansExplained'
    <2> SUFFICES ASSUME NEW i \in DOMAIN idents', \A q \in Requests : ~(req'[q].fresh /\ req'[q].ident = i),
                        \A u \in members' : u.ident # i
                 PROVE  i \in lost'
        BY DEF OrphansExplained, Orphans, Held
    <2>1. i # n BY <1>9, <1>19
    <2>2. i \in DOMAIN idents BY <1>7, <2>1
    <2>3. \A q \in Requests : ~(req[q].fresh /\ req[q].ident = i) BY <1>4, <1>19 DEF g
    <2>4. i \in lost BY <1>1, <2>2, <2>3 DEF Inv, OrphansExplained, Orphans, Held
    <2>5. QED BY <1>1, <2>4
<1>21. Redeemed' BY <1>1, <1>9, <1>10, <1>11, <1>15, RedeemedKept DEF Inv, g
<1>22. QED BY <1>17, <1>18, <1>20, <1>21 DEF Inv

LEMMA InsertInviteKeeps ==
    ASSUME Inv, NEW r \in Requests, InsertInvite(r)
    PROVE  Inv'
<1> DEFINE g == req[r]
           v == [num |-> NextInvite, ident |-> g.ident, tenant |-> g.tenant]
           own == idents[g.ident].email
           to == IF own = NoEmail THEN g.email ELSE own
           x == [to |-> to, invite |-> v]
<1>1. /\ g \in Handler /\ ShapeOf(g) /\ FactsOf(g, idents, states, links, mails) /\ g.pc = "insert"
      /\ UNCHANGED <<idents, members, links, states, starts, logins, lost>>
      /\ invites' = invites \cup {v} /\ mails' = mails \cup {x} /\ Move(r, NoHandler)
    BY HandlerParts DEF Inv, InsertInvite, At
<1>2. NextInvite \in Id BY <1>1, RoomLeft DEF Inv, Pending, NextInvite
<1>3. g.ident \in DOMAIN idents BY <1>1, TablesSequences DEF FactsOf, Inv, Typed
<1>4. own \in EmailOpt
    <2>1. idents[g.ident] \in Identity BY <1>3 DEF Inv, Typed, Tables
    <2>2. QED BY <2>1 DEF Identity
<1> HIDE DEF g
<1>5. g.ident \in Id /\ g.tenant \in Tenants /\ ~g.fresh /\ g.email \in EmailOpt
    <2>1. g.ident # 0 BY <1>1 DEF FactsOf
    <2>2. QED BY <1>1, <2>1 DEF Handler, IdOpt, ShapeOf
<1>6. v \in Invite /\ v.ident = g.ident /\ v.tenant = g.tenant BY <1>2, <1>5 DEF Invite
<1>7. to \in EmailOpt /\ (own # NoEmail => to = own) BY <1>4, <1>5
<1> HIDE DEF v, to
<1>8. x \in Mail /\ x.to = to /\ x.invite = v BY <1>6, <1>7 DEF Mail
<1> HIDE DEF x
<1>9. Tables' BY <1>1, <1>3, <1>6, <1>8 DEF Inv, Typed, Tables
<1>10. Moved(r, NoHandler) BY <1>1, <1>9, MovedIdle DEF Inv
<1>11. Grown BY <1>1, LongerItself, SettledItself DEF Grown, Inv, Typed, Tables
<1>12. Counted'
    <2>1. IsFiniteSet(mails) /\ Cardinality(mails) \in Nat /\ Len(idents) \in Nat BY CountedNumbers DEF Inv
    <2>2. /\ IsFiniteSet(mails')
          /\ \/ Cardinality(mails') = Cardinality(mails)
             \/ Cardinality(mails') = Cardinality(mails) + 1
        BY <1>1, <2>1, FS_AddElement
    <2>3. Len(idents') \in Nat /\ Len(idents') + Cardinality(mails') <= Len(idents) + Cardinality(mails) + 1
        BY <1>1, <2>1, <2>2
    <2>4. req[r].pc \in Pending /\ NoHandler.pc \notin Pending BY <1>1, IdleHandler DEF g, Pending
    <2>5. QED BY <1>1, <1>10, <2>2, <2>3, <2>4, CountedDone DEF Inv
<1>13. Typed' BY <1>9, <1>10, <1>11, <1>12, TypedKept DEF Inv
<1>14. Invited(v.ident, v.tenant, idents', mails') BY <1>1, <1>6, <1>7, <1>8 DEF Invited
<1>15. Earned'
    <2>1. /\ \A k \in links : LinkEarned(k, idents', states')
          /\ \A w \in members : MemberEarned(w, idents', states', links', mails')
          /\ \A w \in invites : Invited(w.ident, w.tenant, idents', mails')
        BY <1>9, <1>11, EarnedGrows DEF Inv
    <2>2. QED BY <1>1, <1>14, <2>1, EarnedRowsNext
<1>16. OrphansExplained' BY <1>1, <1>5, <1>10, OrphansKept DEF Inv, g
<1>17. Redeemed' BY <1>1, <1>9, <1>10, <1>11, IdleHandler, RedeemedKept DEF Inv, None
<1>18. QED BY <1>13, <1>15, <1>16, <1>17 DEF Inv

LEMMA LinkAccountKeeps ==
    ASSUME Inv, NEW r \in Requests, LinkAccount(r)
    PROVE  Inv'
<1> DEFINE g == req[r]
           k == [acct |-> g.acct, ident |-> g.ident]
           h == [g EXCEPT !.pc = "mship"]
<1>1. /\ g \in Handler /\ ShapeOf(g) /\ FactsOf(g, idents, states, links, mails) /\ g.pc = "link"
      /\ UNCHANGED <<idents, members, invites, states, starts, mails, logins, lost>>
      /\ links' = links \cup {k} /\ req' = [req EXCEPT ![r] = h]
    BY HandlerParts DEF Inv, LinkAccount, At, Move
<1>2. g.ident \in DOMAIN idents BY <1>1, TablesSequences DEF FactsOf, Inv, Typed
<1> HIDE DEF g
<1>3. g.op = "oauth" BY <1>1 DEF ShapeOf, Handler, None
<1>4. g.acct \in Accounts /\ g.ident \in Id
    <2>1. g.ident # 0 BY <1>1 DEF FactsOf
    <2>2. QED BY <1>1, <1>3, <2>1 DEF Handler, IdOpt, ShapeOf
<1>5. k \in Link /\ k.acct = g.acct /\ k.ident = g.ident BY <1>4 DEF Link
<1>6. "mship" \in Label BY DEF Label
<1>7. /\ h.pc = "mship" /\ h.op = g.op /\ h.tenant = g.tenant /\ h.email = g.email /\ h.acct = g.acct
      /\ h.verified = g.verified /\ h.ident = g.ident /\ h.num = g.num /\ h.fresh = g.fresh
    BY <1>1, <1>6, LabelFields
<1>8. h \in Handler BY <1>1, <1>6 DEF Handler
<1> HIDE DEF k, h
<1>9. Tables' BY <1>1, <1>2, <1>5 DEF Inv, Typed, Tables
<1>10. Grown BY <1>1, LongerItself, SettledItself DEF Grown, Inv, Typed, Tables
<1>11. ShapeOf(h) BY <1>1, <1>3, <1>7 DEF ShapeOf, None
<1>12. FactsOf(h, idents', states', links', mails')
    <2>1. Linked(h.acct, h.ident, links') BY <1>1, <1>5, <1>7 DEF Linked
    <2>2. QED BY <1>1, <1>3, <1>7, <2>1 DEF FactsOf
<1>13. Moved(r, h) BY <1>1, <1>8, <1>11, <1>12 DEF Moved
<1>14. Counted' BY <1>1, <1>7, <1>13, CountedQuiet DEF Inv, Pending
<1>15. Typed' BY <1>9, <1>10, <1>13, <1>14, TypedKept DEF Inv
<1>16. LinkEarned(k, idents', states') BY <1>1, <1>3, <1>5 DEF LinkEarned, FactsOf
<1>17. Earned'
    <2>1. /\ \A j \in links : LinkEarned(j, idents', states')
          /\ \A w \in members : MemberEarned(w, idents', states', links', mails')
          /\ \A w \in invites : Invited(w.ident, w.tenant, idents', mails')
        BY <1>9, <1>10, EarnedGrows DEF Inv
    <2>2. QED BY <1>1, <1>16, <2>1, EarnedRowsNext
<1>18. OrphansExplained' BY <1>1, <1>7, <1>13, OrphansKept DEF Inv, g
<1>19. Redeemed' BY <1>1, <1>7, <1>9, <1>10, <1>13, RedeemedKept DEF Inv, g
<1>20. QED BY <1>15, <1>17, <1>18, <1>19 DEF Inv

-----------------------------------------------------------------------------
(***************************************************************************)
(* OAuth states, errors and expiry.                                        *)
(***************************************************************************)

\* One live state changes, and is not live afterwards.
LEMMA StateSettles ==
    ASSUME Tables, NEW n \in DOMAIN states, states[n].live, NEW f \in Flow, ~f.live,
           states' = [states EXCEPT ![n] = f]
    PROVE  /\ states' \in Seq(Flow) /\ Len(states') = Len(states) /\ DOMAIN states' = DOMAIN states
           /\ states'[n] = f /\ \A m \in DOMAIN states : m # n => states'[m] = states[m]
           /\ Settled(states, states') /\ Answered(states')
<1>1. states \in Seq(Flow) /\ Len(states) \in Nat /\ DOMAIN states = 1..Len(states) /\ Answered(states)
    BY TablesSequences
<1>2. states' \in Seq(Flow) /\ Len(states') = Len(states) /\ DOMAIN states' = DOMAIN states BY <1>1
<1>3. states'[n] = f /\ \A m \in DOMAIN states : m # n => states'[m] = states[m] BY <1>1
<1>4. Settled(states, states') BY <1>1, <1>2, <1>3 DEF Settled
<1>5. Answered(states') BY <1>1, <1>2, <1>3 DEF Answered
<1>6. QED BY <1>2, <1>3, <1>4, <1>5

LEMMA TakeStateKeeps ==
    ASSUME Inv, NEW r \in Requests, NEW n \in DOMAIN states, NEW p \in Profile, NEW allow \in BOOLEAN,
           TakeState(r, n, p, allow)
    PROVE  Inv'
<1> DEFINE s == states[n]
           f == [s EXCEPT !.acct = p.acct, !.email = p.email, !.verified = p.verified, !.live = FALSE]
           h == SignedIn(n, p, allow)
<1>1. /\ states[n].live /\ At(r, "idle") /\ starts < MaxStarts /\ starts' = starts + 1
      /\ req' = [req EXCEPT ![r] = h]
      /\ UNCHANGED <<idents, members, links, invites, mails, logins, lost>>
    BY DEF TakeState, Start, Move
<1>2. s \in Flow BY DEF Inv, Typed, Tables
<1>3. p.acct \in Accounts /\ p.email \in EmailOpt /\ p.verified \in BOOLEAN
    <2>1. p \in [acct : Accounts, email : {Lowered(e) : e \in EmailOpt}, verified : BOOLEAN] BY DEF Profile
    <2>2. PICK e \in EmailOpt : p.email = Lowered(e) BY <2>1
    <2>3. Lowered(e) \in EmailOpt BY DEF Lowered, EmailOpt, Email, NoEmail, Case
    <2>4. QED BY <2>1, <2>2, <2>3
<1>4. states' = [states EXCEPT ![n] = f]
    <2>1. states' = [states EXCEPT ![n].acct = p.acct, ![n].email = p.email, ![n].verified = p.verified,
                                   ![n].live = FALSE]
        BY DEF TakeState
    <2>2. QED BY <1>2, <2>1 DEF Inv, Typed, Tables, Flow
<1> HIDE DEF s
<1>5. /\ f \in Flow /\ f.live = FALSE /\ f.acct = p.acct /\ f.email = p.email /\ f.verified = p.verified
      /\ f.tenant = s.tenant
    BY <1>2, <1>3 DEF Flow
<1>6. s.tenant \in Tenants BY <1>2 DEF Flow
<1>7. n \in IdOpt
    <2>1. n \in 1..Len(states) /\ Len(states) \in Nat /\ Len(states) <= MaxStates
        BY TablesSequences DEF Inv, Typed, Tables
    <2>2. QED BY <2>1, Constants DEF IdOpt, Id
<1>8. /\ h \in Handler /\ h.pc = "linked" /\ h.op = "oauth" /\ h.tenant = s.tenant /\ h.email = p.email
      /\ h.acct = p.acct /\ h.num = n /\ h.ident = 0
    BY <1>3, <1>6, <1>7 DEF SignedIn, NoHandler, Handler, Label, IdOpt, s
<1>9. h.fresh = FALSE /\ h.verified = p.verified
    BY DEF SignedIn, NoHandler
<1> HIDE DEF f, h
<1>10. /\ states' \in Seq(Flow) /\ Len(states') = Len(states) /\ DOMAIN states' = DOMAIN states
       /\ states'[n] = f /\ \A m \in DOMAIN states : m # n => states'[m] = states[m]
       /\ Settled(states, states') /\ Answered(states')
    BY <1>1, <1>4, <1>5, StateSettles DEF Inv, Typed
<1>11. Tables' BY <1>1, <1>10 DEF Inv, Typed, Tables, Answered
<1>12. Grown BY <1>1, <1>10, LongerItself DEF Grown, Inv, Typed, Tables
<1>13. ShapeOf(h) BY <1>3, <1>6, <1>8, <1>9 DEF ShapeOf, None
<1>14. FactsOf(h, idents', states', links', mails')
    <2>1. Len(idents') \in Nat BY <1>1, TablesSequences DEF Inv, Typed
    <2>2. QED BY <1>5, <1>8, <1>9, <1>10, <2>1 DEF FactsOf
<1>15. Moved(r, h) BY <1>1, <1>8, <1>13, <1>14 DEF Moved
<1>16. Counted' BY <1>1, <1>15, CountedStart DEF Inv
<1>17. Typed' BY <1>11, <1>12, <1>15, <1>16, TypedKept DEF Inv
<1>18. Earned' BY <1>1, <1>11, <1>12, EarnedKept DEF Inv
<1>19. ~req[r].fresh BY <1>1, IdleRequest
<1>20. OrphansExplained' BY <1>1, <1>15, <1>19, OrphansKept DEF Inv
<1>21. req'[r] = h /\ \A q \in Requests : q # r => req'[q] = req[q] BY <1>15, MovedRecords DEF Inv
<1>22. \A q \in Requests : req[q].op = "oauth" => req[q].num # n BY <1>1, HandlerParts DEF Inv, FactsOf
<1>23. Redeemed'
    <2>1. ASSUME NEW m \in Id, NEW t \in Tenants, logins[m][t] > 0
          PROVE  logins[m][t] = 1 /\ m \in DOMAIN states' /\ ~states'[m].live /\ states'[m].tenant = t
        <3>1. logins[m][t] = 1 /\ m \in DOMAIN states /\ ~states[m].live /\ states[m].tenant = t
            BY <2>1 DEF Inv, Redeemed
        <3>2. m # n BY <1>1, <3>1
        <3>3. QED BY <1>10, <3>1, <3>2
    <2>2. logins[n][s.tenant] = 0
        <3>1. n \in Id /\ s.tenant \in Tenants /\ states[n].live
            <4>1. n \in 1..Len(states) /\ Len(states) \in Nat /\ Len(states) <= MaxStates
                BY TablesSequences DEF Inv, Typed, Tables
            <4>2. QED BY <1>1, <1>6, <4>1, Constants DEF Id
        <3>2. logins[n][s.tenant] \in Nat BY <3>1 DEF Inv, Typed, Tables
        <3>3. ~(logins[n][s.tenant] > 0) BY <3>1 DEF Inv, Redeemed
        <3>4. QED BY <3>2, <3>3
    <2>3. ASSUME NEW q \in Requests, req'[q].op = "oauth"
          PROVE  /\ logins[req'[q].num][req'[q].tenant] = 0
                 /\ \A i \in Requests : req'[i].op = "oauth" /\ i # q => req'[i].num # req'[q].num
        <3>1. CASE q = r BY <1>8, <1>21, <1>22, <2>2, <3>1
        <3>2. CASE q # r BY <1>8, <1>21, <1>22, <2>3, <3>2 DEF Inv, Redeemed
        <3>3. QED BY <3>1, <3>2
    <2>4. QED BY <1>1, <2>1, <2>3 DEF Redeemed
<1>24. QED BY <1>17, <1>18, <1>20, <1>23 DEF Inv

LEMMA FailKeeps ==
    ASSUME Inv, NEW r \in Requests, Fail(r)
    PROVE  Inv'
<1>1. /\ Move(r, NoHandler) /\ UNCHANGED <<idents, members, links, invites, states, starts, mails, logins>>
      /\ lost' = IF req[r].fresh THEN lost \cup {req[r].ident} ELSE lost
    BY DEF Fail
<1>2. req[r].fresh => req[r].ident \in DOMAIN idents
    BY HandlerParts, TablesSequences DEF FactsOf, Inv, Typed
<1>3. lost' \subseteq DOMAIN idents BY <1>1, <1>2 DEF Inv, Typed, Tables
<1>4. Tables' BY <1>1, <1>3 DEF Inv, Typed, Tables
<1>5. Moved(r, NoHandler) BY <1>1, <1>4, MovedIdle DEF Inv
<1>6. Grown BY <1>1, LongerItself, SettledItself DEF Grown, Inv, Typed, Tables
<1>7. Counted' BY <1>1, <1>5, IdleHandler, CountedQuiet DEF Inv, Pending
<1>8. Typed' BY <1>4, <1>5, <1>6, <1>7, TypedKept DEF Inv
<1>9. Earned' BY <1>1, <1>4, <1>6, EarnedKept DEF Inv
<1>10. lost \subseteq lost' /\ (req[r].fresh => req[r].ident \in lost') BY <1>1
<1>11. OrphansExplained' BY <1>1, <1>5, <1>10, OrphansKept DEF Inv
<1>12. Redeemed' BY <1>1, <1>4, <1>5, <1>6, IdleHandler, RedeemedKept DEF Inv, None
<1>13. QED BY <1>8, <1>9, <1>11, <1>12 DEF Inv

\* A step of no handler, that adds a state, settles one or drops an invite.
LEMMA InvAside ==
    ASSUME Inv, UNCHANGED <<idents, members, links, req, starts, mails, logins, lost>>, invites' \subseteq invites,
           states' \in Seq(Flow), Len(states') <= MaxStates, Settled(states, states'), Answered(states')
    PROVE  Inv'
<1>1. Tables' BY DEF Inv, Typed, Tables, Answered
<1>2. Grown BY LongerItself DEF Grown, Inv, Typed, Tables
<1>3. \A q \in Requests : FactsOf(req[q], idents', states', links', mails') BY <1>1, <1>2, GrownFacts DEF Inv
<1>4. Counted' BY DEF Inv, Typed, Counted, Unfinished
<1>5. Typed' BY <1>1, <1>3, <1>4 DEF Inv, Typed
<1>6. Earned' BY <1>1, <1>2, EarnedKept DEF Inv
<1>7. OrphansExplained' BY DEF Inv, OrphansExplained, Orphans, Held
<1>8. Redeemed'
    <2>1. ASSUME NEW n \in Id, NEW t \in Tenants, logins[n][t] > 0
          PROVE  logins[n][t] = 1 /\ n \in DOMAIN states' /\ ~states'[n].live /\ states'[n].tenant = t
        <3>1. logins[n][t] = 1 /\ n \in DOMAIN states /\ ~states[n].live /\ states[n].tenant = t
            BY <2>1 DEF Inv, Redeemed
        <3>2. states \in Seq(Flow) BY DEF Inv, Typed, Tables
        <3>3. states'[n] = states[n] /\ n \in DOMAIN states' BY <3>1, <3>2 DEF Settled
        <3>4. QED BY <3>1, <3>3
    <2>2. QED BY <2>1 DEF Inv, Redeemed
<1>9. QED BY <1>5, <1>6, <1>7, <1>8 DEF Inv

LEMMA AuthorizationUrlKeeps ==
    ASSUME Inv, NEW t \in Tenants, AuthorizationUrl(t)
    PROVE  Inv'
<1> DEFINE f == [tenant |-> t, acct |-> None, email |-> NoEmail, verified |-> FALSE, live |-> TRUE]
<1>1. f \in Flow /\ f.acct = None BY DEF Flow, EmailOpt
<1>2. /\ states' = Append(states, f) /\ Len(states) < MaxStates
      /\ UNCHANGED <<idents, members, links, invites, req, starts, mails, logins, lost>>
    BY DEF AuthorizationUrl
<1> HIDE DEF f
<1>3. states \in Seq(Flow) /\ Len(states) \in Nat /\ Answered(states) BY TablesSequences DEF Inv, Typed
<1>4. /\ states' \in Seq(Flow) /\ Len(states') = Len(states) + 1
      /\ \A n \in DOMAIN states : states'[n] = states[n]
      /\ states'[Len(states) + 1] = f /\ DOMAIN states' = DOMAIN states \cup {Len(states) + 1}
    BY <1>1, <1>2, <1>3, AppendFacts
<1>5. Len(states') <= MaxStates /\ Len(states) <= Len(states') BY <1>2, <1>3, <1>4, Constants
<1>6. Settled(states, states') BY <1>4, <1>5 DEF Settled
<1>7. Answered(states') BY <1>1, <1>3, <1>4 DEF Answered
<1>8. QED BY <1>2, <1>4, <1>5, <1>6, <1>7, InvAside

LEMMA RefuseStateKeeps ==
    ASSUME Inv, NEW n \in DOMAIN states, RefuseState(n)
    PROVE  Inv'
<1> DEFINE s == states[n]
           f == [s EXCEPT !.live = FALSE]
<1>1. s \in Flow BY DEF Inv, Typed, Tables
<1>2. states[n].live /\ UNCHANGED <<idents, members, links, invites, req, starts, mails, logins, lost>>
    BY DEF RefuseState
<1>3. states' = [states EXCEPT ![n] = f] BY DEF RefuseState
<1> HIDE DEF s
<1>4. f \in Flow /\ f.live = FALSE BY <1>1 DEF Flow
<1> HIDE DEF f
<1>5. states' \in Seq(Flow) /\ Len(states') = Len(states) /\ Settled(states, states') /\ Answered(states')
    BY <1>2, <1>3, <1>4, StateSettles DEF Inv, Typed
<1>6. Len(states') <= MaxStates BY <1>5 DEF Inv, Typed, Tables
<1>7. QED BY <1>2, <1>5, <1>6, InvAside

LEMMA ExpireInviteKeeps ==
    ASSUME Inv, ExpireInvite
    PROVE  Inv'
<1>1. invites' \subseteq invites /\ UNCHANGED <<idents, members, links, states, req, starts, mails, logins, lost>>
    BY DEF ExpireInvite
<1>2. states \in Seq(Flow) /\ Len(states) <= MaxStates /\ Answered(states)
    BY TablesSequences DEF Inv, Typed, Tables
<1>3. QED BY <1>1, <1>2, SettledItself, InvAside

-----------------------------------------------------------------------------
(***************************************************************************)
(* The theorems.                                                           *)
(***************************************************************************)
LEMMA InvInit == Init => Inv
<1> SUFFICES ASSUME Init PROVE Inv OBVIOUS
<1>1. /\ idents = <<>> /\ members = {} /\ links = {} /\ invites = {} /\ states = <<>>
      /\ req = [r \in Requests |-> NoHandler] /\ starts = 0 /\ mails = {} /\ lost = {}
      /\ logins = [n \in Id |-> [t \in Tenants |-> 0]]
    BY DEF Init
<1>2. /\ idents \in Seq(Identity) /\ states \in Seq(Flow) /\ Len(idents) = 0 /\ Len(states) = 0
      /\ DOMAIN idents = {} /\ DOMAIN states = {}
    BY <1>1
<1>3. logins \in [Id -> [Tenants -> Nat]] /\ \A n \in Id, t \in Tenants : logins[n][t] = 0 BY <1>1
<1>4. Tables BY <1>1, <1>2, <1>3, Constants DEF Tables
<1>5. \A r \in Requests : req[r] = NoHandler BY <1>1
<1>6. Counted
    <2>1. Unfinished = {} BY <1>5, IdleHandler DEF Unfinished, Pending
    <2>2. IsFiniteSet({}) /\ Cardinality({}) = 0 BY FS_EmptySet
    <2>3. QED BY <1>1, <1>2, <2>1, <2>2, Constants DEF Counted
<1>7. req \in [Requests -> Handler] BY <1>1, IdleHandler
<1>8. Typed BY <1>2, <1>4, <1>5, <1>6, <1>7, IdleHandler, IdleFacts DEF Typed
<1>9. Earned BY <1>1 DEF Earned, OauthLinkProven, MembershipEarned
<1>10. OrphansExplained BY <1>2 DEF OrphansExplained, Orphans
<1>11. Redeemed BY <1>3, <1>5, IdleHandler DEF Redeemed, None
<1>12. QED BY <1>8, <1>9, <1>10, <1>11 DEF Inv

LEMMA InvNext == ASSUME Inv, Next PROVE Inv'
<1>1. ASSUME NEW r \in Requests, SignupRoute(r) PROVE Inv'
    BY <1>1, SignupKeeps, LookupEmailKeeps, LookupMobileKeeps, SweepInvitesKeeps, InsertInviteKeeps,
       CreateIdentityKeeps, CreateMembershipKeeps
       DEF SignupRoute, In
<1>2. ASSUME NEW r \in Requests, AdminCreateUserRoute(r) PROVE Inv'
    BY <1>2, AdminCreateUserKeeps, CheckUsernameKeeps, LookupEmailKeeps, LookupMobileKeeps,
       CreateIdentityKeeps, CreateMembershipKeeps
       DEF AdminCreateUserRoute, ResolveOrCreateIdentity, In
<1>3. ASSUME NEW r \in Requests, VerifyMembership(r) PROVE Inv'
    BY <1>3, AcceptInviteKeeps, GetMembershipKeeps, CreateMembershipKeeps, DropInviteKeeps DEF VerifyMembership
<1>4. ASSUME NEW r \in Requests, OauthCallback(r) PROVE Inv'
    BY <1>4, TakeStateKeeps, GetLinkedIdentityKeeps, LookupEmailKeeps, ExistsByEmailKeeps,
       CreateIdentityKeeps, LinkAccountKeeps, GetMembershipKeeps, CreateMembershipKeeps
       DEF OauthCallback, In
<1>5. ASSUME NEW r \in Requests, Fail(r) PROVE Inv' BY <1>5, FailKeeps
<1>6. CASE OauthRedirect BY <1>6, AuthorizationUrlKeeps DEF OauthRedirect
<1>7. QED BY <1>1, <1>2, <1>3, <1>4, <1>5, <1>6, RefuseStateKeeps, ExpireInviteKeeps DEF Next

LEMMA InvStep == Inv /\ [Next]_vars => Inv'
<1> SUFFICES ASSUME Inv, [Next]_vars PROVE Inv' OBVIOUS
<1>1. CASE Next BY <1>1, InvNext
<1>2. CASE UNCHANGED vars
    <2>1. states \in Seq(Flow) /\ Len(states) <= MaxStates /\ Answered(states)
        BY TablesSequences DEF Inv, Typed, Tables
    <2>2. UNCHANGED <<idents, members, links, invites, states, req, starts, mails, logins, lost>> BY <1>2 DEF vars
    <2>3. QED BY <2>1, <2>2, SettledItself, InvAside
<1>3. QED BY <1>1, <1>2

\* The inductive invariant: typed tables and handlers whose fields are true of them, rows earned,
\* orphans explained, states redeemed by the handler that took them.
THEOREM Invariance == Spec => []Inv
<1>1. QED BY InvInit, InvStep, PTL DEF Spec

\* In every state the tables and the handlers are well typed and every row refers to an identity
\* that exists, whichever statement a handler fails at.
THEOREM TypeCorrect == Spec => []TypeOK
<1>1. Inv => TypeOK
    <2> SUFFICES ASSUME Inv PROVE TypeOK OBVIOUS
    <2>1. Len(idents) <= starts BY CountedNumbers DEF Inv
    <2>2. \A i \in DOMAIN idents : idents[i] \in Identity BY DEF Inv, Typed, Tables
    <2>3. \A n \in DOMAIN states : states[n] \in Flow BY DEF Inv, Typed, Tables
    <2>4. req \in [Requests -> Handler] /\ \A r \in Requests : req[r].ident \in 0..Len(idents)
        BY DEF Inv, Typed, FactsOf
    <2>5. QED BY <2>1, <2>2, <2>3, <2>4 DEF Inv, Typed, Tables, Counted, TypeOK
<1>2. QED BY <1>1, Invariance, PTL

\* "An unverified email must never attach to (or shadow) an existing account": however sign-ins and
\* signups interleave, login_oauth links an account to an identity created for it or whose e-mail
\* the provider verified for it.
THEOREM LinksProven == Spec => []OauthLinkProven
<1>1. Inv => OauthLinkProven BY DEF Inv, Earned
<1>2. QED BY <1>1, Invariance, PTL

\* "do not silently attach": every membership was made by the signup that created its identity, by an
\* OAuth sign-in of an account linked to it, by an invite mailed to its own address, or by an admin.
THEOREM MembershipsEarned == Spec => []MembershipEarned
<1>1. Inv => MembershipEarned BY DEF Inv, Earned
<1>2. QED BY <1>1, Invariance, PTL

\* Only an error between identities.create and users.create leaves an identity without a member.
THEOREM OrphansAlwaysExplained == Spec => []OrphansExplained
<1>1. Inv => OrphansExplained BY DEF Inv
<1>2. QED BY <1>1, Invariance, PTL

\* "A state can be redeemed once": a state leads to one sign-in at most, in its own tenant.
THEOREM StatesRedeemedOnce == Spec => []StateRedeemedOnce
<1>1. Inv => StateRedeemedOnce BY DEF Inv, Redeemed, StateRedeemedOnce
<1>2. QED BY <1>1, Invariance, PTL
=============================================================================
