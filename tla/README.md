# A TLA+ model of authrs

authrs is a multi-tenant authentication service (axum, sqlx/PostgreSQL, optional
Redis). One *identity* holds the credential, the lockout and the second factor;
it has one *membership* (a `users` row) per tenant. Clients obtain sessions
through several first factors and end them through three kinds of logout. The
service keeps almost no state in memory: handlers are sequences of autocommitted
SQL statements and Redis commands, separated by awaits, and many handlers run at
once. What is hard about the code is what happens *between* the statements.

Paths below are relative to the repository's `src/`.

## 1. Inventory

| Part | State | Operations | Interaction | Correct when |
|---|---|---|---|---|
| Login pipeline (`services/auth.rs`, `repo/identities.rs`) | identity row (status, `failed_attempts`, `locked_until`, `force_password_change`, `mfa_enabled`), membership row, `mfa_challenges`, `force_change_tokens`, `identity_tokens` | password, username, tenant-less, OTP, OAuth, select-tenant and switch-tenant logins; `complete_mfa_login`; `force_change_password` | reads tenant settings; calls MFA verification; ends in the session store | no path around the gates or the second factor; one session per challenge; guesses bounded |
| Session stores (`services/session.rs`, `repo/sessions.rs`, `repo/sessions_redis.rs`, `routes/session.rs`) | `sessions` table, or Redis keys and per-user index sets plus the table as audit | set, get, delete, delete_all_for_user; logout, logout all, logout global | called by the login pipeline and by every authenticated route | a logout that answers ok ended what it covered; sessions stay findable |
| MFA (`services/mfa.rs`, `repo/mfa.rs`) | secret, enabled flag, last used TOTP step, backup codes | enable, verify, disable, regenerate, validate | flag read by the pipeline | codes used once, up to requests that race; confirmed enrolment not undone |
| Credential tokens (`repo/*_tokens.rs`, `repo/membership_invites.rs`) | reset, force-change, identity tokens, invites | issue, redeem | change the credential or create memberships | used once, up to requests that race or fail; superseded by newer ones |
| One-time passwords (`repo/otp.rs`, `routes/auth.rs`) | codes with attempt counters | request, verify | first factor of the pipeline | used once, up to requests that race or fail; guesses bounded |
| OAuth (`services/oauth.rs`, `repo/oauth.rs`) | states, provider links, JWKS cache | redirect, callback, link | first factor, may create identity and membership | a state used once; links only to verified e-mails |
| Provisioning (`services/auth.rs`) | identities, memberships | signup, admin create, invite | shares rows with the pipeline | no duplicates, no orphans |
| Roles and groups (`repo/roles.rs`, `repo/groups.rs`) | hierarchy, assignments | create, set parent, delete, assign | fills session payloads | hierarchy acyclic |
| Permissions, policy engine (`services/permissions.rs`, `policy/`) | documents, attachments | create, delete, attach, check | reads roles, groups and the schema | a decision rests on what held during the check and is what the documents say |
| Packages (`services/packages.rs`) | tables, actions, schema in memory | sync, actions of a scope | the schema limits every decision | schema in memory follows the tables |
| Tenant configuration (`services/tenant_config.rs`, `repo/kv_store.rs`) | key-value rows, 60 s cache | get | read by most handlers | staleness bounded |
| RSQL filters (`query/`) | none | parse, build, five list queries | behind every list endpoint | refused or exact, never past the tenant |
| Rest: rate limiting (not installed on any route), middleware, seeding, OpenAPI, start-up | none or static | | | |

Hard behaviours: concurrent handlers acting on rows they read earlier (lock
decision, attempt limit, MFA flag, gates); a handler that fails or whose client
goes away between two statements; tokens issued in one account state and used in
another; Redis operations of several commands; logout sweeps racing logins;
in-memory caches filled from reads that a mutation has overtaken. `PROJECT.json`
lists them under `hazards`, each at its line, with the properties that cover it.

## 2. Modules

| Module | Role |
|---|---|
| `Login` | the login pipeline of one identity |
| `LoginGuesses` | `Login` with an observer counting wrong second factors |
| `MCLogin` | TLC instance of `Login` |
| `SessionContract` | what the session layer promises, without stores |
| `Sessions` | both stores and the logout routes; implements `SessionContract` |
| `LoginProofs`, `SessionsProofs`, `MfaProofs`, `CredentialsProofs`, `ProvisioningProofs`, `AccessProofs`, `FiltersProofs`, `PoliciesProofs` | the theorems of the module each is named after; `AccessProofs` also those of `Caches` |
| `MCSessions` | TLC instance of `Sessions` |
| `Mfa` | second factor of one identity: enrolment, verification, backup codes |
| `Credentials` | password, reset and change tokens, one-time codes of one identity |
| `Provisioning` | how identities, memberships, invites and provider links come to be |
| `Access` | roles, groups, permission documents, and a check reading them |
| `Caches` | what a process remembers: schema, tenant settings, signing keys |
| `Filters` | RSQL parser and SQL builder as operators, with a reference |
| `Policies` | policy compiler, decision and actions of a scope, with a reference |
| `MCSecrets`, `MCTenant`, `MCTranslations` | their TLC instances, each of modules that have no state in common and are explored one after the other: `MCSecrets` holds `Mfa` and `Credentials`; `MCTenant` `Provisioning`, `Access` and `Caches`; `MCTranslations` `Filters` and `Policies`, whose names, statements and requests it gives |

### Login

Each action is one SQL statement with the pure code up to the next await.
`req[r]` is a handler: `pc` names the statement it is about to run, `acct` and
`id` are its copies of the rows it read, kept only as far as the code still uses
them (`Accepted`, `Rejected`). So a decision the code takes on a stale row is
taken on a stale row here.

* First factors: `LoginPassword`/`VerifyPassword`, `LoginIdentity`,
  `LoginWithVerifiedOtp`, `SelectTenantWithToken`, `SwitchTenant` (these three
  share `LoadVerified`), `LoginOauth`/`LoadMembership`. Note the order: OAuth
  reads the identity before the membership, the others after it.
* Lockout: `RegisterFailedAttempt` (decision on the copy, increment in the
  database), `ClearFailedAttempts`.
* `finalize_login`: `SweepChangeTokens` + `InsertChangeToken`, `SweepChallenges`
  + `InsertChallenge`, or `DoCreateSession`.
* `complete_mfa_login`: `GetChallenge`, `DropExhausted`, `LoadMfaUser`,
  `VerifyCode`, `CountAttempt`, `RedeemChallenge`.
* `force_change_password`: `GetChangeToken`, `LoadForceUser`, `UpdatePassword`,
  `DropChangeToken`, `ReloadIdentity`.
* `Abandon`: an error return or a dropped future, possible at every await.
* Environment: archiving, access windows, the kill-switch, forced changes, MFA
  on/off, and time (`LockLapses`, `ChallengeLapses`, ...).

Abstractions: a credential or code is right or wrong (both outcomes are
explored); a timestamp is reduced to whether it has passed; one identity, since
no statement of these handlers touches two. Reads that only reject, such as
login methods or the password policy, are covered by `Abandon`. `SwitchTenant`
asks only that some session was minted before; whether it still validates is the
subject of `Sessions`. What may happen in a behaviour is its `surface`: the
routes clients call, the events beside them and a cap on the counter, one of
`Surfaces`, chosen at its start. It bounds TLC only: the theorems hold for every
set of surfaces, the one that allows everything included. `late` and `sawOff` are history variables; `minted` and
`lastSession` record what was handed out.

### Sessions

One identity with several memberships and a backend chosen at start-up. Redis
`set` is `SetRedis` (SETEX), `IndexSession` (SADD), `ExtendIndex` (EXPIRE), then
`CreateAudit`; PostgreSQL `set` is one INSERT. `delete_all_for_user` on Redis is
`ListIndexed` (SMEMBERS), one `DeleteKey` per member and `DropIndex`.
`logout_global` is a loop over `ListMemberships`. The ignored failures of the
audit statements are the `row' \in {row, ...}` choices; every other failure is
`Abandon`. `IndexLapses` is Redis expiring an index whose time to live was set by
a shorter session than the ones in it.

`SessionContract` knows only tokens: issued once, never valid again once ended,
and a logout answers ok only when nothing it owed validates. What a logout owes
is the covered sessions that clients held when it began. Two Redis behaviours are
outside the contract and are recorded in `lost`: the index entry of a login that
arrives between SMEMBERS and DEL, and an index that expires early. The refinement
says that these are the *only* ways to escape a logout.

### Mfa

The handlers of `routes/mfa.rs` on one identity row. Each reads the row once
(`SessionIdentity`, whose guard `Admits` is the early returns on that copy) and
then runs its statements: `BeginEnrollment` (`set_pending_secret`), `ConfirmCode`,
`VerifyTotp` with the conditional UPDATE of the replay marker, `SelectBackupCode`
and `ConsumeBackupCode` (the sub-select and the UPDATE of one statement: under
READ COMMITTED the sub-select is not evaluated again after the row lock), and the
transactions `EnableMfa`, `DisableMfa`, `RegenerateBackupCodes`, which hold the
row lock from `BeginTx` on and delete only the codes committed when they began. A
code stands for itself; time is the TOTP step.

`OffNeedsCode` names the one way MFA goes off without a code: an enrolment whose
handler read the identity before MFA was confirmed by another request, since
`set_pending_secret` writes `mfa_enabled = false` unconditionally.
`services/mfa.rs` promises "single-use backup codes", the README of the repository
that "TOTP codes cannot be replayed". Neither holds: `SomeCodeSingleUse` is
violated by a behaviour that breaks both. Two requests select a backup code before
one consumes it; and a code checked against a secret that was read before MFA was
disabled or enrolled again meets a marker that was reset. What holds is
`CodeSpendBound`, a spend per request in flight, and `NoReplay`, a time step once
while the marker stands.

### Credentials

Issue (`LoadIdentity`, where a login reads the force flag, `SweepTokens`,
`InsertToken`), redemption (`FindToken`, `SetByToken`,
`DeleteToken`), own and administrative changes, and the one-time code
(`CreateOtp`, `GetLatest`, `IncrementAttempts`, `LoggedIn`, `DeleteOtp`). A
password is the number of its write. `redeemed` counts the uses of each token and
code where they take effect, and `kept` those whose request ended before its
DELETE. The comments promise that a reset "invalidates token" and that a code is
deleted "(one-time use)": `SomeSecretSingleUse` is violated, since requests that
found a token before it was deleted use it too, and one that fails before the
DELETE leaves it. `SingleUseBound` is what holds. The comment on
`admin_reset_password` rules out setting the password of an identity that another
tenant shares; `AdminStaysInTenant` is violated by a membership created after the
count, and by an administrator's user that is itself archived and so not counted.

### Provisioning

Identities (e-mail with its letter case, mobile), memberships, invites, links and
OAuth states. `signup`, `admin_create_user` and `login_oauth` share the steps of
looking a handle up, creating the identity and creating the membership, and part
ways on a collision (`Collision`). Unique indexes are the guards of the inserts:
an insert that loses a race ends the handler, and no property repeats that. `Fail` is an error return or a
dropped future, and records in `lost` the identity whose membership was never
written. The provider is `SignedIn`: any profile, with a verified or an
unverified e-mail.

### Access

One tenant, one user, one group. Administrators write in single steps;
`set_parent` is two (`ValidateParent`, `UpdateParent`), since nothing repeats its
check; an UPDATE whose role is gone changes nothing, one whose parent is gone fails on
the foreign key, and both end the handler. `CreatePermission` is one step although the
roles it names are looked up by a statement of its own: a document whose role was
deleted in between is the same as one whose role is deleted right after. `admin_check_permission` is `ReadNames`, `ReadIds`, `ReadGroupNames`,
`ReadGroupIds`, `ReadPolicies`, `Decide`. The history variable `window` keeps
what held at some and what held at every moment of the check; `AllowExplained`
and `DenyHonoured` compare the decision with the two. A role that moves between
the group and the user during the check may be seen by neither read, so
`DenyHonoured` asks that it was held in the same way throughout.
`AcyclicUnlessRaced` says that only two overlapping `set_parent` calls close a
cycle. `Closure`, the roles a UNION walk returns, is the least set that has the
roles it begins with and the parents of its own, which is what such a query
computes on any hierarchy. On a cycle the UNION ALL walks of `get_role_ancestors` and
`validate_parent` do not end; the UNION queries of a check do, and clearing the
parent, which skips the walk, still works. Documents name a role by its uid, so a
role created again under the same uid is named by them again.

### Caches

Three caches with nothing in common but time: the Cedar schema (`SyncPackage`
commits, then `ListTables`, `ListCustomActions` and `SetSchema` without a lock),
the tenant setting (`GetCached`, or `GetStored` and `GetReturns`; an absent value
is not kept) and the signing keys (`FindCached`, or `Fetch` and `FetchReturns`).
`excuse` records why the schema may be behind: a sync was overtaken between
reading and storing, or failed after its commit. The schema is that of one
process; other processes see a sync only when they start.

### Filters and Policies

Pure translations, checked over every input within the bounds: the state is the
request or the document under construction. `Filters` follows the recursive
descent of `rsql.rs` and the builder of `filter.rs`; a comparison with its field,
operator and values is one token. What the parser's functions return at a token is
a recursive function of the token, and a `FilterNode` is written as the sequence of
its comparisons, with a pair of brackets for each `And` or `Or`; `build_node` writes
that sequence from left to right, the order in which the code visits the tree. The reference cuts a sentence at its outermost
`,` and then at its outermost `;`, and evaluates the comparisons on rows; the SQL
is read by the same rule. So `ListFaithful` compares acceptance, grouping,
placeholders, casts and the fixed condition of the endpoint at once. As in SQL,
`!=` and `=out=` do not return rows where the column is NULL. `filter.rs` does not
escape a value of `=contains=`, `=starts=` or `=ends=`: a `%` in it is a wildcard, as
in the `=starts=` with `%b` among the `Leaves`, which finds a `b` anywhere.

`Policies` compiles a document cell by cell, builds the entity chain of a path,
and decides as Cedar does. Its constants are the names in the registry, the
statements that documents are made of and the requests; a path is any sequence of
segments. The reference reads the document: some statement
allows, none denies, the action exists for that kind of resource. It relies on
`from_entities` never dropping the graph, which `allows_parent` is there for. A
resource with stars names the paths that its text covers (`Covers`: each star is
given a stretch of the text). A resource without stars names itself among the
documented paths (`Canonical`: service, package, then table, query or view, then
column); on other paths the code knows a resource only by its kind and its ids, so
`service:a/report:b` and `service:a/export:b` are one resource, and `Names` says
so. Table names are nonempty, and none completes one verb to another: a table
`extensibleFieldsT` would give `getExtensibleFieldsT` twice. A
policy's id leaves out the principal, so a statement with two principals does not
compile and `admin_create_permission` refuses it, although the header of
`compiler.rs` announces one policy per principal. `get_actions_for_resource`
keeps the first entry of a name: with the same table name in two packages of a
service only one table's path is asked, and at table scope the CRUD actions of
sibling tables appear too, at the package's path, where no grant on a table
matches. The comment of the function says otherwise of both ("For CRUD actions this
is always the table-level path"; "CRUD + custom actions for table z"):
`CrudAtTableLevel` states the comment and is violated, `ActionsFaithful` states what
the function does.

## 3. Runs

| Run | Bounds | Shows |
|---|---|---|
| `login` | 2 requests, 1 membership, 1 challenge, 1 change token, `LockAfter` 2, `MaxMfaAttempts` 2; surfaces `Guess` (counter up to 3), `Paths`, `Gates` | `TypeOK`; `ChallengeRedeemedOnce`; `AttemptBound`; `LockoutBound`; `SecondFactorEnforced`; `ClosedAccountStaysOut` |
| `login_gates` | as `login`, surface `Paths` | **violated**: `force_change_password` skips the "gates common to every login" |
| `login_wrong_codes` | 1 request, 2 challenges, `LockAfter` 3 | **violated**: repeating the first factor resets the count of wrong codes |
| `sessions` | 2 requests, 2 memberships, 2 tokens, both backends | `TypeOK`; `AuditTrail`; `Reachable`; `ImplementsContract` |
| `sessions_global` | 2 requests, 2 memberships, 2 tokens, PostgreSQL | **violated**: sessions of archived memberships survive a global logout |
| `secrets` | `Mfa`: 2 requests, 2 secrets, 2 batches of 1 code, 2 time steps, skew 1. `Credentials`: 2 requests, 2 tenants, 5 handlers, 1 attempt | `MfaTypeOK`; `NoReplay`; `CodeSpendBound`; `EnabledHasBackupCodes`; `OffNeedsCode`. `TypeOK`; `SingleUseBound`; `LiveTokensBound`; `OtpAttemptBound`; `ForceLiftedByNewPassword` |
| `mfa_single_use` | as `Mfa` in `secrets` | **violated**: a backup code and a TOTP code are each accepted twice |
| `credentials_single_use` | 2 requests, 1 tenant, 6 handlers | **violated**: a token sets two passwords and a code opens two sessions |
| `credentials_admin` | 2 requests, 2 tenants, 2 handlers | **violated**: an administrator sets a password that another tenant shares |
| `tenant` | `Provisioning`: 2 requests, 2 tenants, 1 address in 2 cases, 1 mobile, 1 username, 1 provider account; 3 handlers and 2 states, together at most 6, a handler counting 2. `Access`: 3 roles, 2 uids, 2 permissions, 2 movers, 3 writes or handlers. `Caches`: 2 handlers, 2 packages, 2 versions, 1 rotation, clock 4, TTL 2, `MinRefresh` 1, `Latency` 1 | `TypeOK`; `OauthLinkProven`; `MembershipEarned`; `OrphansExplained`; `StateRedeemedOnce`. `AccessTypeOK`; `AllowExplained`; `DenyHonoured`; `AcyclicUnlessRaced`. `CachesTypeOK`; `SchemaCurrentWhenQuiet`; `ConfigStaleBound`; `KeyAnswerBounds` |
| `translations` | filters of 7 tokens, an unusual comparison counting 5; 2 packages, 3 tables; documents of 2 statements | `ListFaithful`; `DecisionFaithful`; `ActionsFaithful` |
| `translations_crud` | as `translations` | **violated**: sibling tables' CRUD actions are asked at the package's path |

Two requests are what every race in these handlers needs: one stale reader and
one writer. The limits are scaled down but keep their order, and the counter's cap
of 3 on `Guess` lies above `LockAfter - 2 + 2`, the largest unlocked count, so it
never hides an overshoot; the theorems below remove the bounds. The routes and
events are split into three surfaces because all at once are out of reach: `Guess`
has what moves the counters, `Paths` the ways around the password, `Gates` what
closes an account against the ways in that read the gates; between them every
action fires. Two tokens let one session be swept while another is
being created; two memberships let a global logout be interrupted half-way.

In `Mfa` two secrets and two batches let an identity be enrolled, disabled and
enrolled again under a verification in flight; in `Credentials` five handlers let
a second round of issuing and redeeming overlap the first; in `Provisioning` two
states let one account sign in twice beside a signup. `Access` starts from
a tenant in use rather than from an empty one (one role per uid, the last perhaps
below the first; the user holds them through the group, the first perhaps
directly; one allowing permission among denying ones, each attached to one role),
so three writes are enough to move, revoke and attach around one check; the clock passes TTL,
MinRefresh and Latency. Seven tokens are the smallest filter with a parenthesised
`,` under a `;`, and the cheap tokens reach it with every shape. Where a run holds
several modules, one of them moves in a behaviour and the others stay at their
start: they share no variable, so their interleavings would add nothing.

Deadlock is checked in `login`, whose clients can always begin a request, and not in
the runs where the model's supply of handlers, tokens, writes or time runs out (the
other passing ones) or where TLC is to stop at a violation; the service's supply does
not run out. Symmetry is used only where the actors
are interchangeable in every property.

No fairness is assumed, since no run checks a liveness property. The handlers have
no loop that waits for another handler: the sweeps work off a list fetched once, and
the walks over the role hierarchy, which a cycle would keep from ending, are the
subject of `AcyclicUnlessRaced`.

Each property of a passing run has a mutant in `PROJECT.json`, a plausible error
in the code that makes TLC report it.

## 4. Proofs

`LoginProofs` proves, for every number of requests,
memberships, challenges, tokens and every limit allowed by `LoginAssumption`
(finitely many requests; `LockAfter >= 2`; `MaxMfaAttempts >= 1`):

* `TypeCorrect`: `Spec => []TypeOK`. The inductive invariant adds `Control`, which ties a handler's
  `pc` to its kind and token, since `RegisterFailedAttempt` and the tails are
  shared by several routes.
* `RedeemedOnce`. `minted[c] <= 1` is not inductive: one must know that a handler
  past `RedeemChallenge` found its row there, that the row is gone for good, that
  at most one handler holds a challenge so redeemed, and that nothing was minted
  from it yet.
* `SecondFactorHolds`. A handler at `finalize` whose copy says MFA is off saw it
  off after it began; only `complete_mfa_login` reaches `mint`.
* `ClosedStaysOut`. A handler that began on a closed account can get past the
  gates on no copy: closing is never undone, so every row read later shows it.
* `AttemptsBounded`, `LockoutBounded`. Both count handlers: the counter plus the
  handlers committed to increment it on an old reading stay within the limit plus
  the number of requests. The step is a cardinality argument over the set of such
  handlers, which each step changes by at most one.
* `Inductive` collects the strengthened invariants.

The module also states what a step leaves in the handler's record (the
`...Effect` lemmas), that a handler's step moves no other handler
(`OneHandlerMoves`) and what the environment may change in one
(`EnvironmentLeavesHandlers`); the invariance proofs use those instead of the
actions where they can.

The proofs of the other modules are laid out in the same way: the inductive
invariant first, part by part, then what each statement does to the rows and to
its handler (`...Effect`), then one step per action. TLC evaluated each invariant
on the instance of its run before it was proved.

**SessionsProofs** (assumes only that `"none"` is no user or token). `Inv` adds to
the types: a login in flight has a token that nobody else has (`LoginsFresh`);
`Reachable` from the moment of the SADD on, since a login is reachable before its
token is returned (`Indexed`); and what a logout still owes is of a membership
still to do or in the list of the sweep that is running (`Owing`). From these
follow `AuditTrailKept`, `ReachableAlways` and, step by step,
`SessionsImplementContract`: each statement of a logout is a step or a stutter of
`SessionContract`, and it answers only when `Owing` leaves nothing.

**MfaProofs** (finitely many requests; at least one time step and one code per
batch). `NoReplayAlways` needs that the marker covers every accepted step.
`CodeSpendBounded` is a counting argument: while a code's secret is the identity's
the marker allows one spend; once it is replaced, the spends plus the handlers
that had loaded the code stay within the requests, and no handler joins them. A
backup code is counted with the handlers that had selected it. `OffAlwaysNeedsCode`
needs that every handler past its check has spent its code and that an enrolment
in flight over an enabled row is marked stale.

**CredentialsProofs** (finitely many requests and tenants, `MaxAttempts >= 1`, as
`MAX_OTP_ATTEMPTS` is 5: the bound is strict, and would read `0 < 0` for a limit
of 0 and no requests). Uses, less those kept, plus the handlers that
have found the token and not used it yet (`Uses`), live tokens plus the handlers about to insert one
(`Tokens`), attempts plus the handlers about to count one (`Attempts`): none of
the three bounds is inductive without its second summand.

**ProvisioningProofs**. `Inv` says what a handler may rely on at each statement
(`ShapeOf`, `FactsOf`): the identity it carries exists, an invite it redeems was
mailed to that identity, the account it is about to link is proven, the state it
carries was its to take. `Counted` bounds the rows: identities, mails and the
handlers that may still write one are at most the handlers started. Tables only
grow, so the facts of one handler survive the steps of the others.

**AccessProofs** (some uids, no more than `MaxRoles`, since the initial tenant has
a role for each). The hierarchy lemmas are about any function from roles to
parents: taking parents away adds no ancestors (`FewerParents`), nor does a role
nobody is below (`NewRole`), and moving `c` below `p` makes no cycle when `c` is
neither `p` nor above it (`NewParent`). `Guarded` says that the walk of a
`set_parent` in flight would still succeed unless another overtook it; with these
lemmas it gives `OnlyRacedMovesCycle`. For the checks, `Witnessed` says that all
that was read held at some moment of the check, and `Noticed` that all that held
at every moment was read, once the check is past that read; the decision theorems
are the two at the last read.

**AccessProofs, the part about Caches** (`TTL >= 1`, `MinRefresh <= TTL`: the code has 60 and 3600 seconds
for the keys, 60 for the settings; with a refresh interval above the TTL `find_jwk`
would refuse, between the two ages, a key that it holds and the provider still
publishes, and with a TTL of 0 the strict bound on a withdrawn key fails). A sync not overtaken
holds the registry as it is; a read in flight returns what was stored when it
began, at most `Latency` ago; the cache expires no later than TTL and one read
after its value's last moment; and a key missing from the cached set was published
after the fetch, up to `Latency`, or is withdrawn.

**PoliciesProofs** (packages and tables with distinct nonempty names; nothing is
assumed of the statements and requests but their form). `DecisionsAreFaithful` and
`ActionsAreFaithful` hold for every registry, every set of documents and every
path. Neither is inductive: `Registered` says that the registry holds an entry for
each package, whose actions include those of its tables, and `Documented` that the
saved documents are sequences of statements; without the first a CRUD action that
the schema declares from the table rows need not be one that was registered. The
rest is about the operators:

* `LikeFaithful`: what Cedar's `like` computes from left to right (`Reached`) is the
  same as the cover that the reference looks for, with any number of stars. In
  between stands a walk: a place in the text for each element of the pattern.
  `WalkCovers` and `CoversWalk` lead from one to the other.
* `UidFaithful`: on documented paths the type of the last segment fixes the
  prefixes of all, and the ids are the rest, so one uid is one path.
* `GraphAccepted`, `UserFound`, `ResourceFound`: the graph fits the schema for every
  path and holds the user and the resource once, so a request is never decided
  without entities. `PolicySpeaks` and `EffectSpeaks` lead from a policy
  back to the statement, `SchemaKnows` from the schema to the registry.
* `SomeFirst`, `OneFirst`: among the entries of a name one comes first, and only
  one, so `dedup` leaves each name exactly once; `TablePushed` and `PackagePushed`
  say which entries there are.

**FiltersProofs** (`MaxSize` is a number; nothing else). `ListsAreFaithful` holds for
every endpoint, every sort and filters of any length; the comparisons in them are the
24 of `Leaves` and the rows those of `Row`, as in the run. Three results carry it:

* `ReadingCut` gives the equations of the reference reading, and `ReadOr`, `ReadAnd`,
  `ReadBracket` what it makes of texts put together. A sequence is `Closed` when its
  parentheses match; only behind a closed part is a separator outermost.
* `ParserFaithful`: what the parser accepts at a token is a sentence of that level and
  its node means the same (`ParserSounds`), and every sentence whose comparisons it
  knows is accepted up to its end (`ParserAccepts`, by the length of the sentence).
* `BuildBuilds`, `AtomMeans`, `BehindFixed`: written token by token (`Built`), the SQL
  denotes the node (`Denotes`), its placeholders are the numbers up to the last value
  bound, each used once (`Fitting`), an atom is true for the rows its comparison is
  about, and AND behind the fixed condition of the endpoint leaves the rows of both,
  since a node has no separator outside its brackets (`Plain`).

Induction over the places of a sequence is by least counterexample (`Least`,
`Induct`): the library's induction theorems take an operator, which the provers
cannot instantiate, but its minimum of a well-founded relation takes a set. The
recursive functions (`ends` in `CedarLike`, the flattening of a path, the parser,
the reading of a text) are chosen by their equation, so the lemmas first show that
there is one (`EndsDefined`, `FlattenDefined`, `ParserDefined`, `ReaderDefined`).

Only model-checked: the seven violations, which are counterexamples. Every property
of a passing run is stated by a theorem.

## 5. What is left

Several groups and several keys in `Access` and `Caches`; conditions of permission
statements in `Policies`; proofs about `Filters` for comparisons and rows given as
constants.

## 6. Not modelled

Password hashing, encryption and token generation (fresh and unguessable);
Cedar's own evaluation beyond equality, membership and `like`; the conditions of
permission statements; e-mail delivery; the provider's token endpoint and the
signature check; HTTP parsing, OpenAPI, logging, tracing and configuration;
quoting inside RSQL values; paging; the rate limiter and `require_permission`,
which no route installs; the key-value admin routes, which are placeholders;
seeding. The policy-set cache of `services/permissions.rs` is filled by
`get_policy_set`, which nothing calls, so there is no cached decision to be
stale; `invalidate_tenant` of the tenant configuration has no caller either.
Principals of the form `user:<email>` or `user:<username>` are resolved by a query on `users.email`,
a column that a migration dropped, and are left out of `Access` and `Policies`.
`PROJECT.json` gives the reason for each part.
