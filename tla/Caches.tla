------------------------------- MODULE Caches -------------------------------
(***************************************************************************)
(* What a process remembers of state kept elsewhere: the Cedar schema of   *)
(* the package registry (services/packages.rs), the tenant configuration   *)
(* (services/tenant_config.rs) and a provider's signing keys (find_jwk in  *)
(* services/oauth.rs).  No lock is held across an await, so a value read   *)
(* is stored later, when it may be old.  The three share nothing but time. *)
(***************************************************************************)
EXTENDS Naturals, FiniteSets

CONSTANTS
    Handlers,      \* requests that may be in flight at the same time
    Packages,
    MaxVersions,   \* bound: syncs of a package, writes of a key
    MaxRotations,  \* bound: signing keys published after the first
    MaxClock,      \* bound: time
    TTL,           \* CACHE_TTL_SECS, JWKS_CACHE_TTL_SECS
    MinRefresh,    \* JWKS_MIN_REFRESH_SECS
    Latency        \* bound: the time between a read and the use of its answer

ASSUME CachesAssumption ==
    /\ IsFiniteSet(Handlers)
    /\ {MaxVersions, MaxRotations, MaxClock, TTL, MinRefresh, Latency} \subseteq Nat
    /\ TTL > 0 /\ MinRefresh <= TTL

VARIABLES
    registry,  \* _auth_packages and _auth_package_actions: the sync that wrote each package
    schema,    \* cedar_schema: the syncs its tables and its actions are from
    sync,      \* the syncs in flight
    excuse,    \* history: why the schema may be old
    clock,
    kv,        \* kv_store, one key: the versions written, the present one (0: absent)
    config,    \* the configuration cache, one key
    get,       \* the configuration reads in flight
    keys,      \* the provider's keys: when each was published and withdrawn
    jwks,      \* the key cache, one provider
    find,      \* the key look-ups in flight
    answer     \* history: the last answers given

schemaVars == <<registry, schema, sync, excuse>>
configVars == <<kv, config, get>>
jwksVars == <<keys, jwks, find>>
cachesVars == <<schemaVars, configVars, jwksVars, clock, answer>>

-----------------------------------------------------------------------------
Version == 0..MaxVersions
Time == 0..MaxClock
Never == MaxClock + 1
Registry == [Packages -> Version]

Sync == [pc : {"idle", "tables", "actions", "set"}, tables : Registry, actions : Registry, old : BOOLEAN]
NoSync == [pc |-> "idle", tables |-> [p \in Packages |-> 0], actions |-> [p \in Packages |-> 0], old |-> FALSE]

Empty == [p \in Packages |-> 0]
SchemaInit ==
    /\ registry = Empty /\ schema = [tables |-> Empty, actions |-> Empty]
    /\ sync = [h \in Handlers |-> NoSync] /\ excuse = "none"

(***************************************************************************)
(* sync: one transaction replaces the package, then rebuild_schema reads   *)
(* the tables, reads the actions and stores the schema built from them.    *)
(* old is history: another sync committed after this one's first read.     *)
(***************************************************************************)
SyncPackage_NoRebuild(h, p) ==
    /\ sync[h].pc = "idle" /\ registry[p] < MaxVersions
    /\ registry' = [registry EXCEPT ![p] = @ + 1]
    /\ sync' = [g \in Handlers |-> [sync[g] EXCEPT !.old = sync[g].pc \in {"actions", "set"}]]
    /\ UNCHANGED <<schema, excuse, clock, configVars, jwksVars, answer>>

SyncPackage(h, p) ==
    /\ sync[h].pc = "idle" /\ registry[p] < MaxVersions
    /\ registry' = [registry EXCEPT ![p] = @ + 1]
    /\ sync' = [g \in Handlers |-> IF g = h THEN [NoSync EXCEPT !.pc = "tables"]
                                   ELSE [sync[g] EXCEPT !.old = @ \/ sync[g].pc \in {"actions", "set"}]]
    /\ UNCHANGED <<schema, excuse, clock, configVars, jwksVars, answer>>

ListTables(h) ==
    /\ sync[h].pc = "tables"
    /\ sync' = [sync EXCEPT ![h].pc = "actions", ![h].tables = registry]
    /\ UNCHANGED <<registry, schema, excuse, clock, configVars, jwksVars, answer>>

ListCustomActions(h) ==
    /\ sync[h].pc = "actions"
    /\ sync' = [sync EXCEPT ![h].pc = "set", ![h].actions = registry]
    /\ UNCHANGED <<registry, schema, excuse, clock, configVars, jwksVars, answer>>

SetSchema(h) ==
    /\ sync[h].pc = "set"
    /\ schema' = [tables |-> sync[h].tables, actions |-> sync[h].actions]
    /\ excuse' = IF sync[h].old THEN "raced" ELSE "none"
    /\ sync' = [sync EXCEPT ![h] = NoSync]
    /\ UNCHANGED <<registry, clock, configVars, jwksVars, answer>>

\* A read fails, or the schema does not parse: the package stays committed.
SyncFails(h) ==
    /\ sync[h].pc # "idle"
    /\ sync' = [sync EXCEPT ![h] = NoSync]
    /\ excuse' = "failed"
    /\ UNCHANGED <<registry, schema, clock, configVars, jwksVars, answer>>

\* main: the process starts with the schema of the registry, before it serves.
Boot ==
    /\ sync' = [h \in Handlers |-> NoSync]
    /\ schema' = [tables |-> registry, actions |-> registry]
    /\ excuse' = "none"
    /\ UNCHANGED <<registry, clock, configVars, jwksVars, answer>>

SchemaNext ==
    \/ \E h \in Handlers : \/ \E p \in Packages : SyncPackage(h, p)
                           \/ ListTables(h) \/ ListCustomActions(h) \/ SetSchema(h) \/ SyncFails(h)
    \/ Boot

-----------------------------------------------------------------------------
(***************************************************************************)
(* TenantConfigLoader::get on one key.  A value is a version; last is      *)
(* history: when each was the stored value for the last time.              *)
(***************************************************************************)
ConfigRead == [pc : {"idle", "read"}, value : Version, at : Time]
NoRead == [pc |-> "idle", value |-> 0, at |-> 0]
NoAnswer == [who |-> "none", value |-> 0, ok |-> FALSE, began |-> 0]

ConfigInit ==
    /\ kv = [now |-> 0, top |-> 0, last |-> [v \in Version |-> IF v = 0 THEN Never ELSE 0]]
    /\ config = [value |-> 0, expires |-> 0]
    /\ get = [h \in Handlers |-> NoRead]

\* The seeder, or an operator in the database; nothing invalidates the cache.
Store(v) ==
    /\ v # kv.now /\ v \in {0, kv.top + 1} /\ v <= MaxVersions
    /\ kv' = [now |-> v, top |-> IF v = 0 THEN kv.top ELSE v,
              last |-> [kv.last EXCEPT ![kv.now] = clock, ![v] = Never]]
    /\ UNCHANGED <<schemaVars, config, get, jwksVars, clock, answer>>

Cached == config.expires > clock

GetCached(h) ==
    /\ get[h].pc = "idle" /\ Cached
    /\ answer' = [who |-> "config", value |-> config.value, ok |-> TRUE, began |-> clock]
    /\ UNCHANGED <<schemaVars, configVars, jwksVars, clock>>

GetStored(h) ==
    /\ get[h].pc = "idle" /\ ~Cached
    /\ get' = [get EXCEPT ![h] = [pc |-> "read", value |-> kv.now, at |-> clock]]
    /\ UNCHANGED <<schemaVars, kv, config, jwksVars, clock, answer>>

\* Only a value that exists is kept.
Keep_AbsentToo(v) == config' = [value |-> v, expires |-> clock + TTL]
Keep(v) == config' = IF v = 0 THEN config ELSE [value |-> v, expires |-> clock + TTL]

GetReturns(h) ==
    /\ get[h].pc = "read"
    /\ Keep(get[h].value)
    /\ answer' = [who |-> "config", value |-> get[h].value, ok |-> TRUE, began |-> get[h].at]
    /\ get' = [get EXCEPT ![h] = NoRead]
    /\ UNCHANGED <<schemaVars, kv, jwksVars, clock>>

ConfigNext ==
    \/ \E v \in Version : Store(v)
    \/ \E h \in Handlers : GetCached(h) \/ GetStored(h) \/ GetReturns(h)

-----------------------------------------------------------------------------
(***************************************************************************)
(* find_jwk for key k of one provider: a fresh entry that has the key      *)
(* answers; an entry younger than MinRefresh refuses; else the keys are    *)
(* fetched, and the entry replaced when the answer arrives.                *)
(***************************************************************************)
Key == 0..MaxRotations
Look == [pc : {"idle", "fetched"}, key : Key, keys : SUBSET Key, at : Time]
NoLook == [pc |-> "idle", key |-> 0, keys |-> {}, at |-> 0]
Published(t) == {k \in Key : keys[k].from <= t /\ t < keys[k].until}

JwksInit ==
    /\ keys = [k \in Key |-> [from |-> IF k = 0 THEN 0 ELSE Never, until |-> Never]]
    /\ jwks = [present |-> FALSE, keys |-> {}, at |-> 0]
    /\ find = [h \in Handlers |-> NoLook]

\* The provider publishes the next key, or withdraws the oldest.
Rotate ==
    /\ \/ \E k \in Key : /\ keys[k].from = Never /\ \A j \in Key : j < k => keys[j].from < Never
                         /\ keys' = [keys EXCEPT ![k].from = clock]
       \/ \E k \in Published(clock) : /\ \E j \in Published(clock) : j > k
                                      /\ \A j \in Published(clock) : j >= k
                                      /\ keys' = [keys EXCEPT ![k].until = clock]
    /\ UNCHANGED <<schemaVars, configVars, jwks, find, clock, answer>>

Young(age) == jwks.present /\ clock - jwks.at < age
Answer(k, ok, began) == answer' = [who |-> "jwks", value |-> k, ok |-> ok, began |-> began]

FindCached_NoTtl(h, k) ==
    /\ find[h].pc = "idle"
    /\ \/ jwks.present /\ k \in jwks.keys /\ Answer(k, TRUE, clock)
       \/ k \notin jwks.keys /\ Young(MinRefresh) /\ Answer(k, FALSE, clock)
    /\ UNCHANGED <<schemaVars, configVars, jwksVars, clock>>

FindCached(h, k) ==
    /\ find[h].pc = "idle"
    /\ \/ Young(TTL) /\ k \in jwks.keys /\ Answer(k, TRUE, clock)
       \/ ~(Young(TTL) /\ k \in jwks.keys) /\ Young(MinRefresh) /\ Answer(k, FALSE, clock)
    /\ UNCHANGED <<schemaVars, configVars, jwksVars, clock>>

Fetch_StampsExpiry(h, k) ==
    /\ find[h].pc = "idle"
    /\ ~(Young(TTL) /\ k \in jwks.keys) /\ ~Young(MinRefresh)
    /\ find' = [find EXCEPT ![h] = [pc |-> "fetched", key |-> k, keys |-> Published(clock), at |-> clock + TTL]]
    /\ UNCHANGED <<schemaVars, configVars, keys, jwks, clock, answer>>

Fetch(h, k) ==
    /\ find[h].pc = "idle"
    /\ ~(Young(TTL) /\ k \in jwks.keys) /\ ~Young(MinRefresh)
    /\ find' = [find EXCEPT ![h] = [pc |-> "fetched", key |-> k, keys |-> Published(clock), at |-> clock]]
    /\ UNCHANGED <<schemaVars, configVars, keys, jwks, clock, answer>>

FetchReturns(h) ==
    /\ find[h].pc = "fetched"
    /\ jwks' = [present |-> TRUE, keys |-> find[h].keys, at |-> clock]
    /\ Answer(find[h].key, find[h].key \in find[h].keys, find[h].at)
    /\ find' = [find EXCEPT ![h] = NoLook]
    /\ UNCHANGED <<schemaVars, configVars, keys, clock>>

FetchFails(h) ==
    /\ find[h].pc = "fetched"
    /\ find' = [find EXCEPT ![h] = NoLook]
    /\ UNCHANGED <<schemaVars, configVars, keys, jwks, clock, answer>>

JwksNext ==
    \/ Rotate
    \/ \E h \in Handlers : (\E k \in Key : FindCached(h, k) \/ Fetch(h, k)) \/ FetchReturns(h) \/ FetchFails(h)

-----------------------------------------------------------------------------
\* Time passes; an answer under way arrives within Latency.
Tick ==
    /\ clock < MaxClock
    /\ \A h \in Handlers : /\ get[h].pc = "read" => clock < get[h].at + Latency
                           /\ find[h].pc = "fetched" => clock < find[h].at + Latency
    /\ clock' = clock + 1
    /\ answer' = NoAnswer
    /\ UNCHANGED <<schemaVars, configVars, jwksVars>>

CachesInit == SchemaInit /\ ConfigInit /\ JwksInit /\ clock = 0 /\ answer = NoAnswer
CachesNext == SchemaNext \/ ConfigNext \/ JwksNext \/ Tick
CachesSpec == CachesInit /\ [][CachesNext]_cachesVars

-----------------------------------------------------------------------------
(***************************************************************************)
(* CachesTypeOK: the types; no cache holds a version that was not written  *)
(* or a key that was not published.                                        *)
(***************************************************************************)
CachesTypeOK ==
    /\ registry \in Registry /\ sync \in [Handlers -> Sync] /\ excuse \in {"none", "raced", "failed"}
    /\ \A p \in Packages : schema.tables[p] <= registry[p] /\ schema.actions[p] <= registry[p]
    /\ clock \in Time /\ get \in [Handlers -> ConfigRead] /\ find \in [Handlers -> Look]
    /\ kv.now \in {0, kv.top} /\ kv.top \in Version /\ config.value \in 0..kv.top
    /\ \A k \in jwks.keys : keys[k].from <= clock

(***************************************************************************)
(* "Package synced and Cedar schema rebuilt": once no sync is in flight    *)
(* the schema is that of the registry, unless the last one to store it was *)
(* overtaken by another commit, or one failed after its commit.            *)
(***************************************************************************)
SchemaCurrentWhenQuiet ==
    (\A h \in Handlers : sync[h].pc = "idle") /\ excuse = "none" =>
        schema = [tables |-> registry, actions |-> registry]

(***************************************************************************)
(* With no invalidation, a configuration answer is still at most TTL and   *)
(* one read old; an absent value is never remembered, so "absent" was the  *)
(* truth at some moment since that get began.                              *)
(***************************************************************************)
ConfigStaleBound ==
    answer.who = "config" =>
        IF answer.value = 0 THEN kv.last[0] >= answer.began
        ELSE kv.last[answer.value] + TTL + Latency > clock \/ kv.last[answer.value] >= answer.began

(***************************************************************************)
(* A rotation shuts nobody out for long: a key refused was published less  *)
(* than MinRefresh and one fetch ago, or withdrawn; a key accepted was     *)
(* published within the last TTL and one fetch.                            *)
(***************************************************************************)
KeyAnswerBounds ==
    answer.who = "jwks" =>
        IF answer.ok THEN keys[answer.value].until + TTL + Latency > clock
        ELSE keys[answer.value].from + MinRefresh + Latency >= clock \/ keys[answer.value].until <= clock
=============================================================================
