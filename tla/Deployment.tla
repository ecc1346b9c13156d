----------------------------- MODULE Deployment -----------------------------
(***************************************************************************)
(* Applications that share one Redis: each registers BymaxCacheModule      *)
(* (src/src/server/bymax-cache.module.ts) and maybe                        *)
(* BymaxCacheAdminModule, Nest builds the providers, the connection        *)
(* manager opens its clients, and keys are written, and flushed by         *)
(* namespace.                                                              *)
(***************************************************************************)
EXTENDS Configuration, FiniteSets

CONSTANTS
  Apps,         \* applications
  Chars,        \* the characters of texts
  Deployments,  \* the options that each may give its modules, or Null
  Texts,        \* prefixes, ids and bare keys
  Globs,        \* patterns of ids
  MaxKeys,      \* bound on the keys in Redis
  Production    \* NODE_ENV is 'production'

(* Options are typed, as the code is; ioredis takes a null for the retries  *)
(* of a cluster.                                                           *)
CacheOptionsTyped(o) ==
  /\ ApplyDefaults(o) # Null
  /\ o.mode \in {Null, "standalone", "sentinel", "cluster"}
  /\ {o.namespace, o.keySeparator} \subseteq Seq(Chars) \union {Null}
  /\ o.connection # Null =>
       /\ o.connection.enableOfflineQueue \in {Null} \union BOOLEAN
       /\ o.connection.maxRetriesPerRequest \in {Null} \union Nat

AdminOptionsTyped(o) == \A i \in DOMAIN o.scopes : o.scopes[i].pattern \in Seq(Chars)

ASSUME DeploymentAssumption ==
  /\ MaxKeys \in Nat /\ Production \in BOOLEAN
  /\ {"a", ":"} \subseteq Chars /\ Texts \subseteq Seq(Chars) /\ Globs \subseteq Seq(Chars)
  /\ \A d \in Deployments, a \in Apps :
       /\ d[a].cache # Null => CacheOptionsTyped(d[a].cache)
       /\ d[a].admin # Null => AdminOptionsTyped(d[a].admin)

ASSUME NullAssumption ==
  /\ Null \notin {"forRoot", "forRootAsync", "tls"}
  /\ Null \notin {"INVALID_NAMESPACE", "SENTINEL_MISCONFIGURED", "CLUSTER_MISCONFIGURED", "CONNECTION_FAILED",
                 "INVALID_SCOPE", "Error", "unresolved dependency"}
  /\ Null \notin Nat /\ Null \notin BOOLEAN /\ Nil \notin Nat

VARIABLES
  entry,       \* how an application registered: forRoot or forRootAsync
  raw,         \* the options it gives the cache module, Null if there is no such application
  admin,       \* the options it gives the administration module, Null without one
  resolved,    \* its resolved options
  made,        \* its providers
  failure,     \* why it does not start
  main,        \* the options of its main client
  subscriber,  \* the options of its subscriber client
  store        \* the keys in Redis, each with its writer

starting == <<entry, raw, admin, resolved, made, failure>>
clients  == <<main, subscriber>>
vars     == <<starting, clients, store>>

-----------------------------------------------------------------------------
(* The providers and what is injected into each.                           *)

CommonProviders ==
  [ConnectionManager    |-> {"OPTIONS", "EVENTS"},
   KeyBuilder           |-> {"OPTIONS"},
   CacheService         |-> {"OPTIONS", "ConnectionManager", "KeyBuilder", "SERIALIZER", "ScriptManagerService"},
   PubSubService        |-> {"OPTIONS", "ConnectionManager", "KeyBuilder", "SERIALIZER", "EVENTS"},
   ScriptManagerService |-> {"OPTIONS", "ConnectionManager"},
   KEY_BUILDER          |-> {"KeyBuilder"},
   SCRIPT_REGISTRY      |-> {"ScriptManagerService"},
   CONNECTION           |-> {"ConnectionManager"}]

SyncProviders == Also([OPTIONS |-> {}, EVENTS |-> {}, SERIALIZER |-> {}], CommonProviders)

AsyncProviders ==
  Also([OPTIONS        |-> {},
        EVENTS         |-> {"OPTIONS"},
        JsonSerializer |-> {},
        SERIALIZER     |-> {"OPTIONS", "JsonSerializer"}], CommonProviders)

AdminProviders ==
  [ADMIN_OPTIONS      |-> {},
   CacheStatusService |-> {"CacheService", "OPTIONS", "ADMIN_OPTIONS", "SERIALIZER"},
   CacheAdminService  |-> {"CacheService", "ADMIN_OPTIONS"}]

(* forRootAsync takes isGlobal from its call, where it is not given here.  *)
IsGlobal(a) == entry[a] = "forRootAsync" \/ Or(raw[a].isGlobal, TRUE)

Providers(a) ==
  Also(IF entry[a] = "forRoot" THEN SyncProviders ELSE AsyncProviders,
       IF admin[a] = Null THEN <<>> ELSE AdminProviders)

(* A module that does not import the cache module sees it if it is global. *)
Injectable(a, p) ==
  /\ Providers(a)[p] \subseteq made[a]
  /\ p \in DOMAIN AdminProviders => IsGlobal(a) \/ AdminProviders[p] \subseteq DOMAIN AdminProviders

Ready(a) == {p \in DOMAIN Providers(a) \ made[a] : Injectable(a, p)}

Running(a) == /\ entry[a] # Null
              /\ made[a] = DOMAIN Providers(a)
              /\ failure[a] = Null

-----------------------------------------------------------------------------
(* Start.                                                                  *)

Fail(a, code) == failure' = [failure EXCEPT ![a] = code] /\ UNCHANGED <<resolved, made>>

(* forRoot of both modules throws while the module is declared.            *)
ForRoot(a) ==
  /\ raw[a] # Null /\ entry[a] = Null
  /\ entry' = [entry EXCEPT ![a] = "forRoot"]
  /\ LET code == Or(Refusal(raw[a]), IF admin[a] = Null THEN Null ELSE AdminRefusal(admin[a]))
     IN  IF code # Null THEN Fail(a, code)
         ELSE /\ resolved' = [resolved EXCEPT ![a] = ApplyDefaults(raw[a])]
              /\ UNCHANGED <<made, failure>>
  /\ UNCHANGED <<raw, admin, clients, store>>

ForRootAsync(a) ==
  /\ raw[a] # Null /\ entry[a] = Null
  /\ entry' = [entry EXCEPT ![a] = "forRootAsync"]
  /\ UNCHANGED <<raw, admin, resolved, made, failure, clients, store>>

(* What building a provider throws: the factories of forRootAsync validate *)
(* the options, the constructor of ConnectionManager merges them.          *)
BuildError(a, p) ==
  CASE p = "OPTIONS" /\ entry[a] = "forRootAsync" -> Refusal(raw[a])
    [] p = "ADMIN_OPTIONS"     -> AdminRefusal(admin[a])
    [] p = "ConnectionManager" -> IF Constructs(resolved[a]) THEN Null ELSE "Error"
    [] OTHER                   -> Null

Throwing(a) == {p \in Ready(a) : BuildError(a, p) # Null}

(* Nest builds what can be built.                                          *)
Instantiate(a) ==
  /\ entry[a] # Null /\ failure[a] = Null /\ ~Running(a)
  /\ CASE Ready(a) = {}     -> Fail(a, "unresolved dependency")
       [] Throwing(a) # {}  -> \E p \in Throwing(a) : Fail(a, BuildError(a, p))
       [] OTHER             ->
            /\ made' = [made EXCEPT ![a] = @ \union Ready(a)]
            /\ resolved' = [resolved EXCEPT ![a] = IF "OPTIONS" \in Ready(a) THEN ApplyDefaults(raw[a]) ELSE @]
            /\ UNCHANGED failure
  /\ UNCHANGED <<entry, raw, admin, clients, store>>

-----------------------------------------------------------------------------
(* Clients and keys of an application that runs.                           *)

OpenClient(a) ==
  /\ Running(a) /\ main[a] = Null
  /\ main' = [main EXCEPT ![a] = CreateClient(resolved[a], Null)]
  /\ UNCHANGED <<starting, subscriber, store>>

OpenSubscriber(a) ==
  /\ Running(a) /\ subscriber[a] = Null
  /\ subscriber' = [subscriber EXCEPT ![a] = CreateClient(resolved[a], TRUE)]
  /\ UNCHANGED <<starting, main, store>>

(* A key of a prefix and an id, or one that only the namespace is applied  *)
(* to, as for scripts and channels.                                        *)
Write(a, key) ==
  /\ Running(a) /\ main[a] # Null
  /\ Cardinality(store) < MaxKeys
  /\ store' = store \union {[owner |-> a, key |-> key]}
  /\ UNCHANGED <<starting, clients>>

SetKey(a, prefix, id) == IsKeyPart(prefix) /\ IsKeyPart(id) /\ Write(a, Build(resolved[a], prefix, id))
SetBare(a, key)       == IsKeyPart(key) /\ Write(a, ApplyNamespace(resolved[a], key))

(* flushNamespace, as one step: KeyIteration has its steps.                *)
Flush(a) ==
  /\ Running(a) /\ main[a] # Null
  /\ Production => resolved[a].allowFlushInProduction
  /\ resolved[a].mode # "cluster"
  /\ store' = {w \in store : ~GlobMatches(FlushPattern(resolved[a]), w.key)}
  /\ UNCHANGED <<starting, clients>>

-----------------------------------------------------------------------------
Init ==
  /\ entry = [a \in Apps |-> Null]
  /\ \E d \in Deployments : raw = [a \in Apps |-> d[a].cache] /\ admin = [a \in Apps |-> d[a].admin]
  /\ resolved = [a \in Apps |-> Null]
  /\ made = [a \in Apps |-> {}]
  /\ failure = [a \in Apps |-> Null]
  /\ main = [a \in Apps |-> Null]
  /\ subscriber = [a \in Apps |-> Null]
  /\ store = {}

Next ==
  \E a \in Apps :
    \/ ForRoot(a) \/ ForRootAsync(a) \/ Instantiate(a) \/ OpenClient(a) \/ OpenSubscriber(a) \/ Flush(a)
    \/ \E key \in Texts : SetBare(a, key)
    \/ \E prefix, id \in Texts : SetKey(a, prefix, id)

Spec == Init /\ [][Next]_vars

-----------------------------------------------------------------------------
TypeOK ==
  /\ entry \in [Apps -> {Null, "forRoot", "forRootAsync"}]
  /\ DOMAIN made = Apps /\ \A a \in Apps : entry[a] # Null => made[a] \subseteq DOMAIN Providers(a)
  /\ \A a \in Apps : failure[a] # Null => made[a] # DOMAIN Providers(a) /\ main[a] = Null /\ subscriber[a] = Null
  /\ \A a \in Apps : Running(a) => resolved[a] # Null
  /\ \A w \in store : w.owner \in Apps /\ main[w.owner] # Null
  /\ Cardinality(store) <= MaxKeys

(* A separator of one character that is no glob character, which nothing   *)
(* validates.                                                              *)
PlainSeparator(options) ==
  Len(options.keySeparator) = 1 /\ Head(options.keySeparator) \notin GlobMetacharacters

SameNamespace(a, b) == resolved[a].namespace = resolved[b].namespace
Comparable(a, b)    == /\ Running(a) /\ Running(b)
                       /\ PlainSeparator(resolved[a])
                       /\ resolved[a].keySeparator = resolved[b].keySeparator

(* With one plain separator, no key of a namespace begins with the prefix  *)
(* of another (default-options.ts:93-134, key-builder.ts:45-69).           *)
KeysApart ==
  \A a \in Apps, w \in store :
    Comparable(a, w.owner) /\ ~SameNamespace(a, w.owner) =>
      ~IsPrefix(GetNamespacePrefix(resolved[a]), w.key)

(* And no pattern of an application reaches a key without its prefix: not  *)
(* the one of flushNamespace, nor any glob that scan, keys or psubscribe   *)
(* is given (cache.service.ts:514, 542, 626, pubsub.service.ts:167).       *)
PatternsKeepPrefix ==
  \A a \in Apps, w \in store :
    Running(a) /\ PlainSeparator(resolved[a]) =>
      LET Reached == {FlushPattern(resolved[a])} \union {ApplyNamespace(resolved[a], glob) : glob \in Globs}
                       \union {Build(resolved[a], prefix, glob) : prefix \in Texts, glob \in Globs}
      IN  \A pattern \in Reached :
            GlobMatches(pattern, w.key) => IsPrefix(GetNamespacePrefix(resolved[a]), w.key)

(* A flush takes every key of its namespace, whoever wrote it, and none of *)
(* another (cache.service.ts:613-638).                                     *)
FlushExact ==
  [][\A a \in Apps :
       Running(a) /\ PlainSeparator(resolved[a]) /\ Flush(a) =>
         \A w \in store : Comparable(a, w.owner) =>
           (w \in store' <=> ~SameNamespace(a, w.owner))]_vars

(* What the administration surface decides of a key without a matcher is   *)
(* what Redis matches (validate-scopes.ts:18-35, 69-72).                   *)
ScopeExact ==
  \A a \in Apps :
    Running(a) /\ admin[a] # Null =>
      \A i \in DOMAIN admin[a].scopes, w \in store :
        IsKeyInScope(admin[a].scopes[i].pattern, w.key) <=> GlobMatches(admin[a].scopes[i].pattern, w.key)

(* Redis and the library agree on what a pattern reaches: the prefix bounds *)
(* it, and a scope needs no matcher (key-builder.ts:45-78,                 *)
(* validate-scopes.ts:69-72).                                              *)
PatternsExact == PatternsKeepPrefix /\ ScopeExact

(* What a consumer may write into the options of a cluster: to queue while *)
(* it is down (undefined leaves it to ioredis, which does), to wait for an *)
(* answer without a bound, to retry without one.                           *)
AsksToQueue(c) == "enableOfflineQueue" \in DOMAIN c.options /\ c.options.enableOfflineQueue # FALSE
AsksToWait(c)  == "commandTimeout" \in DOMAIN c.redisOptions /\ c.redisOptions.commandTimeout = Null
AsksToRetry(c) == "maxRetriesPerRequest" \in DOMAIN c.redisOptions /\ c.redisOptions.maxRetriesPerRequest = Nil

Redis(client) == IF client.driver = "cluster" THEN client.redisOptions ELSE client

(* commandTimeout bounds a command from the moment it is given, but the    *)
(* queue of a cluster, which is before the nodes, knows no timeout         *)
(* (connection.manager.ts:268-269,                                         *)
(* connection.manager.cluster-outage.spec.ts:61-83).                       *)
GivesUp(client) ==
  /\ Redis(client).commandTimeout # Null
  /\ client.driver = "cluster" => client.enableOfflineQueue = FALSE

(* No command of the main client waits for ever, is queued or is retried   *)
(* without a bound unless the options ask for that; the subscriber queues, *)
(* and gives up unless it is of a cluster; and what is written into the    *)
(* options of a cluster wins over the defaults                             *)
(* (connection.manager.ts:152-157, 261-284, 287-310,                       *)
(* cache-module-options.interface.ts:101-105).                             *)
ClientsAsPromised ==
  \A a \in Apps :
    LET o         == resolved[a]
        inCluster == o.mode = "cluster"
    IN  /\ main[a] # Null =>
             /\ GivesUp(main[a]) \/ (inCluster /\ (AsksToQueue(o.cluster) \/ AsksToWait(o.cluster)))
             /\ main[a].enableOfflineQueue # FALSE =>
                  IF inCluster THEN AsksToQueue(o.cluster) ELSE o.connection.enableOfflineQueue = TRUE
             /\ Redis(main[a]).maxRetriesPerRequest = Nil => inCluster /\ AsksToRetry(o.cluster)
             /\ inCluster => \A f \in DOMAIN o.cluster.redisOptions : main[a].redisOptions[f] = o.cluster.redisOptions[f]
        /\ subscriber[a] # Null =>
             /\ subscriber[a].enableOfflineQueue = TRUE
             /\ GivesUp(subscriber[a]) \/ inCluster

(* The endpoint that config shows is the one the client is given, and a    *)
(* transport shown as encrypted is (cache-status.service.ts:105-144).      *)
EndpointTrue ==
  \A a \in Apps :
    main[a] # Null =>
      LET shown == ReadEndpoint(resolved[a])
      IN  /\ shown.host # Null => shown.host = main[a].host
          /\ shown.port # Null => shown.port = main[a].port
          /\ shown.isTls => main[a].tls # Null

(* An application on a standalone Redis starts, or is refused with a code  *)
(* of the library (default-options.ts:79-91).                              *)
StandaloneRefusalIsCoded ==
  \A a \in Apps : failure[a] = "Error" => Mode(raw[a]) # "standalone"

(* Every provider can be built, but those of an administration module that *)
(* does not see the cache module (bymax-cache.module.ts:51-182,            *)
(* bymax-cache-admin.module.ts:11-14).                                     *)
Resolves ==
  \A a \in Apps : failure[a] = "unresolved dependency" => admin[a] # Null /\ ~IsGlobal(a)

(* An application that starts has the clients its options promise, and one *)
(* that does not start is refused for a reason it was given                *)
(* (default-options.ts:73-248, connection.manager.ts:151-311).             *)
StartsAsPromised ==
  TypeOK /\ ClientsAsPromised /\ EndpointTrue /\ StandaloneRefusalIsCoded /\ Resolves

(* What cache-config.types.ts:10 and cache.service.ts:602 say of any two   *)
(* namespaces.                                                             *)
NamespacesApart ==
  \A a \in Apps, w \in store :
    Running(a) /\ Running(w.owner) /\ ~SameNamespace(a, w.owner) =>
      ~GlobMatches(FlushPattern(resolved[a]), w.key)
=============================================================================
