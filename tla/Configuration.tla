--------------------------- MODULE Configuration ---------------------------
(***************************************************************************)
(* From the options of a consumer to the options of a Redis client:        *)
(* validation and defaults (src/src/server/config/default-options.ts), the *)
(* connection URL (parse-redis-url.ts) and the clients that                *)
(* connection.manager.ts creates of them; besides, what the status service *)
(* shows of them and the options of the administration surface.            *)
(*                                                                         *)
(* An option that is not set is Null. Options that are handed on untouched *)
(* (retry strategies, socket options, names) are left out.                 *)
(***************************************************************************)
EXTENDS KeyBuilder

CONSTANTS
  Null,      \* undefined
  Nil,       \* null
  EmptyUrl,  \* ''
  BadUrl     \* a text that is no URL

DefaultNamespace      == <<"a">>
DefaultKeySeparator   == <<":">>
DefaultPort           == 6379
DefaultConnectTimeout == 10000
DefaultCommandTimeout == 5000
DefaultMaxRetries     == 3
DefaultShutdown       == 5000
MinTimeout            == 100   \* MIN_SHUTDOWN_TIMEOUT_MS and MIN_CONNECT_TIMEOUT_MS

(* value ?? otherwise                                                      *)
Or(value, otherwise) == IF value = Null THEN otherwise ELSE value

(* f @@ g, which is built into TLC and unknown to the prover.              *)
Also(f, g) == [p \in DOMAIN f \union DOMAIN g |-> IF p \in DOMAIN f THEN f[p] ELSE g[p]]

-----------------------------------------------------------------------------
(* parseRedisUrl. A URL has a protocol, a host and maybe a port, a         *)
(* password, which may not decode, and a database.                         *)
IsUrl(url)     == url \notin {Null, EmptyUrl, BadUrl}
UrlParses(url) == IsUrl(url) /\ url.protocol \in {"redis", "rediss"} /\ url.host # Null /\ url.decodes

NoUrl == [host |-> Null, port |-> Null, password |-> Null, db |-> Null, tls |-> Null]

ParseRedisUrl(url) ==
  [host |-> url.host, port |-> Or(url.port, DefaultPort), password |-> url.password,
   db |-> url.db, tls |-> IF url.protocol = "rediss" THEN "tls" ELSE Null]

-----------------------------------------------------------------------------
(* validateOptions: the code it throws, or Null.                           *)
Mode(options) == Or(options.mode, "standalone")

StandaloneHolds(c) ==
  /\ c # Null
  /\ c.url \notin {Null, EmptyUrl} \/ c.host # Null
  /\ c.url \in {Null, EmptyUrl} \/ UrlParses(c.url)

ModeRefusal(options) ==
  CASE Mode(options) = "sentinel" /\ (options.sentinel = Null \/ options.sentinel.sentinels = 0 \/ options.sentinel.name \in {Null, ""}) ->
         "SENTINEL_MISCONFIGURED"
    [] Mode(options) = "cluster" /\ (options.cluster = Null \/ options.cluster.nodes = 0) -> "CLUSTER_MISCONFIGURED"
    [] Mode(options) = "standalone" /\ ~StandaloneHolds(options.connection) -> "CONNECTION_FAILED"
    [] OTHER -> Null

TimeoutsHold(options) ==
  /\ Or(options.shutdownTimeoutMs, DefaultShutdown) >= MinTimeout
  /\ options.connection # Null => Or(options.connection.connectTimeout, MinTimeout) >= MinTimeout

Refusal(options) ==
  LET namespace == Or(options.namespace, DefaultNamespace)
      separator == Or(options.keySeparator, DefaultKeySeparator)
  IN  IF ModeRefusal(options) # Null THEN ModeRefusal(options)
      ELSE IF ~NamespaceHolds(namespace, separator) THEN "INVALID_NAMESPACE"
      ELSE IF ~TimeoutsHold(options) THEN "CONNECTION_FAILED"
      ELSE Null

ApplyDefaults(options) ==
  [mode                   |-> Mode(options),
   connection             |-> options.connection,
   sentinel               |-> options.sentinel,
   cluster                |-> options.cluster,
   namespace              |-> Or(options.namespace, DefaultNamespace),
   keySeparator           |-> Or(options.keySeparator, DefaultKeySeparator),
   shutdownTimeoutMs      |-> Or(options.shutdownTimeoutMs, DefaultShutdown),
   allowFlushInProduction |-> Or(options.allowFlushInProduction, FALSE),
   isGlobal               |-> Or(options.isGlobal, TRUE)]

-----------------------------------------------------------------------------
(* The options of a client. The constructor of ConnectionManager merges    *)
(* the connection block whatever the mode, and throws what parseRedisUrl   *)
(* throws.                                                                 *)
Connection(options) ==
  Or(options.connection,
     [url |-> Null, host |-> Null, port |-> Null, password |-> Null, db |-> Null, tls |-> Null,
      lazyConnect |-> Null, connectTimeout |-> Null, commandTimeout |-> Null, maxRetriesPerRequest |-> Null,
      enableOfflineQueue |-> Null])

Constructs(options) ==
  LET url == Connection(options).url IN url \in {Null, EmptyUrl} \/ UrlParses(url)

BuildRedisOptions(options) ==
  LET c       == Connection(options)
      fromUrl == IF c.url \in {Null, EmptyUrl} THEN NoUrl ELSE ParseRedisUrl(c.url)
  IN  [host |-> Or(fromUrl.host, c.host), port |-> Or(fromUrl.port, c.port),
       password |-> Or(fromUrl.password, c.password), db |-> Or(fromUrl.db, c.db),
       tls |-> Or(fromUrl.tls, c.tls),
       connectTimeout |-> Or(c.connectTimeout, DefaultConnectTimeout),
       commandTimeout |-> Or(c.commandTimeout, DefaultCommandTimeout),
       maxRetriesPerRequest |-> Or(c.maxRetriesPerRequest, DefaultMaxRetries),
       enableOfflineQueue |-> Or(c.enableOfflineQueue, FALSE)]

(* createClient: queue is the enableOfflineQueue of the overrides, Null    *)
(* without any. A cluster takes nothing from the connection block.         *)
SentinelClient(s, redis) ==
  Also([redis EXCEPT !.password = Or(s.password, @)],
       [driver |-> "sentinel", role |-> IF s.role = "replica" THEN "slave" ELSE s.role])

(* The options of a cluster and their redisOptions are spread: what is     *)
(* written in them wins, undefined and null included. They are functions   *)
(* on the names that are written.                                          *)
ClusterDefaults ==
  [connectTimeout |-> DefaultConnectTimeout, commandTimeout |-> DefaultCommandTimeout,
   maxRetriesPerRequest |-> DefaultMaxRetries]

(* Mutant: a cluster is given no defaults of the library.                  *)
ClusterUndefaulted(c, queue) ==
  [driver |-> "cluster", enableOfflineQueue |-> Or(queue, Also(c.options, [enableOfflineQueue |-> Null]).enableOfflineQueue),
   redisOptions |-> Also(c.redisOptions, [p \in DOMAIN ClusterDefaults |-> Null])]

ClusterClient(c, queue) ==
  LET supplied == Also(c.options, [enableOfflineQueue |-> FALSE])
  IN  [driver             |-> "cluster",
       enableOfflineQueue |-> Or(queue, supplied.enableOfflineQueue),
       redisOptions       |-> Also(c.redisOptions, ClusterDefaults)]

CreateClient(options, queue) ==
  LET redis == [BuildRedisOptions(options) EXCEPT !.enableOfflineQueue = Or(queue, @)]
  IN  CASE options.mode = "sentinel"   -> SentinelClient(options.sentinel, redis)
        [] options.mode = "cluster"    -> ClusterClient(options.cluster, queue)
        [] options.mode = "standalone" -> Also(redis, [driver |-> "redis"])

-----------------------------------------------------------------------------
(* readEndpoint of cache-status.service.ts, which reads the URL itself.    *)
Withheld == [host |-> Null, port |-> Null, isTls |-> FALSE]

ReadEndpoint(options) ==
  LET c == options.connection
  IN  CASE options.mode # "standalone" \/ c = Null -> Withheld
        [] options.mode = "standalone" /\ c # Null /\ c.url \in {EmptyUrl, BadUrl} -> Withheld
        [] options.mode = "standalone" /\ c # Null /\ IsUrl(c.url) ->
             [host |-> c.url.host, port |-> Or(c.url.port, DefaultPort), isTls |-> c.url.protocol = "rediss"]
        [] OTHER -> [host |-> c.host, port |-> c.port, isTls |-> c.tls # Null]

-----------------------------------------------------------------------------
(* The administration options: validateScopes and the thresholds. A scope  *)
(* is its id and its pattern; an empty text field refuses it as well.      *)
ScopesHold(scopes) ==
  /\ scopes # <<>>
  /\ \A i \in DOMAIN scopes : scopes[i].id # "" /\ ScopePatternShape(scopes[i].pattern)
  /\ \A i, j \in DOMAIN scopes : scopes[i].id = scopes[j].id => i = j

AdminRefusal(admin) ==
  IF ScopesHold(admin.scopes) /\ Or(admin.threshold, 1) > 0 THEN Null ELSE "INVALID_SCOPE"
=============================================================================
