---------------------------- MODULE MCDeployment ----------------------------
(* A small instance of Deployment: the first application is given every    *)
(* kind of connection, both are given namespaces and separators that       *)
(* nearly coincide.                                                        *)
EXTENDS Deployment

CONSTANTS a1, a2

Url(protocol, host, port, decodes) ==
  [protocol |-> protocol, host |-> host, port |-> port, password |-> "p", db |-> Null, decodes |-> decodes]

MCUrls == {Null, EmptyUrl, BadUrl, Url("redis", "u", Null, TRUE), Url("rediss", "u", 7000, TRUE),
           Url("redis", "u", Null, FALSE), Url("http", "u", Null, TRUE), Url("redis", Null, Null, TRUE)}

Block(url, host, tls, connectTimeout, queue) ==
  [url |-> url, host |-> host, port |-> IF host = Null THEN Null ELSE 7001, password |-> Null, db |-> Null, tls |-> tls,
   lazyConnect |-> Null, connectTimeout |-> connectTimeout, commandTimeout |-> Null,
   maxRetriesPerRequest |-> Null, enableOfflineQueue |-> queue]

MCConnections ==
  {Null} \union {Block(url, host, tls, 100, Null) : url \in MCUrls, host \in {Null, "h"}, tls \in {Null, "t"}}
         \union {Block(Null, "h", Null, ct, q) : ct \in {Null, 99}, q \in {Null, TRUE}}

Sentinel(n, name) == [sentinels |-> n, name |-> name, password |-> Null, role |-> "replica"]

ClusterOf(n, options, redisOptions) == [nodes |-> n, options |-> options, redisOptions |-> redisOptions]

MCSentinels == {Null, Sentinel(0, "m"), Sentinel(1, ""), Sentinel(1, "m")}

MCClusters ==
  {Null, ClusterOf(0, <<>>, <<>>)}
  \union {ClusterOf(1, options, redisOptions) :
             options \in {<<>>} \union [{"enableOfflineQueue"} -> {Null, FALSE, TRUE}],
             redisOptions \in {<<>>, [commandTimeout |-> Null], [commandTimeout |-> 100, maxRetriesPerRequest |-> Nil]}}

MCOptions(mode, connection, sentinel, cluster, namespace, separator, shutdown, global) ==
  [mode |-> mode, connection |-> connection, sentinel |-> sentinel, cluster |-> cluster, namespace |-> namespace,
   keySeparator |-> separator, shutdownTimeoutMs |-> shutdown, allowFlushInProduction |-> TRUE, isGlobal |-> global]

ByConnection ==
  {MCOptions(Null, c, Null, Null, Null, Null, Null, Null) : c \in MCConnections}
  \union {MCOptions("sentinel", c, s, Null, Null, Null, Null, Null) :
            c \in {Null, Block(BadUrl, Null, Null, 100, Null), Block(Null, "h", Null, Null, TRUE)}, s \in MCSentinels}
  \union {MCOptions("cluster", Null, Null, c, Null, Null, Null, Null) : c \in MCClusters}
  \union {MCOptions(Null, Block(Null, "h", Null, Null, Null), Null, Null, Null, Null, s, g) : s \in {99, 100}, g \in {Null, FALSE}}

Plain(namespace, separator) ==
  MCOptions(Null, Block(Null, "h", Null, Null, Null), Null, Null, namespace, separator, Null, Null)

ByNamespace ==
  {Plain(<<"a">>, <<":">>), Plain(<<"a", "b">>, <<":">>), Plain(<<"a">>, <<"b">>), Plain(<<"a", ":">>, <<"b">>),
   Plain(<<"a", ":">>, <<":">>), Plain(<<"a", "*">>, <<":">>)}

AnyNamespace ==
  {Plain(n, s) : n \in {<<>>, <<" ">>, <<"a">>, <<"*">>, <<"a", ":">>},
                 s \in {<<>>, <<":">>, <<":", ":">>, <<"?">>, <<"*">>}}

MCAdminOptions ==
  {[scopes |-> <<>>, threshold |-> Null],
   [scopes |-> <<[id |-> "s", pattern |-> <<"a", ":", "*">>], [id |-> "t", pattern |-> <<"a", ":", "b">>]>>, threshold |-> Null],
   [scopes |-> <<[id |-> "s", pattern |-> <<"a">>], [id |-> "s", pattern |-> <<"a", "*">>]>>, threshold |-> Null],
   [scopes |-> <<[id |-> "s", pattern |-> <<"a", "?", "*">>]>>, threshold |-> Null],
   [scopes |-> <<[id |-> "s", pattern |-> <<"a", "*">>]>>, threshold |-> 0]}

Given(cache, adm) == [cache |-> cache, admin |-> adm]
Scoped            == [scopes |-> <<[id |-> "s", pattern |-> <<"a", ":", "*">>]>>, threshold |-> Null]
Nothing           == Given(Null, Null)

MCDeployments ==
  {(a1 :> Given(o, Null)) @@ (a2 :> Nothing) : o \in ByConnection \union AnyNamespace}
  \union {(a1 :> Given(o, Scoped)) @@ (a2 :> Nothing) : o \in ByConnection}
  \union {(a1 :> Given(Plain(<<"a">>, <<":">>), m)) @@ (a2 :> Given(Plain(<<"a", "b">>, <<":">>), Null)) : m \in MCAdminOptions}
  \union {(a1 :> Given(o1, Null)) @@ (a2 :> Given(o2, Null)) : o1, o2 \in ByNamespace}

MCDocDeployments ==
  {(a1 :> Given(Plain(<<"a">>, <<":", ":">>), Null)) @@ (a2 :> Given(Plain(<<"a", ":">>, <<":", ":">>), Null))}

MCTexts == {<<>>, <<"b">>, <<":", "b">>}
MCGlobs == {<<"*">>, <<"?", "*">>}
=============================================================================
