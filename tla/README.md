# nest-cache in TLA+

A verification project for `@bymax-one/nest-cache`, the NestJS layer over `ioredis` under
`src/src`, and its release scripts under `src/scripts`. Paths below are relative to `src/src`, and
`scripts/` is `src/scripts`. TLC checks the modules on small instances; TLAPS proves what matters most
for every value of the constants.

## The system

| Part | Source | State it keeps | Operations | Hard behaviour |
|---|---|---|---|---|
| Connection manager | `server/connection/connection.manager.ts` | `#client`, `#shutDown` | `onModuleInit`, `getClient`, `createSubscriberClient`, `onApplicationShutdown` | lazy opening raced by init and shutdown; `quit()` raced by a timer; a wait on driver events |
| Pub/Sub | `server/services/pubsub.service.ts` | `#subscriber`, `#shutDown`, `channelRefs`, `patternRefs` (entry = `count`, `ready`) | `subscribe`, `psubscribe`, the returned `Unsubscribe`, `publish`, `onApplicationShutdown` | shared entries across awaits, commands in flight over a connection that drops, promise reactions in order |
| Script manager | `server/services/script-manager.service.ts` | `scripts`: name to `{lua, sha?}` | `register`, `load`, `eval`, `onApplicationBootstrap` | server script cache that is flushed under a cached SHA, reload and retry, overlapping loads |
| Cache service | `server/services/cache.service.ts` | none of its own; the keyspace in Redis | typed get/set/expire/counter/hash/set commands, `scan`, `keys`, `flushNamespace`, `isHealthy` | loops over a cursor while keys change, TTL edges |
| Keys and options | `server/utils/key-builder.ts`, `server/config/default-options.ts` | frozen options | `build`, `applyNamespace`, `validateOptions`, `applyDefaults` | isolation of namespaces by text prefix and glob pattern |
| Administration | `admin/services/*.ts`, `admin/config/*.ts` | frozen scopes and limits | `listKeys`, `describeKey`, `revealValue`, `health`, `stats`, `config` | pages over a changing keyspace, a key that vanishes between reads, a probe with a deadline |
| Wiring | `server/*.module.ts`, `admin/*.module.ts` | the providers | `forRoot`, `forRootAsync` of both modules | what is refused when, and as what |
| Values, URLs, INFO | `json-serializer.ts`, `ttl.ts`, `parse-redis-url.ts`, `parse-info.ts` | none | pure functions | edge values |
| Release scripts | `scripts/*.mjs` | files of the working tree, `dist`, temporary directories | one command each | interrupts, failing tools, parallel requests with deadlines |

How they interact. The connection manager owns the main client and constructs, on request, the
dedicated subscriber client that the Pub/Sub service then owns. All services ask the manager for
the client at each call; scans, flushes and script evaluations keep it across their awaits. The
Nest lifecycle calls `onModuleInit` (manager), `onApplicationBootstrap` (script manager) and, at
shutdown, the `onApplicationShutdown` hooks of manager and Pub/Sub service concurrently. The
administration services read through the cache service. The scripts under `scripts/` run beside the
program: each is a process over the working tree, started by the release workflow.

What makes each part correct: Pub/Sub: listeners and server agree on what is subscribed, no
caller is cut off by another, everything settles. Manager: one client, closed at shutdown, no call
left hanging. Scripts: a call runs its own script once, whatever the server forgets. Keyspace: a
flush or page touches its own namespace and loses no key that stays. Commands: what a caller was
told is true of the store, whatever the connection did. Probe: a verdict within the deadline, a
latency only for an answer that arrived. Wiring: an application starts with the clients its options
promise, or is refused for a reason. Scripts of the release: the exit status is true, and the tree is
left as it should be.

## What ioredis and Redis are assumed to do

They are not under `src/`, so the modules model them from how the code uses them (marked external
in the map):

* a connection sends commands in order and the server answers them in order;
* `commandTimeout` rejects a promise but does not recall the command, which may still run. A
  standalone or sentinel client arms it for every command. A `Cluster` client hands it to its nodes
  only (`redisOptions`), and what waits in the Cluster's own offline queue, which
  `createSubscriberClient` forces on, has no timer (`connection.manager.ts:152-157`, `267-281`);
* after a drop unanswered commands stay queued and are sent again; when `maxRetriesPerRequest`
  reconnections failed all queued commands are rejected; a `retryStrategy` without a delay ends
  the connection;
* the set of subscribed targets is recorded when the server answers, and subscribed again on
  reconnection before queued commands are sent. `recorded` in `PubSubService` is both that set
  and, while the link is up, the server's;
* after `quit()` is written a close is not followed by a reconnection; `quit()` on a client that is
  not ready is rejected without an offline queue, resolved by disconnecting when the queue is
  empty, else queued. Which unanswered commands are in the offline queue is not tracked: where it
  matters both outcomes are possible;
* `disconnect()` and giving up end the client without an `error` event. `"end"` means no
  reconnection will follow; the last bytes of the socket are not modelled;
* a `scanStream` sends one `SCAN` at a time and reads ahead of the loop up to a number of chunks; an
  error breaks it after the chunks it has buffered were taken;
* `SCAN` returns every key present from its first reply to its last, possibly repeatedly, and ends;
* Redis forgets its script cache at `SCRIPT FLUSH`, a restart or a failover.

Promise reactions run in the order they were registered on one promise; otherwise continuations
may be delayed arbitrarily, which allows more interleavings than the event loop does.

## Modules

### PubSubService (`pubsub.service.ts:45-310`)

`Calls` are the calls of `subscribe`/`psubscribe`; a call's `phase` follows it from `idle` over
`waiting` and `subscribed` to the end of its `Unsubscribe`. Both reference maps are one function
`refs` over targets; the `SubscriptionRef` a call creates is named by it, with its `count`, the
state of `ready` and the `reactions` registered on `ready` and not yet run. `held` is the entry
captured by the closure of the `Unsubscribe`.

| Code | Actions |
|---|---|
| `subscribe` up to its await: `ensureSubscriber`, `retainSubscription` | `SubscribeRefused`, `SubscribeFirst`, `SubscribeJoin` |
| `ready.catch(() => refs.delete(target))` and the continuations of the awaits | `RunReaction` |
| `makeUnsubscribe`, `releaseSubscription` | `UnsubscribeShared`, `UnsubscribeLast` |
| `onApplicationShutdown` | `ShutdownUnused`, `ShutdownOffline`, `ShutdownQuits`, `ForceDisconnect` |
| driver and server | `ServerAnswers`, `ServerQuits`, `Timeout*`, `LinkDrops`, `LinkUp`, `FlushQueue`, `LinkGivesUp` |
| shutdown of the connection manager | `ManagerShutsDown` |

`SubscriptionContract` is what callers are promised: granted only when served, and served as long
as they hold. `PubSubRefinement` maps the service to it. `PubSubInvariant` holds the inductive
invariant and `PubSubProofs` the proofs.

### ConnectionManager (`connection.manager.ts:68-352`)

`Callers` are service calls that get the client and use it, one command at a time, across awaits;
`Hooks` are runs of the shutdown hook, which a signal and `app.close()` may start twice; `Clients`
are the clients the manager might construct, more than the one it should.

| Code | Actions |
|---|---|
| `ensureClient`, `assertNotShutDown`, `getClient` | `EnsureClient`, `Refused`, `GetClient`, `GetClientRefused`, `Send` |
| `onModuleInit`, `waitUntilReady` | `InitStart`, `InitRefused`, `Ready`, `ConnectError` |
| `onApplicationShutdown`: up to `quit()`; timer; catch and finally | `HookUnused`, `HookQuits`, `HookQuitsOffline`, `HookQuitRejected`; `HookTimeout`; `HookForces`, `HookFinishes` |
| driver and server | `Answer`, `AnswerQuit`, `CommandTimeout`, `Drop`, `Flush`, `GiveUp` |

`ConnectionManagerProofs` holds its inductive invariant and proofs.

### ScriptManager (`script-manager.service.ts:30-183`)

`Entries` are the `ScriptEntry` objects; a call captures the one registered under its name. A SHA
is named by the body it digests. The command a call has out is `op`, what became of it `answer`, so
that the server's execution, the reply and the continuation are separate steps.

| Code | Actions |
|---|---|
| `register` | `Register` |
| `load` | `LoadStart`, `LoadReplied` (`Store` is the assignment of `entry.sha`) |
| `onApplicationBootstrap` | `BootstrapSkipped`, `BootstrapStart`, `BootstrapEnds` |
| `eval` | `EvalRefused`, `EvalStart`, `LoadReplied`, `ValueReplied`, `ErrorReplied`, `Reload`, `Retry` |
| driver and server | `ServerLoads`, `ServerRunsSha`, `ServerRunsBody`, `ServerFlushes`, `Resend`, `CommandFails` |

`ScriptManagerProofs` holds its inductive invariant and proofs.

### KeyIteration (`cache.service.ts:541-554`, `614-637`)

`scan` and `flushNamespace` as loops over a `scanStream`, with the keys that match the pattern.
`stream`, `replies`, `due` and `chunks` are the stream of a call: how far its cursor is, the keys
`SCAN` still owes it and the chunks the loop has not taken. `gone` and `removed` are history: the
keys that were absent at some moment since the call started, and how many keys the UNLINKs of a
flush removed.

| Code | Actions |
|---|---|
| production guard, cluster guard, `client.scanStream` | `Refuse`, `Start` |
| `for await` of `scan` | `Yield` (the keys of one chunk together), `Finish`, `Break` |
| `for await` of `flushNamespace` | `Skip`, `Unlink`, `UnlinkReplies`, `UnlinkFails`, `Finish`, `Break` |
| other writers, driver and server | `Create`, `Delete`, `ScanReplies`, `ScanOn`, `ScanFails`, `UnlinkRuns`, `UnlinkResent` |

An UNLINK that runs after its flush gave it up is a `Delete`. A consumer of `scan` takes every key:
one that stops early learns nothing the properties speak of.
Which keys the pattern matches is left to the module on namespaces. `KeyIterationProofs` holds the
inductive invariant and proofs.

### CacheCommands (`cache.service.ts:107-525`, `ttl.ts`, `json-serializer.ts`)

Every method that is one Redis command. A call of `Calls` keeps what was asked, the command it became
and how it settled; `Issue` is the path of a method past its checks, in the order of the code, `Skip`
its early return. A stored text is an integer, the JSON of a value, a text that is no JSON, or empty.

| Code | Actions |
|---|---|
| `getRaw`, `get`, `exists` ... | `StringCall`, `ExpiryCall`, `BatchCall`, `HashCall`, `SetCall`, one operator per method |
| `deserialize`, reading of a reply | `Parsed`, `Rejects`, `Resolved`, in `Reply` |
| driver | `Reply`, `TimeOut`, `GiveUp`, `Lose`, `Reconnect`, `RunStray` (a timed-out command that runs after all) |
| server | `Execute`, `Tick` (a TTL runs down and lapses) |

`Run` is the server's side of each command. `began` is history: what the store held before the first
call, from which counters go on. `CacheCommandsProofs` proves all the safety of the module.

### AdminKeyspace (`cache-admin.service.ts`)

`listKeys` over a keyspace in hash buckets, where a cursor names the bucket to go on with: `ListKeys`,
`Scan`, the pipeline of descriptions one command at a time (`RunCommand`, so other clients act in
between), `Describe`, `Return`, `ListFails`. `describeKey` and `revealValue` read the type, then the
value: `Ask`, `TypeReplies`, `ReadValue`, `ReadFails`. `Change` is any other client.
`AdminProofs` holds its invariant and proofs, and those of `CacheStatus`.

### CacheStatus and RedisInfo (`cache-status.service.ts`, `parse-info.ts`)

`Probe` starts the PING and the deadline; `PingSettles` and `DeadlineFires` are their settlements, in
either order, after the other and late; `ClearTimer` is the `finally`. `Stats` reads a text of INFO by
`ReadRedisStats`, one field of each kind of reading. `Delay` is `setTimeout`'s, for which a delay
beyond 2^31 - 1 is one millisecond.

### KeyBuilder, Configuration, Deployment

Keys, patterns, namespaces and separators are sequences of characters, and `build`,
`applyNamespace`, the glob match and the scope check are operators over them. `GlobMatches` is a table:
for each place of the pattern, from its end to its beginning, the places of the key from which the
rest of the key matches the rest of the pattern (`Places`). `Configuration` is
`validateOptions`, `applyDefaults`, `parseRedisUrl`, the client options per mode and the
administration options, in the order of their checks. `Deployment` composes them: applications are
registered (`ForRoot`, `ForRootAsync`), their providers are built (`Instantiate`, `Throwing`, with what a
constructor may throw in `BuildError`), they open clients (`OpenClient`, `OpenSubscriber`), write keys
and flush. `DeploymentProofs` proves all the properties of the module.

### PubSubDelivery (`pubsub.service.ts:118-190`)

What becomes of a message: `Publish` and `Drop`/`Reconnect` of the connection that carries it,
`Attach` and `Detach` of listeners, `Receive` (every listener of the target in the order of
attachment), `HandlerStarts` in a microtask, `HandlerResolves`, `HandlerRejects` and its report. Bytes
are not modelled: a message is its place in the order of publication. `PubSubListeners` instantiates
the module over names of its own, so that `PubSubProofs`, which proves both properties, can speak of
both halves of the service; the run `Delivery` checks that instance.

### Tooling (`scripts/*.mjs`)

`ScriptProcess` is one script as a process: `script` and `exit`. `Tooling` composes:

| Module | Script | Actions |
|---|---|---|
| `ConstTables` | `mutate-const-tables.mjs` | `NoCommand`, `Baseline`, `MutantTested`, `Interrupt` |
| `BundleComments` | `strip-bundle-comments.mjs` | `StripDirectory`, `WriteBundle`, `WriteFails` |
| `PublishedSurface` | `check-published-surface.mjs` | `StaticLinks`, `LinkSettles`, `DeadlinePasses` (all links at once), `LinksDone`, `CheckChangelog`, `NoSnippet`, `ScaffoldConsumer`, `CompileGate` |
| `ApiSurface` | `check-api-surface.mjs` | `Unresolved`, `Compare` (with `ResolvePrevious`, `Unparsable`, `CompareDist`) |
| `SmokeTest` | `dogfood-smoke-test.mjs` | `Artifacts`, `Exports`, `Tarball`, `Scaffold`, `ScaffoldFails`, `Install`, `Cleanup` |
| `FileLength` | `check-file-length.mjs` | `CheckFileLength` |

Texts are sequences of pieces (tokens, comments, declarations, links), and compilers, `npm`, `git` and
the network are what they answer, failures included.

## Runs

| Run | Question | Instance |
|---|---|---|
| `PubSub` | Do counts, entries, server and shutdown agree under every interleaving, do calls and hook settle, do callers see the contract? | two calls on a channel, one on a pattern; every failure |
| `Manager` | Is there one client, closed at shutdown, no command left hanging, later calls refused, does the hook return? | two callers, two runs of the hook, one client for each of eager or lazy, with or without an offline queue |
| `ScriptEvals` | Does each call run its own script, once, and survive flushes, in both modes? | two evals, one without keys, a second entry to register, one re-sent command per call |
| `ScriptLoads` | Does the bootstrap end with everything loaded, does every call end? | two bootstrap loads at once, an eval and a load of the first |
| `Iteration` | Does a flush that resolves leave only new keys and count what it removed, does a scan yield every key that stays, do both end? | two keys, a flush and a scan, one repeated UNLINK |
| `Commands` | Do locks, TTLs, counters, batches and parsed reads hold? | two calls of any method, two keys, three stores to begin with, one loss of the connection, lapses |
| `Admin` | Does a walk list what stays, is what is shown true and permitted, do calls end? | four keys in two buckets, two scopes, two changes |
| `Status` | Are verdict, latency and reading true, does a probe settle? | two probes, every text of two lines of INFO |
| `Deployment` | Do namespaces stay apart, are patterns exact, does an application start as promised? | two applications, every mode and connection, namespaces and separators that nearly coincide |
| `Delivery` | Is each handler started once per message, in order, each failure reported once? | two listeners of a channel, one of a pattern, two messages, one loss of the connection |
| `Tooling` | Is each script's status true, is the tree left as promised, does the gate end? | each script with every failure, from small trees, webs, releases and packages |
| `NamespacesDoc` | a disagreement between code and documentation (below) | two namespaces, a separator of two characters |

What the properties bundle. Several properties are conjunctions of named parts, each with its own
comment in the module: `LocksHold` (one winner of a lock, whose value and TTL stay stored),
`WritesHold` (no TTL is lost, confirmed increments are counted, batches are whole), `ReadsHold` (text
that is no JSON is never handed out as a value, what a question was answered stays true of a key
that is only asked the same), `ShownIsTrue`,
`VerdictIsTrue`, `PatternsExact`, `StartsAsPromised`, `VerdictsHold`, `TreeLeftAsPromised`. `TypeOK` of a
module states the types. It is proved for the modules with proofs, from their inductive invariants.

Bounds. Two calls on one target give a creator and a joiner, or a last leaver and a later first
listener; the call on the second target shows that targets do not disturb each other over the shared
connection. Two callers and two hook runs give every pairing of a client obtained before and used
after another step; further constructible clients let a second opening show. Two evals and one later
entry give a load in flight while the name is re-registered. Two scripts at bootstrap give a load that
fails while the other is in flight; nothing is registered in that run, and the theorem `Bootstrapped`
covers it. `MaxResends` bounds only how often a
command of one call is sent again. Two keys and two replies per `SCAN` iteration (`MaxReplies`) give
empty, repeated and stale chunks; `ReadAhead` is Node's 16 made small, and the proofs hold for any.
That a `SCAN` iteration ends is Redis's promise, so the bound on replies does not weaken
`IterationEnds`.

`MaxTtl` is one tick, so that a TTL can be set, seen and lapse; `MaxDrops` and `MaxChanges` bound how
often the connection is lost and other clients write, which two calls and two pages need not see
more often: one loss leaves a reply lost, a command repeated and another one late, two changes make a
key vanish and come back, or two keys change within one pipeline. `MaxLength` bounds values, one above
`revealLimit`. `MaxKeys` bounds the keys of the keyspace that applications write,
`MaxMessages` the messages, `MaxPending` those under way. `MaxTime` lets every timer of `Timeouts` that
`setTimeout` honours fire; `MaxDelay` (2^31 - 1 in Node) is made small so that a deadline beyond it is
in the instance. INFO is read before probes begin, since the two share nothing. In `Tooling`, bundles
have up to four pieces, which is a comment with its neighbours and one more; two links are followed
at once, in a web with redirects, loops, private and unroutable addresses, a page
that exists but is denied to programs, and a chain one redirect too long. `Delivery` has one channel and
one pattern, so that a message of another channel is left alone is a matter of its theorem. Everything else is
unbounded: each call is made once, and flushes, drops and reconnections of `PubSub`, `Manager` and the
scripts are unlimited.

Symmetry is used only in runs without liveness. `CHECK_DEADLOCK FALSE` is set everywhere because a
program whose calls and hooks have ended stops.

Fairness. In `PubSubService` of promise reactions and of the hook's own continuation only.
`SubscriberSettles` states the rest as premises, because it differs by mode. `EveryCommandTimed`:
`commandTimeout` is on every command, which standalone and sentinel clients guarantee. Then calls and
hook settle whatever the server and the network do. `ServerReachable`: from some point on the
connection does not stay down and the server answers. Then they settle without any timer, which is what
is left in a cluster, whose queued commands stay pending while it is down
(`connection.manager.ts:268-269`, `connection.manager.cluster-outage.spec.ts:61-83`).

In `ConnectionManager` and `ScriptManager`, weak fairness of continuations and of the timers the code
arms (`commandTimeout`, `shutdownTimeoutMs`); in `KeyIteration` of whatever a call can do next. Nothing is
assumed there of the server, the network or the application: a command without an answer is rejected
by `commandTimeout`. That is so of a main client without the Cluster's offline queue, which is off
unless a consumer turns it on; `EvalSettles`, `IterationEnds` and `CallsEnd` say nothing of a consumer
that does. `HooksReturn` needs only the manager's own timer. `AdminKeyspace` has weak fairness of the
steps of a call, with the answer or that rejection of a command as one of them. `CacheStatus` has that
time passes and that a due timer is handled; a PING need not be answered. `Tooling` has weak fairness of the published-surface
gate alone: its lookups (5 s), requests (10 s) and `git fetch` (20 s) have time limits. The other
scripts wait for `npm` and the tests without a limit, and nothing is claimed of their ending.

## Disagreements between code and documentation

With a run:

* Keys of one namespace "never collide with another" (`shared/types/cache-config.types.ts:10`), and a
  flush never touches those of another (`cache.service.ts:601-602`); `default-options.ts:127` rejects a
  namespace that contains the separator. A separator of several characters is accepted, and namespace `a:`
  with `::` has its keys inside those of `a` with `::` (`NamespacesDoc`): the flush of one deletes keys
  of the other. `KeysApart` is what holds, for a separator of one character that is no glob
  character, and is proved.

Seen while modelling, and allowed by the modules:

* `getClient` "throws when called after shutdown has begun" (`connection.manager.ts:128-129`): while
  the hook awaits `quit()` it hands out the closing client (`:216`). Commands sent on it are rejected when
  the server closes; `SettledAfterHook` shows that none of them hangs.
* `waitUntilReady` "resolves once the client is ready; rejects on connection error": for an adopted
  client that has already ended it does neither (`connection.manager.ts:336`).
* A script definition "falls back to a full `EVAL` on `NOSCRIPT`"
  (`script-definition.interface.ts:6-7`): the fallback is `SCRIPT LOAD` and `EVALSHA`, so a second flush
  surfaces (`SurvivesFlush` says exactly when).
* The retry is for an evicted SHA, yet any error text with `NOSCRIPT` in it, a script's own
  included, runs the script again (`script-manager.service.ts:162`; `RunsOnce` names the exception).
* `connection_lost` is documented as the code after retries (`cache-error-codes.ts:27`); it is raised
  at the first `error` during the wait.
* `validateOptions` does not look at `connection.url` in sentinel and cluster mode
  (`default-options.ts:84-86`), while a constructor later parses it and throws.
* A URL without a port sets 6379 over a discrete `port` (`parse-redis-url.ts:19-20`). `config` shows
  `isTls` false for a `redis://` URL with discrete `tls`.
* A `readValue` that is null when a key vanished is so for strings only; the other types are shown
  empty (`cache-admin.service.ts:337`).
* A `toJSON` that returns `undefined` passes the check for values that have no JSON
  (`json-serializer.ts:62-67`).
* `setNx` may answer false to the call that stored the value, when its reply was lost and the driver
  repeated it. `LocksHold` allows that and nothing else: two calls are never both told that they won.
* `flushNamespace` returns "the total number of keys removed": an UNLINK repeated after its reply was
  lost answers 0, and the total is smaller by that (`FlushCounts`).
* A probe "waits before reporting `down`" for `probeTimeoutMs`
  (`admin-module-options.interface.ts:18`, also `README.md:534`). Above 2^31 - 1 it fires after a
  millisecond (`cache-status.service.ts:66`), and a healthy server is then usually reported down.
  `VerdictIsTrue` holds a timeout to `probeTimeoutMs` for the delays `setTimeout` can hold, and only for
  them. `rdb_last_save_time` beyond what a `Date` holds throws, and the
  whole reading is lost with it.
* "Unset, the client fails fast like the other modes" (`cache-module-options.interface.ts:102`) is so of
  the main client. A subscriber of a cluster, and a main client whose consumer set `enableOfflineQueue`,
  queue without a timer; and what a consumer writes into `cluster.redisOptions`, a null `commandTimeout` or `maxRetriesPerRequest` included, wins over the
  defaults (`connection.manager.ts:275-280`). `ClientsAsPromised` says which option takes which promise away.
* The strip writes a bundle in place (`strip-bundle-comments.mjs:183`): a write that is cut leaves part of
  it, the one bundle that is then not the program built. The exit status shows it.
* A failing `git rev-parse` is taken for a full checkout (`check-published-surface.mjs:513-522`), so a
  shallow one without tags is green. The excuses of snippet errors go by names and message texts
  (`:681-704`): they also hide a misspelt import of a peer, and a member that is missing on a snippet's
  class that extends a type of the package.
* The gate's rules refuse links a reader can follow: `http`, address literals, chains of six hops, pages
  that answer programs with 403 (`:359-361` says the last). `LinkVerdicts` keeps the two apart: what a
  reader finds (`found`) and what the rules make of it (`Fate`).
* A `SIGKILL` leaves a mutated source file behind, and a test command that could not be started counts
  as a killed mutant (`mutate-const-tables.mjs`). `npm view` of a package that was never published
  fails the comparison of declarations. The smoke test knows `server` and `shared` although `./admin` is
  exported. When its consumer cannot be set up, the published-surface gate leaves `.docs-gate`; the
  temporary directories of `check-api-surface.mjs` are never removed.

## Proofs

`PubSubProofs` proves, for any number of calls and targets, that `IInv` of `PubSubInvariant` is
inductive, and from it every invariant of the run `PubSub` and the refinement of
`SubscriptionContract`. The only assumption is `CallsAssumption`, on the constants.

The checked properties are not inductive alone. That a subscribed call is served, for instance,
needs that no UNSUBSCRIBE of its target is behind it on the wire, which needs that a pending
SUBSCRIBE is the newest command of its target (`WireInv`), which needs that the entry of a pending
command is the registered one (`RegistrationInv`), which needs that its cleanup is still the first
reaction (`ReactionInv`): if it could run early, the deletion by target would hit another entry.
`CountInv` carries the finiteness of the sets it counts. `PubSubProofs` has one lemma for the effect
of each kind of step and one per part of the invariant.

`PubSubProofs` also proves `StartedInOrder` and `FailuresReported` of `PubSubDelivery` (`Delivered`,
`Reported`) for any listeners, targets, messages, losses and pending handlers, from
`ListenersAssumption`, over the names of `PubSubListeners`. Neither property is inductive: `BusInv`
lines up what a handler was started for, its tasks and what the connection carries for its target,
which increase in this order (`StartedOrdered`, `TasksOrdered`, `WireOrdered`). So no step puts a
message behind a later one or starts it twice. What an attached listener should get was started, is a
task or is on the connection, unless a loss took it (`Reached`), and a handler that failed has one
report, made or queued (`ReportedOnce`). The code queues a task for each listener of the target in the
order of attachment: the lemmas `FlattenJoins` and `HeardOnce` say which tasks that makes, `Listed`
that a delivery goes once to each matching target, `Removed` what a detached listener leaves.

`ConnectionManagerProofs` proves the safety of the manager for any clients, calls, hook runs and
options, from `ManagerAssumption`. That every client is closed after the hook needs that there was
only one (`OneClient`): the hook closes the client it captured. One client needs that a cleared
reference means shutdown has begun and everything opened has ended (`ClearedInv`), because the next
call would open another one otherwise. That no command hangs adds that a pending call has its
command on the client it was handed and an ended client has none (`QueueInv`).

`ScriptManagerProofs` proves the safety of the scripts for any names, entries, calls and modes, from
`ScriptAssumption`. `RunsOnce` is proved for the configurations where it holds: in cluster mode, or
when no script fails with `NOSCRIPT` in its own text. The invariant ties the command a call has out to
the point it waits at (`PhaseInv`) and to the entry it captured (`CommandInv`); `RunsInv` says that a
command that runs the script is only out when the script has not run yet or the driver repeats it;
`ReloadInv` that only a flush removes what a reload loaded; `BootInv` that loads that resolved stay
resolved.

`KeyIterationProofs` proves completeness and the count of flushes and scans for any keys, calls and
buffer, from `IterationAssumption`. Its invariant accounts for every key that stays (`Covered`): it
is owed by `SCAN`, buffered, in an UNLINK under way, or yielded. At the end the first three are
empty (`Progress`), so a flush has left none and a scan has yielded all. `Counted` follows a total
through the execution, repetition and reply of an UNLINK.

`DeploymentProofs` proves the four properties of `Deployment` for any applications, options, texts
and globs, from `DeploymentAssumption` (the options have the fields and types that TypeScript demands)
and `NullAssumption`. `IInv` is about names: every key has the prefix of its writer, whose namespace
validation let pass. `KeysApart` follows because no namespace contains the separator, so the first
separator in a key ends its namespace. For the patterns, the table of `GlobMatches` is shown to exist
and to have one row per place of the pattern (`GlobRows`), a literal character to move by one place
(`LiteralRow`) and a star at the end to match any rest: so a literal prefix and a star match the
keys that begin with it (`LiteralMatches`), and whatever follows a literal prefix matches only such keys
(`LiteralBeginning`). `FlushExact` and `PatternsExact` apply that to a namespace, and `ScopeExact` to the
scopes that `validateScopes` accepts. `StartInv` is about starts: what each application failed of
(`Explained`), what one that runs was built of (`Wired`, `Accepted`) and how its clients came about
(`Served`). From it `StartsAsPromised` follows by the modes of `CreateClient` and `ReadEndpoint`.

`AdminProofs` proves `VerdictIsTrue` for any probes, options, bound on the time and texts of
INFO, from `StatusAssumption` and `InfoAssumption` (a number has one spelling of zero, as Redis
prints it, and `Null` is no value). Its invariant adds `Overtaken`: a PING is pending as long as its
probe races, and one still pending afterwards lost to the deadline. That a reading is what INFO said
last needs that the lines about a field have a last one, which follows from the well-foundedness of
the natural numbers.

`CacheCommandsProofs` proves `LocksHold`, `ReadsHold` and `WritesHold` for any calls, keys, arguments
and losses of the connection, from `CommandsAssumption`, `ArgumentsAssumption` and `StoresAssumption`. `OneWinner` is not inductive: a
caller has won from the moment Redis executed its SET, before it is told. The invariant therefore
speaks of callers that were told *or have the answer under way* (`Told`): such a caller is alone for
its key, and the key still holds what it stored (`LockInv`). For that, whatever may still run, repeated
or late, must be the command of a call that was made (`SentInv`), and a command changes only the keys
its call is about, never one that is there unless the method may (`RunEffect`). A lost connection
takes the answers under way with it, so the repeated SET NX finds its own key and says no: one winner
at most, perhaps none. `ReadsHold` adds what is on its way to a caller: a text it learns is readable by
its method (`TextsInv`) and a reply fits the question it answers (`AnswersInv`). `WritesHold` adds that
a key that only lasting writes are about has a TTL (`ExpiryInv`), that a batch is stored whole
(`EvenInv`, `WholeInv`), and that a counter has counted any set of calls that know their reply
(`CountInv`): any, because a call whose reply is lost with the connection forgets it. The sum over
such a set is a fold that takes the elements in the order of a `CHOOSE`; `SumIsTable` to `SumWithout`
show that it does not depend on the order, by a smallest set for which it would.

`AdminProofs` proves `WalkListsSteady` and `ShownIsTrue` for any keyspace, scopes, limits and
changes, from `AdminAssumption`. Its invariant says where each key that stayed is: on a page
already listed, collected by the page under way, or behind the cursor (`WalkInv`), and that each reply
slot answers the command at its place of the pipeline (`RepliesAligned`), so that no failed slot moves
a value to another key; a call that reads a value passed the scope check (`ReadsInv`).

`ToolingProofs` proves `TreeLeftAsPromised` and `VerdictsHold` for any tables, tests, bundles, READMEs,
webs, releases, packages and baselines, from `ConstTablesAssumption` (git lists a file once, the entries
of a list are apart by a comma each), `BuildsAssumption`, `WebAssumption` (a page that answers is one a
reader finds) and `ReleasesAssumption` (versions are triples of numbers, what is published has declarations, a file is a
list of them). `ScriptsInv` has one part per script, which says that the state of a script is at rest
while another runs. `MutationInv` says that at most the file at hand differs from `Original`, and by the
mutant that was written, and that the survivors are those of the mutants that had their turn.
`BundlesInv` carries that each bundle is the one built or its strip, but for one whose write was cut. `SurfaceInv` ties a link that is followed to
its fate (`FateTable`: the table of where a chain of redirects ends exists for any web and is the one of
`Fate`), and each gate to the problems reported before. `ApiInv` says that what the comparison reports
was found against the version before this one, and that a release is green only without a difference
or with a note. `SmokeInv` and `LengthInv` say what a section or a gate has found.

Beneath them are lemmas about what the scripts compute, for sequences of any length. `InOrderIs` shows
that `InOrder` of a finite set of numbers is its increasing enumeration. `CutIs` computes what a removal
leaves of a list. `StripSafe` is about the strip: to replace a passage by one that prints the same leaves
the program alone (`ReplacedProgram`), each comment taken out is such a replacement (`Removed`), and
after k pieces from the right none of them is a dropped one (`AllPassedOver`); so a strip keeps program
and licences, leaves no comment, and a second one finds nothing. `DiffIsShortest` is about the line
diff of `check-api-surface`: both tables of `LineDiff` exist (`CellTableExists`), and by induction from
the last cell to the first each holds a diff of what is left of the two texts (`DiffOf`): its lines
split them into what is removed, what is added and the same rest (`Split`), and no common subsequence is
longer than what it keeps (`Longest`). A cell of equal lines extends both (`SplitSame`, `LongestSame`), one
of different lines has its longest common subsequence below or to the right (`LongestApart`). These
inductions are over numbers in the model, as a least counterexample, so the well-foundedness of the
natural numbers suffices.

Model-checked only: all liveness (`SubscriberSettles`, `HooksReturn`, `EvalSettles`, `IterationEnds`,
`CallsEnd`, `HealthSettles`, `GateEnds`), which is out of this prover's reach.

## Plan

1. Done: the components of the server and of the administration surface with proofs of their
   safety, and the release scripts with proofs of their verdicts and of the tree they leave.
2. Connection manager, Pub/Sub service and script manager composed under the Nest hooks. They share
   the lifecycle only: `ManagerShutsDown` in `PubSubService` stands for the manager there.

## Not modelled

* Error codes, messages and constants are static tables; the outcomes of calls stand for their codes.
* The JSON and URL engines and the regular expression that reads a number: values, URLs and texts of
  INFO come as what these make of them.
* The forwarding of connection events to `onEvent`, which changes no state, and that credentials are
  not enumerable, which is a matter of JavaScript objects.
* Signals, but for `mutate-const-tables.mjs`, which handles them, and a kill in the middle of a write of
  the strip: any other script that is killed leaves its scratch directory behind. The two temporary
  directories of `check-api-surface.mjs` (`:359`, `:375`) are not in the model, since nothing removes
  them.
* `check-size.mjs`, `check-admin-readonly.mjs` and `check-mutation-directives.mjs`, each one pass over
  files with one sum or regular expression.
* No property covers that `onModuleInit` never settles for an adopted client that has ended: the code
  has no answer to it.
