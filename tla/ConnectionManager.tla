-------------------------- MODULE ConnectionManager --------------------------
(***************************************************************************)
(* The main Redis client of src/src/server/connection/connection.manager.ts *)
(* from the first getClient or onModuleInit to onApplicationShutdown, with *)
(* the services that hold it.                                              *)
(*                                                                         *)
(* A member of Callers is one service call: it asks for the client, keeps  *)
(* it across its awaits (scan, flushNamespace and eval do) and sends one   *)
(* command at a time.  A member of Hooks is one run of the shutdown hook:  *)
(* a signal and app.close() may run it twice.  A queued command is named   *)
(* by the caller or, for QUIT, by the hook that sent it.                   *)
(*                                                                         *)
(* The options are the same for every client of a manager.  Here they go   *)
(* with the client, and as a manager opens one (OneClient), an instance    *)
(* whose clients differ covers a manager for each.                         *)
(***************************************************************************)
EXTENDS Sequences, FiniteSets, Naturals

CONSTANTS
  Clients,        \* clients the manager may construct
  Callers,        \* service calls
  Hooks,          \* runs of onApplicationShutdown
  NoClient,       \* null
  Lazy,           \* those with connection.lazyConnect
  Buffered,       \* those with connection.enableOfflineQueue, FALSE by default
  RetryGivesUp    \* whether a configured retryStrategy may end a client

ASSUME ManagerAssumption ==
  /\ NoClient \notin Clients
  /\ Callers \intersect Hooks = {}
  /\ RetryGivesUp \in BOOLEAN

ASSUME OptionsAssumption == Lazy \subseteq Clients /\ Buffered \subseteq Clients

VARIABLES
  client,     \* #client
  shutDown,   \* #shutDown
  init,       \* progress of onModuleInit
  awaited,    \* the client waitUntilReady listens to
  use,        \* progress of each service call
  got,        \* the client each service call was handed
  hook,       \* progress of each run of the shutdown hook
  closing,    \* the client each run of the hook captured
  status,     \* ioredis status of each client
  queue       \* unanswered commands of each client, oldest first

manager == <<client, shutDown>>
boot    == <<init, awaited>>
calls   == <<use, got>>
hooks   == <<hook, closing>>
wire    == <<status, queue>>
vars    == <<manager, boot, calls, hooks, wire>>

TypeOK ==
  /\ client \in Clients \union {NoClient}
  /\ shutDown \in BOOLEAN
  /\ init \in {"idle", "waiting", "ready", "failed"}
  /\ awaited \in Clients \union {NoClient}
  /\ use \in [Callers -> {"idle", "refused", "holding", "pending", "answered", "rejected"}]
  /\ got \in [Callers -> Clients \union {NoClient}]
  /\ hook \in [Hooks -> {"idle", "racing", "quitted", "forcing", "done"}]
  /\ closing \in [Hooks -> Clients \union {NoClient}]
  /\ status \in [Clients -> {"unopened", "wait", "connecting", "ready", "end"}]
  /\ queue \in [Clients -> Seq(Callers \union Hooks)]
  /\ init = "waiting" => awaited # NoClient
  /\ \A u \in Callers : got[u] = NoClient <=> use[u] \in {"idle", "refused"}
  /\ \A h \in Hooks : closing[h] = NoClient => hook[h] \in {"idle", "done"}

Init ==
  /\ client = NoClient
  /\ shutDown = FALSE
  /\ init = "idle"
  /\ awaited = NoClient
  /\ use = [u \in Callers |-> "idle"]
  /\ got = [u \in Callers |-> NoClient]
  /\ hook = [h \in Hooks |-> "idle"]
  /\ closing = [h \in Hooks |-> NoClient]
  /\ status = [k \in Clients |-> "unopened"]
  /\ queue = [k \in Clients |-> <<>>]

-----------------------------------------------------------------------------
(* The driver.                                                             *)

Queued(k, x) == \E i \in DOMAIN queue[k] : queue[k][i] = x

(* Every unanswered command of k is rejected.                              *)
RejectQueued(k) ==
  /\ queue' = [queue EXCEPT ![k] = <<>>]
  /\ use' = [u \in Callers |->
       IF use[u] = "pending" /\ Queued(k, u) THEN "rejected" ELSE use[u]]

RejectQuits(k) == [h \in Hooks |->
  IF hook[h] = "racing" /\ Queued(k, h) THEN "forcing" ELSE hook[h]]

(* disconnect(), or a close that is not followed by a reconnection.        *)
End(k) == status' = [status EXCEPT ![k] = "end"] /\ RejectQueued(k)

(* What a new command meets: a writable socket, an offline queue or a      *)
(* socket that is not ready.  Sending wakes a lazily connecting client.    *)
Writable(k) == status[k] = "ready"

Buffers(k) == status[k] \in {"wait", "connecting"} /\ k \in Buffered

Woken(k) == IF status[k] = "wait" THEN [status EXCEPT ![k] = "connecting"] ELSE status

-----------------------------------------------------------------------------
(* ensureClient: the client it returns is k, opened when there is none.    *)

(* Mutants: the client is opened whatever the state of the shutdown; or    *)
(* each caller that finds no ready client opens one.                       *)
EnsureClientAlways(k) ==
  \/ client = k /\ UNCHANGED <<client, status>>
  \/ /\ client = NoClient
     /\ status[k] = "unopened"
     /\ client' = k
     /\ status' = [status EXCEPT ![k] = IF k \in Lazy THEN "wait" ELSE "connecting"]

EnsureReadyClient(k) ==
  \/ client = k /\ status[k] = "ready" /\ UNCHANGED <<client, status>>
  \/ /\ client = NoClient \/ status[client] # "ready"
     /\ ~shutDown
     /\ status[k] = "unopened"
     /\ client' = k
     /\ status' = [status EXCEPT ![k] = IF k \in Lazy THEN "wait" ELSE "connecting"]

EnsureClient(k) ==
  \/ client = k /\ UNCHANGED <<client, status>>
  \/ /\ client = NoClient
     /\ ~shutDown
     /\ status[k] = "unopened"
     /\ client' = k
     /\ status' = [status EXCEPT ![k] = IF k \in Lazy THEN "wait" ELSE "connecting"]

(* assertNotShutDown throws CONNECTION_LOST.                               *)
Refused == client = NoClient /\ shutDown

GetClient(u) ==
  /\ use[u] = "idle"
  /\ \E k \in Clients : EnsureClient(k) /\ got' = [got EXCEPT ![u] = k]
  /\ use' = [use EXCEPT ![u] = "holding"]
  /\ UNCHANGED <<shutDown, boot, hooks, queue>>

GetClientRefused(u) ==
  /\ use[u] = "idle"
  /\ Refused
  /\ use' = [use EXCEPT ![u] = "refused"]
  /\ UNCHANGED <<manager, boot, got, hooks, wire>>

(* The first or the next command of a service call.                        *)
Send(u) ==
  LET k == got[u] IN
  /\ use[u] \in {"holding", "answered"}
  /\ status' = Woken(k)
  /\ \/ /\ Writable(k) \/ Buffers(k)
        /\ queue' = [queue EXCEPT ![k] = Append(@, u)]
        /\ use' = [use EXCEPT ![u] = "pending"]
     \/ /\ ~Writable(k)
        /\ ~Buffers(k)
        /\ queue' = queue
        /\ use' = [use EXCEPT ![u] = "rejected"]
  /\ UNCHANGED <<manager, boot, got, hooks>>

-----------------------------------------------------------------------------
(* onModuleInit.                                                           *)

InitStart ==
  /\ init = "idle"
  /\ \E k \in Clients :
       /\ EnsureClient(k)
       /\ IF k \in Lazy \/ status[k] = "ready"
            THEN init' = "ready" /\ awaited' = awaited
            ELSE init' = "waiting" /\ awaited' = k
  /\ UNCHANGED <<shutDown, calls, hooks, queue>>

InitRefused ==
  /\ init = "idle"
  /\ Refused
  /\ init' = "failed"
  /\ UNCHANGED <<manager, awaited, calls, hooks, wire>>

(* The 'ready' event, and the listener of waitUntilReady.                  *)
Ready(k) ==
  /\ status[k] = "connecting"
  /\ status' = [status EXCEPT ![k] = "ready"]
  /\ init' = IF init = "waiting" /\ awaited = k THEN "ready" ELSE init
  /\ UNCHANGED <<manager, awaited, calls, hooks, queue>>

(* An 'error' event while waitUntilReady listens; the client goes on       *)
(* reconnecting.                                                           *)
ConnectError(k) ==
  /\ status[k] = "connecting"
  /\ init = "waiting"
  /\ awaited = k
  /\ init' = "failed"
  /\ UNCHANGED <<manager, awaited, calls, hooks, wire>>

-----------------------------------------------------------------------------
(* Replies, timeouts and connection loss.                                  *)

Answer(k) ==
  /\ Writable(k)
  /\ queue[k] # <<>>
  /\ Head(queue[k]) \in Callers
  /\ queue' = [queue EXCEPT ![k] = Tail(@)]
  /\ use' = [use EXCEPT ![Head(queue[k])] = IF @ = "pending" THEN "answered" ELSE @]
  /\ UNCHANGED <<manager, boot, got, hooks, status>>

(* QUIT is answered and the server closes; commands behind it are rejected. *)
AnswerQuit(k) ==
  /\ Writable(k)
  /\ queue[k] # <<>>
  /\ Head(queue[k]) \in Hooks
  /\ End(k)
  /\ hook' = [RejectQuits(k) EXCEPT ![Head(queue[k])] =
                IF hook[Head(queue[k])] = "racing" THEN "quitted" ELSE @]
  /\ UNCHANGED <<manager, boot, got, closing>>

(* commandTimeout rejects the promise; the command stays queued.           *)
CommandTimeout(u) ==
  /\ use[u] = "pending"
  /\ use' = [use EXCEPT ![u] = "rejected"]
  /\ UNCHANGED <<manager, boot, got, hooks, wire>>

(* The socket closes.  A client that has written QUIT does not reconnect.  *)
Drop(k) ==
  /\ Writable(k)
  /\ \/ /\ \E h \in Hooks : Queued(k, h)
        /\ End(k)
        /\ hook' = RejectQuits(k)
     \/ /\ ~\E h \in Hooks : Queued(k, h)
        /\ status' = [status EXCEPT ![k] = "connecting"]
        /\ UNCHANGED <<queue, use, hook>>
  /\ UNCHANGED <<manager, boot, got, closing>>

(* maxRetriesPerRequest reconnections failed: the queues are flushed.      *)
Flush(k) ==
  /\ status[k] = "connecting"
  /\ queue[k] # <<>>
  /\ RejectQueued(k)
  /\ hook' = RejectQuits(k)
  /\ UNCHANGED <<manager, boot, got, closing, status>>

GiveUp(k) ==
  /\ RetryGivesUp
  /\ status[k] = "connecting"
  /\ End(k)
  /\ hook' = RejectQuits(k)
  /\ UNCHANGED <<manager, boot, got, closing>>

-----------------------------------------------------------------------------
(* onApplicationShutdown.                                                  *)

HookUnused(h) ==
  /\ hook[h] = "idle"
  /\ client = NoClient
  /\ shutDown' = TRUE
  /\ hook' = [hook EXCEPT ![h] = "done"]
  /\ UNCHANGED <<client, boot, calls, closing, wire>>

(* quit() travels like any command.                                        *)
HookQuits(h) ==
  /\ hook[h] = "idle"
  /\ client # NoClient
  /\ shutDown' = TRUE
  /\ closing' = [closing EXCEPT ![h] = client]
  /\ Writable(client) \/ (Buffers(client) /\ queue[client] # <<>>)
  /\ status' = Woken(client)
  /\ queue' = [queue EXCEPT ![client] = Append(@, h)]
  /\ hook' = [hook EXCEPT ![h] = "racing"]
  /\ UNCHANGED <<client, boot, calls>>

(* quit() on a client that buffers disconnects and resolves when nothing   *)
(* is in its offline queue; which unanswered commands are there, and which *)
(* were written before a drop, is not tracked.                             *)
HookQuitsOffline(h) ==
  /\ hook[h] = "idle"
  /\ client # NoClient
  /\ Buffers(client)
  /\ shutDown' = TRUE
  /\ closing' = [closing EXCEPT ![h] = client]
  /\ End(client)
  /\ hook' = [RejectQuits(client) EXCEPT ![h] = "quitted"]
  /\ UNCHANGED <<client, boot, got>>

(* quit() rejects at once: the socket is not writable, or has ended.       *)
HookQuitRejected(h) ==
  /\ hook[h] = "idle"
  /\ client # NoClient
  /\ ~Writable(client)
  /\ ~Buffers(client)
  /\ shutDown' = TRUE
  /\ closing' = [closing EXCEPT ![h] = client]
  /\ status' = Woken(client)
  /\ hook' = [hook EXCEPT ![h] = "forcing"]
  /\ UNCHANGED <<client, boot, calls, queue>>

(* Mutant: only a client that is still writable is timed out.              *)
HookTimeoutOnline(h) ==
  /\ hook[h] = "racing"
  /\ Writable(closing[h])
  /\ hook' = [hook EXCEPT ![h] = "forcing"]
  /\ UNCHANGED <<manager, boot, calls, closing, wire>>

(* shutdownTimeoutMs, or the commandTimeout of QUIT, elapses first.        *)
HookTimeout(h) ==
  /\ hook[h] = "racing"
  /\ hook' = [hook EXCEPT ![h] = "forcing"]
  /\ UNCHANGED <<manager, boot, calls, closing, wire>>

(* Mutant: the hook returns without disconnect().                          *)
HookAbandons(h) ==
  /\ hook[h] = "forcing"
  /\ client' = NoClient
  /\ hook' = [hook EXCEPT ![h] = "done"]
  /\ UNCHANGED <<shutDown, boot, calls, closing, wire>>

(* catch and finally: disconnect(), then the reference is cleared.         *)
HookForces(h) ==
  /\ hook[h] = "forcing"
  /\ End(closing[h])
  /\ client' = NoClient
  /\ hook' = [RejectQuits(closing[h]) EXCEPT ![h] = "done"]
  /\ UNCHANGED <<shutDown, boot, got, closing>>

(* Mutant: the reference to the closed client is kept.                     *)
HookKeepsClient(h) ==
  /\ hook[h] = "quitted"
  /\ hook' = [hook EXCEPT ![h] = "done"]
  /\ UNCHANGED <<manager, boot, calls, closing, wire>>

(* finally, after a graceful close.                                        *)
HookFinishes(h) ==
  /\ hook[h] = "quitted"
  /\ client' = NoClient
  /\ hook' = [hook EXCEPT ![h] = "done"]
  /\ UNCHANGED <<shutDown, boot, calls, closing, wire>>

-----------------------------------------------------------------------------

CallerStep(u) == GetClient(u) \/ GetClientRefused(u) \/ Send(u) \/ CommandTimeout(u)

ClientStep(k) ==
  \/ Ready(k)
  \/ ConnectError(k)
  \/ Answer(k)
  \/ AnswerQuit(k)
  \/ Drop(k)
  \/ Flush(k)
  \/ GiveUp(k)

HookStep(h) ==
  \/ HookUnused(h)
  \/ HookQuits(h)
  \/ HookQuitsOffline(h)
  \/ HookQuitRejected(h)
  \/ HookTimeout(h)
  \/ HookForces(h)
  \/ HookFinishes(h)

Next ==
  \/ InitStart
  \/ InitRefused
  \/ \E u \in Callers : CallerStep(u)
  \/ \E k \in Clients : ClientStep(k)
  \/ \E h \in Hooks : HookStep(h)

Spec == Init /\ [][Next]_vars

(* The timer of the hook and its continuations run.                        *)
Fairness == \A h \in Hooks :
  /\ WF_vars(HookTimeout(h))
  /\ WF_vars(HookForces(h))
  /\ WF_vars(HookFinishes(h))

FairSpec == Spec /\ Fairness

-----------------------------------------------------------------------------
(* Properties.                                                             *)

HookDone == \E h \in Hooks : hook[h] = "done"

(* onModuleInit, getClient before it and getClient during shutdown never   *)
(* open a second main client, whose socket nothing would close.            *)
OneClient == \A k, l \in Clients :
  status[k] # "unopened" /\ status[l] # "unopened" => k = l

(* Once a run of the shutdown hook has returned no client is open and none *)
(* is opened again, whatever getClient and onModuleInit do meanwhile.      *)
ClosedAfterHook == HookDone => \A k \in Clients : status[k] \in {"unopened", "end"}

(* A command that was in flight when the hook returned has settled, even   *)
(* when it was sent on the closing client after QUIT.                      *)
SettledAfterHook == HookDone => \A u \in Callers : use[u] # "pending"

(* A call made after the hook returned is refused with CONNECTION_LOST; it *)
(* is not handed the closed client.                                        *)
RefusedAfterHook == [][\A u \in Callers :
  HookDone /\ use[u] = "idle" => use'[u] \in {"idle", "refused"}]_vars

(* Every run of the hook returns, whatever the server and the network do   *)
(* and also when two runs race.                                            *)
HooksReturn == \A h \in Hooks : hook[h] # "idle" ~> hook[h] = "done"
=============================================================================
