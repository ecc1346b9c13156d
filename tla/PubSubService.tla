---------------------------- MODULE PubSubService ----------------------------
(***************************************************************************)
(* Subscription bookkeeping of src/src/server/services/pubsub.service.ts:  *)
(* calls of subscribe / psubscribe share one reference-counted entry per   *)
(* target and one dedicated connection, whose commands travel in order and *)
(* may be answered, refused, timed out, flushed or re-sent after a drop.   *)
(*                                                                         *)
(* A target is one namespaced channel or pattern: the two maps of the      *)
(* service, channelRefs and patternRefs, are one function over targets.    *)
(* A member of Calls is one call of subscribe or psubscribe together with  *)
(* the Unsubscribe it returned.  The SubscriptionRef that call c creates,  *)
(* if it creates one, is named c.                                          *)
(***************************************************************************)
EXTENDS Integers, Sequences, FiniteSets

CONSTANTS
  Calls,          \* the subscribe / psubscribe calls of a behaviour
  Targets,        \* namespaced channels and patterns
  TargetOf,       \* the argument of each call
  NoRef,          \* absence of a SubscriptionRef
  Cleanup,        \* the reaction `created.ready.catch(() => refs.delete(target))`
  RetryGivesUp    \* whether a configured retryStrategy may end the connection

ASSUME CallsAssumption ==
  /\ TargetOf \in [Calls -> Targets]
  /\ NoRef \notin Calls
  /\ Cleanup \notin Calls
  /\ NoRef # Cleanup
  /\ RetryGivesUp \in BOOLEAN

VARIABLES
  refs,            \* channelRefs and patternRefs: target -> entry
  count,           \* SubscriptionRef.count of each entry
  ready,           \* state of SubscriptionRef.ready of each entry
  reactions,       \* reactions registered on ready and not yet run, in order
  phase,           \* progress of each call
  held,            \* the entry each call joined (captured by its closure)
  subscriber,      \* #subscriber is not null
  shutDown,        \* #shutDown of the service
  hook,            \* progress of onApplicationShutdown
  managerShutDown, \* #shutDown of the connection manager
  link,            \* state of the subscriber connection
  queue,           \* commands the connection has not answered, oldest first
  recorded         \* targets subscribed: on the server while the link is up,
                   \* and in the set ioredis subscribes again after a drop

entries == <<refs, count, ready, reactions>>
callers == <<phase, held>>
hooks   == <<subscriber, shutDown, hook, managerShutDown>>
wire    == <<link, queue, recorded>>
vars    == <<entries, callers, hooks, wire>>

(* "left" and "unreleased" are the two ends of an Unsubscribe: it resolved, *)
(* or its UNSUBSCRIBE was rejected, which the caller is told.               *)
Phases == {"idle", "refused", "waiting", "subscribed", "failed",
           "leaving", "left", "unreleased"}

(* A command names the call that sent it: the creator of the entry for a   *)
(* SUBSCRIBE, the last listener for an UNSUBSCRIBE, nobody for QUIT.       *)
Commands == [op : {"subscribe", "unsubscribe", "quit"}, call : Calls \union {NoRef}]

Command(op, c) == [op |-> op, call |-> c]

Quit == Command("quit", NoRef)

TypeOK ==
  /\ refs \in [Targets -> Calls \union {NoRef}]
  /\ count \in [Calls -> Nat]
  /\ ready \in [Calls -> {"unused", "pending", "resolved", "rejected"}]
  /\ reactions \in [Calls -> Seq(Calls \union {Cleanup})]
  /\ phase \in [Calls -> Phases]
  /\ held \in [Calls -> Calls \union {NoRef}]
  /\ subscriber \in BOOLEAN
  /\ shutDown \in BOOLEAN
  /\ hook \in {"idle", "quitting", "forcing", "done"}
  /\ managerShutDown \in BOOLEAN
  /\ link \in {"none", "down", "up", "end"}
  /\ queue \in Seq(Commands)
  /\ recorded \in SUBSET Targets

Init ==
  /\ refs = [t \in Targets |-> NoRef]
  /\ count = [r \in Calls |-> 0]
  /\ ready = [r \in Calls |-> "unused"]
  /\ reactions = [r \in Calls |-> <<>>]
  /\ phase = [c \in Calls |-> "idle"]
  /\ held = [c \in Calls |-> NoRef]
  /\ subscriber = FALSE
  /\ shutDown = FALSE
  /\ hook = "idle"
  /\ managerShutDown = FALSE
  /\ link = "none"
  /\ queue = <<>>
  /\ recorded = {}

-----------------------------------------------------------------------------
(* The connection.                                                         *)

Queued(cmd) == \E i \in DOMAIN queue : queue[i] = cmd

(* Every command still queued is rejected: its promise, unless it settled  *)
(* before, and the await that depends on it.                               *)
RejectQueued ==
  /\ queue' = <<>>
  /\ ready' = [r \in Calls |->
       IF ready[r] = "pending" /\ Queued(Command("subscribe", r))
         THEN "rejected" ELSE ready[r]]
  /\ phase' = [c \in Calls |->
       IF phase[c] = "leaving" /\ Queued(Command("unsubscribe", c))
         THEN "unreleased" ELSE phase[c]]

(* The graceful close was rejected: the await of quit() throws.            *)
RejectQuit == hook' = IF hook = "quitting" /\ Queued(Quit) THEN "forcing" ELSE hook

(* disconnect(), or a close that is not followed by a reconnection.        *)
EndLink == link' = "end" /\ RejectQueued

(* Once QUIT is written the client does not reconnect after a close.       *)
Closing == link = "up" /\ Queued(Quit)

-----------------------------------------------------------------------------
(* subscribe / psubscribe up to the first await that suspends.             *)

(* ensureSubscriber throws CONNECTION_LOST, itself or through the manager. *)
SubscribeRefused(c) ==
  /\ phase[c] = "idle"
  /\ ~subscriber
  /\ shutDown \/ managerShutDown
  /\ phase' = [phase EXCEPT ![c] = "refused"]
  /\ UNCHANGED <<entries, held, hooks, wire>>

(* Mutant: ensureSubscriber without the check of the service's own flag.   *)
EnsureSubscriberAfterShutdown ==
  \/ subscriber /\ UNCHANGED <<subscriber, link>>
  \/ ~subscriber /\ ~managerShutDown /\ subscriber' = TRUE /\ link' = "down"

(* The connection ensureSubscriber hands out, opened on first use.         *)
EnsureSubscriber ==
  \/ subscriber /\ UNCHANGED <<subscriber, link>>
  \/ /\ ~subscriber
     /\ ~shutDown
     /\ ~managerShutDown
     /\ subscriber' = TRUE
     /\ link' = "down"

(* The effect of creating an entry whose ready promise is in the given     *)
(* state.  Only the mutants below use it.                                  *)
CreateWith(c, state, waiters) ==
  /\ phase[c] = "idle"
  /\ EnsureSubscriber
  /\ link # "end"
  /\ refs' = [refs EXCEPT ![TargetOf[c]] = c]
  /\ count' = [count EXCEPT ![c] = 1]
  /\ reactions' = [reactions EXCEPT ![c] = waiters]
  /\ ready' = [ready EXCEPT ![c] = state]
  /\ queue' = Append(queue, Command("subscribe", c))
  /\ phase' = [phase EXCEPT ![c] = "waiting"]
  /\ held' = [held EXCEPT ![c] = c]
  /\ UNCHANGED <<shutDown, hook, managerShutDown, recorded>>

(* Mutants: a call resolves when SUBSCRIBE is sent, not when it is         *)
(* answered; the cleanup is registered after the caller's await; every     *)
(* call sends its own SUBSCRIBE.                                           *)
SubscribeUnanswered(c) ==
  refs[TargetOf[c]] = NoRef /\ CreateWith(c, "resolved", <<Cleanup, c>>)

SubscribeCleanupLast(c) ==
  refs[TargetOf[c]] = NoRef /\ CreateWith(c, "pending", <<c, Cleanup>>)

SubscribeEveryTime(c) == CreateWith(c, "pending", <<Cleanup, c>>)

(* No entry for the target: create one with the command that backs it.  On *)
(* a connection that has ended the command is rejected at once.            *)
SubscribeFirst(c) ==
  LET t == TargetOf[c] IN
  /\ phase[c] = "idle"
  /\ refs[t] = NoRef
  /\ EnsureSubscriber
  /\ refs' = [refs EXCEPT ![t] = c]
  /\ count' = [count EXCEPT ![c] = 1]
  /\ reactions' = [reactions EXCEPT ![c] = <<Cleanup, c>>]
  /\ \/ /\ link = "end"
        /\ ready' = [ready EXCEPT ![c] = "rejected"]
        /\ queue' = queue
     \/ /\ link # "end"
        /\ ready' = [ready EXCEPT ![c] = "pending"]
        /\ queue' = Append(queue, Command("subscribe", c))
  /\ phase' = [phase EXCEPT ![c] = "waiting"]
  /\ held' = [held EXCEPT ![c] = c]
  /\ UNCHANGED <<shutDown, hook, managerShutDown, recorded>>

(* Mutant: a caller that joins a command in flight is not counted.         *)
SubscribeJoinUncounted(c) ==
  LET r == refs[TargetOf[c]] IN
  /\ phase[c] = "idle"
  /\ r # NoRef
  /\ EnsureSubscriber
  /\ reactions' = [reactions EXCEPT ![r] = Append(@, c)]
  /\ phase' = [phase EXCEPT ![c] = "waiting"]
  /\ held' = [held EXCEPT ![c] = r]
  /\ UNCHANGED <<refs, count, ready, shutDown, hook, managerShutDown, queue, recorded>>

(* An entry exists, whatever the state of its ready promise: join it.      *)
SubscribeJoin(c) ==
  LET r == refs[TargetOf[c]] IN
  /\ phase[c] = "idle"
  /\ r # NoRef
  /\ EnsureSubscriber
  /\ count' = [count EXCEPT ![r] = @ + 1]
  /\ reactions' = [reactions EXCEPT ![r] = Append(@, c)]
  /\ phase' = [phase EXCEPT ![c] = "waiting"]
  /\ held' = [held EXCEPT ![c] = r]
  /\ UNCHANGED <<refs, ready, shutDown, hook, managerShutDown, queue, recorded>>

(* One reaction of a settled ready promise, in registration order.  The    *)
(* cleanup deletes whatever entry the target has; a caller goes on to      *)
(* attach its listener and return its Unsubscribe, or rejects.             *)
RunReaction(r) ==
  /\ ready[r] \in {"resolved", "rejected"}
  /\ reactions[r] # <<>>
  /\ reactions' = [reactions EXCEPT ![r] = Tail(@)]
  /\ \/ /\ Head(reactions[r]) = Cleanup
        /\ refs' = IF ready[r] = "rejected"
                     THEN [refs EXCEPT ![TargetOf[r]] = NoRef] ELSE refs
        /\ UNCHANGED phase
     \/ /\ Head(reactions[r]) # Cleanup
        /\ phase' = [phase EXCEPT ![Head(reactions[r])] =
                       IF ready[r] = "resolved" THEN "subscribed" ELSE "failed"]
        /\ UNCHANGED refs
  /\ UNCHANGED <<count, ready, held, hooks, wire>>

-----------------------------------------------------------------------------
(* The first call of the Unsubscribe that call c received.  Later calls    *)
(* find `released` set and change nothing.                                 *)

UnsubscribeShared(c) ==
  /\ phase[c] = "subscribed"
  /\ count[held[c]] # 1
  /\ count' = [count EXCEPT ![held[c]] = @ - 1]
  /\ phase' = [phase EXCEPT ![c] = "left"]
  /\ UNCHANGED <<refs, ready, reactions, held, hooks, wire>>

(* Mutants: the last listener but one releases the target; the last        *)
(* listener forgets the entry but sends no UNSUBSCRIBE.                    *)
UnsubscribeEarly(c) ==
  /\ phase[c] = "subscribed"
  /\ link # "end"
  /\ count[held[c]] <= 2
  /\ count' = [count EXCEPT ![held[c]] = @ - 1]
  /\ refs' = [refs EXCEPT ![TargetOf[c]] = NoRef]
  /\ phase' = [phase EXCEPT ![c] = "leaving"]
  /\ queue' = Append(queue, Command("unsubscribe", c))
  /\ UNCHANGED <<ready, reactions, held, hooks, link, recorded>>

UnsubscribeSilent(c) ==
  /\ phase[c] = "subscribed"
  /\ count[held[c]] = 1
  /\ count' = [count EXCEPT ![held[c]] = 0]
  /\ refs' = [refs EXCEPT ![TargetOf[c]] = NoRef]
  /\ phase' = [phase EXCEPT ![c] = "left"]
  /\ UNCHANGED <<ready, reactions, held, hooks, wire>>

UnsubscribeLast(c) ==
  /\ phase[c] = "subscribed"
  /\ count[held[c]] = 1
  /\ count' = [count EXCEPT ![held[c]] = 0]
  /\ refs' = [refs EXCEPT ![TargetOf[c]] = NoRef]
  /\ \/ /\ link = "end"
        /\ phase' = [phase EXCEPT ![c] = "unreleased"]
        /\ queue' = queue
     \/ /\ link # "end"
        /\ phase' = [phase EXCEPT ![c] = "leaving"]
        /\ queue' = Append(queue, Command("unsubscribe", c))
  /\ UNCHANGED <<ready, reactions, held, hooks, link, recorded>>

-----------------------------------------------------------------------------
(* The server answers the oldest command, or refuses it with an error.     *)

AnswerSubscribe(r, accepted) ==
  /\ ready' = [ready EXCEPT ![r] =
       IF @ # "pending" THEN @ ELSE IF accepted THEN "resolved" ELSE "rejected"]
  /\ recorded' = IF accepted THEN recorded \union {TargetOf[r]} ELSE recorded
  /\ UNCHANGED phase

AnswerUnsubscribe(c, accepted) ==
  /\ phase' = [phase EXCEPT ![c] =
       IF @ # "leaving" THEN @ ELSE IF accepted THEN "left" ELSE "unreleased"]
  /\ recorded' = IF accepted THEN recorded \ {TargetOf[c]} ELSE recorded
  /\ UNCHANGED ready

ServerAnswers ==
  /\ link = "up"
  /\ queue # <<>>
  /\ Head(queue).op # "quit"
  /\ queue' = Tail(queue)
  /\ \E accepted \in BOOLEAN :
       \/ Head(queue).op = "subscribe" /\ AnswerSubscribe(Head(queue).call, accepted)
       \/ Head(queue).op = "unsubscribe" /\ AnswerUnsubscribe(Head(queue).call, accepted)
  /\ UNCHANGED <<refs, count, reactions, held, hooks, link>>

(* QUIT is answered and the server closes; commands behind it are rejected. *)
ServerQuits ==
  /\ link = "up"
  /\ queue # <<>>
  /\ Head(queue) = Quit
  /\ EndLink
  /\ hook' = IF hook = "quitting" THEN "done" ELSE hook
  /\ UNCHANGED <<refs, count, reactions, held, subscriber, shutDown, managerShutDown, recorded>>

(* commandTimeout rejects the promise; the command itself stays queued and *)
(* may still be executed.                                                  *)
TimeoutSubscribe(r) ==
  /\ ready[r] = "pending"
  /\ ready' = [ready EXCEPT ![r] = "rejected"]
  /\ UNCHANGED <<refs, count, reactions, callers, hooks, wire>>

TimeoutUnsubscribe(c) ==
  /\ phase[c] = "leaving"
  /\ phase' = [phase EXCEPT ![c] = "unreleased"]
  /\ UNCHANGED <<entries, held, hooks, wire>>

(* Mutant: QUIT has no commandTimeout while it waits for a connection.     *)
TimeoutQuitOnline ==
  /\ link = "up"
  /\ hook = "quitting"
  /\ hook' = "forcing"
  /\ UNCHANGED <<entries, callers, subscriber, shutDown, managerShutDown, wire>>

TimeoutQuit ==
  /\ hook = "quitting"
  /\ hook' = "forcing"
  /\ UNCHANGED <<entries, callers, subscriber, shutDown, managerShutDown, wire>>

(* The socket closes.  Unanswered commands wait for the next connection.   *)
LinkDrops ==
  /\ link = "up"
  /\ \/ ~Closing /\ link' = "down" /\ UNCHANGED <<queue, ready, phase, hook>>
     \/ Closing /\ EndLink /\ RejectQuit
  /\ UNCHANGED <<refs, count, reactions, held, subscriber, shutDown, managerShutDown, recorded>>

(* The socket is ready again and the recorded targets are subscribed anew. *)
LinkUp ==
  /\ link = "down"
  /\ link' = "up"
  /\ UNCHANGED <<entries, callers, hooks, queue, recorded>>

(* maxRetriesPerRequest reconnections failed: the queues are flushed.      *)
FlushQueue ==
  /\ link = "down"
  /\ queue # <<>>
  /\ RejectQueued
  /\ RejectQuit
  /\ UNCHANGED <<refs, count, reactions, held, subscriber, shutDown, managerShutDown, link, recorded>>

(* A configured retryStrategy returned no delay: the connection is over.   *)
LinkGivesUp ==
  /\ RetryGivesUp
  /\ link = "down"
  /\ EndLink
  /\ RejectQuit
  /\ UNCHANGED <<refs, count, reactions, held, subscriber, shutDown, managerShutDown, recorded>>

-----------------------------------------------------------------------------
(* Shutdown.                                                               *)

ManagerShutsDown ==
  /\ ~managerShutDown
  /\ managerShutDown' = TRUE
  /\ UNCHANGED <<entries, callers, subscriber, shutDown, hook, wire>>

(* onApplicationShutdown without a connection to close.                    *)
ShutdownUnused ==
  /\ ~shutDown
  /\ ~subscriber
  /\ shutDown' = TRUE
  /\ hook' = "done"
  /\ UNCHANGED <<entries, callers, subscriber, managerShutDown, wire>>

(* quit() on a client that is down and has nothing in its offline queue    *)
(* disconnects and resolves.  Which of the unanswered commands are in the  *)
(* offline queue is not tracked, so with any of them both outcomes exist.  *)
ShutdownOffline ==
  /\ ~shutDown
  /\ subscriber
  /\ link = "down"
  /\ shutDown' = TRUE
  /\ subscriber' = FALSE
  /\ EndLink
  /\ hook' = "done"
  /\ UNCHANGED <<refs, count, reactions, held, managerShutDown, recorded>>

(* quit() is written, or queued behind the commands sent while offline, or *)
(* rejected because the connection has ended.                              *)
ShutdownQuits ==
  /\ ~shutDown
  /\ subscriber
  /\ shutDown' = TRUE
  /\ subscriber' = FALSE
  /\ \/ link = "end" /\ hook' = "forcing" /\ queue' = queue
     \/ /\ link = "up" \/ (link = "down" /\ queue # <<>>)
        /\ hook' = "quitting"
        /\ queue' = Append(queue, Quit)
  /\ UNCHANGED <<entries, callers, managerShutDown, link, recorded>>

(* The catch branch: quit() rejected, so disconnect().                     *)
ForceDisconnect ==
  /\ hook = "forcing"
  /\ hook' = "done"
  /\ EndLink
  /\ UNCHANGED <<refs, count, reactions, held, subscriber, shutDown, managerShutDown, recorded>>

-----------------------------------------------------------------------------

CallStep(c) ==
  \/ SubscribeRefused(c)
  \/ SubscribeFirst(c)
  \/ SubscribeJoin(c)
  \/ RunReaction(c)
  \/ UnsubscribeShared(c)
  \/ UnsubscribeLast(c)
  \/ TimeoutSubscribe(c)
  \/ TimeoutUnsubscribe(c)

ConnectionStep ==
  \/ ServerAnswers
  \/ ServerQuits
  \/ LinkDrops
  \/ LinkUp
  \/ FlushQueue
  \/ LinkGivesUp

ShutdownStep ==
  \/ ManagerShutsDown
  \/ ShutdownUnused
  \/ ShutdownOffline
  \/ ShutdownQuits
  \/ TimeoutQuit
  \/ ForceDisconnect

Next ==
  \/ \E c \in Calls : CallStep(c)
  \/ ConnectionStep
  \/ ShutdownStep

(* Promise reactions run and the catch branch of the hook continues;       *)
(* nothing is assumed of the server, the network or the application.       *)
Fairness ==
  /\ \A c \in Calls : WF_vars(RunReaction(c))
  /\ WF_vars(ForceDisconnect)

Spec == Init /\ [][Next]_vars

FairSpec == Spec /\ Fairness

-----------------------------------------------------------------------------
(* Properties.                                                             *)

(* The calls an entry counts: they joined it and have not left it.         *)
Holders(r) == {c \in Calls :
  held[c] = r /\ phase[c] \in {"waiting", "subscribed", "failed"}}

(* The reference count of every SubscriptionRef is the number of its       *)
(* listeners: a failed, repeated or concurrent subscribe or unsubscribe    *)
(* never leaves it too high (the target would stay on the server) or too   *)
(* low (others would be cut off).                                          *)
CountIsHolders == \A r \in Calls : count[r] = Cardinality(Holders(r))

(* Neither deletion by target, the one of a failed command's cleanup and   *)
(* the one of a last release, removes the entry of a listener or of a      *)
(* waiting caller that another call put there: the entry a live call       *)
(* joined is the one registered for its target.                            *)
RegisteredWhileHeld == \A c \in Calls :
  \/ phase[c] = "subscribed"
  \/ phase[c] = "waiting" /\ ready[held[c]] # "rejected"
  => refs[TargetOf[c]] = held[c]

(* A call that was told it is subscribed is served, on the server or again *)
(* after the reconnection, until it unsubscribes: the server accepted the  *)
(* command, no UNSUBSCRIBE of a former listener is still on its way, and   *)
(* unsubscribing one listener never cuts off another.                      *)
ServedWhileHeld == \A c \in Calls :
  phase[c] = "subscribed" /\ link # "end" =>
    /\ TargetOf[c] \in recorded
    /\ \A d \in Calls : TargetOf[d] = TargetOf[c] => ~Queued(Command("unsubscribe", d))

(* A failed entry is gone when its callers reject, so that a caller that   *)
(* retries at once sends the command again instead of joining the failure. *)
FailedEntryGone == \A c \in Calls :
  phase[c] = "failed" => refs[TargetOf[c]] # held[c]

(* Concurrent calls for one target share one command in flight.            *)
OneSubscribeInFlight == \A r, s \in Calls :
  /\ ready[r] = "pending"
  /\ ready[s] = "pending"
  /\ TargetOf[r] = TargetOf[s]
  => r = s

(* The server keeps a target nobody listens to only while an UNSUBSCRIBE   *)
(* is on its way or after a caller was told that a command failed.         *)
ReleasedOnServer == \A t \in recorded :
  refs[t] = NoRef /\ link # "end" =>
    \E c \in Calls :
      /\ TargetOf[c] = t
      /\ \/ Queued(Command("unsubscribe", c))
         \/ ready[c] = "rejected"
         \/ phase[c] = "unreleased"

(* When onApplicationShutdown has returned no subscriber connection is     *)
(* open, and no later or concurrent subscribe opens one.                   *)
NoSubscriberLeft == hook = "done" => link \in {"none", "end"}

(* A standalone or sentinel subscriber arms commandTimeout for every       *)
(* command, in its offline queue too.  A cluster subscriber does not: its  *)
(* commands wait in the Cluster's own offline queue, which no timer        *)
(* watches, for as long as the cluster stays down.                         *)
EveryCommandTimed ==
  /\ \A c \in Calls : WF_vars(TimeoutSubscribe(c)) /\ WF_vars(TimeoutUnsubscribe(c))
  /\ WF_vars(TimeoutQuit)

(* From some point on the connection does not stay down and the server     *)
(* answers what it is sent.                                                *)
ServerReachable == <>[](link # "down") /\ WF_vars(ServerAnswers) /\ WF_vars(ServerQuits)

CallersSettle ==
  /\ \A c \in Calls : phase[c] \in {"waiting", "leaving"} ~> phase[c] \notin {"waiting", "leaving"}
  /\ shutDown ~> hook = "done"

(* Every subscribe and every unsubscribe settles and the shutdown hook     *)
(* returns although it has no timer of its own: where commands are timed,  *)
(* whatever the server and the network do; in a cluster, where they are    *)
(* not, once the cluster is back for good and answers.                     *)
SubscriberSettles ==
  /\ EveryCommandTimed => CallersSettle
  /\ ServerReachable => CallersSettle
=============================================================================
