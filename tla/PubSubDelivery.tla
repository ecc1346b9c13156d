--------------------------- MODULE PubSubDelivery ---------------------------
(***************************************************************************)
(* What becomes of a message of Pub/Sub: the listeners that subscribe and  *)
(* psubscribe of src/src/server/services/pubsub.service.ts attach to the   *)
(* one subscriber connection, the handlers they start and the failures     *)
(* they report. When a target is subscribed at the server is the matter of *)
(* PubSubService: here it is, from before a listener is attached until     *)
(* after the last one is detached.                                         *)
(*                                                                         *)
(* A message is named by its place in the order of publication. Listeners  *)
(* only queue a microtask, and the queue is drained before the connection  *)
(* is read again.                                                          *)
(***************************************************************************)
EXTENDS Naturals, FiniteSets, SequencesExt

CONSTANTS
  Listeners,    \* one for each resolved call of subscribe or psubscribe
  Targets,      \* namespaced channels and patterns
  TargetOf,     \* the target of each listener
  Channels,     \* namespaced channels that are published to
  Matches,      \* the targets each channel matches
  MaxMessages,  \* bound on the messages
  MaxDrops,     \* bound on the losses of the connection
  MaxPending    \* bound on the handlers whose promise is pending

(* What the constants are.                                                 *)
DeliveryAssumption ==
  /\ TargetOf \in [Listeners -> Targets]
  /\ Matches \in [Channels -> SUBSET Targets]
  /\ {MaxMessages, MaxDrops, MaxPending} \subseteq Nat

VARIABLES
  sent,      \* the channel of each message
  served,    \* targets subscribed at the server
  up,        \* whether the connection is up
  drops,     \* how often it was lost
  wire,      \* deliveries on their way to the connection
  lost,      \* deliveries that a lost connection took along
  attached,  \* the listeners of the connection, in the order of on()
  since,     \* how many messages there were when each was attached
  tasks,     \* the microtasks: handlers to start and failures to report
  started,   \* the messages each handler was started for
  running,   \* handlers whose promise is pending
  failed,    \* handlers that threw or rejected
  reports    \* how many 'handler_error' events each had, by message

redis    == <<sent, served, up, drops, wire, lost>>
handlers == <<started, running, failed, reports>>
vars     == <<redis, attached, since, tasks, handlers>>

Delivery(t, m) == [target |-> t, message |-> m]
Start(l, m)    == [kind |-> "start", listener |-> l, message |-> m]
Report(l, m)   == [kind |-> "report", listener |-> l, message |-> m]

Runs(l, m) == [listener |-> l, message |-> m]

-----------------------------------------------------------------------------
(* The server, and the connection.                                         *)

(* publish, of this program or another: the server sends a delivery for    *)
(* each subscribed target that the channel matches.                        *)
Publish(ch) ==
  /\ Len(sent) < MaxMessages
  /\ sent' = Append(sent, ch)
  /\ LET deliveries == {Delivery(t, Len(sent')) : t \in Matches[ch]}
     IN  IF up THEN wire' = wire \o SetToSeq({d \in deliveries : d.target \in served}) /\ UNCHANGED lost
                 ELSE lost' = lost \union deliveries /\ UNCHANGED wire
  /\ UNCHANGED <<served, up, drops, attached, since, tasks, handlers>>

(* The driver connects again and subscribes again to what it had.          *)
Drop ==
  /\ up /\ drops < MaxDrops
  /\ up' = FALSE
  /\ drops' = drops + 1
  /\ lost' = lost \union ToSet(wire)
  /\ wire' = <<>>
  /\ UNCHANGED <<sent, served, attached, since, tasks, handlers>>

Reconnect ==
  /\ ~up
  /\ up' = TRUE
  /\ UNCHANGED <<sent, served, drops, wire, lost, attached, since, tasks, handlers>>

-----------------------------------------------------------------------------
(* Listeners.                                                              *)

Attach(l) ==
  /\ l \notin ToSet(attached) /\ started[l] = <<>> /\ since[l] = MaxMessages
  /\ up
  /\ attached' = Append(attached, l)
  /\ served' = served \union {TargetOf[l]}
  /\ since' = [since EXCEPT ![l] = Len(sent)]
  /\ UNCHANGED <<sent, up, drops, wire, lost, tasks, handlers>>

(* Unsubscribe, by anyone and also by a handler.                           *)
Detach(l) ==
  /\ \E i \in DOMAIN attached : attached[i] = l /\ attached' = RemoveAt(attached, i)
  /\ UNCHANGED <<redis, since, tasks, handlers>>

(* UNSUBSCRIBE arrives, after the last listener was detached.              *)
Unserve(t) ==
  /\ t \in served
  /\ \A l \in ToSet(attached) : TargetOf[l] # t
  /\ served' = served \ {t}
  /\ UNCHANGED <<sent, up, drops, wire, lost, attached, since, tasks, handlers>>

(* Mutant: a listener calls its handler, and one that throws keeps the     *)
(* event from the listeners behind it.                                     *)
HeardByFirst(d) ==
  LET on == {i \in DOMAIN attached : TargetOf[attached[i]] = d.target}
  IN  IF on = {} THEN <<>> ELSE <<Start(attached[Min(on)], d.message)>>

(* The event is emitted to every listener, which looks at the target.      *)
Heard(d) ==
  FlattenSeq([i \in DOMAIN attached |->
    IF TargetOf[attached[i]] = d.target THEN <<Start(attached[i], d.message)>> ELSE <<>>])

(* The connection reads what has come, one delivery or several at once.    *)
Receive(n) ==
  /\ up /\ tasks = <<>> /\ n \in DOMAIN wire
  /\ tasks' = FlattenSeq([i \in 1 .. n |-> Heard(wire[i])])
  /\ wire' = SubSeq(wire, n + 1, Len(wire))
  /\ UNCHANGED <<sent, served, up, drops, lost, attached, since, handlers>>

-----------------------------------------------------------------------------
(* Handlers.                                                               *)

(* then(): the payload is decoded and the handler called. One of the two   *)
(* throws, or the handler returns, maybe with a promise that is pending.   *)
HandlerStarts(l, m) ==
  /\ tasks # <<>> /\ Head(tasks) = Start(l, m)
  /\ started' = [started EXCEPT ![l] = Append(@, m)]
  /\ \/ /\ tasks' = Append(Tail(tasks), Report(l, m))
        /\ failed' = failed \union {Runs(l, m)}
        /\ UNCHANGED running
     \/ /\ tasks' = Tail(tasks)
        /\ running' \in {running, running \union {Runs(l, m)}}
        /\ Cardinality(running') <= MaxPending
        /\ UNCHANGED failed
  /\ UNCHANGED <<redis, attached, since, reports>>

HandlerResolves(r) ==
  /\ r \in running
  /\ running' = running \ {r}
  /\ UNCHANGED <<redis, attached, since, tasks, started, failed, reports>>

(* Mutant: what is not awaited rejects where nobody listens.               *)
HandlerRejectsUnheard(r) ==
  /\ r \in running
  /\ running' = running \ {r}
  /\ failed' = failed \union {r}
  /\ UNCHANGED <<redis, attached, since, tasks, started, reports>>

HandlerRejects(r) ==
  /\ r \in running
  /\ running' = running \ {r}
  /\ failed' = failed \union {r}
  /\ tasks' = Append(tasks, Report(r.listener, r.message))
  /\ UNCHANGED <<redis, attached, since, started, reports>>

(* emitHandlerError, whatever the callback does.                           *)
Reported(l, m) ==
  /\ tasks # <<>> /\ Head(tasks) = Report(l, m)
  /\ reports' = [reports EXCEPT ![l][m] = @ + 1]
  /\ tasks' = Tail(tasks)
  /\ UNCHANGED <<redis, attached, since, started, running, failed>>

-----------------------------------------------------------------------------
Init ==
  /\ sent = <<>> /\ served = {} /\ up = TRUE /\ drops = 0
  /\ wire = <<>> /\ lost = {}
  /\ attached = <<>> /\ since = [l \in Listeners |-> MaxMessages]
  /\ tasks = <<>>
  /\ started = [l \in Listeners |-> <<>>]
  /\ running = {} /\ failed = {}
  /\ reports = [l \in Listeners |-> [m \in 1 .. MaxMessages |-> 0]]

Next ==
  \/ \E ch \in Channels : Publish(ch)
  \/ Drop \/ Reconnect
  \/ \E l \in Listeners : Attach(l) \/ Detach(l)
  \/ \E t \in Targets : Unserve(t)
  \/ \E n \in 1 .. MaxMessages : Receive(n)
  \/ \E l \in Listeners, m \in 1 .. MaxMessages : HandlerStarts(l, m) \/ Reported(l, m)
  \/ \E r \in running : HandlerResolves(r) \/ HandlerRejects(r)

Spec == Init /\ [][Next]_vars

-----------------------------------------------------------------------------
TypeOK ==
  /\ sent \in Seq(Channels) /\ Len(sent) <= MaxMessages
  /\ served \subseteq Targets
  /\ ToSet(attached) \subseteq Listeners /\ IsInjective(attached)
  /\ \A l \in ToSet(attached) : TargetOf[l] \in served /\ since[l] <= Len(sent)
  /\ \A i \in DOMAIN wire : wire[i].target \in Matches[sent[wire[i].message]]
  /\ \A r \in running \union failed : r.message \in ToSet(started[r.listener])
  /\ running \intersect failed = {}

Coming(l) ==
  {m \in 1 .. Len(sent) :
     Delivery(TargetOf[l], m) \in ToSet(wire) \/ Start(l, m) \in ToSet(tasks)}

(* Each handler is started once for every message that was published since *)
(* its listener was attached and that no lost connection took along, in    *)
(* the order of publication, whatever other handlers do, fail or take and  *)
(* although channel and pattern may both match; and for no other target    *)
(* (pubsub.service.ts:130-145, 171-186).                                   *)
StartedInOrder ==
  TypeOK /\ \A l \in Listeners :
    /\ \A i, j \in DOMAIN started[l] : i < j => started[l][i] < started[l][j]
    /\ \A m \in ToSet(started[l]) : TargetOf[l] \in Matches[sent[m]]
    /\ l \in ToSet(attached) =>
         \A m \in (since[l] + 1) .. Len(sent) :
           TargetOf[l] \in Matches[sent[m]] /\ Delivery(TargetOf[l], m) \notin lost =>
             m \in ToSet(started[l]) \union Coming(l)

(* A handler that fails, at once or later, with a message it cannot read   *)
(* or a good one, is reported, once, and one that does not fail is not     *)
(* (pubsub.service.ts:139-143, 321-332).                                   *)
FailuresReported ==
  \A l \in Listeners, m \in 1 .. Len(sent) :
    reports[l][m] + Cardinality({i \in DOMAIN tasks : tasks[i] = Report(l, m)})
      = IF Runs(l, m) \in failed THEN 1 ELSE 0
=============================================================================
