--------------------------- MODULE PubSubListeners ---------------------------
(* What the callers of subscribe and psubscribe may rely on once their     *)
(* listener is attached: the promises of PubSubDelivery, over names of     *)
(* their own, so that a module can speak of both halves of the service.    *)

CONSTANTS
  Listeners,    \* one for each resolved call of subscribe or psubscribe
  Topics,       \* namespaced channels and patterns
  TopicOf,      \* the channel or pattern of each listener
  Channels,     \* namespaced channels that are published to
  Matches,      \* the topics each channel matches
  MaxMessages,  \* bound on the messages
  MaxDrops,     \* bound on the losses of the connection
  MaxPending    \* bound on the handlers whose promise is pending

VARIABLES
  sent, served, up, drops,             \* the server and the connection,
  arriving, lost,                      \* what it carries and what it lost
  attached, since,                     \* the listeners
  tasks,                               \* the microtasks
  started, running, failed, reports    \* the handlers

Bus == INSTANCE PubSubDelivery
         WITH Targets <- Topics, TargetOf <- TopicOf, wire <- arriving

ASSUME ListenersAssumption == Bus!DeliveryAssumption

BusSpec == Bus!Spec

(* Each handler is started once, in the order of publication, for every    *)
(* message since its listener was attached that no lost connection took    *)
(* along, and for no other target (pubsub.service.ts:130-145, 171-186).    *)
StartedInOrder == Bus!StartedInOrder

(* A handler that fails is reported, once, and one that does not fail is   *)
(* not (pubsub.service.ts:139-143, 321-332).                               *)
FailuresReported == Bus!FailuresReported
==============================================================================
