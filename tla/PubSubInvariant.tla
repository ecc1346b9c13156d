--------------------------- MODULE PubSubInvariant ---------------------------
(* The inductive invariant behind the safety properties of PubSubService,  *)
(* as a conjunction of parts, one per mechanism of the service.            *)
EXTENDS PubSubService

(* A registered entry was created for its target, and its creator joined   *)
(* it first.                                                               *)
MapInv == \A t \in Targets : refs[t] # NoRef =>
  TargetOf[refs[t]] = t /\ ready[refs[t]] # "unused"

CreatorInv == \A r \in Calls :
  /\ ready[r] # "unused" => held[r] = r
  /\ ready[r] = "unused" => reactions[r] = <<>>

(* A call that was not refused joined an entry of its own target.          *)
JoinInv == \A c \in Calls :
  /\ phase[c] \in {"idle", "refused"} => held[c] = NoRef
  /\ phase[c] \notin {"idle", "refused"} =>
       /\ held[c] # NoRef
       /\ ready[held[c]] # "unused"
       /\ TargetOf[held[c]] = TargetOf[c]

(* What a call was told is what became of its entry.                       *)
OutcomeInv == \A c \in Calls :
  /\ phase[c] = "subscribed" => ready[held[c]] = "resolved"
  /\ phase[c] = "failed" => ready[held[c]] = "rejected"

EntryInv == MapInv /\ CreatorInv /\ JoinInv /\ OutcomeInv

CleanupPending(r) == reactions[r] # <<>> /\ Head(reactions[r]) = Cleanup

(* The reactions of an entry: its cleanup first, then each waiting caller  *)
(* once.                                                                   *)
ReactionInv ==
  \A r \in Calls :
    /\ \A i \in DOMAIN reactions[r] : reactions[r][i] = Cleanup => i = 1
    /\ \A i \in DOMAIN reactions[r] : reactions[r][i] # Cleanup =>
         /\ phase[reactions[r][i]] = "waiting"
         /\ held[reactions[r][i]] = r
    /\ \A i, j \in DOMAIN reactions[r] : reactions[r][i] = reactions[r][j] => i = j
    /\ ready[r] = "pending" => CleanupPending(r)

(* What the map holds for a target.                                        *)
RegistrationInv ==
  /\ \A r \in Calls : ready[r] = "pending" => refs[TargetOf[r]] = r
  /\ \A r \in Calls : ready[r] = "rejected" =>
       (refs[TargetOf[r]] = r <=> CleanupPending(r))
  /\ \A c \in Calls : phase[c] = "failed" => ~CleanupPending(held[c])
  /\ RegisteredWhileHeld

CountInv == \A r \in Calls :
  IsFiniteSet(Holders(r)) /\ count[r] = Cardinality(Holders(r))

(* The commands on their way, and what they leave subscribed.              *)
CommandInv ==
  /\ \A i \in DOMAIN queue : queue[i].op # "quit" => queue[i].call \in Calls
  /\ \A i \in DOMAIN queue : queue[i].op = "quit" => queue[i].call = NoRef
  /\ \A i, j \in DOMAIN queue :
       /\ queue[i].op # "quit"
       /\ queue[i].op = queue[j].op
       /\ queue[i].call = queue[j].call
       => i = j
  /\ \A i \in DOMAIN queue : queue[i].op = "subscribe" =>
       ready[queue[i].call] \in {"pending", "rejected"}
  /\ \A i \in DOMAIN queue : queue[i].op = "unsubscribe" =>
       phase[queue[i].call] \in {"leaving", "unreleased"}

WireInv ==
  /\ \A r \in Calls : ready[r] = "pending" => Queued(Command("subscribe", r))
  /\ \A i, j \in DOMAIN queue :
       /\ queue[i].op = "subscribe"
       /\ ready[queue[i].call] = "pending"
       /\ queue[j].op = "unsubscribe"
       /\ TargetOf[queue[i].call] = TargetOf[queue[j].call]
       => j < i
  /\ \A r \in Calls :
       ready[r] = "resolved" /\ refs[TargetOf[r]] = r /\ link # "end" =>
         /\ TargetOf[r] \in recorded
         /\ \A j \in DOMAIN queue : queue[j].op = "unsubscribe" =>
              TargetOf[queue[j].call] # TargetOf[r]

HookInv ==
  /\ shutDown <=> hook # "idle"
  /\ shutDown => ~subscriber
  /\ ~shutDown /\ ~subscriber => link = "none"
  /\ NoSubscriberLeft

IInv ==
  /\ TypeOK
  /\ EntryInv
  /\ ReactionInv
  /\ RegistrationInv
  /\ CountInv
  /\ CommandInv
  /\ WireInv
  /\ ReleasedOnServer
  /\ HookInv
==============================================================================
